-------------------------------- MODULE Wire --------------------------------
(***************************************************************************)
(* Names as text: the messages of the wire protocol (wire.rs) and the      *)
(* lines of a state file (persistence.rs), character by character, because *)
(* what they promise is about the characters that separate: whatever is in *)
(* a name, the other side reads the name.                                  *)
(*                                                                         *)
(* A text is a sequence of characters; the tag at the start of a line is   *)
(* one character here.  The state machine is a connection that carries one *)
(* message; its writer may be killed, or the connection reset, before the  *)
(* whole line is out.                                                      *)
(***************************************************************************)
EXTENDS Naturals, Sequences, FiniteSets, SequencesExt

CONSTANTS
  Characters,  \* what texts are made of, tags included, without the line feed
  Ids,         \* names of nodes
  Names,       \* names of bearers
  MaxList,     \* the number of bearers in a list
  Faults       \* "cut": a line may end early

VARIABLES
  msg,     \* the message to be sent
  text,    \* what is in the connection
  closed,  \* no more will come
  got      \* what the reader makes of it

vars == <<msg, text, closed, got>>

-----------------------------------------------------------------------------
(* Escaping *)

Backslash == "backslash"
Bar       == "bar"
Comma     == "comma"

Special == {Backslash, Bar, Comma}

\* c with a backslash in front of it, everywhere.
Replace(s, c) ==
  FlattenSeq([i \in DOMAIN s |-> IF s[i] = c THEN <<Backslash, c>> ELSE <<s[i]>>])

\* Faulty variant: the backslashes of the other two are escaped again.
EscapeBackslashLast(s) == Replace(Replace(Replace(s, Bar), Comma), Backslash)

Escape(s) == Replace(Replace(Replace(s, Backslash), Bar), Comma)

Text == Seq(Characters)

\* Where a loop over the characters of s ends that starts at a; step[c] is
\* what it does at c.
Scan(step, a, s) == FoldLeft(LAMBDA x, c : step[c][x], a, s)

\* A backslash in front of another character, or at the end, stays.
UnescapeStep ==
  [c \in Characters |-> [a \in [out : Text, esc : BOOLEAN] |->
     IF a.esc
       THEN [out |-> Append(IF c \in Special THEN a.out ELSE Append(a.out, Backslash),
                            c),
             esc |-> FALSE]
       ELSE IF c = Backslash THEN [out |-> a.out, esc |-> TRUE]
                             ELSE [out |-> Append(a.out, c), esc |-> FALSE]]]

Unescape(s) ==
  LET end == Scan(UnescapeStep, [out |-> <<>>, esc |-> FALSE], s)
  IN  IF end.esc THEN Append(end.out, Backslash) ELSE end.out

\* The parts of s between separators that are not escaped, still escaped.
SplitStep(sep) ==
  [c \in Characters |-> [a \in [done : Seq(Text), cur : Text, esc : BOOLEAN] |->
     IF ~a.esc /\ c = sep
       THEN [done |-> Append(a.done, a.cur), cur |-> <<>>, esc |-> FALSE]
       ELSE [done |-> a.done, cur |-> Append(a.cur, c),
             esc |-> ~a.esc /\ c = Backslash]]]

Split(s, sep) ==
  LET end == Scan(SplitStep(sep), [done |-> <<>>, cur |-> <<>>, esc |-> FALSE], s)
  IN  Append(end.done, end.cur)

Join(parts, sep) ==
  FlattenSeq([i \in DOMAIN parts |->
                IF i = 1 THEN parts[1] ELSE <<sep>> \o parts[i]])

EncodeList(items) == Join([i \in DOMAIN items |-> Escape(items[i])], Comma)

DecodeList(s) ==
  IF s = <<>>
    THEN <<>>
    ELSE LET parts == Split(s, Comma)
         IN  [i \in DOMAIN parts |-> Unescape(parts[i])]

-----------------------------------------------------------------------------
(* Messages *)

\* The fields of each message, by the enum it is a variant of.
PeerMessage ==
  [LINK_UP_HELLO |-> <<"id", "list", "list">>,
   LINK_UP_ACK |-> <<"id", "list", "list">>,
   LINK_DOWN |-> <<"id">>,
   PROPAGATE_REQUEST |-> <<"id">>,
   PROPAGATE_REPLY |-> <<"id", "list">>,
   SPENT_NOTIFY |-> <<"id", "name">>,
   STATUS_REQUEST |-> <<"id">>,
   STATUS_REPLY |-> <<"id", "list", "list">>]

AdminMessage ==
  [ADMIN_LINK_UP |-> <<"id">>,
   ADMIN_LINK_DOWN |-> <<"id">>,
   ADMIN_PROPAGATE |-> <<"id">>,
   ADMIN_SPEND_AT |-> <<"name">>,
   ADMIN_STATUS |-> <<>>,
   ADMIN_SEED |-> <<"name">>,
   ADMIN_CONVERSION_DAY |-> <<>>]

AdminReply ==
  [REPLY_OK |-> <<>>,
   REPLY_ERROR |-> <<"name">>,
   REPLY_STATUS |-> <<"id", "list", "list", "ids">>]

Enums == {PeerMessage, AdminMessage, AdminReply}

\* The enum of a tag: its decoder is the one that reads the message.
Reader(tag) == CHOOSE shapes \in Enums : tag \in DOMAIN shapes

Shapes == [tag \in UNION {DOMAIN shapes : shapes \in Enums} |-> Reader(tag)[tag]]

\* Any names, as long as no line feed is in them: it cannot come over the wire.
ASSUME NamesAssumption ==
  /\ Special \cup DOMAIN Shapes \subseteq Characters
  /\ "LF" \notin Characters
  /\ Ids \subseteq Text
  /\ Names \subseteq Text

IsList(kind) == kind \in {"list", "ids"}

\* A list is a set of names, sorted.
Lists(S, max) ==
  {SetToSeq(T) : T \in {U \in SUBSET S : IsFiniteSet(U) /\ Cardinality(U) <= max}}

Values(kind) ==
  CASE kind = "id"   -> Ids
    [] kind = "name" -> Names
    [] kind = "list" -> Lists(Names, MaxList)
    [] kind = "ids"  -> Lists(Ids, MaxList)

\* The messages of a tag.
MessagesOf(tag) ==
  LET kinds == Shapes[tag]
      first[i \in 0..Len(kinds)] ==
        IF i = 0 THEN {<<>>}
                 ELSE {Append(f, v) : f \in first[i - 1], v \in Values(kinds[i])}
  IN  [tag : {tag}, fields : first[Len(kinds)]]

Encode(m) ==
  LET kinds == Shapes[m.tag]
  IN  Join(<< <<m.tag>> >> \o
             [i \in DOMAIN kinds |-> IF IsList(kinds[i])
                                       THEN EncodeList(m.fields[i])
                                       ELSE Escape(m.fields[i])], Bar)

Error == [tag |-> "error", fields |-> <<>>]

\* Faulty variant: fields that are missing are empty.
DecodeLenient(shapes, line) ==
  LET parts == Split(line, Bar)
      tag == parts[1]
      Part(i) == IF i <= Len(parts) THEN parts[i] ELSE <<>>
  IN  IF tag # <<>> /\ tag[1] \in DOMAIN shapes
        THEN [tag |-> tag[1],
              fields |-> [i \in DOMAIN shapes[tag[1]] |->
                            IF IsList(shapes[tag[1]][i])
                              THEN DecodeList(Part(i + 1))
                              ELSE Unescape(Part(i + 1))]]
        ELSE Error

\* The decoder of the enum with these shapes, on a line without its end.
Decode(shapes, line) ==
  LET parts == Split(line, Bar)
      tag == parts[1]
  IN  IF /\ Len(tag) = 1
         /\ tag[1] \in DOMAIN shapes
         /\ Len(parts) = 1 + Len(shapes[tag[1]])
        THEN [tag |-> tag[1],
              fields |-> [i \in DOMAIN shapes[tag[1]] |->
                            IF IsList(shapes[tag[1]][i])
                              THEN DecodeList(parts[i + 1])
                              ELSE Unescape(parts[i + 1])]]
        ELSE Error

-----------------------------------------------------------------------------
(* A state file *)

\* One line of it, and the name that is read back: the line ends at a line
\* feed and loses a carriage return in front of it, and the name is what
\* follows the first bar.
StateLine(tag, name) == <<tag, Bar>> \o name \o <<"LF">>

Find(s, c) == SelectInSeq(s, LAMBDA x : x = c)

WithoutEnd(line) ==
  LET rest == SubSeq(line, 1, Find(line, "LF") - 1)
  IN  IF rest # <<>> /\ Last(rest) = "CR" THEN Front(rest) ELSE rest

\* Faulty variant: the name ends at the next bar.
ReadLineSplit(line) ==
  LET parts == Split(WithoutEnd(line), Bar)
  IN  [tag |-> parts[1][1], name |-> parts[2]]

ReadLine(line) ==
  LET rest == WithoutEnd(line)
      bar == Find(rest, Bar)
  IN  [tag |-> rest[1], name |-> SubSeq(rest, bar + 1, Len(rest))]

-----------------------------------------------------------------------------
(* A connection *)

Nothing == [tag |-> "nothing", fields |-> <<>>]

Init ==
  /\ msg \in UNION {MessagesOf(tag) : tag \in DOMAIN Shapes}
  /\ text = <<>>
  /\ closed = FALSE
  /\ got = Nothing

\* write_line: the text, then the line feed.
WriteLine ==
  /\ text = <<>> /\ ~closed
  /\ text' = Append(Encode(msg), "LF")
  /\ closed' = TRUE
  /\ UNCHANGED <<msg, got>>

\* The writer is killed, or the connection is reset, in the middle of it.
CutLine ==
  /\ "cut" \in Faults
  /\ text = <<>> /\ ~closed
  /\ \E k \in 0..Len(Encode(msg)) : text' = SubSeq(Encode(msg), 1, k)
  /\ closed' = TRUE
  /\ UNCHANGED <<msg, got>>

\* read_one_line ends at a line feed or at the end of the stream.  An empty
\* line is dropped.
Receive ==
  /\ closed /\ got = Nothing
  /\ LET line == IF text # <<>> /\ Last(text) = "LF" THEN Front(text) ELSE text
     IN  got' = IF line = <<>> THEN Error ELSE Decode(Reader(msg.tag), line)
  /\ UNCHANGED <<msg, text, closed>>

Next == WriteLine \/ CutLine \/ Receive

Spec == Init /\ [][Next]_vars

-----------------------------------------------------------------------------
(* Properties *)

\* The list of one empty name is written as the empty list is.
Carried(m) ==
  [m EXCEPT !.fields = [i \in DOMAIN m.fields |->
     IF IsList(Shapes[m.tag][i]) /\ m.fields[i] = << <<>> >>
       THEN <<>> ELSE m.fields[i]]]

\* Whoever reads a line gets the message that was written, whatever is in its
\* names, or nothing: messages are "single-line, pipe-delimited text,
\* newline-terminated" (wire.rs).
ReceivedAsSent == got \in {Nothing, Error, Carried(msg)}

Whole == text # <<>> /\ Last(text) = "LF"

\* A line that arrives whole is read as the message that was written, whatever
\* is in its names; only the list of one empty name arrives as the empty list.
WholeLineIsRead == Whole => got \in {Nothing, Carried(msg)}

\* Where a line ends early it is refused, or only its last field is another:
\* the sender and the ledger of a message with both are right.
OnlyLastFieldIsCut ==
  got \notin {Nothing, Error} =>
    /\ got.tag = msg.tag
    /\ \A i \in 1..Len(msg.fields) - 1 : got.fields[i] = Carried(msg).fields[i]

\* A bearer an administrator names is, after the next save and restart, the
\* bearer that was named, except for a carriage return at its end.
NameSurvivesRestart ==
  Whole /\ got.tag \in {"ADMIN_SEED", "ADMIN_SPEND_AT"} =>
    LET name == msg.fields[1]
        tag == IF got.tag = "ADMIN_SEED" THEN "LEDGER" ELSE "SPENT"
    IN  ReadLine(StateLine(tag, got.fields[1])) =
          [tag |-> tag,
           name |-> IF name # <<>> /\ Last(name) = "CR"
                      THEN Front(name) ELSE name]
=============================================================================
