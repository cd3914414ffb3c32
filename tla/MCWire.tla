------------------------------- MODULE MCWire -------------------------------
(* Small instances of Wire for TLC. *)
EXTENDS Wire, TLC

\* What a separator can meet in a name: nothing, an ordinary character, any
\* other separator, an escape, and the end of the name.
TrickyNames ==
  SeqOf(Special, 1) \cup
    {<<Backslash, Backslash>>, <<Backslash, Bar>>, <<Comma, Backslash>>, <<Backslash, "a">>, <<"a", "CR">>}

Letters == Special \cup DOMAIN Shapes \cup {"LEDGER", "SPENT", "a", "CR"}

NodeIds == {<<Bar>>}
=============================================================================
