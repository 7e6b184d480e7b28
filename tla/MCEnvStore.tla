----------------------------- MODULE MCEnvStore -----------------------------
(* Small instances of EnvStore. *)
EXTENDS EnvStore, TLC

One == <<"a">>
Two == <<"a", "b-1">>
NoNames == {}
OddName == {"b-1"}
OneModel == {"flash"}
NoSettings == {}
MCOddSettings == {"MODEL_FAMILY_gemini-3.5-flash"}
MCComments == {"# comment"}

\* By hand: a block with a model, one that says only that it is disabled, and
\* one with the UUID of a HAR file.
Bound    == [enabled |-> {}, models |-> {{"flash"}}, uuid |-> FALSE]
Disabled == [enabled |-> {FALSE}, models |-> {}, uuid |-> FALSE]
WithUuid == [enabled |-> {TRUE}, models |-> {{"flash"}}, uuid |-> TRUE]
WithHar  == {Disabled, WithUuid}
JustBound == {Bound}
=============================================================================
