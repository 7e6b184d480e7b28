----------------------------- MODULE MCPoolUse -----------------------------
(* Small instances of PoolUse. *)
EXTENDS PoolUse, TLC

CONSTANTS o1, o2, o3

MCObjects == {o1, o2, o3}
MCNames == {"a", "b", "c", "d"}
MCModels == {"flash", "pro"}

Config(n, models, rpm, cap) ==
  [name |-> n, enabled |-> TRUE, bound_models |-> models,
   rate_limit_rpm |-> rpm, max_concurrent |-> cap]

Flash == {"flash"}
Both == {"flash", "pro"}

\* A limit of 2, and a ceiling that lets both be used at once.
Limited == <<Config("a", Flash, 2, 2)>>
\* Three accounts of one model, one with room for two requests.
Rotated == <<Config("a", Flash, 3, 1), Config("b", Flash, 3, 2), Config("c", Flash, 3, 1)>>
\* The middle account serves both models.
Mixed   == <<Config("a", Flash, 3, 1), Config("b", Both, 3, 2), Config("c", Flash, 3, 1)>>
Setup(s, f, t, g, a, j) ==
  [strategy |-> s, file |-> f, time |-> t, grants |-> g, admin |-> a, jumps |-> j]

\* random may choose whatever any strategy would: the rate window is checked with it.
MCSetups == {Setup("random", Limited, 2, 3, 1, 0),
             Setup("least-recently-used", Mixed, 2, 2, 0, 0),
             Setup("round-robin", Rotated, 0, 2, 1, 1)}

\* The account an administrator adds.
MCSpare == Config("d", Flash, 1, 1)

Symmetric == Permutations(MCObjects)
=============================================================================
