---------------------------- MODULE MCChatServer ----------------------------
(* Small instances of ChatServer. *)
EXTENDS ChatServer, TLC

CONSTANTS o1, o2, o3, r1, r2, r3, r4

MCObjects == {o1, o2, o3}
MCObjects2 == {o1, o2}
MCRequests2 == {r1, r2}
MCRequests4 == {r1, r2, r3, r4}

MCNames == {"a", "b"}
MCModels == {"flash", "ghost"}   \* ghost has no profile
MCProfiles == {"flash"}

Config(n, cap) ==
  [name |-> n, enabled |-> TRUE, bound_models |-> {"flash"},
   rate_limit_rpm |-> 60, max_concurrent |-> cap]

WideAccount == <<Config("b", 2)>>
OneAccount  == <<Config("a", 1)>>
TwoAccounts == <<Config("a", 1), Config("b", 2)>>

MCReloads == {TwoAccounts, OneAccount, <<>>}
MCWide == {WideAccount}
MCSingle == {OneAccount}

MCNewAccounts == {[Config("b", 2) EXCEPT !.rate_limit_rpm = 1]}
NoPatch == [enabled |-> {}, bound_models |-> {}, rate_limit_rpm |-> {}, max_concurrent |-> {}]
MCPatches == {[NoPatch EXCEPT !.enabled = {FALSE}, !.bound_models = {{"flash", "ghost"}}],
              [NoPatch EXCEPT !.max_concurrent = {1}]}

Kind(s, i, m) == [stream |-> s, image |-> i, model |-> m]
AllKinds == {Kind(FALSE, FALSE, "flash"), Kind(FALSE, TRUE, "flash"),
             Kind(TRUE, FALSE, "flash"), Kind(FALSE, FALSE, "ghost")}

BlockingText == {Kind(FALSE, FALSE, "flash")}

TwoOutcomes == {"ok", "unrenderable"}
Renderable == AllOutcomes \ {"unrenderable"}
Nothing == {}

Symmetric2 == Permutations(MCObjects) \cup Permutations(MCRequests2)
=============================================================================
