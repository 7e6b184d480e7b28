----------------------------- MODULE MCUsageLog -----------------------------
(* Small instances of UsageLog. *)
EXTENDS UsageLog, TLC

MCNames == {"a", "b"}
Hours == {1, 3, 4}
=============================================================================
