------------------------------ MODULE MCAccess ------------------------------
(* Small instances of Access. *)
EXTENDS Access

CONSTANTS k1, k2, u1

MCKeys  == {k1, k2, u1}
MCAscii == {k1, k2}

MCValues == {<<Off>>, <<k1>>, <<k2, Off, k1>>, <<u1, k2>>}

Bare == [v \in Variables |-> None]
MCShells == {Bare, [Bare EXCEPT !["API_KEYS"] = <<k2, Off, k1>>], [Bare EXCEPT !["ADMIN_KEYS"] = <<k1>>]}
SingleKeys == {"API_KEY", "ADMIN_KEY"}
=============================================================================
