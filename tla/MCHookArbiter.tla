--------------------------- MODULE MCHookArbiter ---------------------------
(* Model-checking instances of HookArbiter. *)
EXTENDS HookArbiter

CONSTANTS c1, c2, p1, bash, i1, i2, l1

OneChild == {c1}
TwoChildren == {c1, c2}
OneParent == {p1}
Siblings == [c \in Children |-> p1]
OneName == {bash}
NoIds == {}
OneId == {i1}
TwoIds == {i1, i2}
OneListener == {l1}
Ending == {"request", "explicit", "stop"}
Asking == {"request", "progress", "childstop", "stop"}
=============================================================================
