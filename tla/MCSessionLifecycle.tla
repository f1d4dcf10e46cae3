------------------------ MODULE MCSessionLifecycle -------------------------
(* Model-checking instances of SessionLifecycle. *)
EXTENDS SessionLifecycle

CONSTANTS app, web, s1, s2

OnlyApp == {app}
BothViews == {app, web}
OneSession == {s1}
TwoSessions == {s1, s2}
=============================================================================
