---------------------------- MODULE MCHookRelay ----------------------------
(* Model-checking instances of HookRelay. *)
EXTENDS HookRelay

CONSTANTS app1, app2, view, t1, t2

TwoApps == {app1, app2}
AppAndView == {app1, view}
OneApp == {app1}
TwoThreads == {t1, t2}
OneThread == {t1}
=============================================================================
