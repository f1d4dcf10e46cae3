------------------------- MODULE MCRouteForwarding -------------------------
(* Model-checking instances of RouteForwarding. *)
EXTENDS RouteForwarding, TLC

CONSTANTS plain, stream, key1, key2

BothKinds == {plain, stream}
OneStream == {stream}
TwoKeys == {key1, key2}
OneKey == {key1}
=============================================================================
