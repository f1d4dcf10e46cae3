-------------------------- MODULE MCOutputDelivery --------------------------
(* Model-checking instances of OutputDelivery: the configurations beside this
   file differ in who is connected, who uploads snapshots and what is bounded. *)
EXTENDS OutputDelivery, TLC

CONSTANTS desktop, web

OneClient == {desktop}
TwoClients == {desktop, web}
=============================================================================
