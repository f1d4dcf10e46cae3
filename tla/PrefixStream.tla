---------------------------- MODULE PrefixStream ----------------------------
(***************************************************************************)
(* What the terminals of a session promise: the session produces a growing *)
(* stream of outputs, and every screen shows a prefix of it, extended by   *)
(* the next output, one at a time.  A screen may be cleared, and an empty  *)
(* one restored to some prefix by a snapshot; nothing else changes it.     *)
(***************************************************************************)
EXTENDS Integers

CONSTANT Clients

VARIABLES stream,   \* the outputs produced, as ascending numbers
          screen    \* the outputs each client shows

vars == <<stream, screen>>

Prefix(S) == S \subseteq stream /\ \A n \in stream : (\E m \in S : n <= m) => n \in S

Init == stream = {} /\ screen = [c \in Clients |-> {}]

Produce ==
    /\ stream \subseteq stream'
    /\ \A n \in stream' \ stream : \A m \in stream : m < n
    /\ UNCHANGED screen

Extend(c) ==
    /\ \E n \in stream \ screen[c] :
          /\ Prefix(screen[c] \cup {n})
          /\ screen' = [screen EXCEPT ![c] = @ \cup {n}]
    /\ UNCHANGED stream

Clear(c) ==
    /\ screen' = [screen EXCEPT ![c] = {}]
    /\ UNCHANGED stream

Restore(c) ==
    /\ screen[c] = {}
    /\ \E n \in stream : screen' = [screen EXCEPT ![c] = {m \in stream : m <= n}]
    /\ UNCHANGED stream

Next == Produce \/ \E c \in Clients : Extend(c) \/ Clear(c) \/ Restore(c)

Spec == Init /\ [][Next]_vars
=============================================================================
