------------------------------ MODULE WsDelivery ----------------------------
(***************************************************************************)
(* What a WebSocket subscriber can rely on, whatever happens to the        *)
(* buffers between the event bus and the socket: events may be missing,    *)
(* but none is delivered twice to a subscription, events of the discrete   *)
(* topics arrive in the order in which they were emitted, and each one     *)
(* arrives in a batch that keeps that order.                               *)
(***************************************************************************)
EXTENDS Integers, Sequences

CONSTANTS
  Ids,          \* subscription identifiers
  MaxEvents     \* bound on the events emitted

VARIABLES
  emitted,      \* how many events were emitted; an event is its number
  discrete,     \* the subscriptions of topics that are not coalesced
  got           \* got[s]: the events delivered to subscription s

vars == <<emitted, discrete, got>>

Init ==
  /\ emitted = 0
  /\ discrete = {}
  /\ got = [s \in Ids |-> <<>>]

EmitEvent ==
  /\ emitted < MaxEvents
  /\ emitted' = emitted + 1
  /\ UNCHANGED <<discrete, got>>

\* A subscription is made before anything was delivered to it.
Subscribe(s) ==
  /\ got[s] = <<>>
  /\ discrete' = discrete \cup {s}
  /\ UNCHANGED <<emitted, got>>

Increasing(b) == \A i, j \in 1..Len(b) : i < j => b[i] < b[j]

Fresh(s, b) ==
  \A i \in 1..Len(b), j \in 1..Len(got[s]) :
    IF s \in discrete THEN got[s][j] < b[i] ELSE got[s][j] # b[i]

Deliver(s, b) ==
  /\ b # <<>> /\ (\A i \in 1..Len(b) : b[i] \in 1..emitted)
  /\ Increasing(b) /\ Fresh(s, b)
  /\ got' = [got EXCEPT ![s] = @ \o b]
  /\ UNCHANGED <<emitted, discrete>>

Next ==
  \/ EmitEvent
  \/ \E s \in Ids : Subscribe(s)
  \/ \E s \in Ids : \E b \in UNION {[1..n -> 1..emitted] : n \in 1..emitted} : Deliver(s, b)

Spec == Init /\ [][Next]_vars
=============================================================================
