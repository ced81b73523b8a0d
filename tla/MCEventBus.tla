----------------------------- MODULE MCEventBus -----------------------------
(* Small instances of EventBus for TLC. *)
EXTENDS EventBus, TLC

CONSTANTS a, b, k1, k2

\* k1 is emitted by one goroutine, k2 by both.
MixedOwners == (k1 :> {a}) @@ (k2 :> {a, b})

\* One goroutine, one key.
OneOwner == k1 :> {a}
=============================================================================
