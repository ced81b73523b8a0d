------------------------------- MODULE Expiry -------------------------------
(***************************************************************************)
(* Entries of the processing state that expire                             *)
(* (internal/hub/processing_state.go): an entry is there while its expiry  *)
(* is after the clock, whether or not the sweeper has come by.             *)
(***************************************************************************)
EXTENDS Integers

VARIABLE now  \* the clock

Alive(entry) == entry.expires > now

Until(ttl) == now + ttl

(* What a reader or the sweeper leaves of an entry.                        *)
Kept(entry, absent) == IF Alive(entry) THEN entry ELSE absent
=============================================================================
