----------------------------- MODULE MqttClient -----------------------------
(***************************************************************************)
(* The hub's MQTT client (internal/mqtt/client.go): the subscriptions and  *)
(* connect listeners it remembers, and what it does with them when the     *)
(* broker connection comes and goes.  The client of the paho library and   *)
(* the broker are external: they lose the connection and restore it, and   *)
(* call OnConnect on a goroutine of their own afterwards.                  *)
(*                                                                         *)
(* A registration is written down first and carried out afterwards when    *)
(* the connection is up; OnConnect walks what is written down.  The two    *)
(* run concurrently, at start-up and at every reconnect.                   *)
(***************************************************************************)
EXTENDS Naturals, Sequences

CONSTANTS
    Registrations,  \* the registrations made at start-up, in order
    Listeners,      \* those of them that are connect listeners, not filters
    MaxLosses       \* bound: connections lost in a behaviour

ASSUME RegistrationsAssumption ==
    /\ Registrations \in Seq({Registrations[i] : i \in DOMAIN Registrations})
    /\ Registrations # <<>>
    /\ \A i, j \in DOMAIN Registrations :
           Registrations[i] = Registrations[j] => i = j
    /\ Listeners \subseteq {Registrations[i] : i \in DOMAIN Registrations}
    /\ MaxLosses \in Nat

VARIABLES
    link,       \* "up" or "down": the broker connection
    onConnect,  \* OnConnect of the latest connection: "due", "ran"
    losses,     \* connections lost so far
    start,      \* <<i, s>>: registration i of start-up, at step s
    known,      \* subscriptions and onConnect of the client
    carried,    \* filters the broker serves, listeners that have run
    refused     \* filters the broker did not confirm

mqttVars == <<link, onConnect, losses, start, known, carried, refused>>

Items == {Registrations[i] : i \in DOMAIN Registrations}

(* NewClient returns with the connection up; OnConnect of that connection  *)
(* may not have run yet.                                                   *)
NewClient ==
    /\ link = "up"
    /\ onConnect = "due"
    /\ losses = 0
    /\ start = <<1, "record">>
    /\ known = {}
    /\ carried = {}
    /\ refused = {}

Started == start[2] = "up"

After(i) == IF i = Len(Registrations) THEN <<i, "up">> ELSE <<i + 1, "record">>

(* Remembered only when there is no connection to carry it out on.         *)
RecordWhenDown ==
    /\ start[2] = "record"
    /\ known' = IF link = "down" THEN known \cup {Registrations[start[1]]} ELSE known
    /\ start' = <<start[1], "carry">>
    /\ UNCHANGED <<link, onConnect, losses, carried, refused>>

(* The first half of Subscribe and of AddOnConnectListener: append under   *)
(* the lock.                                                               *)
Record ==
    /\ start[2] = "record"
    /\ known' = known \cup {Registrations[start[1]]}
    /\ start' = <<start[1], "carry">>
    /\ UNCHANGED <<link, onConnect, losses, carried, refused>>

(* The second half: carry it out now when connected.  While the library is *)
(* reconnecting its IsConnected may say either; a subscription then waits  *)
(* for its token and fails, and start-up with it.                          *)
Carry ==
    /\ start[2] = "carry"
    /\ LET item == Registrations[start[1]]
       IN  \/ /\ link = "up"
              /\ carried' = carried \cup {item}
              /\ start' = After(start[1])
           \/ /\ link = "down"
              /\ start' = After(start[1])
              /\ UNCHANGED carried
           \/ /\ item \notin Listeners
              /\ start' = <<start[1], "failed">>
              /\ UNCHANGED carried
    /\ UNCHANGED <<link, onConnect, losses, known, refused>>

(* OnConnect: resubscribe every filter written down, logging those the     *)
(* broker does not confirm, then runOnConnectHooks.                        *)
OnConnect ==
    /\ link = "up"
    /\ onConnect = "due"
    /\ onConnect' = "ran"
    /\ \E no \in SUBSET (known \ Listeners) :
           /\ carried' = carried \cup (known \ no)
           /\ refused' = (refused \ known) \cup no
    /\ UNCHANGED <<link, losses, start, known>>

ConnectionLost ==
    /\ link = "up"
    /\ losses < MaxLosses
    /\ link' = "down"
    /\ losses' = losses + 1
    /\ UNCHANGED <<onConnect, start, known, carried, refused>>

Reconnect ==
    /\ link = "down"
    /\ link' = "up"
    /\ onConnect' = "due"
    /\ UNCHANGED <<losses, start, known, carried, refused>>

(* Once start-up is over, the connection is up and OnConnect has run,      *)
(* every subscription and listener has been carried out, unless the broker *)
(* itself refused it: Subscribe and AddOnConnectListener may skip the work *)
(* while the connection is down, and OnConnect may miss a registration not *)
(* yet written down, but never both.                                       *)
RegistrationsCarried ==
    Started /\ link = "up" /\ onConnect = "ran" => Items \subseteq carried \cup refused
=============================================================================
