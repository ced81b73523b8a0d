-------------------------- MODULE LifecycleProofs --------------------------
(***************************************************************************)
(* Proofs about Lifecycle and about HubMeta, the row its processes share,  *)
(* for every set of processes, configurations, requests and event kinds,   *)
(* and every bound on starts and events.                                   *)
(***************************************************************************)
EXTENDS Lifecycle, TLAPS, SequenceTheorems

USE HubMetaAssumption

(* Processes start, take the steps of Resolve and end, in any order.       *)
MetaNext ==
    \E p \in Processes :
        \/ \E cfg \in MetaConfigs : Resolve(p, cfg)
        \/ ResolveStep(p)
        \/ Forget(p)

MetaSpec == InitMeta /\ [][MetaNext]_metaVars

Rows == [id : Nat, label : Nat]

MetaTypes ==
    /\ row \in Rows
    /\ generated \in Nat
    /\ resets \in Nat
    /\ meta \in [Processes -> [pc : {"off", "get", "create", "update", "resolved", "failed"},
                               cfg : MetaConfigs, seen : Rows]]
    /\ identities \subseteq Nat \X Rows

(* A row once written has a label; what was read to be overwritten was     *)
(* such a row.                                                             *)
Written ==
    /\ row = NoRow \/ row.label # 0
    /\ \A p \in Processes : meta[p].pc = "update" => meta[p].seen.label # 0

(* Identities stem from the row that was there at their overwrite, the     *)
(* current row for those since the last one.                               *)
FromTheRow ==
    /\ row = NoRow => identities = {}
    /\ \A x \in identities : x[1] <= resets /\ (x[1] = resets => x[2] = row)

MetaInv == MetaTypes /\ Written /\ FromTheRow /\ OneIdentity /\ ConfiguredIdentity

-----------------------------------------------------------------------------
\* The initial state satisfies the inductive invariant.
LEMMA MetaInitially == InitMeta => MetaInv
<1> SUFFICES ASSUME InitMeta PROVE MetaInv
  OBVIOUS
<1>1. NoMeta \in [pc : {"off", "get", "create", "update", "resolved", "failed"},
                 cfg : MetaConfigs, seen : Rows]
  BY DEF NoMeta, NoMetaConfig, MetaConfigs, Rows, NoRow
<1>2. MetaTypes
  BY <1>1 DEF MetaTypes, InitMeta, Rows, NoRow
<1>3. Written /\ FromTheRow /\ OneIdentity /\ ConfiguredIdentity
  BY DEF InitMeta, Written, FromTheRow, OneIdentity, ConfiguredIdentity, NoMeta
<1> QED
  BY <1>2, <1>3 DEF MetaInv

\* A process with a new record, everything else as it was: enough for the
\* steps that only move a process on.
LEMMA MetaMove ==
  ASSUME MetaInv, NEW p \in Processes,
         NEW m \in [pc : {"off", "get", "create", "update", "resolved", "failed"},
                    cfg : MetaConfigs, seen : Rows],
         m.pc = "update" => m.seen.label # 0,
         m.pc = "resolved" => Carries(m.seen, m.cfg),
         meta' = [meta EXCEPT ![p] = m],
         UNCHANGED <<row, generated, resets, identities>>
  PROVE  MetaInv'
<1>1. MetaTypes'
  BY DEF MetaInv, MetaTypes
<1>2. \A q \in Processes : meta'[q] = IF q = p THEN m ELSE meta[q]
  BY DEF MetaInv, MetaTypes
<1>3. Written'
  BY <1>2 DEF MetaInv, Written
<1>4. FromTheRow' /\ OneIdentity'
  BY DEF MetaInv, FromTheRow, OneIdentity
<1>5. ConfiguredIdentity'
  BY <1>2, Zenon DEF MetaInv, ConfiguredIdentity
<1> QED
  BY <1>1, <1>3, <1>4, <1>5 DEF MetaInv

\* A process that gets the row, as it is or as it becomes, for its identity.
LEMMA MetaResolved ==
  ASSUME MetaInv, NEW p \in Processes, NEW r \in Rows, NEW n \in Nat,
         r.label # 0, Carries(r, meta[p].cfg),
         row' = r, resets' = n, generated' \in Nat,
         \/ n = resets /\ (row = NoRow \/ row = r)
         \/ n = resets + 1,
         Resolved(p, r, n)
  PROVE  MetaInv'
<1>1. PICK m : m = [meta[p] EXCEPT !.pc = "resolved", !.seen = r]
  OBVIOUS
<1>2. /\ m \in [pc : {"off", "get", "create", "update", "resolved", "failed"},
                 cfg : MetaConfigs, seen : Rows]
      /\ m.pc = "resolved" /\ m.seen = r /\ m.cfg = meta[p].cfg
  BY <1>1, Zenon DEF MetaInv, MetaTypes
<1>3. meta' = [meta EXCEPT ![p] = m]
  BY <1>1 DEF Resolved
<1>4. \A q \in Processes : meta'[q] = IF q = p THEN m ELSE meta[q]
  BY <1>3 DEF MetaInv, MetaTypes
<1>5. identities' = identities \cup {<<n, r>>}
  BY DEF Resolved
<1>6. MetaTypes'
  BY <1>2, <1>3, <1>5 DEF MetaInv, MetaTypes
<1>7. Written'
  BY <1>2, <1>4 DEF MetaInv, Written
<1>8. r # NoRow
  BY DEF NoRow
<1>9. \A x \in identities : x[1] \in Nat /\ x[1] <= resets /\ (x[1] = resets => x[2] = row)
  BY DEF MetaInv, MetaTypes, FromTheRow
<1>10. resets \in Nat
  BY DEF MetaInv, MetaTypes
<1>11. ASSUME NEW x \in identities PROVE x[1] <= n /\ (x[1] = n => x[2] = r)
  <2>1. CASE n = resets + 1
    BY <1>9, <1>10, <2>1
  <2>2. CASE n = resets /\ row = r
    BY <1>9, <2>2
  <2>3. CASE row = NoRow
    BY <2>3 DEF MetaInv, FromTheRow
  <2> QED
    BY <2>1, <2>2, <2>3
<1>12. FromTheRow'
  BY <1>5, <1>8, <1>11 DEF FromTheRow
<1>13. OneIdentity'
  <2> SUFFICES ASSUME NEW x \in identities', NEW y \in identities', x[1] = y[1]
               PROVE  x[2] = y[2]
    BY DEF OneIdentity
  <2>1. CASE x \in identities /\ y \in identities
    BY <2>1 DEF MetaInv, OneIdentity
  <2>2. CASE x = <<n, r>> \/ y = <<n, r>>
    BY <1>5, <1>11, <2>2
  <2> QED
    BY <1>5, <2>1, <2>2
<1>14. ConfiguredIdentity'
  BY <1>2, <1>4, Zenon DEF MetaInv, ConfiguredIdentity
<1> QED
  BY <1>6, <1>7, <1>12, <1>13, <1>14 DEF MetaInv

\* A process that has written the row and does not get to know it.
LEMMA MetaUnanswered ==
  ASSUME MetaInv, NEW p \in Processes, NEW r \in Rows, NEW n \in Nat,
         r.label # 0, row' = r, resets' = n, generated' \in Nat,
         \/ n = resets /\ row = NoRow
         \/ n = resets + 1,
         Failed(p)
  PROVE  MetaInv'
<1> DEFINE m == [meta[p] EXCEPT !.pc = "failed"]
<1>1. m \in [pc : {"off", "get", "create", "update", "resolved", "failed"},
             cfg : MetaConfigs, seen : Rows] /\ m.pc = "failed"
  BY Zenon DEF MetaInv, MetaTypes
<1>2. meta' = [meta EXCEPT ![p] = m] /\ UNCHANGED identities
  BY DEF Failed
<1> HIDE DEF m
<1>3. \A q \in Processes : meta'[q] = IF q = p THEN m ELSE meta[q]
  BY <1>2 DEF MetaInv, MetaTypes
<1>4. MetaTypes'
  BY <1>1, <1>2 DEF MetaInv, MetaTypes
<1>5. Written' /\ ConfiguredIdentity'
  <2>1. Written'
    BY <1>1, <1>3 DEF MetaInv, Written
  <2>2. ConfiguredIdentity'
    BY <1>1, <1>3, Zenon DEF MetaInv, ConfiguredIdentity
  <2> QED
    BY <2>1, <2>2
<1>6. r # NoRow
  BY DEF NoRow
<1>7. \A x \in identities : x[1] \in Nat /\ x[1] <= resets
  BY DEF MetaInv, MetaTypes, FromTheRow
<1>8. resets \in Nat
  BY DEF MetaInv, MetaTypes
<1>9. ASSUME NEW x \in identities PROVE x[1] <= n /\ x[1] # n
  <2>1. CASE n = resets + 1
    BY <1>7, <1>8, <2>1
  <2>2. CASE row = NoRow
    BY <2>2 DEF MetaInv, FromTheRow
  <2> QED
    BY <2>1, <2>2
<1>10. FromTheRow' /\ OneIdentity'
  BY <1>2, <1>6, <1>9 DEF MetaInv, FromTheRow, OneIdentity
<1> QED
  BY <1>4, <1>5, <1>10 DEF MetaInv

\* Every step of a process that reads, creates or overwrites the row, or
\* fails to, preserves the inductive invariant.
LEMMA MetaResolveStep ==
  ASSUME MetaInv, NEW p \in Processes, ResolveStep(p)
  PROVE  MetaInv'
<1>1. /\ row \in Rows /\ generated \in Nat /\ resets \in Nat
      /\ meta[p] \in [pc : {"off", "get", "create", "update", "resolved", "failed"},
                      cfg : MetaConfigs, seen : Rows]
  BY DEF MetaInv, MetaTypes
<1>2. CASE GetHubMetadata(p)
  <2> DEFINE fits == \/ Unconfigured(meta[p].cfg)
                     \/ ~meta[p].cfg.reset /\ Agrees(meta[p].cfg, row)
  <2>1. UNCHANGED <<row, generated, resets>>
    BY <1>2 DEF GetHubMetadata
  <2>2. CASE row = NoRow
    <3>1. meta' = [meta EXCEPT ![p] = [meta[p] EXCEPT !.pc = "create"]] /\ UNCHANGED identities
      BY <1>2, <2>2 DEF GetHubMetadata
    <3> QED
      BY <1>1, <2>1, <3>1, MetaMove, Zenon
  <2>3. CASE row # NoRow /\ fits
    <3>1. Resolved(p, row, resets)
      BY <1>2, <2>3 DEF GetHubMetadata
    <3>2. row.label # 0 /\ Carries(row, meta[p].cfg)
      BY <2>3 DEF MetaInv, Written, Unconfigured, Agrees, Carries, Or
    <3> QED
      BY <1>1, <2>1, <3>1, <3>2, MetaResolved
  <2>4. CASE row # NoRow /\ ~fits
    <3>1. PICK next : next = IF meta[p].cfg.reset THEN "update" ELSE "failed"
      OBVIOUS
    <3>2. PICK m : m = [meta[p] EXCEPT !.seen = row, !.pc = next]
      OBVIOUS
    <3>3. meta' = [meta EXCEPT ![p] = m] /\ UNCHANGED identities
      BY <1>2, <2>4, <3>1, <3>2, Zenon DEF GetHubMetadata
    <3>4. /\ m \in [pc : {"off", "get", "create", "update", "resolved", "failed"},
                     cfg : MetaConfigs, seen : Rows]
          /\ m.pc # "resolved" /\ m.seen = row
      BY <1>1, <3>1, <3>2, Zenon
    <3>5. row.label # 0
      BY <2>4 DEF MetaInv, Written
    <3> QED
      BY <2>1, <3>3, <3>4, <3>5, MetaMove, Zenon
  <2> QED
    BY <2>2, <2>3, <2>4
<1>3. CASE CreateHubMetadata(p)
  <2>1. resets' = resets
    BY <1>3 DEF CreateHubMetadata
  <2>2. CASE row = NoRow
    <3>1. /\ row' = InitialRow(meta[p].cfg) /\ generated' \in Nat
          /\ Resolved(p, InitialRow(meta[p].cfg), resets) \/ Failed(p)
      BY <1>1, <1>3, <2>2 DEF CreateHubMetadata
    <3>2. /\ InitialRow(meta[p].cfg) \in Rows
          /\ InitialRow(meta[p].cfg).label # 0
          /\ Carries(InitialRow(meta[p].cfg), meta[p].cfg)
      BY <1>1 DEF InitialRow, Carries, Or, Rows, MetaConfigs, HostName
    <3> QED
      BY <1>1, <2>1, <2>2, <3>1, <3>2, MetaResolved, MetaUnanswered
  <2>3. CASE row # NoRow
    <3>1. /\ meta' = [meta EXCEPT ![p] = [meta[p] EXCEPT !.pc = "failed"]]
          /\ UNCHANGED <<row, generated, resets, identities>>
      BY <1>3, <2>1, <2>3 DEF CreateHubMetadata, Failed
    <3> QED
      BY <1>1, <3>1, MetaMove, Zenon
  <2> QED
    BY <2>2, <2>3
<1>4. CASE UpdateHubMetadata(p)
  <2> DEFINE updated == UpdatedRow(meta[p].cfg, meta[p].seen)
  <2>1. /\ row' = updated /\ resets' = resets + 1 /\ generated' = generated
        /\ Resolved(p, updated, resets + 1) \/ Failed(p)
        /\ meta[p].pc = "update"
    BY <1>4 DEF UpdateHubMetadata
  <2>2. meta[p].seen.label # 0
    BY <2>1 DEF MetaInv, Written
  <2>3. updated \in Rows /\ updated.label # 0 /\ Carries(updated, meta[p].cfg)
    BY <1>1, <2>2 DEF UpdatedRow, Carries, Or, Rows, MetaConfigs
  <2> QED
    BY <1>1, <2>1, <2>3, MetaResolved, MetaUnanswered
<1>5. CASE MetaFails(p)
  <2>1. /\ meta' = [meta EXCEPT ![p] = [meta[p] EXCEPT !.pc = "failed"]]
        /\ UNCHANGED <<row, generated, resets, identities>>
    BY <1>5 DEF MetaFails, Failed
  <2> QED
    BY <1>1, <2>1, MetaMove, Zenon
<1> QED
  BY <1>2, <1>3, <1>4, <1>5 DEF ResolveStep

\* A step of any process, or none, preserves the inductive invariant.
LEMMA MetaPreserved == MetaInv /\ [MetaNext]_metaVars => MetaInv'
<1> SUFFICES ASSUME MetaInv, [MetaNext]_metaVars PROVE MetaInv'
  OBVIOUS
<1>1. ASSUME NEW p \in Processes, NEW cfg \in MetaConfigs, Resolve(p, cfg)
      PROVE  MetaInv'
  <2>1. [pc |-> "get", cfg |-> cfg, seen |-> NoRow]
          \in [pc : {"off", "get", "create", "update", "resolved", "failed"},
               cfg : MetaConfigs, seen : Rows]
    BY DEF NoRow, Rows
  <2> QED
    BY <1>1, <2>1, MetaMove, Zenon DEF Resolve
<1>2. ASSUME NEW p \in Processes, Forget(p) PROVE MetaInv'
  <2>1. NoMeta \in [pc : {"off", "get", "create", "update", "resolved", "failed"},
                   cfg : MetaConfigs, seen : Rows]
        /\ NoMeta.pc = "off"
    BY DEF NoMeta, NoMetaConfig, MetaConfigs, Rows, NoRow
  <2> QED
    BY <1>2, <2>1, MetaMove, Zenon DEF Forget
<1>3. CASE UNCHANGED metaVars
  BY <1>3 DEF metaVars, MetaInv, MetaTypes, Written, FromTheRow, OneIdentity, ConfiguredIdentity
<1> QED
  BY <1>1, <1>2, <1>3, MetaResolveStep DEF MetaNext

\* The inductive invariant holds at all times.
THEOREM MetaInvariant == MetaSpec => []MetaInv
<1>1. InitMeta => MetaInv
  BY MetaInitially
<1>2. MetaInv /\ [MetaNext]_metaVars => MetaInv'
  BY MetaPreserved
<1> QED
  BY <1>1, <1>2, PTL DEF MetaSpec

-----------------------------------------------------------------------------
HIDE HubMetaAssumption

(* The deferred calls in the order they are registered, and how many of    *)
(* them there are before each step.                                        *)
Order == <<"telemetry", "logger", "postgres", "mqtt", "publisher", "rpc">>

DefersBefore == <<0, 0, 1, 2, 3, 3, 4, 4, 4, 4, 5, 6, 6, 6>>

MainTypes ==
    [pc : {"off", "starting", "serving", "shutdown", "unwinding", "exited"},
     step : 1..14, defers : Seq(Defers),
     result : {"none", "ok", "error"}]

(* The deferred calls are an initial part of Order, its length given by    *)
(* the step while the process starts.                                      *)
MainOK(m) ==
    /\ m \in MainTypes
    /\ Len(m.defers) <= 6
    /\ \A i \in 1..Len(m.defers) : m.defers[i] = Order[i]
    /\ m.pc = "starting" => Len(m.defers) = DefersBefore[m.step]
    /\ m.pc \in {"serving", "shutdown"} => Len(m.defers) = 6

(* The goroutine runs only while its cleanup is still to come.             *)
PublisherOK ==
    /\ publisher \in [pc : {"off", "idle", "publishing", "done"}, topics : Int]
    /\ publisher.pc \in {"idle", "publishing"} => Len(main.defers) >= 5

RunInv ==
    /\ settings \in DOMAIN Configurations
    /\ MainOK(main)
    /\ PublisherOK

(* The server listens only while main serves; before the deferred calls    *)
(* the pool is open and nothing is cut, and main returns with success only *)
(* when no request but WebSocket connections is left.                      *)
StopInv ==
    /\ server = "listening" => main.pc = "serving"
    /\ main.pc \in {"off", "starting", "serving", "shutdown"} =>
           main.result = "none" /\ ~poolClosed /\ cut = {}
    /\ main.result = "ok" => inflight \subseteq Sockets /\ cut = {}

(* The queue is empty without a goroutine to read it, and when that has    *)
(* ended, unless the context made it end.                                  *)
DrainInv ==
    /\ events \in [queue : Seq(Kinds), closed : BOOLEAN, emitted : Nat]
    /\ publisher.pc = "off" /\ main.pc # "exited" => events.queue = <<>>
    /\ publisher.pc = "done" => cancelled \/ (events.closed /\ events.queue = <<>>)
    /\ main.pc = "exited" => publisher.pc = "off" /\ (cancelled \/ events.queue = <<>>)

-----------------------------------------------------------------------------
\* How the number of deferred calls follows the steps.
LEMMA StepsAndDefers ==
  ASSUME NEW n \in 1..14
  PROVE  /\ DefersBefore[n] \in 0..6
         /\ Steps[n] = "server" <=> n = 14
         /\ n # 14 /\ Steps[n] \in Defers =>
              DefersBefore[n + 1] = DefersBefore[n] + 1 /\ Order[DefersBefore[n] + 1] = Steps[n]
         /\ n # 14 /\ Steps[n] \notin Defers => DefersBefore[n + 1] = DefersBefore[n]
         /\ Steps[n] = "publisher" => DefersBefore[n] = 4 /\ DefersBefore[n + 1] = 5
<1>1. DefersBefore[n] \in 0..6 /\ (Steps[n] = "server" <=> n = 14)
  <2>1. DefersBefore[n] \in 0..6
    BY DEF DefersBefore
  <2>2. Steps[n] = "server" <=> n = 14
    BY DEF Steps
  <2> QED
    BY <2>1, <2>2
<1>2. n \in {2, 3, 4, 6, 10, 11} <=> Steps[n] \in Defers
  BY DEF Steps, Defers
<1>3. n \in {2, 3, 4, 6, 10, 11} =>
        DefersBefore[n + 1] = DefersBefore[n] + 1 /\ Order[DefersBefore[n] + 1] = Steps[n]
  BY DEF Steps, DefersBefore, Order
<1>4. n # 14 /\ n \notin {2, 3, 4, 6, 10, 11} => DefersBefore[n + 1] = DefersBefore[n]
  BY DEF DefersBefore
<1>5. Steps[n] = "publisher" => n = 10
  BY DEF Steps
<1>6. DefersBefore[10] = 4 /\ DefersBefore[11] = 5
  BY DEF DefersBefore
<1> QED
  BY <1>1, <1>2, <1>3, <1>4, <1>5, <1>6

\* A step that succeeds registers its deferred call in order.
LEMMA DoneOK ==
  ASSUME MainOK(main), main.pc = "starting", Step # "server"
  PROVE  /\ MainOK(Done(Step))
         /\ Len(Done(Step).defers) >= Len(main.defers)
         /\ Step = "publisher" => Len(Done(Step).defers) = 5
<1> DEFINE n == main.step
<1> DEFINE d == IF Step \in Defers THEN Append(main.defers, Step) ELSE main.defers
<1>1. main \in MainTypes /\ n \in 1..14 /\ main.defers \in Seq(Defers)
  BY DEF MainOK, MainTypes
<1>2. n # 14 /\ n + 1 \in 1..14
  <2>1. n # 14
    BY <1>1, StepsAndDefers DEF Step
  <2> QED
    BY <1>1, <2>1
<1>3. Done(Step) = [main EXCEPT !.step = n + 1, !.defers = d]
  BY DEF Done
<1>4. d \in Seq(Defers)
  <2>1. Step \in Defers => Append(main.defers, Step) \in Seq(Defers)
    BY <1>1, AppendProperties
  <2> QED
    BY <1>1, <2>1
<1>5. /\ Done(Step) \in MainTypes
      /\ Done(Step).defers = d /\ Done(Step).step = n + 1 /\ Done(Step).pc = "starting"
  BY <1>1, <1>2, <1>3, <1>4, Zenon DEF MainTypes
<1>6. Len(main.defers) = DefersBefore[n] /\ \A i \in 1..Len(main.defers) : main.defers[i] = Order[i]
  BY DEF MainOK
<1>7. CASE Step \in Defers
  <2>1. /\ d = Append(main.defers, Step) /\ Len(d) = Len(main.defers) + 1
        /\ \A i \in 1..Len(main.defers) : d[i] = main.defers[i]
        /\ d[Len(main.defers) + 1] = Step
    BY <1>1, <1>7, AppendProperties
  <2>2. DefersBefore[n + 1] = DefersBefore[n] + 1 /\ Order[DefersBefore[n] + 1] = Step
        /\ DefersBefore[n + 1] \in 0..6
    BY <1>1, <1>2, <1>7, StepsAndDefers, Zenon DEF Step
  <2>3. \A i \in 1..Len(d) : d[i] = Order[i]
    BY <1>1, <1>2, <1>6, <2>1, <2>2
  <2>4. Step = "publisher" => DefersBefore[n] = 4
    BY <1>1, StepsAndDefers, Zenon DEF Step
  <2> QED
    BY <1>5, <1>6, <2>1, <2>2, <2>3, <2>4 DEF MainOK
<1>8. CASE Step \notin Defers
  <2>1. d = main.defers
    BY <1>8
  <2>2. DefersBefore[n + 1] = DefersBefore[n] /\ DefersBefore[n] \in 0..6
    BY <1>1, <1>2, <1>8, StepsAndDefers, Zenon DEF Step
  <2>3. Step # "publisher"
    BY <1>8 DEF Defers
  <2>4. MainOK(Done(Step))
    BY <1>5, <1>6, <2>1, <2>2, Zenon DEF MainOK
  <2>5. Done(Step).defers = main.defers /\ Len(main.defers) \in Nat
    BY <1>1, <1>5, <2>1
  <2> QED
    BY <2>3, <2>4, <2>5
<1> QED
  BY <1>7, <1>8

\* Returning leaves the deferred calls as they are.
LEMMA ReturnedOK ==
  ASSUME MainOK(main), NEW result \in {"ok", "error"}
  PROVE  MainOK(Returned(result)) /\ Returned(result).defers = main.defers
BY Zenon DEF MainOK, MainTypes, Returned

\* A deferred call that has run is the last one no more.
LEMMA PoppedOK ==
  ASSUME MainOK(main), main.pc = "unwinding", main.defers # <<>>
  PROVE  MainOK(Popped) /\ Len(Popped.defers) = Len(main.defers) - 1
<1>1. main \in MainTypes /\ main.defers \in Seq(Defers) /\ Len(main.defers) \in 1..6
  <2>1. main \in MainTypes /\ main.defers \in Seq(Defers) /\ Len(main.defers) <= 6
    BY DEF MainOK, MainTypes
  <2>2. Len(main.defers) # 0
    BY <2>1, EmptySeq
  <2>3. Len(main.defers) \in Nat
    BY <2>1
  <2>4. \A k \in Nat : k # 0 /\ k <= 6 => k \in 1..6
    OBVIOUS
  <2> QED
    BY <2>1, <2>2, <2>3, <2>4, Zenon
<1> DEFINE d == SubSeq(main.defers, 1, Len(main.defers) - 1)
<1>2. d \in Seq(Defers) /\ Len(d) = Len(main.defers) - 1
      /\ \A i \in 1..Len(d) : d[i] = main.defers[i]
  BY <1>1
<1>3. Popped = [main EXCEPT !.defers = d]
  BY DEF Popped
<1>4. Popped \in MainTypes /\ Popped.defers = d /\ Popped.pc = "unwinding"
  BY <1>1, <1>2, <1>3, Zenon DEF MainTypes
<1> QED
  BY <1>1, <1>2, <1>4 DEF MainOK

\* When the invariant holds, the MQTT client is open under the publisher.
LEMMA OpenUnderPublisher == RunInv => PublisherBeforeClose
<1> SUFFICES ASSUME RunInv, publisher.pc \in {"idle", "publishing"} PROVE ~Closed("mqtt")
  BY DEF PublisherBeforeClose
<1>1. main.defers \in Seq(Defers) /\ Len(main.defers) >= 5 /\ main.defers[4] = Order[4]
  BY DEF RunInv, MainOK, MainTypes, PublisherOK
<1>2. 4 \in DOMAIN main.defers /\ Order[4] = "mqtt"
  BY <1>1 DEF Order
<1> QED
  BY <1>1, <1>2 DEF Closed

-----------------------------------------------------------------------------
\* The initial state satisfies the invariant of the run.
LEMMA RunInitially == Init => RunInv
<1> SUFFICES ASSUME Init PROVE RunInv
  OBVIOUS
<1>1. settings \in DOMAIN Configurations
  BY LifecycleAssumption DEF Init
<1>2. MainOK(main)
  BY EmptySeq DEF Init, NoMain, MainOK, MainTypes
<1>3. PublisherOK
  BY DEF Init, NoPublisher, PublisherOK
<1> QED
  BY <1>1, <1>2, <1>3 DEF RunInv

\* Steps of main that register no less deferred calls and leave the
\* goroutine alone preserve the invariant.
LEMMA MainMoves ==
  ASSUME RunInv, MainOK(main'), Len(main'.defers) >= Len(main.defers),
         UNCHANGED <<settings, publisher>>
  PROVE  RunInv'
<1>1. Len(main.defers) \in Nat /\ Len(main'.defers) \in Nat
  BY DEF RunInv, MainOK, MainTypes
<1>2. PublisherOK'
  BY <1>1 DEF RunInv, PublisherOK
<1> QED
  BY <1>2 DEF RunInv

\* A step of the start-up that succeeds or makes the process return.
LEMMA StartupMoves ==
  ASSUME RunInv, main.pc = "starting", Step # "server",
         main' \in {Done(Step), Returned("error")}, UNCHANGED <<settings, publisher>>
  PROVE  RunInv'
<1>1. MainOK(main)
  BY DEF RunInv
<1>2. CASE main' = Done(Step)
  BY <1>1, <1>2, DoneOK, MainMoves
<1>3. CASE main' = Returned("error")
  <2>1. Len(main.defers) \in Nat
    BY <1>1 DEF MainOK, MainTypes
  <2> QED
    BY <1>1, <1>3, <2>1, ReturnedOK, MainMoves
<1> QED
  BY <1>2, <1>3

\* Steps that leave main and the goroutine alone preserve the invariant.
LEMMA RunStutters ==
  ASSUME RunInv, UNCHANGED <<settings, main, publisher>>
  PROVE  RunInv'
BY DEF RunInv, PublisherOK

\* A process that starts or crashes is at its beginning.
LEMMA RunRestarts ==
  ASSUME settings' \in DOMAIN Configurations,
         main' \in {NoMain, [NoMain EXCEPT !.pc = "starting"]}, publisher' = NoPublisher
  PROVE  RunInv'
<1>1. DefersBefore[1] = 0
  BY DEF DefersBefore
<1>2. /\ main'.defers = <<>> /\ main'.step = 1 /\ main'.pc \in {"off", "starting"}
      /\ main' \in MainTypes
  <2>1. <<>> \in Seq(Defers)
    BY EmptySeq
  <2>2. PICK p \in {"off", "starting"} :
          main' = [pc |-> p, step |-> 1, defers |-> <<>>, result |-> "none"]
    <3>1. CASE main' = NoMain
      BY <3>1 DEF NoMain
    <3>2. CASE main' = [NoMain EXCEPT !.pc = "starting"]
      BY <3>2, Zenon DEF NoMain
    <3> QED
      BY <3>1, <3>2
  <2> QED
    BY <2>1, <2>2 DEF MainTypes
<1>3. MainOK(main')
  BY <1>1, <1>2 DEF MainOK
<1>4. PublisherOK'
  BY DEF NoPublisher, PublisherOK
<1> QED
  BY <1>3, <1>4 DEF RunInv

\* The steps of main while it starts.
LEMMA MainStarts ==
  ASSUME RunInv,
         \/ LoadConfig \/ OpenStores \/ ResolveMetadata \/ NewMQTT \/ NewAuthenticator
         \/ LoadRegistry \/ NewService \/ NewRPCBridge \/ SubscribeIngest
  PROVE  RunInv'
<1>1. CASE LoadConfig
  BY <1>1, StartupMoves DEF LoadConfig, Starting
<1>2. CASE OpenStores \/ NewMQTT \/ NewRPCBridge \/ SubscribeIngest
  BY <1>2, StartupMoves DEF OpenStores, NewMQTT, NewRPCBridge, SubscribeIngest, Opens
<1>3. CASE ResolveMetadata
  <2>1. main.pc = "starting" /\ Step = "metadata" /\ UNCHANGED <<settings, publisher>>
        /\ main' \in {main, Done("metadata"), Returned("error")}
    BY <1>3, Zenon DEF ResolveMetadata, Starting
  <2> QED
    BY <2>1, StartupMoves, RunStutters
<1>4. CASE NewAuthenticator
  BY <1>4, StartupMoves DEF NewAuthenticator, Starting
<1>5. CASE LoadRegistry
  BY <1>5, StartupMoves DEF LoadRegistry, Starting
<1>6. CASE NewService
  BY <1>6, StartupMoves DEF NewService, Starting
<1> QED
  BY <1>1, <1>2, <1>3, <1>4, <1>5, <1>6

\* The other steps of main: the goroutine started, the server, the end.
LEMMA MainEnds ==
  ASSUME RunInv,
         \/ RunEventPublisher \/ ListenAndServe \/ Select \/ Shutdown
         \/ Unsubscribe \/ AwaitPublisher \/ ClosePool \/ AwaitPool \/ Close \/ Exit
  PROVE  RunInv'
<1>1. /\ MainOK(main) /\ PublisherOK /\ settings \in DOMAIN Configurations
      /\ main \in MainTypes /\ main.defers \in Seq(Defers) /\ Len(main.defers) \in Nat
  BY DEF RunInv, MainOK, MainTypes
<1>2. CASE RunEventPublisher
  <2>1. /\ main.pc = "starting" /\ Step = "publisher" /\ main' = Done(Step)
        /\ publisher' = [pc |-> "idle", topics |-> 0] /\ settings' = settings
    BY <1>2 DEF RunEventPublisher, Starting
  <2>2. MainOK(main') /\ Len(main'.defers) = 5
    BY <1>1, <2>1, DoneOK
  <2>3. publisher' \in [pc : {"off", "idle", "publishing", "done"}, topics : Int]
    BY <2>1
  <2>4. Len(main'.defers) >= 5
    BY <2>2
  <2>5. PublisherOK'
    BY <2>3, <2>4 DEF PublisherOK
  <2> QED
    BY <1>1, <2>1, <2>2, <2>5 DEF RunInv
<1>3. CASE ListenAndServe
  <2>1. /\ main.pc = "starting" /\ Steps[main.step] = "server"
        /\ main' = [main EXCEPT !.pc = "serving"] /\ UNCHANGED <<settings, publisher>>
    BY <1>3 DEF ListenAndServe, Starting, Step
  <2>2. main.step = 14
    BY <1>1, <2>1, StepsAndDefers, Zenon DEF MainTypes
  <2>3. DefersBefore[14] = 6
    BY DEF DefersBefore
  <2>4. MainOK(main') /\ main'.defers = main.defers
    BY <1>1, <2>1, <2>2, <2>3 DEF MainOK, MainTypes
  <2> QED
    BY <1>1, <2>1, <2>4, MainMoves
<1>4. CASE Select \/ Shutdown
  <2>1. /\ UNCHANGED <<settings, publisher>> /\ main.pc \in {"serving", "shutdown"}
        /\ main' \in {Returned("ok"), Returned("error"), [main EXCEPT !.pc = "shutdown"]}
    BY <1>4 DEF Select, Shutdown
  <2>2. CASE main' = [main EXCEPT !.pc = "shutdown"]
    <3>1. MainOK(main') /\ main'.defers = main.defers
      BY <1>1, <2>1, <2>2 DEF MainOK, MainTypes
    <3> QED
      BY <1>1, <2>1, <3>1, MainMoves
  <2>3. CASE main' \in {Returned("ok"), Returned("error")}
    <3>1. MainOK(main') /\ main'.defers = main.defers
      BY <1>1, <2>3, ReturnedOK
    <3> QED
      BY <1>1, <2>1, <3>1, MainMoves
  <2> QED
    BY <2>1, <2>2, <2>3
<1>5. CASE Unsubscribe \/ ClosePool
  BY <1>5, RunStutters DEF Unsubscribe, ClosePool
<1>6. CASE AwaitPublisher
  <2>1. /\ main.pc = "unwinding" /\ main.defers # <<>> /\ main' = Popped
        /\ publisher.pc = "done" /\ UNCHANGED <<settings, publisher>>
    BY <1>6 DEF AwaitPublisher, Deferred
  <2>2. MainOK(main')
    BY <1>1, <2>1, PoppedOK
  <2>3. PublisherOK'
    BY <1>1, <2>1 DEF PublisherOK
  <2> QED
    BY <1>1, <2>1, <2>2, <2>3 DEF RunInv
<1>7. CASE AwaitPool \/ Close
  <2>1. /\ main.pc = "unwinding" /\ main.defers # <<>> /\ main' = Popped
        /\ main.defers[Len(main.defers)] # "publisher" /\ UNCHANGED <<settings, publisher>>
    BY <1>7 DEF AwaitPool, Close, Deferred
  <2>2. MainOK(main') /\ Len(main'.defers) = Len(main.defers) - 1
    BY <1>1, <2>1, PoppedOK
  <2>3. Order[5] = "publisher" /\ \A i \in 1..Len(main.defers) : main.defers[i] = Order[i]
    BY <1>1 DEF MainOK, Order
  <2>4. Len(main.defers) # 5
    <3>1. ASSUME NEW k \in Nat, k = 5, \A i \in 1..k : main.defers[i] = Order[i]
          PROVE  main.defers[k] = Order[5]
      BY <3>1
    <3>2. Len(main.defers) \in Nat
      BY <1>1
    <3> QED
      BY <2>1, <2>3, <3>1, <3>2
  <2>5. Len(main.defers) >= 5 => Len(main'.defers) >= 5
    <3>1. \A k \in Nat : k # 5 /\ k >= 5 => k - 1 >= 5
      OBVIOUS
    <3>2. Len(main.defers) \in Nat
      BY <1>1
    <3> QED
      BY <2>2, <2>4, <3>1, <3>2, Zenon
  <2>6. PublisherOK'
    BY <1>1, <2>1, <2>5 DEF PublisherOK
  <2> QED
    BY <1>1, <2>1, <2>2, <2>6 DEF RunInv
<1>8. CASE Exit
  <2>1. /\ main' = [main EXCEPT !.pc = "exited", !.step = 1]
        /\ settings' = 1 /\ publisher' = NoPublisher
    BY <1>8 DEF Exit
  <2>2. MainOK(main')
    <3>1. main' \in MainTypes /\ main'.pc = "exited" /\ main'.defers = main.defers
      <4>1. main'.pc = "exited" /\ main'.defers = main.defers
        BY <1>1, <2>1 DEF MainTypes
      <4>2. 1 \in 1..14 /\ main \in MainTypes
        BY <1>1
      <4>3. main' \in MainTypes
        BY <2>1, <4>2, Zenon DEF MainTypes
      <4> QED
        BY <4>1, <4>3
    <3> QED
      BY <1>1, <3>1 DEF MainOK
  <2>3. PublisherOK'
    BY <2>1 DEF PublisherOK, NoPublisher
  <2> QED
    BY <2>1, <2>2, <2>3, LifecycleAssumption DEF RunInv
<1> QED
  BY <1>2, <1>3, <1>4, <1>5, <1>6, <1>7, <1>8

\* The steps of the goroutine.
LEMMA PublisherSteps ==
  ASSUME RunInv, Publisher
  PROVE  RunInv'
<1>1. UNCHANGED <<settings, main>> /\ MainOK(main) /\ PublisherOK
  BY DEF Publisher, Receive, Publish, PublisherReturns, RunInv
<1>2. \A kind : Topics(kind) \subseteq 0..3
  BY DEF Topics
<1>3. publisher.pc \in {"idle", "publishing"}
  BY DEF Publisher, Receive, Publish, PublisherReturns
<1>4. publisher' \in [pc : {"idle", "publishing", "done"}, topics : Int]
  BY <1>1, <1>2 DEF Publisher, Receive, Publish, PublisherReturns, PublisherOK
<1>5. PublisherOK'
  BY <1>1, <1>3, <1>4 DEF PublisherOK
<1> QED
  BY <1>1, <1>5 DEF RunInv

\* Every step preserves the invariant of the run.
LEMMA RunPreserved == RunInv /\ [Next]_vars => RunInv'
<1> SUFFICES ASSUME RunInv, [Next]_vars PROVE RunInv'
  OBVIOUS
<1>1. ASSUME NEW i \in DOMAIN Configurations, Start(i) PROVE RunInv'
  BY <1>1, RunRestarts DEF Start, NewRun
<1>2. CASE Crash
  BY <1>2, RunRestarts, LifecycleAssumption DEF Crash, NewRun
<1>3. CASE Main
  BY <1>3, MainStarts, MainEnds DEF Main
<1>4. CASE Publisher
  BY <1>4, PublisherSteps
<1>5. CASE Signal \/ ReconcileQueries \/ ReconcileEnds \/ WorkersStop \/ ServerFails
  BY <1>5, RunStutters DEF Signal, ReconcileQueries, ReconcileEnds, WorkersStop, ServerFails
<1>6. ASSUME NEW r \in Requests, Accept(r) \/ Query(r) \/ QueryEnds(r) \/ Respond(r)
      PROVE  RunInv'
  BY <1>6, RunStutters DEF Accept, Query, QueryEnds, Respond
<1>7. ASSUME NEW kind \in Kinds, Emit(kind) PROVE RunInv'
  BY <1>7, RunStutters DEF Emit
<1>8. ASSUME NEW p \in Peers, PeerResolves(p) \/ PeerEnds(p) PROVE RunInv'
  BY <1>8, RunStutters DEF PeerResolves, PeerEnds, runVars
<1>9. ASSUME NEW p \in Peers, NEW i \in DOMAIN Configurations, PeerStarts(p, i) PROVE RunInv'
  BY <1>9, RunStutters DEF PeerStarts, runVars
<1>10. CASE UNCHANGED vars
  BY <1>10, RunStutters DEF vars, runVars
<1> QED
  BY <1>1, <1>2, <1>3, <1>4, <1>5, <1>6, <1>7, <1>8, <1>9, <1>10, MainStarts
     DEF Next, DatabaseAnswers

\* The publisher never uses a closed MQTT client, however the process
\* starts, fails, stops or crashes.
THEOREM PublisherSafe == Spec => []PublisherBeforeClose
<1>1. Init => RunInv
  BY RunInitially
<1>2. RunInv /\ [Next]_vars => RunInv'
  BY RunPreserved
<1>3. RunInv => PublisherBeforeClose
  BY OpenUnderPublisher
<1> QED
  BY <1>1, <1>2, <1>3, PTL DEF Spec

-----------------------------------------------------------------------------
(* What a step of the start-up comes to.                                   *)
StartupStep ==
    /\ main.pc = "starting"
    /\ UNCHANGED <<cancelled, server, inflight, poolVars, events>>
    /\ \/ main' = main
       \/ main'.pc = "unwinding" /\ main'.result = "error"
       \/ main'.pc = "starting" /\ main'.result = main.result

\* The fields of main after a step that succeeds, and after a return.
LEMMA MainFields ==
  ASSUME MainOK(main)
  PROVE  /\ \A step : Done(step).pc = main.pc /\ Done(step).result = main.result
         /\ \A result : Returned(result).pc = "unwinding" /\ Returned(result).result = result
         /\ Popped.pc = main.pc /\ Popped.result = main.result
<1>1. main \in MainTypes
  BY DEF MainOK
<1> QED
  BY <1>1 DEF MainTypes, Done, Returned, Popped

\* Main goes on, or it returns with an error.
LEMMA StartupShape ==
  ASSUME RunInv,
         \/ LoadConfig \/ OpenStores \/ ResolveMetadata \/ NewMQTT \/ NewAuthenticator
         \/ LoadRegistry \/ NewService \/ RunEventPublisher \/ NewRPCBridge
         \/ SubscribeIngest
  PROVE  StartupStep
<1>1. MainOK(main)
  BY DEF RunInv
<1>2. CASE LoadConfig
  BY <1>1, <1>2, MainFields DEF LoadConfig, Starting, StartupStep
<1>3. CASE OpenStores \/ NewMQTT \/ NewRPCBridge \/ SubscribeIngest
  <2>1. /\ main.pc = "starting" /\ main' \in {Done(Step), Returned("error")}
        /\ UNCHANGED <<cancelled, server, inflight, poolVars, events>>
    BY <1>3 DEF OpenStores, NewMQTT, NewRPCBridge, SubscribeIngest, Opens
  <2> QED
    BY <1>1, <2>1, MainFields DEF StartupStep
<1>4. CASE ResolveMetadata
  <2>1. /\ main.pc = "starting"
        /\ main' \in {main, Done("metadata"), Returned("error")}
        /\ UNCHANGED <<cancelled, server, inflight, poolVars, events>>
    BY <1>4, Zenon DEF ResolveMetadata, Starting
  <2> QED
    BY <1>1, <2>1, MainFields DEF StartupStep
<1>5. CASE NewAuthenticator
  BY <1>1, <1>5, MainFields DEF NewAuthenticator, Starting, StartupStep
<1>6. CASE LoadRegistry
  BY <1>1, <1>6, MainFields DEF LoadRegistry, Starting, StartupStep
<1>7. CASE NewService
  BY <1>1, <1>7, MainFields DEF NewService, Starting, StartupStep
<1>8. CASE RunEventPublisher
  BY <1>1, <1>8, MainFields, Zenon DEF RunEventPublisher, Starting, StartupStep
<1> QED
  BY <1>2, <1>3, <1>4, <1>5, <1>6, <1>7, <1>8

\* What the other steps of main come to; the invariants name what each of
\* them needs.
LEMMA EndShape ==
  ASSUME RunInv, ListenAndServe \/ Select \/ Shutdown
  PROVE  /\ UNCHANGED <<cancelled, inflight, poolVars, events, publisher>>
         /\ \/ /\ main.pc = "starting" /\ main'.pc = "serving"
               /\ main'.result = main.result
            \/ /\ main.pc = "serving" /\ main'.pc = "unwinding" /\ main'.result = "error"
               /\ server = "failed" /\ server' = server
            \/ /\ main.pc = "serving" /\ main'.pc = "shutdown" /\ main'.result = main.result
               /\ server' # "listening"
            \/ /\ main.pc = "shutdown" /\ main'.pc = "unwinding" /\ server' = server
               /\ main'.result = IF inflight \subseteq Sockets THEN "ok" ELSE "error"
<1>1. MainOK(main) /\ main \in MainTypes
  BY DEF RunInv, MainOK
<1>2. CASE ListenAndServe
  BY <1>1, <1>2, Zenon DEF ListenAndServe, Starting, MainTypes
<1>3. CASE Select
  <2>1. [main EXCEPT !.pc = "shutdown"].pc = "shutdown"
        /\ [main EXCEPT !.pc = "shutdown"].result = main.result
    BY <1>1 DEF MainTypes
  <2>2. CASE server = "failed" /\ main' = Returned("error") /\ UNCHANGED server
    BY <1>1, <1>3, <2>2, MainFields DEF Select
  <2>3. CASE main' = [main EXCEPT !.pc = "shutdown"] /\ server' # "listening"
    BY <1>3, <2>1, <2>3, Zenon DEF Select
  <2> QED
    BY <1>3, <2>2, <2>3 DEF Select
<1>4. CASE Shutdown
  BY <1>1, <1>4, MainFields DEF Shutdown
<1> QED
  BY <1>2, <1>3, <1>4

-----------------------------------------------------------------------------
\* Requests come in only while main serves, and main returns with success
\* only when none is left.
LEMMA StopPreserved ==
  ASSUME RunInv, StopInv, [Next]_vars
  PROVE  StopInv'
<1>1. MainOK(main) /\ main \in MainTypes
  BY DEF RunInv, MainOK
<1>2. CASE UNCHANGED <<main, server, inflight, poolClosed, cut>>
  BY <1>2 DEF StopInv
<1>3. CASE \/ LoadConfig \/ OpenStores \/ ResolveMetadata \/ NewMQTT \/ NewAuthenticator
           \/ LoadRegistry \/ NewService \/ RunEventPublisher \/ NewRPCBridge
           \/ SubscribeIngest
  BY <1>3, StartupShape DEF StartupStep, StopInv, poolVars
<1>4. CASE ListenAndServe \/ Select \/ Shutdown
  <2>1. UNCHANGED <<inflight, poolClosed, cut>>
    BY <1>4, EndShape DEF poolVars
  <2>2. CASE main.pc = "starting" /\ main'.pc = "serving" /\ main'.result = main.result
    BY <2>1, <2>2 DEF StopInv
  <2>3. CASE /\ main.pc = "serving" /\ main'.pc = "unwinding" /\ main'.result = "error"
             /\ server = "failed" /\ server' = server
    BY <2>1, <2>3 DEF StopInv
  <2>4. CASE /\ main.pc = "serving" /\ main'.pc = "shutdown" /\ main'.result = main.result
             /\ server' # "listening"
    BY <2>1, <2>4 DEF StopInv
  <2>5. CASE /\ main.pc = "shutdown" /\ main'.pc = "unwinding" /\ server' = server
             /\ main'.result = IF inflight \subseteq Sockets THEN "ok" ELSE "error"
    BY <2>1, <2>5 DEF StopInv
  <2> QED
    BY <1>4, <2>2, <2>3, <2>4, <2>5, EndShape
<1>5. CASE Unsubscribe
  BY <1>2, <1>5 DEF Unsubscribe, poolVars
<1>6. CASE AwaitPublisher \/ AwaitPool \/ Close
  <2>1. /\ main.pc = "unwinding" /\ main' = Popped
        /\ UNCHANGED <<server, inflight, poolClosed, cut>>
    BY <1>6 DEF AwaitPublisher, AwaitPool, Close, Deferred, poolVars
  <2>2. main'.pc = "unwinding" /\ main'.result = main.result
    BY <1>1, <2>1, MainFields
  <2> QED
    BY <2>1, <2>2 DEF StopInv
<1>7. CASE Exit
  <2>1. main'.pc = "exited" /\ main'.result = main.result
    BY <1>1, <1>7 DEF Exit, MainTypes
  <2> QED
    BY <1>7, <2>1 DEF Exit, StopInv
<1>8. CASE Crash \/ \E i \in DOMAIN Configurations : Start(i)
  BY <1>8 DEF Crash, Start, NoMain, NewRun, StopInv
<1>9. CASE Publisher \/ Signal \/ ReconcileQueries \/ ReconcileEnds \/ WorkersStop
  BY <1>2, <1>9, Zenon DEF Publisher, Receive, Publish, PublisherReturns, Signal,
     ReconcileQueries, ReconcileEnds, WorkersStop, poolVars
<1>10. CASE ServerFails
  BY <1>10 DEF ServerFails, StopInv, poolVars
<1>11. ASSUME NEW r \in Requests, Accept(r) PROVE StopInv'
  BY <1>11 DEF Accept, StopInv, poolVars
<1>12. ASSUME NEW r \in Requests, Respond(r) PROVE StopInv'
  BY <1>12 DEF Respond, StopInv, poolVars
<1>13. CASE \E kind \in Kinds : Emit(kind)
  BY <1>2, <1>13, Zenon DEF Emit, poolVars
<1>14. CASE \/ \E p \in Peers : PeerResolves(p) \/ PeerEnds(p)
            \/ \E p \in Peers, i \in DOMAIN Configurations : PeerStarts(p, i)
  BY <1>2, <1>14 DEF PeerResolves, PeerEnds, PeerStarts, runVars, poolVars
<1>15. CASE UNCHANGED vars
  BY <1>2, <1>15 DEF vars, runVars, poolVars
<1>16. CASE ClosePool
  BY <1>16 DEF ClosePool, Deferred, StopInv
<1>17. ASSUME NEW r \in Requests, Query(r) PROVE StopInv'
  <2>1. /\ UNCHANGED <<main, server, inflight, poolClosed>>
        /\ r \in inflight \ Sockets /\ (cut' # cut => poolClosed)
    BY <1>17 DEF Query
  <2> QED
    BY <2>1 DEF StopInv
<1>18. ASSUME NEW r \in Requests, QueryEnds(r) PROVE StopInv'
  BY <1>2, <1>18 DEF QueryEnds
<1> QED
  BY <1>3, <1>4, <1>5, <1>6, <1>7, <1>8, <1>9, <1>10, <1>11, <1>12, <1>13, <1>14, <1>15,
     <1>16, <1>17, <1>18, Zenon DEF Next, Main, DatabaseAnswers

\* A process that ends waits for a goroutine that has emptied its queue or
\* was cancelled.
LEMMA DrainPreserved ==
  ASSUME RunInv, DrainInv, [Next]_vars
  PROVE  DrainInv'
<1>1. /\ MainOK(main) /\ main \in MainTypes /\ PublisherOK
      /\ events \in [queue : Seq(Kinds), closed : BOOLEAN, emitted : Nat]
      /\ events.queue \in Seq(Kinds) /\ events.emitted \in Nat
  BY DEF RunInv, MainOK, DrainInv
<1>2. ASSUME UNCHANGED <<cancelled, events, publisher>>, main.pc # "exited", main'.pc # "exited"
      PROVE  DrainInv'
  BY <1>2 DEF DrainInv
<1>3. CASE UNCHANGED <<main, cancelled, events, publisher>>
  BY <1>3 DEF DrainInv
<1>4. CASE \/ LoadConfig \/ OpenStores \/ ResolveMetadata \/ NewMQTT \/ NewAuthenticator
           \/ LoadRegistry \/ NewService \/ NewRPCBridge \/ SubscribeIngest
  <2>1. main.pc # "exited" /\ main'.pc # "exited" /\ UNCHANGED <<cancelled, events>>
    BY <1>4, StartupShape DEF StartupStep
  <2>2. UNCHANGED publisher
    BY <1>4, Zenon DEF LoadConfig, OpenStores, ResolveMetadata, NewMQTT, NewAuthenticator,
       LoadRegistry, NewService, NewRPCBridge, SubscribeIngest, Opens
  <2> QED
    BY <1>2, <2>1, <2>2
<1>5. CASE RunEventPublisher
  <2>1. main'.pc # "exited" /\ UNCHANGED <<cancelled, events>>
    BY <1>5, StartupShape DEF StartupStep
  <2>2. publisher'.pc = "idle"
    BY <1>5 DEF RunEventPublisher
  <2> QED
    BY <2>1, <2>2 DEF DrainInv
<1>6. CASE ListenAndServe \/ Select \/ Shutdown
  BY <1>2, <1>6, EndShape
<1>7. CASE Unsubscribe
  <2>1. /\ events' = [events EXCEPT !.closed = TRUE] /\ main.pc = "unwinding"
        /\ UNCHANGED <<main, cancelled, publisher>>
    BY <1>7 DEF Unsubscribe, Deferred
  <2>2. /\ events' \in [queue : Seq(Kinds), closed : BOOLEAN, emitted : Nat]
        /\ events'.queue = events.queue /\ events'.closed
    BY <1>1, <2>1, Zenon
  <2> QED
    BY <2>1, <2>2 DEF DrainInv
<1>8. CASE AwaitPublisher \/ AwaitPool \/ Close
  <2>1. main.pc = "unwinding" /\ main' = Popped /\ UNCHANGED <<cancelled, events, publisher>>
    BY <1>8 DEF AwaitPublisher, AwaitPool, Close, Deferred
  <2> QED
    BY <1>1, <1>2, <2>1, MainFields
<1>9. CASE Exit
  <2>1. /\ main.defers = <<>> /\ main.pc = "unwinding" /\ UNCHANGED <<cancelled, events>>
        /\ publisher'.pc = "off"
    BY <1>9 DEF Exit, NoPublisher
  <2>2. main'.pc = "exited"
    BY <1>1, <1>9 DEF Exit, MainTypes
  <2>3. publisher.pc \in {"off", "done"}
    BY <1>1, <2>1, EmptySeq DEF PublisherOK
  <2>4. cancelled \/ events.queue = <<>>
    BY <2>1, <2>3, Zenon DEF DrainInv
  <2> QED
    BY <1>1, <2>1, <2>2, <2>4 DEF DrainInv
<1>10. CASE Crash \/ \E i \in DOMAIN Configurations : Start(i)
  <2>1. /\ main'.pc # "exited" /\ NewRun
    BY <1>10 DEF Crash, Start, NoMain
  <2>2. events' \in [queue : Seq(Kinds), closed : BOOLEAN, emitted : Nat]
        /\ events'.queue = <<>> /\ publisher'.pc = "off"
    BY <2>1, EmptySeq DEF NewRun, NoEvents, NoPublisher
  <2> QED
    BY <2>1, <2>2 DEF DrainInv
<1>11. CASE Publisher
  <2>1. UNCHANGED <<main, cancelled>> /\ publisher.pc \in {"idle", "publishing"}
    BY <1>11, Zenon DEF Publisher, Receive, Publish, PublisherReturns
  <2>2. main.pc # "exited"
    BY <2>1 DEF DrainInv
  <2>3. CASE Receive
    <3>1. events' = [events EXCEPT !.queue = Tail(events.queue)] /\ events.queue # <<>>
          /\ publisher'.pc \in {"idle", "publishing"}
      BY <2>3 DEF Receive
    <3>2. Tail(events.queue) \in Seq(Kinds)
      BY <1>1, <3>1
    <3>3. events' \in [queue : Seq(Kinds), closed : BOOLEAN, emitted : Nat]
      BY <1>1, <3>1, <3>2
    <3> QED
      BY <2>1, <2>2, <3>1, <3>3 DEF DrainInv
  <2>4. CASE Publish
    <3>1. publisher'.pc \in {"idle", "publishing"} /\ UNCHANGED events
      BY <1>1, <2>4 DEF Publish, PublisherOK
    <3> QED
      BY <2>1, <2>2, <3>1 DEF DrainInv
  <2>5. CASE PublisherReturns
    <3>1. /\ publisher'.pc = "done" /\ UNCHANGED events
          /\ cancelled \/ (events.closed /\ events.queue = <<>>)
      BY <1>1, <2>5 DEF PublisherReturns, PublisherOK
    <3> QED
      BY <2>1, <2>2, <3>1 DEF DrainInv
  <2> QED
    BY <1>11, <2>3, <2>4, <2>5 DEF Publisher
<1>12. CASE Signal
  BY <1>12 DEF Signal, DrainInv
<1>13. CASE \/ ReconcileQueries \/ ReconcileEnds \/ WorkersStop \/ ServerFails \/ ClosePool
            \/ \E r \in Requests : Accept(r) \/ Query(r) \/ QueryEnds(r) \/ Respond(r)
  BY <1>3, <1>13, Zenon DEF ReconcileQueries, ReconcileEnds, WorkersStop, ServerFails,
     ClosePool, Accept, Query, QueryEnds, Respond
<1>14. ASSUME NEW kind \in Kinds, Emit(kind) PROVE DrainInv'
  <2>1. /\ events' = [events EXCEPT !.queue = Append(events.queue, kind),
                                    !.emitted = events.emitted + 1]
        /\ ~events.closed /\ publisher.pc # "off" /\ UNCHANGED <<main, cancelled, publisher>>
    BY <1>14 DEF Emit
  <2>2. Append(events.queue, kind) \in Seq(Kinds) /\ events.emitted + 1 \in Nat
    BY <1>1, AppendProperties
  <2>3. events' \in [queue : Seq(Kinds), closed : BOOLEAN, emitted : Nat]
    BY <1>1, <2>1, <2>2, Zenon
  <2> QED
    BY <2>1, <2>3 DEF DrainInv
<1>15. CASE \/ \E p \in Peers : PeerResolves(p) \/ PeerEnds(p)
            \/ \E p \in Peers, i \in DOMAIN Configurations : PeerStarts(p, i)
  BY <1>3, <1>15 DEF PeerResolves, PeerEnds, PeerStarts, runVars
<1>16. CASE UNCHANGED vars
  BY <1>3, <1>16 DEF vars, runVars
<1> QED
  BY <1>4, <1>5, <1>6, <1>7, <1>8, <1>9, <1>10, <1>11, <1>12, <1>13, <1>14, <1>15, <1>16, Zenon
     DEF Next, Main, DatabaseAnswers

\* A process that exits with success has turned no HTTP request away from its
\* database, and one that was not told to stop has handled every event.
THEOREM ExitIsClean == Spec => []CleanExit
<1>1. Init => RunInv /\ StopInv /\ DrainInv
  BY RunInitially, EmptySeq DEF Init, NoMain, NoEvents, NoPublisher, StopInv, DrainInv
<1>2. RunInv /\ StopInv /\ DrainInv /\ [Next]_vars => RunInv' /\ StopInv' /\ DrainInv'
  BY RunPreserved, StopPreserved, DrainPreserved
<1>3. StopInv /\ DrainInv => CleanExit
  BY DEF StopInv, DrainInv, CleanExit, GracefulExit, DrainedUnlessCancelled
<1> QED
  BY <1>1, <1>2, <1>3, PTL DEF Spec

-----------------------------------------------------------------------------
\* What the processes do is, on the database row, what MetaNext allows.
LEMMA MetaOfNext == RunInv /\ [Next]_vars => [MetaNext]_metaVars
<1> SUFFICES ASSUME RunInv, [Next]_vars PROVE [MetaNext]_metaVars
  OBVIOUS
<1>1. Self \in Processes /\ settings \in DOMAIN Configurations
      /\ \A i \in DOMAIN Configurations : Configurations[i].meta \in MetaConfigs
  BY LifecycleAssumption DEF RunInv
<1>2. CASE UNCHANGED metaVars
  BY <1>2
<1>3. CASE ResolveMetadata
  <2>1. CASE meta[Self].pc = "off"
    BY <1>1, <1>3, <2>1 DEF ResolveMetadata, Configured, MetaNext
  <2>2. CASE meta[Self].pc \in {"get", "create", "update"}
    BY <1>1, <1>3, <2>2 DEF ResolveMetadata, MetaNext
  <2>3. CASE meta[Self].pc \notin {"off", "get", "create", "update"}
    BY <1>3, <2>3 DEF ResolveMetadata
  <2> QED
    BY <2>1, <2>2, <2>3
<1>4. CASE Exit \/ Crash
  BY <1>1, <1>4 DEF Exit, Crash, MetaNext
<1>5. ASSUME NEW p \in Peers, PeerResolves(p) \/ PeerEnds(p) PROVE MetaNext
  BY <1>5 DEF PeerResolves, PeerEnds, Peers, MetaNext
<1>6. ASSUME NEW p \in Peers, NEW i \in DOMAIN Configurations, PeerStarts(p, i) PROVE MetaNext
  BY <1>1, <1>6 DEF PeerStarts, Peers, MetaNext
<1>7. CASE Main \/ NewService
  <2>1. CASE \/ LoadConfig \/ OpenStores \/ NewMQTT \/ NewAuthenticator \/ LoadRegistry
             \/ NewService \/ RunEventPublisher \/ NewRPCBridge \/ SubscribeIngest
    BY <1>2, <2>1 DEF LoadConfig, OpenStores, NewMQTT, NewAuthenticator, LoadRegistry,
       NewService, RunEventPublisher, NewRPCBridge, SubscribeIngest, Opens
  <2>2. CASE \/ ListenAndServe \/ Select \/ Shutdown \/ Unsubscribe \/ AwaitPublisher
             \/ ClosePool \/ AwaitPool \/ Close
    BY <1>2, <2>2 DEF ListenAndServe, Select, Shutdown, Unsubscribe, AwaitPublisher, ClosePool,
       AwaitPool, Close
  <2> QED
    BY <1>3, <1>4, <1>7, <2>1, <2>2 DEF Main
<1>8. CASE \/ Publisher \/ Signal \/ ReconcileQueries \/ ReconcileEnds \/ WorkersStop
           \/ ServerFails
  BY <1>2, <1>8 DEF Publisher, Receive, Publish, PublisherReturns, Signal, ReconcileQueries,
     ReconcileEnds, WorkersStop, ServerFails
<1>9. ASSUME NEW i \in DOMAIN Configurations, Start(i) PROVE [MetaNext]_metaVars
  BY <1>2, <1>9 DEF Start
<1>10. ASSUME NEW r \in Requests, Accept(r) \/ Query(r) \/ QueryEnds(r) \/ Respond(r)
       PROVE  [MetaNext]_metaVars
  BY <1>2, <1>10 DEF Accept, Query, QueryEnds, Respond
<1>11. ASSUME NEW kind \in Kinds, Emit(kind) PROVE [MetaNext]_metaVars
  BY <1>2, <1>11 DEF Emit
<1>12. CASE UNCHANGED vars
  BY <1>2, <1>12 DEF vars
<1> QED
  BY <1>4, <1>5, <1>6, <1>7, <1>8, <1>9, <1>10, <1>11, <1>12 DEF Next, DatabaseAnswers

\* Processes that start, fail, exit and crash on one database implement the
\* specification of the row they share.
THEOREM MetaRefined == Spec => MetaSpec
<1>1. Init => RunInv /\ InitMeta
  BY RunInitially DEF Init
<1>2. RunInv /\ [Next]_vars => RunInv' /\ [MetaNext]_metaVars
  BY RunPreserved, MetaOfNext
<1> QED
  BY <1>1, <1>2, PTL DEF Spec, MetaSpec

\* Between two overwrites all processes have one identity, and every process
\* that starts has the identifier and label it was configured with.
THEOREM IdentityIsRight == Spec => []RightIdentity
<1>1. MetaInv => RightIdentity
  BY DEF MetaInv, RightIdentity
<1> QED
  BY <1>1, MetaRefined, MetaInvariant, PTL
=============================================================================
