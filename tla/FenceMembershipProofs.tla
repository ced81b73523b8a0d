------------------------ MODULE FenceMembershipProofs -----------------------
(***************************************************************************)
(* Type correctness of FenceMembership, for every set of workers, fences,  *)
(* places and scopes and every exit policy; and what it announces when one *)
(* worker gets all locations of a trackable.                               *)
(***************************************************************************)
EXTENDS FenceMembership, TLAPS

Time == Times \cup {None}
Member == [expires : Nat, tolerance : Time, pending : Time]

(* The parts of TypeOK *)

WorldType == clock \in Times /\ exists \subseteq Fences

MemberType == member \in [Fences -> Member \cup {None}]

LocalType ==
  /\ pc \in [Workers -> Labels]
  /\ place \in [Workers -> Places] /\ route \in [Workers -> Seq(Scopes)]
  /\ at \in [Workers -> Times]
  /\ active \in [Workers -> SUBSET Fences]
  /\ lookup \in [Workers -> SUBSET Fences]
  /\ todo \in [Workers -> SUBSET Fences]
  /\ cur \in [Workers -> Fences \cup {None}]
  /\ mine \in [Workers -> [tolerance : Time, pending : Time]]

EventsType == last \in [Fences -> {"none", "entry", "exit"}] /\ forgotten \in [Fences -> BOOLEAN]

WatchedType ==
  /\ outSince \in [Fences -> Time]
  /\ readySince \in [Fences -> Time] /\ seen \in [Fences -> Times]

Busy(w) == pc[w] \in {"hold", "begin", "clear", "entry", "exit"}

BusyType ==
  \A w \in Workers : (Busy(w) => cur[w] \in Fences) /\ (pc[w] # "idle" => route[w] # <<>>)

\* TypeOK is the conjunction of its parts.
LEMMA TypeParts ==
  TypeOK <=> WorldType /\ MemberType /\ LocalType /\ EventsType /\ WatchedType /\ BusyType
BY Zenon DEF TypeOK, WorldType, MemberType, LocalType, EventsType, WatchedType, BusyType, Busy, Time, Member

\* None is not a time.
LEMMA NoneNoTime == None \notin Times /\ 0 \in Times /\ Times \subseteq Nat
BY FenceAssumption DEF Times

\* The clock's reading plus the time to live makes a membership.
LEMMA MembershipType ==
  ASSUME WorldType, NEW t \in Time, NEW p \in Time
  PROVE  Membership(t, p) \in Member
<1>1. clock + LocationTTL \in Nat
  BY FenceAssumption DEF WorldType, Times
<1> QED
  BY <1>1, Zenon DEF Membership, Member

\* A membership is not None.
LEMMA NoneNoMember == None \notin Member
BY FenceAssumption, Zenon DEF Member, Time

\* Dropping memberships keeps the types.
LEMMA LoseType ==
  ASSUME MemberType, EventsType, NEW S, Lose(S)
  PROVE  MemberType' /\ forgotten' \in [Fences -> BOOLEAN]
<1>1. MemberType'
  BY Zenon DEF Lose, MemberType
<1>2. forgotten' \in [Fences -> BOOLEAN]
  BY Zenon DEF Lose, EventsType
<1> QED
  BY <1>1, <1>2, Zenon

\* What exitReady remembers are times.
LEMMA ExitReadyType ==
  ASSUME NEW d, NEW policy, NEW now \in Times, NEW m \in Member
  PROVE  /\ ExitReady(d, policy, now, m).tolerance \in Time
         /\ ExitReady(d, policy, now, m).pending \in Time
BY Zenon DEF ExitReady, Member, Time

\* More than one scope leaves one to go on with.
LEMMA RouteTail ==
  ASSUME NEW r \in Seq(Scopes), r # <<>>
  PROVE  Tail(r) \in Seq(Scopes) /\ (Len(r) > 1 => Tail(r) # <<>>)
<1>1. Tail(r) \in Seq(Scopes) /\ Len(Tail(r)) = Len(r) - 1
  OBVIOUS
<1>2. Len(r) > 1 => Len(Tail(r)) > 0
  BY <1>1
<1>3. \A t \in Seq(Scopes) : Len(t) > 0 => t # <<>>
  OBVIOUS
<1> QED
  BY <1>1, <1>2, <1>3, Zenon

\* Steps of a worker that touch neither memberships nor history.
LEMMA QuietType ==
  ASSUME TypeOK, NEW w \in Workers,
         \/ FindCandidates(w) \/ Finish(w)
         \/ \E f \in Fences : StayOutside(w, f)
         \/ \E p \in Places, r \in Routes : Begin(w, p, r)
  PROVE  TypeOK'
<1>1. WorldType /\ MemberType /\ LocalType /\ EventsType /\ WatchedType /\ BusyType
  BY TypeParts, Zenon
<1>2. WorldType' /\ MemberType' /\ EventsType' /\ WatchedType'
  BY <1>1, Zenon DEF FindCandidates, Finish, StayOutside, Begin, world, events, watched,
     WorldType, MemberType, EventsType, WatchedType
<1>3. LocalType' /\ BusyType'
  <2>1. CASE FindCandidates(w)
    <3>1. PICK S \in Candidates(w) : todo' = [todo EXCEPT ![w] = S]
      BY <2>1, Zenon DEF FindCandidates
    <3>2. S \subseteq Fences
      BY <1>1, Zenon DEF Candidates, WorldType
    <3> QED
      BY <1>1, <2>1, <3>1, <3>2
      DEF FindCandidates, Goto, Labels, LocalType, BusyType, Busy, WorldType
  <2>2. CASE Finish(w)
    <3>1. route[w] \in Seq(Scopes) /\ route[w] # <<>>
      BY <1>1, <2>2, Zenon DEF Finish, LocalType, BusyType
    <3>2. Tail(route[w]) \in Seq(Scopes) /\ (Len(route[w]) > 1 => Tail(route[w]) # <<>>)
      BY <3>1, RouteTail, Zenon
    <3>3. LocalType'
      BY <1>1, <2>2, <3>2, NoneNoTime, Zenon DEF Finish, Goto, Labels, LocalType, Time
    <3>4. BusyType'
      BY <1>1, <2>2, <3>2, Zenon DEF Finish, Goto, LocalType, BusyType, Busy
    <3> QED
      BY <3>3, <3>4, Zenon
  <2>3. ASSUME NEW f \in Fences, StayOutside(w, f) PROVE LocalType' /\ BusyType'
    BY <1>1, <2>3, Zenon DEF StayOutside, Evaluate, LocalType, BusyType, Busy
  <2>4. ASSUME NEW p \in Places, NEW r \in Routes, Begin(w, p, r) PROVE LocalType' /\ BusyType'
    <3>1. r \in Seq(Scopes) /\ r # <<>>
      BY FenceAssumption, Zenon
    <3> QED
      BY <1>1, <2>4, <3>1, Zenon DEF Begin, Goto, Labels, LocalType, BusyType, Busy
  <2> QED
    BY <2>1, <2>2, <2>3, <2>4, Zenon
<1>4. WorldType' /\ MemberType' /\ LocalType' /\ EventsType' /\ WatchedType' /\ BusyType' => TypeOK'
  BY Zenon DEF TypeOK, WorldType, MemberType, LocalType, EventsType, WatchedType, BusyType, Busy, Time, Member
<1> QED
  BY <1>2, <1>3, <1>4, Zenon

\* Steps of a worker that drop memberships.
LEMMA LossType ==
  ASSUME TypeOK, NEW w \in Workers,
         ListInside(w) \/ \E f \in Fences : LookUp(w, f) \/ MissMembership(w, f)
  PROVE  TypeOK'
<1>1. WorldType /\ MemberType /\ LocalType /\ EventsType /\ WatchedType /\ BusyType
  BY TypeParts
<1>2. WorldType' /\ WatchedType'
  BY <1>1, Zenon DEF ListInside, LookUp, MissMembership, world, watched, WorldType, WatchedType
<1>3. MemberType' /\ EventsType'
  <2>1. (\E S : Lose(S)) \/ UNCHANGED <<member, forgotten>>
    BY Zenon DEF ListInside, LookUp, MissMembership
  <2>2. last' = last
    BY Zenon DEF ListInside, LookUp, MissMembership
  <2>3. MemberType' /\ forgotten' \in [Fences -> BOOLEAN]
    BY <1>1, <2>1, LoseType, Zenon DEF MemberType, EventsType
  <2> QED
    BY <1>1, <2>2, <2>3, Zenon DEF EventsType
<1>4. LocalType' /\ BusyType'
  <2>1. CASE ListInside(w)
    BY <1>1, <2>1, Zenon DEF ListInside, Goto, Labels, LocalType, BusyType, Busy
  <2>2. ASSUME NEW f \in Fences, LookUp(w, f) PROVE LocalType' /\ BusyType'
    <3>1. UNCHANGED <<pc, place, route, at, active, cur, mine>>
      BY <2>2, Zenon DEF LookUp
    <3>2. /\ lookup' = [lookup EXCEPT ![w] = @ \ {f}]
          /\ todo' = todo \/ todo' = [todo EXCEPT ![w] = @ \cup {f}]
      BY <2>2, Zenon DEF LookUp
    <3>3. LocalType'
      <4>1. lookup \in [Workers -> SUBSET Fences] /\ todo \in [Workers -> SUBSET Fences]
        BY <1>1, Zenon DEF LocalType
      <4>2. lookup' \in [Workers -> SUBSET Fences]
        BY <3>2, <4>1, Zenon
      <4>3. todo' \in [Workers -> SUBSET Fences]
        BY <2>2, <3>2, <4>1
      <4> QED
        BY <1>1, <3>1, <4>2, <4>3, Zenon DEF LocalType
    <3>4. BusyType'
      BY <1>1, <3>1, Zenon DEF BusyType, Busy
    <3> QED
      BY <3>3, <3>4, Zenon
  <2>3. ASSUME NEW f \in Fences, MissMembership(w, f) PROVE LocalType' /\ BusyType'
    BY <1>1, <2>3 DEF MissMembership, Evaluate, LocalType, BusyType, Busy
  <2> QED
    BY <2>1, <2>2, <2>3, Zenon
<1>5. WorldType' /\ MemberType' /\ LocalType' /\ EventsType' /\ WatchedType' /\ BusyType' => TypeOK'
  BY Zenon DEF TypeOK, WorldType, MemberType, LocalType, EventsType, WatchedType, BusyType, Busy, Time, Member
<1> QED
  BY <1>2, <1>3, <1>4, <1>5, Zenon

\* Steps of a worker that evaluate a fence.
LEMMA FenceType ==
  ASSUME TypeOK, NEW w \in Workers,
         NEW f \in Fences, SetInside(w, f) \/ ReadMembership(w, f)
  PROVE  TypeOK'
<1>1. WorldType /\ MemberType /\ LocalType /\ EventsType /\ WatchedType /\ BusyType
  BY TypeParts, Zenon
<1>2. WorldType' /\ EventsType'
  BY <1>1, Zenon DEF SetInside, ReadMembership, world, events, WorldType, EventsType
<1>3. Membership(None, None) \in Member
  BY <1>1, MembershipType, Zenon DEF Time
<1>4. MemberType'
  BY <1>1, <1>3, Zenon DEF SetInside, ReadMembership, MemberType
<1>5. WatchedType'
  <2>1. at[w] \in Times /\ clock \in Times
    BY <1>1, Zenon DEF LocalType, WorldType
  <2>2. WatchInside(w, f) \/ WatchOutside(w, f)
    BY Zenon DEF SetInside, ReadMembership
  <2> QED
    BY <1>1, <2>1, <2>2 DEF WatchInside, WatchOutside, WatchedType, Time
<1>6. LocalType' /\ BusyType'
  <2>1. todo[w] \ {f} \in SUBSET Fences
    BY <1>1, Zenon DEF LocalType
  <2>2. CASE SetInside(w, f)
    BY <1>1, <2>1, <2>2, Zenon DEF SetInside, Evaluate, Goto, Labels, LocalType, BusyType, Busy
  <2>3. CASE ReadMembership(w, f)
    <3>1. member[f] \in Member /\ at[w] \in Times
      BY <1>1, <2>3, Zenon DEF ReadMembership, Live, MemberType, LocalType
    <3>2. PICK m, since, label :
            /\ m = ExitReady(Outside(w, f), Policy(w, f), at[w], member[f])
            /\ since \in {at[w], m.pending}
            /\ label \in {"hold", "begin", "fences", "clear"}
            /\ mine' = [mine EXCEPT ![w] = [tolerance |-> m.tolerance, pending |-> since]]
            /\ Goto(w, label)
      <4> DEFINE m == ExitReady(Outside(w, f), Policy(w, f), at[w], member[f])
                 begun == m.ready /\ m.pending = None
                 since == IF begun THEN at[w] ELSE m.pending
                 label == IF ~m.ready THEN "hold"
                          ELSE IF begun THEN "begin"
                          ELSE IF at[w] - since < Policy(w, f).delay THEN "fences"
                          ELSE "clear"
      <4>1. /\ mine' = [mine EXCEPT ![w] = [tolerance |-> m.tolerance, pending |-> since]]
            /\ Goto(w, label)
        BY <2>3, Zenon DEF ReadMembership
      <4>2. since \in {at[w], m.pending} /\ label \in {"hold", "begin", "fences", "clear"}
        BY Zenon
      <4> HIDE DEF m, since, label
      <4> QED
        BY <4>1, <4>2, Zenon DEF m
    <3>3. m.tolerance \in Time /\ since \in Time
      BY <3>1, <3>2, ExitReadyType DEF Time
    <3>4. LocalType'
      <4>1. mine' \in [Workers -> [tolerance : Time, pending : Time]]
        BY <1>1, <3>2, <3>3, Zenon DEF LocalType
      <4>2. pc' \in [Workers -> Labels]
        BY <1>1, <3>2, Zenon DEF LocalType, Goto, Labels
      <4>3. /\ UNCHANGED <<place, route, at, active, lookup>>
            /\ todo' = [todo EXCEPT ![w] = @ \ {f}]
            /\ cur' = [cur EXCEPT ![w] = f]
        BY <2>3, Zenon DEF ReadMembership, Evaluate
      <4> QED
        BY <1>1, <2>1, <4>1, <4>2, <4>3, Zenon DEF LocalType
    <3>5. BusyType'
      BY <1>1, <2>3, Zenon DEF ReadMembership, Evaluate, Goto, LocalType, BusyType, Busy
    <3> QED
      BY <3>4, <3>5, Zenon
  <2> QED
    BY <2>2, <2>3, Zenon
<1>7. WorldType' /\ MemberType' /\ LocalType' /\ EventsType' /\ WatchedType' /\ BusyType' => TypeOK'
  BY Zenon DEF TypeOK, WorldType, MemberType, LocalType, EventsType, WatchedType, BusyType, Busy, Time, Member
<1> QED
  BY <1>2, <1>4, <1>5, <1>6, <1>7, Zenon

\* Steps of a worker with the fence it has evaluated.
LEMMA EffectType ==
  ASSUME TypeOK, NEW w \in Workers, WriteMembership(w) \/ ClearInside(w) \/ Emit(w)
  PROVE  TypeOK'
<1>1. WorldType /\ MemberType /\ LocalType /\ EventsType /\ WatchedType /\ BusyType
  BY TypeParts, Zenon
<1>2. WorldType' /\ WatchedType'
  BY <1>1, Zenon DEF WriteMembership, ClearInside, Emit, world, watched, WorldType, WatchedType
<1>3. MemberType'
  <2>1. Membership(mine[w].tolerance, mine[w].pending) \in Member
    BY <1>1, MembershipType, Zenon DEF LocalType
  <2> QED
    BY <1>1, <2>1, Zenon DEF WriteMembership, ClearInside, Emit, MemberType
<1>4. EventsType'
  <2>1. CASE Emit(w)
    <3>1. last' \in [Fences -> {"none", "entry", "exit"}]
      BY <1>1, <2>1, Zenon DEF Emit, EventsType
    <3>2. forgotten' \in [Fences -> BOOLEAN]
      BY <1>1, <2>1, Zenon DEF Emit, EventsType
    <3> QED
      BY <3>1, <3>2, Zenon DEF EventsType
  <2> QED
    BY <1>1, <2>1, Zenon DEF WriteMembership, ClearInside, events, EventsType
<1>5. LocalType' /\ BusyType'
  BY <1>1, Zenon DEF WriteMembership, ClearInside, Emit, local, Goto, Labels, LocalType, BusyType, Busy
<1>6. WorldType' /\ MemberType' /\ LocalType' /\ EventsType' /\ WatchedType' /\ BusyType' => TypeOK'
  BY Zenon DEF TypeOK, WorldType, MemberType, LocalType, EventsType, WatchedType, BusyType, Busy, Time, Member
<1> QED
  BY <1>2, <1>3, <1>4, <1>5, <1>6, Zenon

\* Steps of the rest of the hub.
Elsewhere == Tick \/ SweepExpired \/ ChangeFences \/ \E f \in Fences : DeleteProviderState(f)

\* The rest of the hub leaves every variable well typed.
LEMMA ElsewhereType ==
  ASSUME TypeOK, Elsewhere \/ UNCHANGED vars
  PROVE  TypeOK'
<1>1. WorldType /\ MemberType /\ LocalType /\ EventsType /\ WatchedType /\ BusyType
  BY TypeParts
<1>2. WorldType'
  <2>1. CASE Tick
    BY <1>1, <2>1, FenceAssumption DEF Tick, WorldType, Times
  <2>2. CASE ChangeFences
    BY <1>1, <2>2, Zenon DEF ChangeFences, WorldType
  <2>3. CASE UNCHANGED world
    BY <1>1, <2>3, Zenon DEF world, WorldType
  <2>4. Tick \/ ChangeFences \/ UNCHANGED world
    BY Zenon DEF Elsewhere, SweepExpired, DeleteProviderState, vars
  <2> QED
    BY <2>1, <2>2, <2>3, <2>4, Zenon
<1>3. LocalType' /\ WatchedType' /\ BusyType'
  BY <1>1, Zenon DEF Elsewhere, Tick, SweepExpired, ChangeFences, DeleteProviderState, vars, local, watched,
     LocalType, WatchedType, BusyType, Busy
<1>4. MemberType' /\ EventsType'
  <2>1. ((\E S : Lose(S)) \/ UNCHANGED <<member, forgotten>>) /\ last' = last
    BY Zenon DEF Elsewhere, Tick, SweepExpired, ChangeFences, DeleteProviderState, vars, events
  <2>2. MemberType' /\ forgotten' \in [Fences -> BOOLEAN]
    BY <1>1, <2>1, LoseType, Zenon DEF MemberType, EventsType
  <2> QED
    BY <1>1, <2>1, <2>2, Zenon DEF EventsType
<1>5. WorldType' /\ MemberType' /\ LocalType' /\ EventsType' /\ WatchedType' /\ BusyType' => TypeOK'
  BY Zenon DEF TypeOK, WorldType, MemberType, LocalType, EventsType, WatchedType, BusyType, Busy, Time, Member
<1> QED
  BY <1>2, <1>3, <1>4, <1>5, Zenon

\* Types hold in every state, for any number of workers.
THEOREM TypeCorrect == Spec => []TypeOK
<1>1. Init => TypeOK
  <2> SUFFICES ASSUME Init PROVE TypeOK
    OBVIOUS
  <2>1. WorldType /\ MemberType /\ EventsType
    BY NoneNoTime, Zenon DEF Init, WorldType, MemberType, EventsType
  <2>2. LocalType
    BY NoneNoTime DEF Init, LocalType, Labels, Time
  <2>3. WatchedType /\ BusyType
    BY NoneNoTime, Zenon DEF Init, WatchedType, BusyType, Busy, Time
  <2> QED
    BY <2>1, <2>2, <2>3, TypeParts
<1>2. TypeOK /\ [Next]_vars => TypeOK'
  BY QuietType, LossType, FenceType, EffectType, ElsewhereType, Zenon DEF Next, Step, Elsewhere
<1> QED
  BY <1>1, <1>2, PTL DEF Spec

-----------------------------------------------------------------------------
\* What the worker relies on while it evaluates a location: the fences it found
\* active have been announced as entered, the other ones have not or have been
\* forgotten, and nobody but itself announces anything.
WorkerInv(w) ==
  /\ lookup[w] \subseteq active[w]
  /\ pc[w] \in {"idle", "candidates", "list"} => active[w] = {}
  /\ Busy(w) => cur[w] \notin todo[w] /\ lookup[w] = {}
  /\ \A f \in todo[w] \cap active[w] : last[f] = "entry"
  /\ \A f \in lookup[w] : last[f] = "entry"
  /\ pc[w] = "fences" \/ Busy(w) =>
       \A f \in todo[w] \ active[w] : last[f] # "entry" \/ forgotten[f]
  /\ pc[w] \in {"hold", "begin", "clear", "exit"} => last[cur[w]] = "entry"
  /\ pc[w] = "entry" => last[cur[w]] # "entry" \/ forgotten[cur[w]]
  /\ pc[w] = "exit" => member[cur[w]] = None

EdgeInv == AnnouncedState /\ \A w \in Workers : WorkerInv(w)

\* EdgeInv for the only worker.
SoleInv(w) ==
  /\ \A f \in Fences : member[f] # None => last[f] = "entry" \/ (pc[w] = "entry" /\ cur[w] = f)
  /\ \A f \in Fences : last[f] = "entry" /\ ~forgotten[f] =>
                         member[f] # None \/ (pc[w] = "exit" /\ cur[w] = f)
  /\ WorkerInv(w)

\* With one worker, SoleInv is EdgeInv.
LEMMA SoleWorker ==
  ASSUME NEW w, Workers = {w}
  PROVE  (EdgeInv <=> SoleInv(w)) /\ (EdgeInv' <=> SoleInv(w)')
<1>1. \A f, kind : Announcing(f, kind) <=> pc[w] = kind /\ cur[w] = f
  BY DEF Announcing
<1>2. \A f, kind : Announcing(f, kind)' <=> pc'[w] = kind /\ cur'[w] = f
  BY DEF Announcing
<1>3. (\A v \in Workers : WorkerInv(v)) <=> WorkerInv(w)
  OBVIOUS
<1>4. (\A v \in Workers : WorkerInv(v))' <=> WorkerInv(w)'
  OBVIOUS
<1>5. EdgeInv <=> SoleInv(w)
  BY <1>1, <1>3, Zenon DEF EdgeInv, SoleInv, AnnouncedState
<1>6. EdgeInv' <=> SoleInv(w)'
  BY <1>2, <1>4, Zenon DEF EdgeInv, SoleInv, AnnouncedState
<1> QED
  BY <1>5, <1>6

\* Memberships dropped silently are forgotten.
LEMMA LoseEdges ==
  ASSUME TypeOK, NEW S, Lose(S)
  PROVE  /\ \A f \in Fences : member'[f] # None => member[f] # None
         /\ \A f \in Fences : ~forgotten'[f] => ~forgotten[f] /\ (member'[f] = None => member[f] = None)
         /\ \A f \in Fences : member[f] = None => member'[f] = None
BY Zenon DEF Lose, TypeOK

\* The worker starts, goes on to the next scope, or skips a fence.
LEMMA QuietEdges ==
  ASSUME TypeOK, NEW w \in Workers, SoleInv(w),
         \/ FindCandidates(w) \/ Finish(w)
         \/ \E f \in Fences : StayOutside(w, f)
         \/ \E p \in Places, r \in Routes : Begin(w, p, r)
  PROVE  SoleInv(w)'
<1>1. LocalType
  BY TypeParts, Zenon
<1>2. CASE FindCandidates(w)
  <2>1. PICK S : todo' = [todo EXCEPT ![w] = S]
    BY <1>2, Zenon DEF FindCandidates
  <2> QED
    BY <1>1, <1>2, <2>1, Zenon DEF FindCandidates, Goto, events, LocalType, SoleInv, WorkerInv, Busy
<1>3. CASE Finish(w)
  BY <1>1, <1>3, Zenon DEF Finish, Goto, events, LocalType, SoleInv, WorkerInv, Busy
<1>4. ASSUME NEW f \in Fences, StayOutside(w, f) PROVE SoleInv(w)'
  BY <1>1, <1>4, Zenon DEF StayOutside, Evaluate, events, LocalType, SoleInv, WorkerInv, Busy
<1>5. ASSUME NEW p \in Places, NEW r \in Routes, Begin(w, p, r) PROVE SoleInv(w)'
  BY <1>1, <1>5, Zenon DEF Begin, Goto, events, LocalType, SoleInv, WorkerInv, Busy
<1> QED
  BY <1>2, <1>3, <1>4, <1>5, Zenon

\* The worker drops memberships.
LEMMA LossEdges ==
  ASSUME TypeOK, NEW w \in Workers, SoleInv(w),
         ListInside(w) \/ \E f \in Fences : LookUp(w, f) \/ MissMembership(w, f)
  PROVE  SoleInv(w)'
<1>1. LocalType /\ EventsType
  BY TypeParts
<1>2. CASE ListInside(w)
  <2>1. /\ pc'[w] = "fences" /\ todo' = todo /\ last' = last
        /\ active'[w] = {f \in Fences : Live(f)}
        /\ lookup'[w] = {f \in Fences : Live(f)} \ todo[w]
    BY <1>1, <1>2, Zenon DEF ListInside, Goto, LocalType
  <2>2. \A f \in Fences : ~Live(f) => member'[f] = None
    BY <1>2, Zenon DEF ListInside, Lose, Expired
  <2>3. todo[w] \subseteq Fences
    BY <1>1, Zenon DEF LocalType
  <2>4. PICK S : Lose(S)
    BY <1>2, Zenon DEF ListInside
  <2>5. pc[w] = "list" /\ \A f \in Fences : Live(f) => member[f] # None
    BY <1>2, Zenon DEF ListInside, Live
  <2> QED
    BY <2>1, <2>2, <2>3, <2>4, <2>5, LoseEdges, Zenon DEF SoleInv, WorkerInv, Busy
<1>3. ASSUME NEW f \in Fences, LookUp(w, f) PROVE SoleInv(w)'
  <2>1. /\ pc[w] = "fences" /\ f \in lookup[w]
        /\ pc' = pc /\ active' = active /\ last' = last
        /\ lookup'[w] = lookup[w] \ {f}
        /\ todo'[w] = todo[w] \/ todo'[w] = todo[w] \cup {f}
    BY <1>1, <1>3, Zenon DEF LookUp, LocalType
  <2>2. (\E S : Lose(S)) \/ UNCHANGED <<member, forgotten>>
    BY <1>3, Zenon DEF LookUp
  <2>3. /\ \A g \in Fences : member'[g] # None => member[g] # None
        /\ \A g \in Fences : ~forgotten'[g] => ~forgotten[g] /\ (member'[g] = None => member[g] = None)
        /\ \A g \in Fences : member[g] = None => member'[g] = None
    BY <2>2, LoseEdges, Zenon
  <2>4. todo[w] \subseteq Fences
    BY <1>1, Zenon DEF LocalType
  <2> QED
    BY <2>1, <2>3, <2>4, Zenon DEF SoleInv, WorkerInv, Busy
<1>4. ASSUME NEW f \in Fences, MissMembership(w, f) PROVE SoleInv(w)'
  <2>1. /\ pc[w] = "fences"
        /\ pc' = pc /\ active' = active /\ last' = last /\ lookup' = lookup
        /\ todo'[w] = todo[w] \ {f}
    BY <1>1, <1>4 DEF MissMembership, Evaluate, LocalType
  <2>2. Lose({f})
    BY <1>4, Zenon DEF MissMembership
  <2>3. /\ \A g \in Fences : member'[g] # None => member[g] # None
        /\ \A g \in Fences : ~forgotten'[g] => ~forgotten[g] /\ (member'[g] = None => member[g] = None)
        /\ \A g \in Fences : member[g] = None => member'[g] = None
    BY <2>2, LoseEdges, Zenon
  <2>4. todo[w] \subseteq Fences
    BY <1>1, Zenon DEF LocalType
  <2> QED
    BY <2>1, <2>3, <2>4, Zenon DEF SoleInv, WorkerInv, Busy
<1> QED
  BY <1>2, <1>3, <1>4, Zenon

\* The worker evaluates a fence.
LEMMA FenceEdges ==
  ASSUME TypeOK, NEW w \in Workers, SoleInv(w),
         NEW f \in Fences, SetInside(w, f) \/ ReadMembership(w, f)
  PROVE  SoleInv(w)'
<1>1. LocalType /\ MemberType /\ EventsType
  BY TypeParts
<1>2. /\ pc[w] = "fences" /\ lookup[w] = {} /\ f \in todo[w]
      /\ todo'[w] = todo[w] \ {f} /\ cur'[w] = f
      /\ active' = active /\ lookup' = lookup /\ last' = last /\ forgotten' = forgotten
  BY <1>1, Zenon DEF SetInside, ReadMembership, Evaluate, events, LocalType
<1>3. CASE SetInside(w, f)
  <2>1. pc'[w] = IF f \in active[w] THEN "fences" ELSE "entry"
    BY <1>1, <1>3, Zenon DEF SetInside, Goto, LocalType
  <2>2. member' = [member EXCEPT ![f] = Membership(None, None)] /\ Membership(None, None) # None
    <3>1. Membership(None, None) \in Member
      BY MembershipType, TypeParts, Zenon DEF Time
    <3> QED
      BY <1>3, <3>1, NoneNoMember, Zenon DEF SetInside
  <2>3. \A g \in Fences : IF g = f THEN member'[g] # None ELSE member'[g] = member[g]
    BY <1>1, <2>2, Zenon DEF MemberType
  <2>4. WorkerInv(w)'
    BY <1>2, <2>1, Zenon DEF SoleInv, WorkerInv, Busy
  <2>5. /\ \A g \in Fences : member[g] # None => last[g] = "entry"
        /\ \A g \in Fences : last[g] = "entry" /\ ~forgotten[g] => member[g] # None
        /\ last[f] = "entry" \/ f \notin active[w]
    BY <1>2, Zenon DEF SoleInv, WorkerInv
  <2> QED
    BY <1>2, <2>1, <2>3, <2>4, <2>5, Zenon DEF SoleInv
<1>4. CASE ReadMembership(w, f)
  <2>1. pc'[w] \in {"fences", "hold", "begin", "clear"}
    BY <1>1, <1>4, Zenon DEF ReadMembership, Goto, LocalType
  <2>2. member' = member /\ f \in active[w]
    BY <1>4, Zenon DEF ReadMembership
  <2> QED
    BY <1>2, <2>1, <2>2, Zenon DEF SoleInv, WorkerInv, Busy
<1> QED
  BY <1>3, <1>4, Zenon

\* The worker acts on the fence it has evaluated.
LEMMA EffectEdges ==
  ASSUME TypeOK, NEW w \in Workers, SoleInv(w), WriteMembership(w) \/ ClearInside(w) \/ Emit(w)
  PROVE  SoleInv(w)'
<1>1. LocalType /\ MemberType /\ EventsType
  BY TypeParts
<1>2. Busy(w) /\ cur[w] \in Fences /\ UNCHANGED local
  BY TypeParts, Zenon DEF WriteMembership, ClearInside, Emit, Busy, BusyType, local
<1>3. CASE WriteMembership(w)
  <2>1. pc[w] \in {"hold", "begin"} /\ pc'[w] \in {"fences", "clear"} /\ UNCHANGED events
    BY <1>1, <1>3, Zenon DEF WriteMembership, Goto, LocalType
  <2>2. Membership(mine[w].tolerance, mine[w].pending) # None
    <3>1. mine[w].tolerance \in Time /\ mine[w].pending \in Time
      BY <1>1, Zenon DEF LocalType
    <3> QED
      BY <3>1, MembershipType, TypeParts, NoneNoMember, Zenon
  <2>3. \A g \in Fences : IF g = cur[w] THEN member'[g] # None ELSE member'[g] = member[g]
    BY <1>1, <1>3, <2>2, Zenon DEF WriteMembership, MemberType
  <2> QED
    BY <1>2, <2>1, <2>3, ZenonT(30) DEF SoleInv, WorkerInv, Busy, local, events
<1>4. CASE ClearInside(w)
  <2>1. pc[w] = "clear" /\ pc'[w] = "exit" /\ UNCHANGED events
    BY <1>1, <1>4, Zenon DEF ClearInside, Goto, LocalType
  <2>2. \A g \in Fences : member'[g] = IF g = cur[w] THEN None ELSE member[g]
    BY <1>1, <1>4, Zenon DEF ClearInside, MemberType
  <2> QED
    BY <1>2, <2>1, <2>2, ZenonT(30) DEF SoleInv, WorkerInv, Busy, local, events
<1>5. CASE Emit(w)
  <2>1. pc[w] \in {"entry", "exit"} /\ pc'[w] = "fences" /\ member' = member
    BY <1>1, <1>5, Zenon DEF Emit, Goto, LocalType
  <2>2. \A g \in Fences : last'[g] = IF g = cur[w] THEN pc[w] ELSE last[g]
    BY <1>1, <1>5, Zenon DEF Emit, EventsType
  <2>3. \A g \in Fences : IF g = cur[w] THEN forgotten'[g] <=> (pc[w] = "entry" /\ member[g] = None)
                                        ELSE forgotten'[g] = forgotten[g]
    BY <1>1, <1>5, Zenon DEF Emit, EventsType
  <2>4. todo[w] \subseteq Fences
    BY <1>1, Zenon DEF LocalType
  <2>5. WorkerInv(w)'
    <3>1. UNCHANGED <<active, lookup, todo, cur>> /\ cur[w] \notin todo[w] /\ lookup[w] = {}
      BY <1>2, Zenon DEF SoleInv, WorkerInv, local
    <3>2. \A g \in todo[w] : last'[g] = last[g] /\ forgotten'[g] = forgotten[g]
      BY <2>2, <2>3, <2>4, <3>1, Zenon
    <3> QED
      BY <1>2, <2>1, <3>1, <3>2 DEF SoleInv, WorkerInv, Busy
  <2>6. cur' = cur /\ (pc[w] = "exit" => member[cur[w]] = None)
    BY <1>2, Zenon DEF SoleInv, WorkerInv, local
  <2> QED
    BY <2>1, <2>2, <2>3, <2>5, <2>6, Zenon DEF SoleInv
<1> QED
  BY <1>3, <1>4, <1>5, Zenon

\* The rest of the hub only drops memberships.
LEMMA ElsewhereEdges ==
  ASSUME TypeOK, NEW w \in Workers, SoleInv(w), Elsewhere \/ UNCHANGED vars
  PROVE  SoleInv(w)'
<1>1. (\E S : Lose(S)) \/ UNCHANGED <<member, forgotten>>
  BY Zenon DEF Elsewhere, Tick, SweepExpired, ChangeFences, DeleteProviderState, vars, events
<1>2. /\ \A g \in Fences : member'[g] # None => member[g] # None
      /\ \A g \in Fences : ~forgotten'[g] => ~forgotten[g] /\ (member'[g] = None => member[g] = None)
      /\ \A g \in Fences : member[g] = None => member'[g] = None
  BY <1>1, LoseEdges, Zenon
<1>3. UNCHANGED <<pc, active, lookup, todo, cur, last>>
  BY Zenon DEF Elsewhere, Tick, SweepExpired, ChangeFences, DeleteProviderState, vars, events, local
<1>4. todo[w] \subseteq Fences /\ (Busy(w) => cur[w] \in Fences)
  BY TypeParts, Zenon DEF LocalType, BusyType
<1> QED
  BY <1>2, <1>3, <1>4, Zenon DEF SoleInv, WorkerInv, Busy

\* With one worker every step keeps what it relies on.
LEMMA EdgeStep ==
  ASSUME NEW w, Workers = {w}, TypeOK, EdgeInv, [Next]_vars
  PROVE  EdgeInv'
<1>1. w \in Workers /\ SoleInv(w)
  BY SoleWorker
<1>2. \/ Step(w) \/ \E p \in Places, r \in Routes : Begin(w, p, r)
      \/ Elsewhere \/ UNCHANGED vars
  BY Zenon DEF Next, Elsewhere
<1>3. SoleInv(w)'
  BY <1>1, <1>2, QuietEdges, LossEdges, FenceEdges, EffectEdges, ElsewhereEdges, Zenon DEF Step
<1> QED
  BY <1>3, SoleWorker

\* EdgeInv holds in every state, with one worker.
LEMMA EdgesInductive ==
  ASSUME NEW w, Workers = {w}
  PROVE  Spec => []EdgeInv
<1>1. Init => EdgeInv
  <2>1. Init => SoleInv(w)
    BY DEF Init, SoleInv, WorkerInv, Busy
  <2> QED
    BY <2>1, SoleWorker
<1>2. TypeOK /\ EdgeInv /\ [Next]_vars => EdgeInv'
  BY EdgeStep, Zenon
<1> QED
  BY <1>1, <1>2, TypeCorrect, PTL DEF Spec

\* When one worker gets all locations of a trackable, what subscribers were last
\* told of each fence agrees with its membership, whatever the clock, the sweeper,
\* the metadata and deletions of provider state do in between.
THEOREM StateAnnounced ==
  ASSUME NEW w, Workers = {w}
  PROVE  Spec => []AnnouncedState
<1>1. EdgeInv => AnnouncedState
  BY DEF EdgeInv
<1> QED
  BY <1>1, EdgesInductive, PTL

\* When one worker gets all locations of a trackable, its entries into and exits
\* from a fence alternate, up to memberships that were dropped silently.
THEOREM EntriesAndExitsAlternate ==
  ASSUME NEW w, Workers = {w}
  PROVE  Spec => EdgesAlternate
<1>1. EdgeInv => EmitAlternates
  BY Zenon DEF EdgeInv, WorkerInv, Emit, EmitAlternates
<1> QED
  BY <1>1, EdgesInductive, PTL DEF EdgesAlternate

-----------------------------------------------------------------------------
\* The history has been saying so since t, or longer.
NotAfter(since, t) == since # None /\ since <= t

\* What a membership remembers of a fence, the history remembers too.
Covers(f, m) ==
  /\ m.tolerance # None => NotAfter(outSince[f], m.tolerance)
  /\ m.pending # None => NotAfter(readySince[f], m.pending)

Watched(t) ==
  \A f \in Fences :
    /\ outSince[f] # None => outSince[f] <= t
    /\ readySince[f] # None => readySince[f] <= t

\* What an exit of the only worker rests on: the delay that a membership counts,
\* stored or in the worker's hands, is one that the history has seen.
DelayInv(w) ==
  /\ at[w] <= clock /\ Watched(clock)
  /\ pc[w] \notin {"idle", "candidates"} => Watched(at[w])
  /\ \A f \in Fences : member[f] # None =>
       Covers(f, member[f]) \/ (pc[w] \in {"hold", "begin"} /\ cur[w] = f)
  /\ pc[w] \in {"hold", "begin"} => Covers(cur[w], mine[w])
  /\ pc[w] = "begin" => mine[w].pending # None
  /\ pc[w] \in {"clear", "exit"} =>
       /\ readySince[cur[w]] # None
       /\ at[w] - readySince[cur[w]] >= Policy(w, cur[w]).delay

\* Settings on top of a policy make a policy.
LEMMA OverrideType ==
  ASSUME NEW policy, policy.delay \in Nat, policy.timeout \in Nat \cup {None}, NEW s \in Settings
  PROVE  Override(policy, s).delay \in Nat /\ Override(policy, s).timeout \in Nat \cup {None}
<1>1. /\ s.delay \in (Nat \ {0}) \cup {Unset, Disabled}
      /\ s.timeout \in (Nat \ {0}) \cup {Unset, Disabled}
  BY Zenon DEF Settings
<1> QED
  BY <1>1, Zenon DEF Override

\* An exit policy has a delay, and a timeout or none.
LEMMA PolicyType ==
  ASSUME NEW w \in Workers, NEW f \in Fences
  PROVE  Policy(w, f).delay \in Nat /\ Policy(w, f).timeout \in Nat \cup {None}
<1> DEFINE p0 == [tolerance |-> 0, timeout |-> None, delay |-> 0]
           p1 == Override(p0, FencePolicy[f])
           p2 == Override(p1, ProviderPolicy[w])
           p3 == Override(p2, TrackablePolicy)
<1>1. FencePolicy[f] \in Settings /\ ProviderPolicy[w] \in Settings /\ TrackablePolicy \in Settings
  BY FenceAssumption, Zenon
<1>2. p0.delay \in Nat /\ p0.timeout \in Nat \cup {None}
  BY Zenon
<1>3. Policy(w, f) = p3
  BY Zenon DEF Policy
<1> HIDE DEF p0
<1>4. p1.delay \in Nat /\ p1.timeout \in Nat \cup {None}
  BY <1>1, <1>2, OverrideType, Zenon
<1> HIDE DEF p1
<1>5. p2.delay \in Nat /\ p2.timeout \in Nat \cup {None}
  BY <1>1, <1>4, OverrideType, Zenon
<1> HIDE DEF p2
<1>6. p3.delay \in Nat /\ p3.timeout \in Nat \cup {None}
  BY <1>1, <1>5, OverrideType, Zenon
<1> QED
  BY <1>3, <1>6, Zenon

\* The fields of what exitReady returns.
LEMMA ExitReadyIs ==
  ASSUME NEW d, NEW policy, NEW now, NEW s
  PROVE  LET m == ExitReady(d, policy, now, s)
             started == IF s.tolerance = None THEN now ELSE s.tolerance
             r == policy.timeout # None /\ now - started >= policy.timeout
         IN /\ ~InBand(policy, d) => m.ready /\ m.tolerance = None /\ m.pending = s.pending
            /\ InBand(policy, d) =>
                 /\ m.ready <=> r
                 /\ m.tolerance = started
                 /\ m.pending = IF r THEN s.pending ELSE None
<1> DEFINE started == IF s.tolerance = None THEN now ELSE s.tolerance
           r == policy.timeout # None /\ now - started >= policy.timeout
<1>1. CASE ~InBand(policy, d)
  <2>1. ExitReady(d, policy, now, s) = [ready |-> TRUE, tolerance |-> None, pending |-> s.pending]
    BY <1>1, Zenon DEF ExitReady
  <2> QED
    BY <1>1, <2>1
<1>2. CASE InBand(policy, d)
  <2>1. ExitReady(d, policy, now, s) =
          [ready |-> r, tolerance |-> started, pending |-> IF r THEN s.pending ELSE None]
    BY <1>2, Zenon DEF ExitReady
  <2> HIDE DEF r, started
  <2>2. /\ ExitReady(d, policy, now, s).ready = r
        /\ ExitReady(d, policy, now, s).tolerance = started
        /\ ExitReady(d, policy, now, s).pending = IF r THEN s.pending ELSE None
    BY <2>1
  <2> QED
    BY <1>2, <2>2, Zenon DEF r, started
<1> QED
  BY <1>1, <1>2, Zenon

\* When exitReady says that the trackable is out, so does the history, and for as
\* long as the membership has been counting.
LEMMA ExitIsReady ==
  ASSUME TypeOK, NEW w \in Workers, NEW f \in Fences, member[f] # None,
         Covers(f, member[f]), Watched(at[w]), WatchOutside(w, f),
         NEW m, m = ExitReady(Outside(w, f), Policy(w, f), at[w], member[f])
  PROVE  /\ NotAfter(outSince'[f], at[w])
         /\ m.tolerance # None => NotAfter(outSince'[f], m.tolerance)
         /\ member[f].tolerance # None => NotAfter(outSince'[f], member[f].tolerance)
         /\ m.ready =>
              /\ NotAfter(readySince'[f], at[w]) /\ m.pending = member[f].pending
              /\ m.pending # None => NotAfter(readySince'[f], m.pending)
         /\ ~m.ready => m.pending = None
         /\ readySince'[f] # None => readySince'[f] <= at[w]
         /\ \A g \in Fences : g # f => outSince'[g] = outSince[g] /\ readySince'[g] = readySince[g]
<1> DEFINE t == at[w]
           s == member[f]
           band == InBand(Policy(w, f), Outside(w, f))
           timeout == Policy(w, f).timeout
           out == IF outSince[f] = None THEN t ELSE outSince[f]
           started == IF s.tolerance = None THEN t ELSE s.tolerance
           ready == ~band \/ (timeout # None /\ t - out >= timeout)
<1>1. /\ t \in Nat /\ s.tolerance \in Nat \cup {None} /\ s.pending \in Nat \cup {None}
      /\ outSince[f] \in Nat \cup {None} /\ readySince[f] \in Nat \cup {None}
      /\ outSince \in [Fences -> Time] /\ readySince \in [Fences -> Time]
      /\ None \notin Nat
  <2>1. s \in Member /\ t \in Times
    BY TypeParts, Zenon DEF MemberType, LocalType
  <2>2. Times \subseteq Nat /\ outSince \in [Fences -> Time] /\ readySince \in [Fences -> Time]
    BY TypeParts, NoneNoTime, Zenon DEF WatchedType
  <2>3. None \notin Nat
    BY FenceAssumption, Zenon
  <2>4. s.tolerance \in Time /\ s.pending \in Time /\ outSince[f] \in Time /\ readySince[f] \in Time
    BY <2>1, <2>2, Zenon DEF Member
  <2>5. Time \subseteq Nat \cup {None}
    BY <2>2, Zenon DEF Time
  <2> QED
    BY <2>1, <2>2, <2>3, <2>4, <2>5, Zenon
<1>2. timeout \in Nat \cup {None}
  BY PolicyType, Zenon
<1>3. /\ outSince' = [outSince EXCEPT ![f] = out]
      /\ readySince' = [readySince EXCEPT ![f] = IF ~ready THEN None
                                                 ELSE IF readySince[f] = None THEN t ELSE readySince[f]]
  BY Zenon DEF WatchOutside
<1>4. LET r == timeout # None /\ t - started >= timeout
      IN /\ ~band => m.ready /\ m.tolerance = None /\ m.pending = s.pending
         /\ band =>
              /\ m.ready <=> r
              /\ m.tolerance = started
              /\ m.pending = IF r THEN s.pending ELSE None
  <2> DEFINE e == ExitReady(Outside(w, f), Policy(w, f), t, s)
             r == timeout # None /\ t - started >= timeout
  <2>1. /\ ~band => e.ready /\ e.tolerance = None /\ e.pending = s.pending
        /\ band => /\ e.ready <=> r
                   /\ e.tolerance = started
                   /\ e.pending = IF r THEN s.pending ELSE None
    BY ExitReadyIs, Zenon
  <2>2. m = e
    BY Zenon
  <2> HIDE DEF e, r, band, started, s
  <2> QED
    BY <2>1, <2>2, Zenon DEF r
<1>5. /\ s.tolerance # None => outSince[f] # None /\ outSince[f] <= s.tolerance
      /\ s.pending # None => readySince[f] # None /\ readySince[f] <= s.pending
      /\ outSince[f] # None => outSince[f] <= t
      /\ readySince[f] # None => readySince[f] <= t
  BY Zenon DEF Covers, NotAfter, Watched
<1> HIDE DEF band, timeout, s, t
<1>6. out \in Nat /\ out <= t /\ (s.tolerance # None => out <= s.tolerance)
  BY <1>1, <1>5
<1>7. started \in Nat /\ out <= started
  BY <1>1, <1>6, Zenon
<1>8. m.ready => ready
  <2>1. timeout # None /\ t - started >= timeout => t - out >= timeout
    BY <1>1, <1>2, <1>6, <1>7
  <2>2. band => (m.ready <=> timeout # None /\ t - started >= timeout)
    BY <1>4, Zenon
  <2> QED
    BY <2>1, <2>2, Zenon
<1>9. outSince'[f] = out /\ readySince'[f] = (IF ~ready THEN None
                                  ELSE IF readySince[f] = None THEN t ELSE readySince[f])
  BY <1>1, <1>3, Zenon
<1>10. \A g \in Fences : g # f => outSince'[g] = outSince[g] /\ readySince'[g] = readySince[g]
  BY <1>1, <1>3, Zenon
<1> HIDE DEF out, started, ready
<1>11. /\ ~m.ready => m.pending = None
       /\ m.ready => m.pending = s.pending
       /\ m.tolerance = None \/ m.tolerance = started
  BY <1>4, Zenon
<1>12. NotAfter(out, t) /\ NotAfter(out, started) /\ (s.tolerance # None => NotAfter(out, s.tolerance))
  BY <1>1, <1>6, <1>7, Zenon DEF NotAfter
<1> DEFINE old == readySince[f]
           new == readySince'[f]
           p == s.pending
<1>13. new = None \/ (new \in Nat /\ new <= t /\ (old # None => new = old))
  <2>1. old \in Nat \cup {None} /\ (old # None => old <= t) /\ t \in Nat /\ t <= t
    BY <1>1, <1>5
  <2>2. new = None \/ (old = None /\ new = t) \/ (old # None /\ new = old)
    BY <1>9, Zenon
  <2> QED
    BY <2>1, <2>2, Zenon
<1>14. m.ready => new # None
  BY <1>1, <1>8, <1>9, Zenon
<1>15. p # None => old # None /\ old <= p
  BY <1>5, Zenon
<1> HIDE DEF old, new, p
<1>16. m.ready => NotAfter(new, t) /\ (p # None => NotAfter(new, p))
  BY <1>13, <1>14, <1>15, Zenon DEF NotAfter
<1>17. new # None => new <= t
  BY <1>13, Zenon
<1> QED
  BY <1>9, <1>10, <1>11, <1>12, <1>16, <1>17, Zenon DEF s, t, new, p

\* What was seen by a time was seen by every later one.
LEMMA WatchedLater ==
  ASSUME TypeOK, NEW s \in Times, NEW t \in Times, s <= t, Watched(s)
  PROVE  Watched(t)
<1> SUFFICES ASSUME NEW f \in Fences
             PROVE  /\ outSince[f] # None => outSince[f] <= t
                    /\ readySince[f] # None => readySince[f] <= t
  BY Zenon DEF Watched
<1>1. /\ outSince[f] # None => outSince[f] \in Nat /\ outSince[f] <= s
      /\ readySince[f] # None => readySince[f] \in Nat /\ readySince[f] <= s
  BY TypeParts, NoneNoTime, Zenon DEF WatchedType, Time, Watched
<1>2. s \in Nat /\ t \in Nat
  BY NoneNoTime, Zenon
<1> QED
  BY <1>1, <1>2

\* The types after a step, in parts.
LEMMA TypedNext ==
  TypeOK' => WorldType' /\ MemberType' /\ LocalType' /\ EventsType' /\ WatchedType' /\ BusyType'
BY Zenon DEF TypeOK, WorldType, MemberType, LocalType, EventsType, WatchedType, BusyType, Busy, Time, Member

\* Memberships are dropped, and nothing else happens that matters to an exit.
LEMMA DropDelay ==
  ASSUME NEW w \in Workers, DelayInv(w),
         \A f \in Fences : member'[f] = None \/ member'[f] = member[f],
         UNCHANGED <<at, outSince, readySince, clock>>,
         UNCHANGED <<pc, cur, mine>> \/ (pc[w] \in {"list", "fences"} /\ pc'[w] = "fences")
  PROVE  DelayInv(w)'
<1>1. \A t : Watched(t)' <=> Watched(t)
  BY Zenon DEF Watched
<1>2. \A f, m : Covers(f, m)' <=> Covers(f, m)
  BY Zenon DEF Covers
<1> QED
  BY <1>1, <1>2, Zenon DEF DelayInv

\* The worker starts, goes on to the next scope, or skips a fence.
LEMMA QuietDelay ==
  ASSUME TypeOK, NEW w \in Workers, DelayInv(w),
         \/ FindCandidates(w) \/ Finish(w)
         \/ \E f \in Fences : StayOutside(w, f)
         \/ \E p \in Places, r \in Routes : Begin(w, p, r)
  PROVE  DelayInv(w)'
<1>1. LocalType /\ WorldType
  BY TypeParts, Zenon
<1>2. /\ UNCHANGED <<clock, member, outSince, readySince>>
      /\ pc[w] \notin {"hold", "begin", "clear", "exit"}
  BY Zenon DEF FindCandidates, Finish, StayOutside, Begin, Evaluate, world, watched
<1>3. \A t : Watched(t)' <=> Watched(t)
  BY <1>2, Zenon DEF Watched
<1>4. \A f, m : Covers(f, m)' <=> Covers(f, m)
  BY <1>2, Zenon DEF Covers
<1> DEFINE Ready == /\ pc'[w] \in {"idle", "candidates", "list", "fences"}
                    /\ at'[w] <= clock
                    /\ pc'[w] \notin {"idle", "candidates"} => Watched(at'[w])
<1>5. Ready
  <2>1. CASE FindCandidates(w)
    <3>1. pc'[w] = "list" /\ at'[w] = clock
      BY <1>1, <2>1, Zenon DEF FindCandidates, Goto, LocalType
    <3>2. clock <= clock
      BY <1>1 DEF WorldType, Times
    <3> QED
      BY <3>1, <3>2, Zenon DEF DelayInv
  <2>2. CASE Finish(w)
    <3>1. pc'[w] \in {"idle", "candidates"} /\ at'[w] = 0
      BY <1>1, <2>2, Zenon DEF Finish, Goto, LocalType
    <3>2. 0 <= clock
      BY <1>1 DEF WorldType, Times
    <3> QED
      BY <3>1, <3>2, Zenon
  <2>3. ASSUME NEW f \in Fences, StayOutside(w, f) PROVE Ready
    BY <2>3, Zenon DEF StayOutside, Evaluate, DelayInv
  <2>4. ASSUME NEW p \in Places, NEW r \in Routes, Begin(w, p, r) PROVE Ready
    <3>1. pc'[w] = "candidates" /\ at' = at
      BY <1>1, <2>4, Zenon DEF Begin, Goto, LocalType
    <3> QED
      BY <3>1, Zenon DEF DelayInv
  <2> QED
    BY <2>1, <2>2, <2>3, <2>4, Zenon
<1> QED
  BY <1>2, <1>3, <1>4, <1>5, Zenon DEF DelayInv

\* The worker drops memberships.
LEMMA LossDelay ==
  ASSUME TypeOK, NEW w \in Workers, DelayInv(w),
         ListInside(w) \/ \E f \in Fences : LookUp(w, f) \/ MissMembership(w, f)
  PROVE  DelayInv(w)'
<1>1. \A f \in Fences : member'[f] = None \/ member'[f] = member[f]
  BY Zenon DEF ListInside, LookUp, MissMembership, Lose
<1>2. UNCHANGED <<at, outSince, readySince, clock>>
  BY Zenon DEF ListInside, LookUp, MissMembership, Evaluate, watched, world
<1>3. pc[w] \in {"list", "fences"} /\ pc'[w] = "fences"
  BY TypeParts, Zenon DEF ListInside, LookUp, MissMembership, Evaluate, Goto, LocalType
<1> QED
  BY <1>1, <1>2, <1>3, DropDelay, Zenon

\* A location inside starts everything afresh.
LEMMA InsideDelay ==
  ASSUME TypeOK, NEW w \in Workers, DelayInv(w), NEW f \in Fences, SetInside(w, f)
  PROVE  DelayInv(w)'
<1>1. LocalType /\ MemberType /\ WatchedType
  BY TypeParts, Zenon
<1>2. /\ pc[w] = "fences" /\ pc'[w] \in {"fences", "entry"}
      /\ UNCHANGED <<at, clock>>
      /\ member' = [member EXCEPT ![f] = Membership(None, None)]
      /\ outSince' = [outSince EXCEPT ![f] = None] /\ readySince' = [readySince EXCEPT ![f] = None]
  BY <1>1, Zenon DEF SetInside, Evaluate, WatchInside, Goto, LocalType, world
<1>3. Membership(None, None).tolerance = None /\ Membership(None, None).pending = None
  BY Zenon DEF Membership
<1>4. /\ member'[f].tolerance = None /\ member'[f].pending = None
      /\ \A g \in Fences \ {f} : member'[g] = member[g]
  BY <1>1, <1>2, <1>3, Zenon DEF MemberType
<1>5. /\ outSince'[f] = None /\ readySince'[f] = None
      /\ \A g \in Fences \ {f} : outSince'[g] = outSince[g] /\ readySince'[g] = readySince[g]
  BY <1>1, <1>2, Zenon DEF WatchedType
<1>6. \A t : Watched(t) => Watched(t)'
  BY <1>5, Zenon DEF Watched
<1>7. \A g \in Fences : member'[g] # None => Covers(g, member[g])' \/ g = f
  BY <1>2, <1>4, <1>5, Zenon DEF Covers, DelayInv
<1>8. Covers(f, member[f])'
  BY <1>4, Zenon DEF Covers
<1> QED
  BY <1>2, <1>6, <1>7, <1>8, Zenon DEF DelayInv

\* A location outside: the worker reads the membership and decides.
LEMMA ReadDelay ==
  ASSUME TypeOK, NEW w \in Workers, DelayInv(w), NEW f \in Fences, ReadMembership(w, f)
  PROVE  DelayInv(w)'
<1> DEFINE m == ExitReady(Outside(w, f), Policy(w, f), at[w], member[f])
           begun == m.ready /\ m.pending = None
           since == IF begun THEN at[w] ELSE m.pending
           delay == Policy(w, f).delay
<1>1. LocalType /\ MemberType /\ WatchedType /\ WorldType
  BY TypeParts, Zenon
<1>2. /\ pc[w] = "fences" /\ cur'[w] = f /\ UNCHANGED <<at, clock, member>>
      /\ mine'[w] = [tolerance |-> m.tolerance, pending |-> since]
      /\ pc'[w] = IF ~m.ready THEN "hold" ELSE IF begun THEN "begin"
                  ELSE IF at[w] - since < delay THEN "fences" ELSE "clear"
      /\ WatchOutside(w, f) /\ member[f] # None
  BY <1>1, Zenon DEF ReadMembership, Evaluate, Live, Goto, LocalType, world
<1>3. Covers(f, member[f]) /\ Watched(at[w]) /\ Watched(clock)
  BY <1>2, Zenon DEF DelayInv
<1>4. /\ NotAfter(outSince'[f], at[w])
      /\ m.tolerance # None => NotAfter(outSince'[f], m.tolerance)
      /\ member[f].tolerance # None => NotAfter(outSince'[f], member[f].tolerance)
      /\ m.ready =>
           /\ NotAfter(readySince'[f], at[w]) /\ m.pending = member[f].pending
           /\ m.pending # None => NotAfter(readySince'[f], m.pending)
      /\ ~m.ready => m.pending = None
      /\ readySince'[f] # None => readySince'[f] <= at[w]
      /\ \A g \in Fences : g # f => outSince'[g] = outSince[g] /\ readySince'[g] = readySince[g]
  BY <1>2, <1>3, ExitIsReady, Zenon
<1> HIDE DEF m
<1>5. mine'[w].tolerance = m.tolerance /\ mine'[w].pending = since
  BY <1>2
<1>6. at[w] \in Nat /\ clock \in Nat /\ at[w] <= clock /\ None \notin Nat /\ delay \in Nat
  <2>1. Times \subseteq Nat /\ at[w] \in Times /\ clock \in Times /\ None \notin Nat
    BY <1>1, NoneNoTime, FenceAssumption, Zenon DEF LocalType, WorldType
  <2> QED
    BY <2>1, PolicyType, Zenon DEF DelayInv
<1>7. Watched(at[w])' /\ Watched(clock)'
  <2>1. Watched(at[w])'
    BY <1>2, <1>3, <1>4, Zenon DEF Watched, NotAfter
  <2>2. /\ outSince'[f] # None => outSince'[f] \in Nat /\ outSince'[f] <= at[w]
        /\ readySince'[f] # None => readySince'[f] \in Nat /\ readySince'[f] <= at[w]
    <3>1. WatchedType'
      BY FenceType, TypedNext, Zenon
    <3> QED
      BY <1>4, <3>1, NoneNoTime, Zenon DEF WatchedType, Time, NotAfter
  <2>3. /\ outSince'[f] # None => outSince'[f] <= clock
        /\ readySince'[f] # None => readySince'[f] <= clock
    BY <1>6, <2>2
  <2>4. Watched(clock)'
    BY <1>2, <1>3, <1>4, <2>3, Zenon DEF Watched
  <2> QED
    BY <2>1, <2>4, Zenon
<1>8. \A g \in Fences : member'[g] # None => Covers(g, member[g])' \/ g = f
  BY <1>2, <1>4, Zenon DEF Covers, DelayInv
<1>9. pc'[w] \in {"fences", "clear"} => Covers(f, member[f])'
  BY <1>2, <1>4, Zenon DEF Covers
<1>10. pc'[w] \in {"hold", "begin"} => Covers(f, mine[w])'
  BY <1>2, <1>4, <1>5, <1>6, Zenon DEF Covers
<1>11. pc'[w] = "begin" => mine'[w].pending # None
  BY <1>2, <1>5, <1>6, Zenon
<1>12. pc'[w] = "clear" => readySince'[f] # None /\ at[w] - readySince'[f] >= delay
  <2> SUFFICES ASSUME pc'[w] = "clear" PROVE readySince'[f] # None /\ at[w] - readySince'[f] >= delay
    BY Zenon
  <2>1. NotAfter(readySince'[f], since) /\ ~(at[w] - since < delay) /\ m.ready /\ m.pending = since
    BY <1>2, <1>4, Zenon
  <2>2. since \in Nat /\ readySince'[f] \in Nat
    <3>1. since \in Time /\ since # None
      <4>1. member[f] \in Member
        BY <1>1, <1>2, Zenon DEF MemberType
      <4> QED
        BY <1>1, <1>2, <1>4, <2>1, <4>1, Zenon DEF Member
    <3>2. readySince'[f] \in Time /\ readySince'[f] # None
      BY <2>1, FenceType, TypedNext, Zenon DEF WatchedType, NotAfter
    <3> QED
      BY <3>1, <3>2, NoneNoTime, Zenon DEF Time
  <2> QED
    BY <1>6, <2>1, <2>2 DEF NotAfter
<1> QED
  BY <1>2, <1>6, <1>7, <1>8, <1>9, <1>10, <1>11, <1>12, Zenon DEF DelayInv

\* The worker acts on the fence it has evaluated.
LEMMA EffectDelay ==
  ASSUME TypeOK, NEW w \in Workers, DelayInv(w), WriteMembership(w) \/ ClearInside(w) \/ Emit(w)
  PROVE  DelayInv(w)'
<1>1. LocalType /\ MemberType /\ WatchedType
  BY TypeParts, Zenon
<1>2. cur[w] \in Fences /\ UNCHANGED <<at, cur, mine, clock, outSince, readySince>>
  BY TypeParts, Zenon DEF WriteMembership, ClearInside, Emit, Busy, BusyType, local, world, watched
<1>3. (\A t : Watched(t)' <=> Watched(t)) /\ (\A f, m : Covers(f, m)' <=> Covers(f, m))
  BY <1>2, Zenon DEF Watched, Covers
<1>4. CASE WriteMembership(w)
  <2> DEFINE new == Membership(mine[w].tolerance, mine[w].pending)
  <2>1. /\ pc[w] \in {"hold", "begin"}
        /\ pc'[w] = IF pc[w] = "begin" /\ Policy(w, cur[w]).delay = 0 THEN "clear" ELSE "fences"
        /\ \A g \in Fences : member'[g] = IF g = cur[w] THEN new ELSE member[g]
    BY <1>1, <1>2, <1>4, Zenon DEF WriteMembership, Goto, LocalType, MemberType
  <2>2. new.tolerance = mine[w].tolerance /\ new.pending = mine[w].pending
    BY Zenon DEF Membership
  <2> HIDE DEF new
  <2>3. Covers(cur[w], new)
    BY <2>1, <2>2, Zenon DEF DelayInv, Covers
  <2>4. \A g \in Fences : member'[g] # None => Covers(g, member'[g])
    BY <2>1, <2>3, Zenon DEF DelayInv
  <2>5. pc'[w] = "clear" => /\ readySince[cur[w]] # None
                            /\ at[w] - readySince[cur[w]] >= Policy(w, cur[w]).delay
    <3> SUFFICES ASSUME pc'[w] = "clear"
                 PROVE  readySince[cur[w]] # None /\ at[w] - readySince[cur[w]] >= Policy(w, cur[w]).delay
      BY Zenon
    <3>1. pc[w] = "begin" /\ Policy(w, cur[w]).delay = 0
      BY <2>1, Zenon
    <3>2. NotAfter(readySince[cur[w]], mine[w].pending) /\ Watched(at[w])
      BY <3>1, Zenon DEF DelayInv, Covers
    <3>3. readySince[cur[w]] # None /\ readySince[cur[w]] <= at[w]
      BY <1>2, <3>2, Zenon DEF NotAfter, Watched
    <3>4. readySince[cur[w]] \in Nat /\ at[w] \in Nat
      BY <1>1, <1>2, <3>3, NoneNoTime, Zenon DEF WatchedType, LocalType, Time
    <3> QED
      BY <3>1, <3>3, <3>4
  <2> QED
    BY <1>2, <1>3, <2>1, <2>4, <2>5, Zenon DEF DelayInv
<1>5. CASE ClearInside(w)
  <2>1. /\ pc[w] = "clear" /\ pc'[w] = "exit"
        /\ \A g \in Fences : member'[g] = None \/ member'[g] = member[g]
    BY <1>1, <1>5, Zenon DEF ClearInside, Goto, LocalType, MemberType
  <2> QED
    BY <1>2, <1>3, <2>1, Zenon DEF DelayInv
<1>6. CASE Emit(w)
  <2>1. pc[w] \in {"entry", "exit"} /\ pc'[w] = "fences" /\ member' = member
    BY <1>1, <1>6, Zenon DEF Emit, Goto, LocalType
  <2> QED
    BY <1>2, <1>3, <2>1, Zenon DEF DelayInv
<1> QED
  BY <1>4, <1>5, <1>6

\* The rest of the hub drops memberships, and time passes.
LEMMA ElsewhereDelay ==
  ASSUME TypeOK, NEW w \in Workers, DelayInv(w), Elsewhere \/ UNCHANGED vars
  PROVE  DelayInv(w)'
<1>1. UNCHANGED <<pc, at, cur, mine, outSince, readySince>>
  BY Zenon DEF Elsewhere, Tick, SweepExpired, ChangeFences, DeleteProviderState, vars, local, watched
<1>2. \A f \in Fences : member'[f] = None \/ member'[f] = member[f]
  BY Zenon DEF Elsewhere, Tick, SweepExpired, ChangeFences, DeleteProviderState, vars, Lose
<1>3. CASE Tick
  <2>1. clock' = clock + 1 /\ clock \in Nat /\ at[w] \in Nat /\ at[w] <= clock
    BY <1>3, TypeParts, NoneNoTime, Zenon DEF Tick, DelayInv, WorldType, LocalType
  <2>2. at[w] <= clock' /\ clock <= clock'
    BY <2>1
  <2>3. clock \in Times /\ clock' \in Times
    BY TypeParts, TypedNext, ElsewhereType, Zenon DEF WorldType
  <2>4. Watched(clock')
    BY <2>2, <2>3, WatchedLater, Zenon DEF DelayInv
  <2>5. (\A t : Watched(t)' <=> Watched(t)) /\ (\A f, m : Covers(f, m)' <=> Covers(f, m))
    BY <1>1, Zenon DEF Watched, Covers
  <2> QED
    BY <1>1, <1>2, <2>2, <2>4, <2>5, Zenon DEF DelayInv
<1>4. CASE ~Tick
  <2>1. clock' = clock
    BY <1>4, Zenon DEF Elsewhere, SweepExpired, ChangeFences, DeleteProviderState, vars, world
  <2> QED
    BY <1>1, <1>2, <2>1, DropDelay, Zenon
<1> QED
  BY <1>3, <1>4

\* With one worker every step keeps what an exit rests on.
LEMMA DelayInductive ==
  ASSUME NEW w, Workers = {w}
  PROVE  Spec => []DelayInv(w)
<1>1. Init => DelayInv(w)
  <2> SUFFICES ASSUME Init PROVE DelayInv(w)
    OBVIOUS
  <2>1. /\ clock = 0 /\ at[w] = 0 /\ pc[w] = "idle"
        /\ \A f \in Fences : member[f] = None /\ outSince[f] = None /\ readySince[f] = None
    BY Zenon DEF Init
  <2> QED
    BY <2>1 DEF DelayInv, Watched
<1>2. TypeOK /\ DelayInv(w) /\ [Next]_vars => DelayInv(w)'
  <2> SUFFICES ASSUME TypeOK, DelayInv(w), [Next]_vars PROVE DelayInv(w)'
    BY Zenon
  <2>1. w \in Workers
    OBVIOUS
  <2>2. CASE Elsewhere \/ UNCHANGED vars
    BY <2>1, <2>2, ElsewhereDelay, Zenon
  <2>3. CASE Step(w)
    BY <2>1, <2>3, QuietDelay, LossDelay, InsideDelay, ReadDelay, EffectDelay, Zenon DEF Step
  <2>4. ASSUME NEW p \in Places, NEW r \in Routes, Begin(w, p, r) PROVE DelayInv(w)'
    BY <2>1, <2>4, QuietDelay, Zenon
  <2> QED
    BY <2>2, <2>3, <2>4, Zenon DEF Next, Elsewhere
<1> QED
  BY <1>1, <1>2, TypeCorrect, PTL DEF Spec

\* When one worker gets all locations of a trackable, an exit is announced only
\* when the whole history of the exit delay called for it: memberships dropped and
\* taken up again, tolerance timers and fences that come and go never shorten it.
THEOREM ExitsDebounced ==
  ASSUME NEW w, Workers = {w}
  PROVE  Spec => ExitDebounced
<1>1. DelayInv(w) => ExitWasDue
  <2>1. \A v \in Workers : v = w
    OBVIOUS
  <2> QED
    BY <2>1, Zenon DEF DelayInv, ExitWasDue
<1> QED
  BY <1>1, DelayInductive, PTL DEF ExitDebounced

=============================================================================
