---------------------------- MODULE MetadataCache ---------------------------
(***************************************************************************)
(* Hub metadata: the rows in Postgres, the in-memory snapshot that the hot *)
(* path reads (src/internal/hub/metadata_cache.go), the CRUD handlers that *)
(* write both, and the background loop that reloads the rows               *)
(* (src/internal/hub/service.go).                                          *)
(*                                                                         *)
(* A request handler writes its row, then the snapshot, then notifies, and *)
(* holds no lock from one to the next.  The reconcile loop reads the four  *)
(* tables one after the other without a transaction or the cache's lock,   *)
(* and only then replaces the snapshot.                                    *)
(***************************************************************************)
EXTENDS Naturals, Sequences

CONSTANTS
  Clients,     \* request handlers
  Zones,       \* ids of zones
  Trackables,  \* ids of trackables
  Others,      \* ids of fences and location providers: no index by reference
  Docs,        \* documents; the signature of a document stands for itself
  DocsOf,      \* DocsOf[r]: the documents that resource r may have
  Refs,        \* foreign ids of zones and provider ids of trackables
  RefsOf,      \* RefsOf[d]: the ones that document d names
  NoDoc,       \* no document
  LoadOrder,   \* the tables, in the order in which a load lists them
  MaxWrites    \* bound: writes that may be started

Resources == Zones \cup Trackables \cup Others
Operations == {"create", "update", "delete"}

ASSUME MetadataAssumption ==
  /\ Zones \cap Trackables = {}
  /\ DocsOf \in [Resources -> SUBSET Docs]
  /\ RefsOf \in [Docs -> SUBSET Refs]
  /\ NoDoc \notin Docs \cup Resources
  /\ LoadOrder \in Seq(SUBSET Resources)
  /\ UNION {LoadOrder[i] : i \in 1..Len(LoadOrder)} = Resources
  /\ MaxWrites \in Nat

VARIABLES
  db,          \* the rows: a document, or NoDoc, for every resource
  docs,        \* the snapshot's maps by id, with the signatures
  byForeign,   \* zonesByForeignID: a zone and the copy of its document
  byProvider,  \* trackablesByProviderID: trackables and copies of theirs
  handlerPc,   \* where each request handler is ...
  req,         \* ... and what it was asked for
  writes,      \* how many writes were started
  loopPc,      \* where the reconcile loop is
  next,        \* the documents it has loaded
  loaded,      \* how many tables it has listed
  dirty,       \* history: a row changed since the load began
  changes,     \* the differences it has still to notify
  drifted,     \* history: a row changed behind the cache's back
  view         \* a subscriber that reads the cache at each notification

rows         == <<db, dirty, drifted>>
snapshot     == <<docs, byForeign, byProvider>>
handlers     == <<handlerPc, req, writes>>
loop         == <<loopPc, next, loaded, changes>>
metadataVars == <<rows, snapshot, handlers, loop, view>>

Entry(r, d) == [id |-> r, doc |-> d]

NoEntry == Entry(NoDoc, NoDoc)

NoRequest == [op |-> "none", id |-> NoDoc, doc |-> NoDoc]

NoDocs == [r \in Resources |-> NoDoc]

\* The zones, or trackables, that refer to x according to the documents f.
Referring(S, f, x) == {r \in S : f[r] # NoDoc /\ x \in RefsOf[f[r]]}

-----------------------------------------------------------------------------
(* The snapshot *)

\* newMetadataSnapshot builds the indexes from the rows; of two zones with the
\* same foreign id the one listed last wins.
ForeignIndexes(f) ==
  {index \in [Refs -> {NoEntry} \cup {Entry(z, f[z]) : z \in Zones}] :
     \A x \in Refs : index[x] \in IF Referring(Zones, f, x) = {} THEN {NoEntry}
                                  ELSE {Entry(z, f[z]) : z \in Referring(Zones, f, x)}}

ProviderIndex(f) == [x \in Refs |-> {Entry(t, f[t]) : t \in Referring(Trackables, f, x)}]

\* Mutant of ForeignUpsert: the zone's old foreign id is kept.
ForeignUpsertKeeps(index, z, d) ==
  [x \in Refs |-> IF d # NoDoc /\ x \in RefsOf[d] THEN Entry(z, d) ELSE index[x]]

\* UpsertZone and DeleteZone: drop what the foreign index has on the zone, then
\* enter its new foreign id.
ForeignUpsert(index, z, d) ==
  [x \in Refs |-> IF d # NoDoc /\ x \in RefsOf[d] THEN Entry(z, d)
                  ELSE IF index[x].id = z THEN NoEntry
                  ELSE index[x]]

\* UpsertTrackable and DeleteTrackable, for every provider.
ProviderUpsert(index, t, d) ==
  [x \in Refs |-> {e \in index[x] : e.id # t}
                    \cup (IF d # NoDoc /\ x \in RefsOf[d] THEN {Entry(t, d)} ELSE {})]

\* The Upsert and Delete methods; d is NoDoc for the latter.
SetDoc(r, d) ==
  /\ docs' = [docs EXCEPT ![r] = d]
  /\ byForeign' = IF r \in Zones THEN ForeignUpsert(byForeign, r, d) ELSE byForeign
  /\ byProvider' = IF r \in Trackables THEN ProviderUpsert(byProvider, r, d) ELSE byProvider

\* What the tables, and a snapshot of them, can hold.
Tables == {f \in [Resources -> Docs \cup {NoDoc}] :
             \A r \in Resources : f[r] \in DocsOf[r] \cup {NoDoc}}

InitMetadata ==
  /\ db \in Tables
  /\ docs = db
  /\ byForeign \in ForeignIndexes(db)
  /\ byProvider = ProviderIndex(db)
  /\ handlerPc = [c \in Clients |-> "idle"]
  /\ req = [c \in Clients |-> NoRequest]
  /\ writes = 0
  /\ loopPc = "idle" /\ next = NoDocs /\ loaded = 0 /\ changes = {}
  /\ dirty = FALSE /\ drifted = FALSE
  /\ view = db

-----------------------------------------------------------------------------
(* Create, Update and Delete of a zone, fence, trackable or provider *)

\* A request whose body has been validated.
Request(c, op, r, d) ==
  /\ handlerPc[c] = "idle"
  /\ writes < MaxWrites
  /\ d \in IF op = "delete" THEN {NoDoc} ELSE DocsOf[r]
  /\ handlerPc' = [handlerPc EXCEPT ![c] = "write"]
  /\ req' = [req EXCEPT ![c] = [op |-> op, id |-> r, doc |-> d]]
  /\ writes' = writes + 1
  /\ UNCHANGED <<rows, snapshot, loop, view>>

\* The statement affects a row: an insert needs a free id, the others need one.
Affects(q) == q.op = "create" <=> db[q.id] = NoDoc

\* Any write of a row, by this hub or another program.
WriteRow(r, d) ==
  /\ db' = [db EXCEPT ![r] = d]
  /\ dirty' = (loopPc = "load")

DbWrite(c) ==
  /\ handlerPc[c] = "write"
  /\ Affects(req[c])
  /\ WriteRow(req[c].id, req[c].doc)
  /\ handlerPc' = [handlerPc EXCEPT ![c] = "cache"]
  /\ UNCHANGED <<drifted, snapshot, req, writes, loop, view>>

\* The handler returns.
Return(c) ==
  /\ handlerPc' = [handlerPc EXCEPT ![c] = "idle"]
  /\ req' = [req EXCEPT ![c] = NoRequest]
  /\ UNCHANGED writes

\* Conflict, not found, or the database failed before doing anything.
DbReject(c) ==
  /\ handlerPc[c] = "write"
  /\ Return(c)
  /\ UNCHANGED <<rows, snapshot, loop, view>>

\* The statement took effect, but the handler gets an error and returns it.
DbUnacknowledged(c) ==
  /\ handlerPc[c] = "write"
  /\ Affects(req[c])
  /\ WriteRow(req[c].id, req[c].doc)
  /\ drifted' = TRUE
  /\ Return(c)
  /\ UNCHANGED <<snapshot, loop, view>>

CacheWrite(c) ==
  /\ handlerPc[c] = "cache"
  /\ SetDoc(req[c].id, req[c].doc)
  /\ handlerPc' = [handlerPc EXCEPT ![c] = "notify"]
  /\ UNCHANGED <<rows, req, writes, loop, view>>

\* emitMetadataChange: a subscriber reacts by reading the resource.
Notify(c) ==
  /\ handlerPc[c] = "notify"
  /\ view' = [view EXCEPT ![req[c].id] = docs[req[c].id]]
  /\ Return(c)
  /\ UNCHANGED <<rows, snapshot, loop>>

\* Another program changes a row.
OutOfBand(r, d) ==
  /\ writes < MaxWrites
  /\ d \in DocsOf[r] \cup {NoDoc}
  /\ WriteRow(r, d)
  /\ drifted' = TRUE
  /\ writes' = writes + 1
  /\ UNCHANGED <<snapshot, handlerPc, req, loop, view>>

-----------------------------------------------------------------------------
(* The reconcile loop *)

Tick ==
  /\ loopPc = "idle"
  /\ loopPc' = "load"
  /\ UNCHANGED <<rows, snapshot, handlers, next, loaded, changes, view>>

\* loadMetadataSnapshot lists the next table.
LoadTable ==
  /\ loopPc = "load"
  /\ loaded < Len(LoadOrder)
  /\ next' = [r \in Resources |-> IF r \in LoadOrder[loaded + 1] THEN db[r] ELSE next[r]]
  /\ loaded' = loaded + 1
  /\ UNCHANGED <<rows, snapshot, handlers, loopPc, changes, view>>

\* The loaded documents are local to one call of Reconcile.
Forget ==
  /\ next' = NoDocs
  /\ loaded' = 0
  /\ dirty' = FALSE

\* A query fails, and the snapshot stays as it is.
LoadFails ==
  /\ loopPc = "load"
  /\ loaded < Len(LoadOrder)
  /\ loopPc' = "idle"
  /\ Forget
  /\ UNCHANGED <<db, drifted, snapshot, handlers, changes, view>>

\* Mutant of Difference: resources that are gone are not reported.
DifferenceForward(from, to) ==
  {[id |-> r, op |-> IF from[r] = NoDoc THEN "create" ELSE "update"] :
     r \in {x \in Resources : to[x] # NoDoc /\ from[x] # to[x]}}

\* diffSignatures of the current and the loaded documents.
Difference(from, to) ==
  {[id |-> r, op |-> IF from[r] = NoDoc THEN "create" ELSE "update"] :
     r \in {x \in Resources : to[x] # NoDoc /\ from[x] # to[x]}}
  \cup
  {[id |-> r, op |-> "delete"] : r \in {x \in Resources : from[x] # NoDoc /\ to[x] = NoDoc}}

\* Mutant of Install: the loaded documents are merged into the snapshot.
InstallMerges ==
  /\ loopPc = "load"
  /\ loaded = Len(LoadOrder)
  /\ LET merged == [r \in Resources |-> IF next[r] = NoDoc THEN docs[r] ELSE next[r]]
     IN /\ changes' = Difference(docs, merged)
        /\ docs' = merged
        /\ byForeign' \in ForeignIndexes(merged)
        /\ byProvider' = ProviderIndex(merged)
  /\ loopPc' = "notify"
  /\ Forget
  /\ UNCHANGED <<db, drifted, handlers, view>>

\* The critical section of Reconcile.
Install ==
  /\ loopPc = "load"
  /\ loaded = Len(LoadOrder)
  /\ changes' = Difference(docs, next)
  /\ docs' = next
  /\ byForeign' \in ForeignIndexes(next)
  /\ byProvider' = ProviderIndex(next)
  /\ loopPc' = "notify"
  /\ Forget
  /\ UNCHANGED <<db, drifted, handlers, view>>

NotifyChange ==
  /\ loopPc = "notify"
  /\ \E ch \in changes :
       /\ changes' = changes \ {ch}
       /\ view' = [view EXCEPT ![ch.id] = docs[ch.id]]
  /\ UNCHANGED <<rows, snapshot, handlers, loopPc, next, loaded>>

Reconciled ==
  /\ loopPc = "notify"
  /\ changes = {}
  /\ loopPc' = "idle"
  /\ UNCHANGED <<rows, snapshot, handlers, next, loaded, changes, view>>

-----------------------------------------------------------------------------

Handle(c) == DbWrite(c) \/ DbReject(c) \/ DbUnacknowledged(c) \/ CacheWrite(c) \/ Notify(c)

Reconcile == Tick \/ LoadTable \/ LoadFails \/ Install \/ NotifyChange \/ Reconciled

HandlerNext ==
  \E c \in Clients :
    \/ Handle(c)
    \/ \E op \in Operations, r \in Resources, d \in Docs \cup {NoDoc} : Request(c, op, r, d)

MetadataNext ==
  \/ HandlerNext
  \/ \E r \in Resources, d \in Docs \cup {NoDoc} : OutOfBand(r, d)
  \/ Reconcile

MetadataSpec == InitMetadata /\ [][MetadataNext]_metadataVars

\* Handlers and the loop run to their end, the ticker keeps ticking, and the
\* database does not fail at the same table of every load.
Fairness ==
  /\ \A c \in Clients : WF_metadataVars(Handle(c))
  /\ WF_metadataVars(Tick \/ Install \/ NotifyChange \/ Reconciled)
  /\ \A n \in 1..Len(LoadOrder) : SF_metadataVars(LoadTable /\ loaded = n - 1)

FairMetadataSpec == MetadataSpec /\ Fairness
-----------------------------------------------------------------------------
(* Properties *)

Requests == {q \in [op : Operations, id : Resources, doc : Docs \cup {NoDoc}] :
               q.doc \in DocsOf[q.id] \cup {NoDoc}}

\* Every variable has its type: rows and snapshot hold only documents of the
\* resource, and the indexes no empty entries.
MetadataTypeOK ==
  /\ db \in Tables /\ docs \in Tables /\ next \in Tables /\ view \in Tables
  /\ byForeign \in [Refs -> [id : Zones, doc : Docs] \cup {NoEntry}]
  /\ byProvider \in [Refs -> SUBSET [id : Trackables, doc : Docs]]
  /\ handlerPc \in [Clients -> {"idle", "write", "cache", "notify"}]
  /\ req \in [Clients -> Requests \cup {NoRequest}]
  /\ \A c \in Clients : handlerPc[c] # "idle" => req[c] \in Requests
  /\ writes \in 0..MaxWrites
  /\ loopPc \in {"idle", "load", "notify"} /\ loaded \in 0..Len(LoadOrder)
  /\ changes \in SUBSET [id : Resources, op : Operations]
  /\ dirty \in BOOLEAN /\ drifted \in BOOLEAN

\* The index by provider, maintained step by step by the CRUD methods, is always
\* the one newMetadataSnapshot would build from the documents.
ProviderIndexExact == byProvider = ProviderIndex(docs)

\* Only documents of one zone name the foreign id.
Exclusive(x) ==
  \A z1, z2 \in Zones : (\E d \in DocsOf[z1] : x \in RefsOf[d]) /\ (\E d \in DocsOf[z2] : x \in RefsOf[d])
                           => z1 = z2

\* A lookup by foreign id never yields a deleted zone or an old document, and
\* finds the zone when no other zone ever uses the same foreign id.
ForeignIndexSound ==
  \A x \in Refs :
    /\ byForeign[x] # NoEntry =>
         byForeign[x] \in {Entry(z, docs[z]) : z \in Referring(Zones, docs, x)}
    /\ Exclusive(x) /\ Referring(Zones, docs, x) # {} => byForeign[x] # NoEntry

\* The two indexes the CRUD methods patch in place agree with the documents,
\* however edits, deletions and reloads follow one another.
IndexesAgree == ProviderIndexExact /\ ForeignIndexSound

\* Every change of the snapshot is followed by a notification: where a
\* subscriber's knowledge differs from the cache, a handler or the loop has still
\* to notify the resource.
NoSilentChange ==
  \A r \in Resources : view[r] # docs[r] =>
    \/ \E c \in Clients : handlerPc[c] = "notify" /\ req[c].id = r
    \/ \E ch \in changes : ch.id = r

\* A reload during which no row changes installs exactly the rows.
ReloadExact == [][Install /\ ~dirty => docs' = db]_metadataVars

\* Once writes stop the cache, and a subscriber, end up with the rows, whatever
\* was lost to races, failures and writes of other programs.
Converges == <>[](docs = db /\ view = db)

\* With no request in progress and no outside write, the cache has the rows.
ReadYourWrites ==
  ~drifted /\ (\A c \in Clients : handlerPc[c] = "idle") => docs = db
=============================================================================
