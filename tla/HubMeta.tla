------------------------------ MODULE HubMeta ------------------------------
(***************************************************************************)
(* The identity of a hub (internal/hubmeta): the single row that processes *)
(* starting on the same database read, create, compare their settings with *)
(* and, when told to, overwrite.  Each database call is a step, and any of *)
(* them may fail, before or after it has had its effect.                   *)
(*                                                                         *)
(* Identifiers and labels are numbers, 0 standing for an empty setting;    *)
(* generated identifiers come after the configured ones.  HUB_ID may be    *)
(* written in any form that uuid.Parse accepts, the row is always read in  *)
(* the canonical one.                                                      *)
(***************************************************************************)
EXTENDS Naturals, FiniteSets

CONSTANTS
    Processes,      \* hub processes that use the database
    FirstGenerated  \* configured identifiers are below it

ASSUME HubMetaAssumption == FirstGenerated \in Nat \ {0}

(* HUB_ID, whether it is written in the canonical form, HUB_LABEL and      *)
(* RESET_HUB_ID of a process.                                              *)
MetaConfigs == [id : Nat, canonical : BOOLEAN, label : Nat, reset : BOOLEAN]
NoMetaConfig == [id |-> 0, canonical |-> TRUE, label |-> 0, reset |-> FALSE]

NoRow    == [id |-> 0, label |-> 0]
HostName == 1

VARIABLES
    row,        \* the hub_metadata row
    generated,  \* identifiers generated and stored so far
    resets,     \* overwrites of the row so far
    meta,       \* process -> its progress through Resolve
    identities  \* history: <<resets, identity>> of every Resolve that ended well

metaVars == <<row, generated, resets, meta, identities>>

(* cfg is what the process was configured with, seen the row it read.      *)
NoMeta == [pc |-> "off", cfg |-> NoMetaConfig, seen |-> NoRow]

InitMeta ==
    /\ row = NoRow
    /\ generated = 0
    /\ resets = 0
    /\ meta = [p \in Processes |-> NoMeta]
    /\ identities = {}

Resolve(p, cfg) ==
    /\ meta' = [meta EXCEPT ![p] = [pc |-> "get", cfg |-> cfg, seen |-> NoRow]]
    /\ UNCHANGED <<row, generated, resets, identities>>

Resolved(p, identity, number) ==
    /\ meta' = [meta EXCEPT ![p] = [@ EXCEPT !.pc = "resolved", !.seen = identity]]
    /\ identities' = identities \cup {<<number, identity>>}

Failed(p) ==
    /\ meta' = [meta EXCEPT ![p].pc = "failed"]
    /\ UNCHANGED identities

(* A configured value, or what there is.                                   *)
Or(value, default) == IF value # 0 THEN value ELSE default

(* alignExisting up to its first database call.  Identifiers are compared  *)
(* as they are written.                                                    *)
Unconfigured(cfg) == cfg.id = 0 /\ cfg.label = 0
Agrees(cfg, stored) == /\ cfg.id # 0 => cfg.canonical /\ cfg.id = stored.id
                       /\ cfg.label # 0 => cfg.label = stored.label

GetHubMetadata(p) ==
    /\ meta[p].pc = "get"
    /\ IF row = NoRow
         THEN /\ meta' = [meta EXCEPT ![p].pc = "create"]
              /\ UNCHANGED identities
       ELSE IF \/ Unconfigured(meta[p].cfg)
               \/ ~meta[p].cfg.reset /\ Agrees(meta[p].cfg, row)
         THEN Resolved(p, row, resets)
       ELSE /\ meta' = [meta EXCEPT ![p] = [@ EXCEPT !.seen = row,
                   !.pc = IF meta[p].cfg.reset THEN "update" ELSE "failed"]]
            /\ UNCHANGED identities
    /\ UNCHANGED <<row, generated, resets>>

InitialRow(cfg) ==
    [id |-> Or(cfg.id, FirstGenerated + generated), label |-> Or(cfg.label, HostName)]

(* The row written whether or not there is one by now.                     *)
CreateUpsert(p) ==
    /\ meta[p].pc = "create"
    /\ row' = InitialRow(meta[p].cfg)
    /\ Resolved(p, InitialRow(meta[p].cfg), resets)
    /\ generated' = generated + (IF meta[p].cfg.id = 0 THEN 1 ELSE 0)
    /\ UNCHANGED resets

(* createInitial: the insert fails on the primary key when another process *)
(* has created the row since; otherwise the row is there, and the process  *)
(* gets to know or does not.                                               *)
CreateHubMetadata(p) ==
    /\ meta[p].pc = "create"
    /\ IF row = NoRow
         THEN /\ row' = InitialRow(meta[p].cfg)
              /\ generated' = generated + (IF meta[p].cfg.id = 0 THEN 1 ELSE 0)
              /\ Resolved(p, InitialRow(meta[p].cfg), resets) \/ Failed(p)
         ELSE Failed(p) /\ UNCHANGED <<row, generated>>
    /\ UNCHANGED resets

(* The overwrite of RESET_HUB_ID, with the fields that are not configured  *)
(* as they were read.                                                      *)
UpdatedRow(cfg, seen) ==
    [id |-> Or(cfg.id, seen.id), label |-> Or(cfg.label, seen.label)]

UpdateHubMetadata(p) ==
    /\ meta[p].pc = "update"
    /\ row' = UpdatedRow(meta[p].cfg, meta[p].seen)
    /\ \/ Resolved(p, UpdatedRow(meta[p].cfg, meta[p].seen), resets + 1)
       \/ Failed(p)
    /\ resets' = resets + 1
    /\ UNCHANGED generated

(* A database call fails and has had no effect.                            *)
MetaFails(p) ==
    /\ meta[p].pc \in {"get", "create", "update"}
    /\ Failed(p)
    /\ UNCHANGED <<row, generated, resets>>

ResolveStep(p) ==
    \/ GetHubMetadata(p) \/ CreateHubMetadata(p) \/ UpdateHubMetadata(p) \/ MetaFails(p)

(* The process ends, and with it what it knew.                             *)
Forget(p) ==
    /\ meta' = [meta EXCEPT ![p] = NoMeta]
    /\ UNCHANGED <<row, generated, resets, identities>>

-----------------------------------------------------------------------------
(* Between two overwrites every process that starts gets the same          *)
(* identity, however the starts, failures and restarts interleave          *)
(* (hubmeta.Resolve; docs/configuration.md: the stored row is the source   *)
(* of truth).                                                              *)
OneIdentity == \A x, y \in identities : x[1] = y[1] => x[2] = y[2]

(* A process that starts has the identifier and the label it was           *)
(* configured with, if it was: a mismatch never goes unnoticed             *)
(* (alignExisting).                                                        *)
Carries(identity, cfg) == /\ identity.id = Or(cfg.id, identity.id)
                          /\ identity.label = Or(cfg.label, identity.label)

ConfiguredIdentity ==
    \A p \in Processes : meta[p].pc = "resolved" => Carries(meta[p].seen, meta[p].cfg)

(* That only values that disagree with the stored row make a start fail    *)
(* (docs/configuration.md: startup fails if supplied values disagree with  *)
(* the stored row).  It does not hold: an identifier that is not written   *)
(* in the canonical form does not match the row it was stored in.          *)
RefusedOnlyOnMismatch ==
    \A p \in Processes :
        meta[p].pc = "failed" /\ ~meta[p].cfg.reset /\ meta[p].seen # NoRow =>
            ~Carries(meta[p].seen, meta[p].cfg)

(* The processes on one database are one hub, and the one that was         *)
(* configured (hubmeta.Resolve).                                           *)
RightIdentity == OneIdentity /\ ConfiguredIdentity
=============================================================================
