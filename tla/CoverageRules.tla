----------------------------- MODULE CoverageRules -----------------------------
(***************************************************************************)
(* The data that the publication pipeline shares: which acquisition rows   *)
(* can exist, what the normalised content of each one amounts to, and when *)
(* a batch of capability coverage may be attached to a publication.        *)
(*                                                                         *)
(* An acquisition stands for one row of source_admin.acquisition, that is  *)
(* for one value of its unique key (source_id, raw_checksum,               *)
(* normalization_schema_version).  A publication is named by the           *)
(* acquisition it was made from: acquisition_id is UNIQUE in               *)
(* source_admin.publication.                                               *)
(***************************************************************************)
EXTENDS Integers, Sequences, FiniteSets

CONSTANTS
  Sources,       \* source ids of the catalog
  Acqs,          \* acquisition rows that can come to exist
  SourceOf,      \* Acqs -> Sources
  VersionOf,     \* Acqs -> dataset_version (data_as_of and checksum prefix)
  RowsOf,        \* Acqs -> raw_row_count
  CapsOf,        \* Sources -> capabilities CAPABILITY_SOURCE_IDS binds to it
  IntroSources,  \* the sources activated by snapshot completeness alone
  SnapshotCap,   \* "opening_hours_snapshot_ready"
  HoursCap,      \* "opening_hours_ready"
  WholeScope,    \* region JEJU_ALL, grid ALL, no service dates
  Scopes,        \* region, grid and service dates of a coverage record
  Batches,       \* the batches of coverage records an importer measures
  NoPub          \* no active publication (no active_snapshot row)

Caps == (UNION {CapsOf[s] : s \in Sources}) \cup {SnapshotCap, HoursCap}

\* A coverage record; ready says coverage_ratio = 1 and no blocking reason.
CoverageRow == [cap : Caps, scope : Scopes, ready : BOOLEAN]

ASSUME CatalogAssumption ==
  /\ SourceOf \in [Acqs -> Sources]
  /\ RowsOf \in [Acqs -> Nat]
  /\ IntroSources \subseteq Sources
  /\ WholeScope \in Scopes
  /\ Batches \subseteq (SUBSET CoverageRow) \ {{}}
  /\ NoPub \notin Acqs

AcqStatus ==
  {"ABSENT", "INCOMPLETE", "ACQUIRED", "QUALITY_FAILED", "VALIDATED",
   "STAGED", "NO_CHANGE", "PUBLISHED"}

\* One activation_event row of a source.
ActivationEvent == [prev : Acqs \cup {NoPub}, pub : Acqs]

\* validate_coverage_source: a capability only on a source it is bound to.
BoundToSource(s, rows) == \A r \in rows : r.cap \in CapsOf[s]

\* Mutant: a batch without any snapshot record passes.
ReadyWithoutSnapshot(s, rows) ==
  /\ BoundToSource(s, rows)
  /\ \A r \in rows : s \notin IntroSources \/ r.cap = SnapshotCap => r.ready

\* validate_activation_coverage: a place-intro publication needs exactly one
\* complete, unscoped snapshot record and keeps the accuracy records as a
\* quality measure; every other publication needs all its records ready.
ReadyToActivate(s, rows) ==
  /\ BoundToSource(s, rows)
  /\ IF s \in IntroSources
     THEN \E r \in rows :
            /\ r.cap = SnapshotCap /\ r.ready /\ r.scope = WholeScope
            /\ \A q \in rows : q.cap = SnapshotCap => q = r
     ELSE \A r \in rows : r.ready

\* _validate_appended_coverage
ReadyToAppend(s, rows) ==
  /\ BoundToSource(s, rows)
  /\ \/ s \in IntroSources /\ \A r \in rows : r.cap = HoursCap
     \/ \A r \in rows : r.ready

\* source_coverage_identity_unique: one record for a publication, capability and
\* scope, within the batch and against what is stored.
SameIdentity(r, q) == r.cap = q.cap /\ r.scope = q.scope
Clashes(rows, stored) ==
  \/ \E r \in rows, q \in stored : SameIdentity(r, q)
  \/ \E r, q \in rows : r # q /\ SameIdentity(r, q)
================================================================================
