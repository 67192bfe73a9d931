---------------------------- MODULE GlobalSettings ----------------------------
(***************************************************************************)
(* The global settings as the rest of the program has them, and what       *)
(* SettingsRepository promises of them: the store, the copy in memory that *)
(* getSnapshot() returns and listeners are given, and the queue of updates.*)
(* How reads and writes of the store bring this about is left to           *)
(* SettingsRepository.                                                     *)
(***************************************************************************)
EXTENDS Naturals, Sequences

CONSTANTS
  Settings,      \* values of the settings, after migration
  Default,       \* migrateGlobalSettings({})
  Updates,       \* updaters
  Effect,        \* Effect[u][s]: what updater u makes of s, Throws if it throws
  Throws,
  Retries,       \* length of the table of retry delays
  MaxRevision,   \* Number.MAX_SAFE_INTEGER
  MaxCalls       \* bound on updates waiting

ASSUME SettingsAssumption ==
  /\ Default \in Settings /\ Throws \notin Settings
  /\ Effect \in [Updates -> [Settings -> Settings \cup {Throws}]]
ASSUME RepositoryAssumption == Retries \in Nat /\ MaxRevision \in Nat /\ MaxCalls \in Nat

VARIABLES
  store,         \* what is stored, and whether in a form migration would change
  waiting,       \* updates called and not settled
  cached,        \* settings
  status,        \* status
  emitted,       \* the snapshot last given to the listeners
  answer         \* how the last update was settled

(* What a read of the store gives. *)
Stored == [settings |-> store.settings, revision |-> store.revision]

-----------------------------------------------------------------------------
(* Properties.                                                              *)

(* While the base is known the copy in memory, and what the listeners have  *)
(* last been given, is what the store holds, however reads and writes fail. *)
SnapshotTrue ==
  /\ emitted = <<cached, status>>
  /\ status.baseKnown => cached = Stored

(* Updates take effect in order, wholly or not at all, on the settings the  *)
(* update before them left, and are answered accordingly.                   *)
Serial == INSTANCE SerialSettings
          WITH settings <- store.settings, revision <- store.revision, calls <- waiting

UpdatesSerial == Serial!Spec
=============================================================================
