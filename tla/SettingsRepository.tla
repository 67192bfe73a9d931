-------------------------- MODULE SettingsRepository --------------------------
(***************************************************************************)
(* The global settings and their copy in memory, as kept by class          *)
(* SettingsRepository (src/src/settings/settings-repository.ts) over a     *)
(* store that has only get and set.  Every writer of the program uses the  *)
(* one repository; a set that fails is taken to have stored nothing.       *)
(*                                                                         *)
(* An action is one attempt to read or write the store, with all that      *)
(* follows it in the same turn.  The delay before the next attempt is part *)
(* of the failed one.                                                      *)
(***************************************************************************)
EXTENDS GlobalSettings

VARIABLES
  phase,         \* what is under way
  attempt,       \* failed attempts of it
  base           \* the settings read for the update under way

vars == <<store, waiting, phase, attempt, base, cached, status, emitted, answer>>

Phases == {"new", "initial read", "initial write", "idle", "read", "write", "migrate"}
Contents == [settings : Settings, revision : Nat]
Statuses == [baseKnown : BOOLEAN, degraded : BOOLEAN]
Snapshots == Contents \X Statuses
Files == [settings : Settings, revision : Nat, legacy : BOOLEAN]
Known == [baseKnown |-> TRUE, degraded |-> FALSE]
Degraded(known) == [baseKnown |-> known, degraded |-> TRUE]

Init ==
  /\ store \in [settings : Settings, revision : {0}, legacy : BOOLEAN]
  /\ waiting = <<>> /\ phase = "new" /\ attempt = 0
  /\ cached = [settings |-> Default, revision |-> 0] /\ base = cached
  /\ status = [baseKnown |-> FALSE, degraded |-> FALSE]
  /\ emitted = <<cached, status>> /\ answer = "none"

-----------------------------------------------------------------------------
(* Parts of handlers.                                                       *)

(* replaceState and emit, which the code skips when nothing has changed.    *)
Replace(m, st) == cached' = m /\ status' = st /\ emitted' = <<m, st>>

(* attempt(): the operation under way is tried again, or given up.          *)
Again == attempt < Retries /\ attempt' = attempt + 1 /\ UNCHANGED <<waiting, phase, base, answer>>
Exhausted == attempt = Retries

Begin(next) == phase' = next /\ attempt' = 0

(* The update under way is settled, and the next one of updateTail may run. *)
Answer(a) == waiting' = Tail(waiting) /\ answer' = a /\ Begin("idle")

-----------------------------------------------------------------------------
(* initialize, called once.                                                 *)

Initialize ==
  /\ phase = "new"
  /\ Begin("initial read")
  /\ UNCHANGED <<store, waiting, base, cached, status, emitted, answer>>

InitialRead ==
  /\ phase = "initial read"
  /\ Replace(Stored, Known)
  /\ base' = Stored
  /\ Begin(IF store.legacy THEN "initial write" ELSE "idle")
  /\ UNCHANGED <<store, waiting, answer>>

InitialReadFails ==
  /\ phase = "initial read"
  /\ \/ Again /\ UNCHANGED <<cached, status, emitted>>
     \/ /\ Exhausted
        /\ Replace(cached, Degraded(FALSE))
        /\ Begin("idle") /\ UNCHANGED <<waiting, base, answer>>
  /\ UNCHANGED store

InitialWrite ==
  /\ phase = "initial write"
  /\ store' = [settings |-> base.settings, revision |-> base.revision, legacy |-> FALSE]
  /\ Begin("idle")
  /\ UNCHANGED <<waiting, base, cached, status, emitted, answer>>

InitialWriteFails ==
  /\ phase = "initial write"
  /\ \/ Again /\ UNCHANGED <<cached, status, emitted>>
     \/ /\ Exhausted
        /\ Replace(cached, Degraded(TRUE))
        /\ Begin("idle") /\ UNCHANGED <<waiting, base, answer>>
  /\ UNCHANGED store

-----------------------------------------------------------------------------
(* update and applyUpdate.                                                  *)

Update(u) ==
  /\ Len(waiting) < MaxCalls
  /\ waiting' = Append(waiting, u)
  /\ UNCHANGED <<store, phase, attempt, base, cached, status, emitted, answer>>

StartUpdate ==
  /\ phase = "idle" /\ waiting # <<>>
  /\ Begin("read")
  /\ UNCHANGED <<store, waiting, base, cached, status, emitted, answer>>

(* Mutant: an update is applied to the copy in memory. *)
LatestFromMemory == cached

(* What readWithRetry gives to applyUpdate. *)
Latest == Stored

(* The store is read, and the updater run on what it has.                   *)
ReadForUpdate ==
  LET u == Head(waiting)
      result == Effect[u][Latest.settings]
  IN  /\ phase = "read"
      /\ base' = Latest
      /\ \/ /\ result = Throws
            /\ Answer("failed") /\ UNCHANGED <<cached, status, emitted>>
         \/ /\ result = Latest.settings /\ store.legacy
            /\ Begin("migrate") /\ UNCHANGED <<waiting, answer, cached, status, emitted>>
         \/ /\ result = Latest.settings /\ ~store.legacy
            /\ Replace(Latest, Known) /\ Answer("done")
         \/ /\ result \notin {Throws, Latest.settings} /\ Latest.revision >= MaxRevision
            /\ Answer("failed") /\ UNCHANGED <<cached, status, emitted>>
         \/ /\ result \notin {Throws, Latest.settings} /\ Latest.revision < MaxRevision
            /\ Begin("write") /\ UNCHANGED <<waiting, answer, cached, status, emitted>>
      /\ UNCHANGED store

ReadForUpdateFails ==
  /\ phase = "read"
  /\ \/ Again /\ UNCHANGED <<cached, status, emitted>>
     \/ Exhausted /\ Replace(cached, Degraded(FALSE)) /\ Answer("failed") /\ UNCHANGED base
  /\ UNCHANGED store

(* The candidate of the update under way. *)
Candidate ==
  [settings |-> Effect[Head(waiting)][base.settings], revision |-> base.revision + 1]

Write(content) ==
  /\ store' = [settings |-> content.settings, revision |-> content.revision, legacy |-> FALSE]
  /\ Replace(content, Known) /\ Answer("done")
  /\ UNCHANGED base

WriteUpdate == phase = "write" /\ Write(Candidate)

(* The update changed nothing, but the store is in an old form. *)
WriteMigrated == phase = "migrate" /\ Write(base)

(* Mutant: a write that failed leaves the new settings in memory. *)
WriteFailsAhead ==
  /\ phase \in {"write", "migrate"}
  /\ \/ Again /\ UNCHANGED <<cached, status, emitted>>
     \/ /\ Exhausted
        /\ Replace(IF phase = "write" THEN Candidate ELSE base, Degraded(TRUE))
        /\ Answer("failed") /\ UNCHANGED base
  /\ UNCHANGED store

WriteFails ==
  /\ phase \in {"write", "migrate"}
  /\ \/ Again /\ UNCHANGED <<cached, status, emitted>>
     \/ Exhausted /\ Replace(base, Degraded(TRUE)) /\ Answer("failed") /\ UNCHANGED base
  /\ UNCHANGED store

Next ==
  \/ Initialize \/ InitialRead \/ InitialReadFails \/ InitialWrite \/ InitialWriteFails
  \/ \E u \in Updates : Update(u)
  \/ StartUpdate \/ ReadForUpdate \/ ReadForUpdateFails
  \/ WriteUpdate \/ WriteMigrated \/ WriteFails

Spec == Init /\ [][Next]_vars
-----------------------------------------------------------------------------
(* Properties.                                                              *)

(* Every variable keeps its type, attempts stay within the table of delays, *)
(* and an update is under way only while one is called.                     *)
TypeOK ==
  /\ store \in Files
  /\ waiting \in Seq(Updates)
  /\ phase \in Phases /\ attempt \in 0..Retries
  /\ base \in Contents /\ cached \in Contents /\ status \in Statuses
  /\ emitted \in Snapshots
  /\ answer \in {"none", "done", "failed"}
  /\ phase \in {"read", "write", "migrate"} => waiting # <<>>
=============================================================================
