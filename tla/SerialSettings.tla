---------------------------- MODULE SerialSettings ----------------------------
(***************************************************************************)
(* What the global settings promise their writers: updates take effect one *)
(* at a time in the order they were called, wholly or not at all, and an   *)
(* update that is answered "done" is in effect, a failed one is not.       *)
(***************************************************************************)
EXTENDS Naturals, Sequences

CONSTANTS
  Settings,    \* values of the settings
  Updates,     \* updaters
  Effect       \* Effect[u][s]: what updater u makes of s

VARIABLES
  settings,    \* the settings in effect
  revision,    \* changes so far
  calls,       \* updates not answered yet, in the order they were called
  answer       \* the last answer

vars == <<settings, revision, calls, answer>>

Init ==
  /\ settings \in Settings /\ revision = 0
  /\ calls = <<>> /\ answer = "none"

Call(u) ==
  /\ calls' = Append(calls, u)
  /\ UNCHANGED <<settings, revision, answer>>

(* The first update takes effect.  Only a change counts as a revision.      *)
Done ==
  /\ calls # <<>>
  /\ settings' = Effect[Head(calls)][settings] /\ settings' \in Settings
  /\ revision' = IF settings' = settings THEN revision ELSE revision + 1
  /\ calls' = Tail(calls) /\ answer' = "done"

Failed ==
  /\ calls # <<>>
  /\ calls' = Tail(calls) /\ answer' = "failed"
  /\ UNCHANGED <<settings, revision>>

Next == (\E u \in Updates : Call(u)) \/ Done \/ Failed

Spec == Init /\ [][Next]_vars
=============================================================================
