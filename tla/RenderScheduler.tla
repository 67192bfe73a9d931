--------------------------- MODULE RenderScheduler ---------------------------
(***************************************************************************)
(* The drawing of one button, as coordinated by class RenderScheduler      *)
(* (src/src/renderer/render-scheduler.ts).  Buttons share nothing there    *)
(* but counters, so one target id is modelled.                             *)
(*                                                                         *)
(* Each activation makes a target state with a generation of its own.  The *)
(* operations of superseded generations run on, and all commit through the *)
(* lane of the button.  A lane is named by the generation it was made for. *)
(*                                                                         *)
(* Time is kept as ages: how long the window of the waiting request has    *)
(* been open, and how long its timer has to go.  Nothing longer than       *)
(* ControlInterval, the longest interval, is told apart.  The timer        *)
(* functions of the host are taken not to throw.                           *)
(***************************************************************************)
EXTENDS Integers, FiniteSets

CONSTANTS
  SemanticKeys,     \* what a request shows
  Picture,          \* the image a semantic key renders to
  Intervals,        \* THROTTLED_RENDER_INTERVALS_MS and the realtime interval
  ControlInterval,  \* CONTROL_INTERVAL_MS
  MaxGeneration,    \* bound on activations
  MaxSequence,      \* bound on submissions
  NoKey             \* undefined

ASSUME KeysAssumption ==
  NoKey \notin SemanticKeys /\ \A key \in SemanticKeys : Picture[key] # NoKey
ASSUME IntervalsAssumption ==
  ControlInterval \in Nat \ {0} /\ Intervals \subseteq 1..ControlInterval
ASSUME BoundsAssumption == MaxGeneration \in Nat /\ MaxSequence \in Nat

VARIABLES
  active,           \* generation of the target in the map, 0 for none
  target,           \* the target states of all generations made
  lane,             \* the lane in the map, 0 for none
  sequence,         \* nextSequence
  destroyed,
  since,            \* history: number of the first request of this activation
  latest,           \* history: the last request accepted
  failed,           \* history: that request failed
  shown             \* the device: the request whose image it took last

vars == <<active, target, lane, sequence, destroyed, since, latest, failed, shown>>

Generations == DOMAIN target
Regular == {"normal", "control"}
Categories == Regular \cup {"immediate"}
Phases == {"none", "rendering", "queued", "committing", "settling"}
Off == -1                      \* no timer

NoRequest == [category |-> "immediate", key |-> NoKey, n |-> 0]
Requests == [category : Categories, key : SemanticKeys, n : 1..MaxSequence]

Fresh(interval, on) ==
  [pendingImmediate |-> NoRequest, pendingRegular |-> NoRequest,
   waited |-> 0, timer |-> Off,
   phase |-> "none", doing |-> NoRequest, after |-> {},
   interval |-> interval, lastKey |-> NoKey, lastImage |-> NoKey, lane |-> on]

IsCurrent(g) == ~destroyed /\ active = g

Interval(t, category) == IF category = "normal" THEN t.interval ELSE ControlInterval

Init ==
  /\ active = 0 /\ target = <<>> /\ lane = 0 /\ sequence = 0 /\ destroyed = FALSE
  /\ since = 1 /\ latest = NoRequest /\ failed = FALSE /\ shown = NoRequest

-----------------------------------------------------------------------------
(* schedulePending, drain and what they decide; t is a target state.        *)

Rest(interval, age) == IF age < interval THEN interval - age ELSE 0

(* schedulePending for a request that waits: at the end of its window.  The *)
(* last flush of its category was before the window opened, at the latest   *)
(* in the same turn, so that an interval has passed since it as well.       *)
Arm(t) ==
  IF t.pendingRegular = NoRequest \/ t.timer # Off THEN t
  ELSE [t EXCEPT !.timer = Rest(Interval(t, t.pendingRegular.category), t.waited)]

(* drain of an idle target with a request: the request leaves its slot, and *)
(* is rendered unless the button shows its semantic key already.            *)
Drain(t) ==
  LET immediate == t.pendingImmediate # NoRequest
      request == IF immediate THEN t.pendingImmediate ELSE t.pendingRegular
      taken == IF immediate
               THEN [t EXCEPT !.pendingImmediate = NoRequest]
               ELSE [t EXCEPT !.pendingRegular = NoRequest, !.waited = 0]
  IN  IF request.key # t.lastKey
      THEN [taken EXCEPT !.phase = "rendering", !.doing = request]
      ELSE Arm(taken)

(* Mutant: what came in meanwhile is left to the next submission. *)
ForgetPending(t, current) == [t EXCEPT !.phase = "none", !.doing = NoRequest]

(* The finally block of drain. *)
Finish(t, current) ==
  LET idle == [t EXCEPT !.phase = "none", !.doing = NoRequest] IN
  IF ~current THEN idle
  ELSE IF idle.pendingImmediate # NoRequest THEN Drain(idle) ELSE Arm(idle)

(* isSuperseded: a newer request waits that matters to the one in hand.     *)
Superseded(t) ==
  \/ t.pendingImmediate.n > t.doing.n
  \/ t.doing.category # "immediate" /\ t.pendingRegular.n > t.doing.n

(* Commits queued in lane.tail, or running. *)
OnTail(l) == {g \in Generations : target[g].lane = l /\ target[g].phase \in {"queued", "committing"}}

(* cleanupLane, at the end of an operation of g: nothing else runs on it.   *)
LaneFree(g) ==
  /\ \A h \in Generations \ {g} : target[h].lane = target[g].lane => target[h].phase = "none"
  /\ active # 0 => target[active].lane # target[g].lane

Cleanup(g, idle) == lane' = IF lane = target[g].lane /\ idle /\ LaneFree(g) THEN 0 ELSE lane

(* An operation of g ends in the state t of its target.                     *)
End(g, t) ==
  LET next == Finish(t, IsCurrent(g)) IN
  target' = [target EXCEPT ![g] = next] /\ Cleanup(g, next.phase = "none")

(* The commit of g leaves the tail of its lane.                             *)
LeaveTail(g, t) ==
  target' = [h \in Generations |->
              IF h = g THEN [t EXCEPT !.phase = "settling"]
              ELSE [target[h] EXCEPT !.after = @ \ {g}]]

-----------------------------------------------------------------------------
(* Calls of the controllers.                                                *)

(* A target that leaves the map: its timer and slots are cleared, and but   *)
(* for the operation under way nothing of it is looked at again.            *)
Cleared(t) ==
  [Fresh(t.interval, t.lane) EXCEPT !.phase = t.phase, !.doing = t.doing, !.after = t.after]

Activate(interval) ==
  /\ ~destroyed /\ Cardinality(Generations) < MaxGeneration
  /\ LET g  == Cardinality(Generations) + 1
         on == IF active # 0 THEN target[active].lane ELSE IF lane # 0 THEN lane ELSE g
     IN  /\ target' = [h \in 1..g |-> IF h = g THEN Fresh(interval, on)
                                      ELSE IF h = active THEN Cleared(target[h]) ELSE target[h]]
         /\ active' = g /\ lane' = IF active # 0 THEN lane ELSE on
  /\ since' = sequence + 1
  /\ UNCHANGED <<sequence, destroyed, latest, failed, shown>>

(* Mutant: a running timer keeps the interval it was set for. *)
UpdateIntervalOnly(interval) ==
  /\ active # 0 /\ target[active].interval # interval
  /\ target' = [target EXCEPT ![active].interval = interval]
  /\ UNCHANGED <<active, lane, sequence, destroyed, since, latest, failed, shown>>

(* updateInterval: the window of a waiting quote opens anew.                *)
UpdateInterval(interval) ==
  /\ active # 0 /\ target[active].interval # interval
  /\ LET t == [target[active] EXCEPT !.interval = interval]
         u == [t EXCEPT !.waited = 0, !.timer = Off]
     IN  target' = [target EXCEPT ![active] =
           IF t.pendingRegular = NoRequest \/ t.pendingRegular.category # "normal" THEN t
           ELSE IF t.phase = "none" THEN Arm(u) ELSE u]
  /\ UNCHANGED <<active, lane, sequence, destroyed, since, latest, failed, shown>>

(* The slots of t after request r is submitted: an immediate one takes the  *)
(* place of everything older, a regular one of the regular one.  A window   *)
(* stays open while requests of its category follow one another.            *)
Slotted(t, r) ==
  IF r.category = "immediate"
  THEN [t EXCEPT !.pendingImmediate = r, !.pendingRegular = NoRequest, !.waited = 0]
  ELSE [t EXCEPT !.pendingRegular = r,
                 !.waited = IF @ > 0 /\ t.pendingRegular.category = r.category THEN @ ELSE 0]

(* submit, with a request that is well formed; the others are refused.      *)
Submit(category, key) ==
  /\ active # 0 /\ sequence < MaxSequence
  /\ LET r == [category |-> category, key |-> key, n |-> sequence + 1]
         t == Slotted(target[active], r)
         u == [t EXCEPT !.timer = Off]
     IN  /\ target' = [target EXCEPT ![active] =
              IF t.phase # "none" THEN IF category = "immediate" THEN u ELSE t
              ELSE IF t.pendingImmediate # NoRequest THEN Drain(u) ELSE Arm(u)]
         /\ sequence' = sequence + 1 /\ latest' = r /\ failed' = FALSE
  /\ UNCHANGED <<active, lane, destroyed, since, shown>>

(* The targets of a removed button, and whether its lane goes with them.    *)
Deactivate ==
  /\ target' = [target EXCEPT ![active] = Cleared(@)]
  /\ active' = 0
  /\ lane' = IF \E g \in Generations : target[g].lane = lane /\ target[g].phase # "none"
             THEN lane ELSE 0
  /\ since' = sequence + 1
  /\ UNCHANGED <<sequence, latest, failed, shown>>

Remove == active # 0 /\ Deactivate /\ UNCHANGED destroyed

Destroy ==
  /\ ~destroyed /\ destroyed' = TRUE
  /\ IF active # 0 THEN Deactivate
     ELSE UNCHANGED <<active, target, lane, sequence, since, latest, failed, shown>>

-----------------------------------------------------------------------------
(* Timers and the promises of the callers.                                  *)

Timer ==
  /\ active # 0 /\ target[active].timer = 0
  /\ target' = [target EXCEPT ![active] = Drain([@ EXCEPT !.timer = Off])]
  /\ UNCHANGED <<active, lane, sequence, destroyed, since, latest, failed, shown>>

(* render() gave an image.                                                  *)
RenderResolves(g) ==
  /\ target[g].phase = "rendering"
  /\ LET t == target[g]
         image == Picture[t.doing.key]
     IN  IF ~IsCurrent(g) \/ Superseded(t) THEN End(g, t)
         ELSE IF image = t.lastImage THEN End(g, [t EXCEPT !.lastKey = t.doing.key])
         ELSE /\ target' = [target EXCEPT ![g].phase = "queued", ![g].after = OnTail(t.lane)]
              /\ UNCHANGED lane
  /\ UNCHANGED <<active, sequence, destroyed, since, latest, failed, shown>>

RenderFails(g) ==
  /\ target[g].phase = "rendering"
  /\ End(g, target[g])
  /\ failed' = (failed \/ target[g].doing = latest)
  /\ UNCHANGED <<active, sequence, destroyed, since, latest, shown>>

(* Mutant: the generation is checked when the image is ready, and not again *)
(* when its turn comes.                                                     *)
CommitStartsUnfenced(g) ==
  /\ target[g].phase = "queued" /\ target[g].after = {}
  /\ target' = [target EXCEPT ![g].phase = "committing"]
  /\ UNCHANGED <<active, lane, sequence, destroyed, since, latest, failed, shown>>

(* The commits before it in the lane are done: commit() is called, unless   *)
(* it is too late for that.                                                 *)
CommitStarts(g) ==
  /\ target[g].phase = "queued" /\ target[g].after = {}
  /\ IF ~IsCurrent(g) \/ Superseded(target[g]) THEN LeaveTail(g, target[g])
     ELSE target' = [target EXCEPT ![g].phase = "committing"]
  /\ UNCHANGED <<active, lane, sequence, destroyed, since, latest, failed, shown>>

(* Mutant: what the button shows is noted as rendered, not as committed. *)
CommitFailsNoted(g) ==
  /\ target[g].phase = "committing"
  /\ LeaveTail(g, [target[g] EXCEPT !.lastKey = target[g].doing.key])
  /\ failed' = (failed \/ target[g].doing = latest)
  /\ UNCHANGED <<active, lane, sequence, destroyed, since, latest, shown>>

CommitFails(g) ==
  /\ target[g].phase = "committing"
  /\ LeaveTail(g, target[g])
  /\ failed' = (failed \/ target[g].doing = latest)
  /\ UNCHANGED <<active, lane, sequence, destroyed, since, latest, shown>>

(* commit() resolved: what the device shows is noted while it still matters. *)
CommitResolves(g) ==
  /\ target[g].phase = "committing"
  /\ LET t == target[g] IN
     /\ LeaveTail(g, IF IsCurrent(g)
                     THEN [t EXCEPT !.lastKey = t.doing.key, !.lastImage = Picture[t.doing.key]]
                     ELSE t)
     /\ shown' = t.doing
  /\ UNCHANGED <<active, lane, sequence, destroyed, since, latest, failed>>

(* The await of commitSerialized returns to drain, some microtasks later.   *)
Settle(g) ==
  /\ target[g].phase = "settling"
  /\ End(g, target[g])
  /\ UNCHANGED <<active, sequence, destroyed, since, latest, failed, shown>>

(* Time passes. *)
Older(age) == IF age < ControlInterval THEN age + 1 ELSE age

Tick ==
  /\ active # 0
  /\ LET t == target[active] IN target' = [target EXCEPT ![active] =
       [t EXCEPT !.timer = IF t.timer > 0 THEN t.timer - 1 ELSE t.timer,
                 !.waited = IF t.pendingRegular # NoRequest THEN Older(t.waited) ELSE t.waited]]
  /\ target' # target
  /\ UNCHANGED <<active, lane, sequence, destroyed, since, latest, failed, shown>>

(* The operation of g goes on. *)
Proceed(g) ==
  \/ RenderResolves(g) \/ RenderFails(g)
  \/ CommitStarts(g) \/ CommitResolves(g) \/ CommitFails(g) \/ Settle(g)

Next ==
  \/ \E interval \in Intervals : Activate(interval) \/ UpdateInterval(interval)
  \/ \E category \in Categories, key \in SemanticKeys : Submit(category, key)
  \/ Remove \/ Destroy \/ Timer \/ Tick
  \/ \E g \in Generations : Proceed(g)

Spec == Init /\ [][Next]_vars
-----------------------------------------------------------------------------
(* Properties.                                                              *)

MaybeRequests == Requests \cup {NoRequest}
Images == {Picture[key] : key \in SemanticKeys}

TargetStates ==
  [pendingImmediate : MaybeRequests, pendingRegular : MaybeRequests,
   waited : 0..ControlInterval, timer : -1..ControlInterval,
   phase : Phases, doing : MaybeRequests,
   after : SUBSET (1..MaxGeneration), interval : Intervals,
   lastKey : SemanticKeys \cup {NoKey}, lastImage : Images \cup {NoKey},
   lane : 1..MaxGeneration]

(* Every variable keeps its type; a target with an operation under way has  *)
(* no timer, so that two drains never overlap.                              *)
TypeOK ==
  /\ Cardinality(Generations) \in 0..MaxGeneration
  /\ Generations = 1..Cardinality(Generations)
  /\ active \in Generations \cup {0} /\ lane \in Generations \cup {0}
  /\ \A g \in Generations :
       /\ target[g] \in TargetStates
       /\ target[g].phase # "none" => target[g].timer = Off
  /\ sequence \in 0..MaxSequence /\ since \in 1..(MaxSequence + 1)
  /\ {destroyed, failed} \subseteq BOOLEAN
  /\ {latest, shown} \subseteq MaybeRequests

(* A button at rest shows what was last asked of it, unless drawing that    *)
(* failed: no skip, no superseded or late commit leaves it behind.          *)
ShowsLatest ==
  /\ active # 0 /\ target[active].phase = "none"
  /\ target[active].pendingImmediate = NoRequest /\ target[active].pendingRegular = NoRequest
  /\ latest.n >= since /\ ~failed
  => shown # NoRequest /\ Picture[shown.key] = Picture[latest.key]

(* A waiting request has its timer, which runs out when its window has been *)
(* open for one interval: never sooner, and later requests do not postpone  *)
(* it.                                                                      *)
DueInTime ==
  \A g \in Generations :
    LET t == target[g] IN
    t.phase = "none" /\ t.pendingRegular # NoRequest =>
      t.timer = Rest(Interval(t, t.pendingRegular.category), t.waited)

(* Nothing is left behind: an idle target has no immediate request, and the *)
(* commits in the tail of a lane wait only for each other, the first of     *)
(* them for nobody.                                                         *)
NothingForgotten ==
  \A g \in Generations :
    LET t == target[g] IN
    /\ t.pendingImmediate # NoRequest => t.phase # "none"
    /\ t.after \subseteq OnTail(t.lane)
    /\ OnTail(t.lane) # {} => \E h \in OnTail(t.lane) : target[h].after = {}

(* schedulePending, drain, commitSerialized: every request that waits is    *)
(* taken up in time, and every commit has its turn.                         *)
EverythingTakenUp == DueInTime /\ NothingForgotten

(* Requests reach the device one at a time, in order, and only those of the *)
(* present activation.                                                      *)
Display ==
  INSTANCE LatestDisplay WITH
    asked   <- sequence, owned <- since, shown <- shown.n,
    showing <- {target[g].doing.n : g \in {h \in Generations : target[h].phase = "committing"}}

LatestWins == Display!Spec

=============================================================================
