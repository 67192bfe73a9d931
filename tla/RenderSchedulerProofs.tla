------------------------ MODULE RenderSchedulerProofs ------------------------
(* For any pictures, intervals and numbers of activations and requests: the  *)
(* types of RenderScheduler, that it implements LatestDisplay, that every    *)
(* request is taken up, and that a button at rest shows what was last asked  *)
(* of it.                                                                    *)
EXTENDS RenderScheduler, FiniteSetTheorems, WellFoundedInduction, TLAPS

(* A timer runs for a request that waits, while nothing else is done.       *)
Timed(t) == t.timer # Off => t.phase = "none" /\ t.pendingRegular # NoRequest

(* Of the present activation, which began with request "first", and not yet *)
(* shown, "last" having been: and asked for, "newest" being the newest.     *)
Unshown(n, first, last, newest) == first <= n /\ last < n /\ n <= newest

(* What waits is newer than what is in hand, a request that waits for its   *)
(* window came after the immediate one, and what is in hand is to be shown. *)
Ordered(t, first, last, newest) ==
  /\ t.pendingImmediate # NoRequest =>
       Unshown(t.pendingImmediate.n, first, last, newest) /\ t.doing.n < t.pendingImmediate.n
  /\ t.pendingRegular # NoRequest =>
       /\ Unshown(t.pendingRegular.n, first, last, newest) /\ t.doing.n < t.pendingRegular.n
       /\ t.pendingImmediate.n < t.pendingRegular.n
  /\ t.phase \in {"rendering", "queued", "committing"} =>
       Unshown(t.doing.n, first, last, newest)
  /\ t.doing.n <= newest

InTail == {"queued", "committing"}

(* All that runs runs on the lane in the map, which is the lane of the      *)
(* target in the map too.                                                   *)
OneLane ==
  /\ active # 0 => target[active].lane = lane
  /\ \A g \in Generations : target[g].phase # "none" => target[g].lane = lane

(* Of two commits in the tail one waits for the other, and one that runs    *)
(* waits for none.                                                          *)
Turns ==
  /\ \A g \in Generations : target[g].phase = "committing" => target[g].after = {}
  /\ \A g, h \in Generations :
       g # h /\ target[g].phase \in InTail /\ target[h].phase \in InTail
         => g \in target[h].after \/ h \in target[g].after

(* What superseded targets have in hand is from before this activation, and *)
(* what the present one has in hand or waiting is neither old nor shown.    *)
Numbers ==
  /\ shown.n <= sequence /\ since <= sequence + 1
  /\ \A g \in Generations : target[g].doing.n <= sequence
  /\ \A g \in Generations : g # active => target[g].doing.n < since
  /\ active # 0 => Ordered(target[active], since, shown.n, sequence)

Placed ==
  /\ Cardinality(Generations) \in 0..MaxGeneration
  /\ Generations = 1..Cardinality(Generations)
  /\ active \in Generations \cup {0} /\ lane \in Generations \cup {0}
  /\ \A g \in Generations : target[g] \in TargetStates /\ Timed(target[g])

Counted ==
  /\ sequence \in 0..MaxSequence /\ since \in 1..(MaxSequence + 1)
  /\ {destroyed, failed} \subseteq BOOLEAN
  /\ {latest, shown} \subseteq MaybeRequests

Inv == Placed /\ Counted /\ OneLane /\ Turns /\ Numbers

(* The request being put on the device.                                     *)
Putting == {target[g].doing.n : g \in {h \in Generations : target[h].phase = "committing"}}

-----------------------------------------------------------------------------
(* Target states.                                                           *)

LEMMA RequestTypes ==
  /\ NoRequest \in MaybeRequests /\ NoRequest.n = 0
  /\ \A r \in MaybeRequests : r.n \in Nat /\ (r # NoRequest => r \in Requests /\ r.n >= 1)
<1>1. \A r \in Requests : r.n \in Nat /\ r.n >= 1
  BY BoundsAssumption DEF Requests
<1>2. NoRequest.n = 0
  BY DEF NoRequest
<1> QED BY <1>1, <1>2 DEF MaybeRequests

LEMMA TargetFields ==
  ASSUME NEW t \in TargetStates
  PROVE  /\ t.pendingImmediate \in MaybeRequests /\ t.pendingRegular \in MaybeRequests
         /\ t.waited \in 0..ControlInterval /\ t.timer \in -1..ControlInterval
         /\ t.phase \in Phases /\ t.doing \in MaybeRequests
         /\ t.after \in SUBSET (1..MaxGeneration) /\ t.interval \in Intervals
         /\ t.lane \in 1..MaxGeneration
BY DEF TargetStates

(* One field of a target at a time. *)
LEMMA SetTimer ==
  ASSUME NEW t \in TargetStates, NEW x \in -1..ControlInterval
  PROVE  LET u == [t EXCEPT !.timer = x] IN
         /\ u \in TargetStates /\ u.timer = x
         /\ u.pendingImmediate = t.pendingImmediate /\ u.pendingRegular = t.pendingRegular
         /\ u.waited = t.waited /\ u.phase = t.phase /\ u.doing = t.doing
         /\ u.after = t.after /\ u.interval = t.interval /\ u.lane = t.lane
BY DEF TargetStates

LEMMA SetWaited ==
  ASSUME NEW t \in TargetStates, NEW x \in 0..ControlInterval
  PROVE  LET u == [t EXCEPT !.waited = x] IN
         /\ u \in TargetStates /\ u.waited = x
         /\ u.pendingImmediate = t.pendingImmediate /\ u.pendingRegular = t.pendingRegular
         /\ u.timer = t.timer /\ u.phase = t.phase /\ u.doing = t.doing
         /\ u.after = t.after /\ u.interval = t.interval /\ u.lane = t.lane
BY DEF TargetStates

LEMMA SetPhase ==
  ASSUME NEW t \in TargetStates, NEW x \in Phases
  PROVE  LET u == [t EXCEPT !.phase = x] IN
         /\ u \in TargetStates /\ u.phase = x
         /\ u.pendingImmediate = t.pendingImmediate /\ u.pendingRegular = t.pendingRegular
         /\ u.waited = t.waited /\ u.timer = t.timer /\ u.doing = t.doing
         /\ u.after = t.after /\ u.interval = t.interval /\ u.lane = t.lane
BY DEF TargetStates

LEMMA SetDoing ==
  ASSUME NEW t \in TargetStates, NEW x \in MaybeRequests
  PROVE  LET u == [t EXCEPT !.doing = x] IN
         /\ u \in TargetStates /\ u.doing = x
         /\ u.pendingImmediate = t.pendingImmediate /\ u.pendingRegular = t.pendingRegular
         /\ u.waited = t.waited /\ u.timer = t.timer /\ u.phase = t.phase
         /\ u.after = t.after /\ u.interval = t.interval /\ u.lane = t.lane
BY DEF TargetStates

LEMMA SetImmediate ==
  ASSUME NEW t \in TargetStates, NEW x \in MaybeRequests
  PROVE  LET u == [t EXCEPT !.pendingImmediate = x] IN
         /\ u \in TargetStates /\ u.pendingImmediate = x
         /\ u.pendingRegular = t.pendingRegular /\ u.doing = t.doing
         /\ u.waited = t.waited /\ u.timer = t.timer /\ u.phase = t.phase
         /\ u.after = t.after /\ u.interval = t.interval /\ u.lane = t.lane
BY DEF TargetStates

LEMMA SetRegular ==
  ASSUME NEW t \in TargetStates, NEW x \in MaybeRequests
  PROVE  LET u == [t EXCEPT !.pendingRegular = x] IN
         /\ u \in TargetStates /\ u.pendingRegular = x
         /\ u.pendingImmediate = t.pendingImmediate /\ u.doing = t.doing
         /\ u.waited = t.waited /\ u.timer = t.timer /\ u.phase = t.phase
         /\ u.after = t.after /\ u.interval = t.interval /\ u.lane = t.lane
BY DEF TargetStates

LEMMA SetInterval ==
  ASSUME NEW t \in TargetStates, NEW x \in Intervals
  PROVE  LET u == [t EXCEPT !.interval = x] IN
         /\ u \in TargetStates /\ u.interval = x
         /\ u.pendingImmediate = t.pendingImmediate /\ u.pendingRegular = t.pendingRegular
         /\ u.waited = t.waited /\ u.timer = t.timer /\ u.phase = t.phase
         /\ u.doing = t.doing /\ u.after = t.after /\ u.lane = t.lane
BY DEF TargetStates

LEMMA SetAfter ==
  ASSUME NEW t \in TargetStates, NEW x \in SUBSET (1..MaxGeneration)
  PROVE  LET u == [t EXCEPT !.after = x] IN
         /\ u \in TargetStates /\ u.after = x
         /\ u.pendingImmediate = t.pendingImmediate /\ u.pendingRegular = t.pendingRegular
         /\ u.waited = t.waited /\ u.timer = t.timer /\ u.phase = t.phase
         /\ u.doing = t.doing /\ u.interval = t.interval /\ u.lane = t.lane
BY DEF TargetStates

(* What the button is noted to show has no part in the argument.            *)
LEMMA SetLastKey ==
  ASSUME NEW t \in TargetStates, NEW x \in SemanticKeys \cup {NoKey}
  PROVE  LET u == [t EXCEPT !.lastKey = x] IN
         /\ u \in TargetStates
         /\ u.pendingImmediate = t.pendingImmediate /\ u.pendingRegular = t.pendingRegular
         /\ u.timer = t.timer /\ u.phase = t.phase /\ u.doing = t.doing
         /\ u.after = t.after /\ u.lane = t.lane
BY DEF TargetStates

LEMMA SetLastImage ==
  ASSUME NEW t \in TargetStates, NEW x \in Images \cup {NoKey}
  PROVE  LET u == [t EXCEPT !.lastImage = x] IN
         /\ u \in TargetStates
         /\ u.pendingImmediate = t.pendingImmediate /\ u.pendingRegular = t.pendingRegular
         /\ u.timer = t.timer /\ u.phase = t.phase /\ u.doing = t.doing
         /\ u.after = t.after /\ u.lane = t.lane
BY DEF TargetStates

(* Most changes of a target leave it alone. *)
SameNotes(u, t) == u.lastKey = t.lastKey /\ u.lastImage = t.lastImage

LEMMA TimerNotes ==
  ASSUME NEW t \in TargetStates, NEW x
  PROVE  SameNotes([t EXCEPT !.timer = x], t)
BY DEF TargetStates, SameNotes

LEMMA WaitedNotes ==
  ASSUME NEW t \in TargetStates, NEW x
  PROVE  SameNotes([t EXCEPT !.waited = x], t)
BY DEF TargetStates, SameNotes

LEMMA PhaseNotes ==
  ASSUME NEW t \in TargetStates, NEW x
  PROVE  SameNotes([t EXCEPT !.phase = x], t)
BY DEF TargetStates, SameNotes

LEMMA DoingNotes ==
  ASSUME NEW t \in TargetStates, NEW x
  PROVE  SameNotes([t EXCEPT !.doing = x], t)
BY DEF TargetStates, SameNotes

LEMMA IntervalNotes ==
  ASSUME NEW t \in TargetStates, NEW x
  PROVE  SameNotes([t EXCEPT !.interval = x], t)
BY DEF TargetStates, SameNotes

LEMMA AfterNotes ==
  ASSUME NEW t \in TargetStates, NEW x
  PROVE  SameNotes([t EXCEPT !.after = x], t)
BY DEF TargetStates, SameNotes

LEMMA FreshType ==
  ASSUME NEW interval \in Intervals, NEW on \in 1..MaxGeneration
  PROVE  LET t == Fresh(interval, on) IN
         /\ t \in TargetStates
         /\ t.pendingImmediate = NoRequest /\ t.pendingRegular = NoRequest
         /\ t.doing = NoRequest /\ t.phase = "none" /\ t.timer = Off
         /\ t.after = {} /\ t.lane = on
<1>1. 0 \in 0..ControlInterval /\ Off \in -1..ControlInterval
  BY IntervalsAssumption DEF Off
<1>2. NoRequest \in MaybeRequests /\ "none" \in Phases
  BY DEF MaybeRequests, Phases
<1> QED BY <1>1, <1>2 DEF Fresh, TargetStates

(* A target that leaves the map keeps what it has in hand.                  *)
LEMMA ClearedType ==
  ASSUME NEW t \in TargetStates
  PROVE  LET u == Cleared(t) IN
         /\ u \in TargetStates /\ u.timer = Off
         /\ u.phase = t.phase /\ u.doing = t.doing /\ u.after = t.after /\ u.lane = t.lane
<1> DEFINE f == Fresh(t.interval, t.lane)
           p == [f EXCEPT !.phase = t.phase]
           d == [p EXCEPT !.doing = t.doing]
<1>1. f \in TargetStates /\ f.timer = Off /\ f.lane = t.lane
  BY TargetFields, FreshType
<1> HIDE DEF f
<1>2. p \in TargetStates /\ p.timer = Off /\ p.lane = t.lane /\ p.phase = t.phase
  BY <1>1, TargetFields, SetPhase
<1> HIDE DEF p
<1>3. d \in TargetStates /\ d.timer = Off /\ d.lane = t.lane /\ d.phase = t.phase
      /\ d.doing = t.doing
  BY <1>2, TargetFields, SetDoing
<1> HIDE DEF d
<1>4. Cleared(t) = [d EXCEPT !.after = t.after]
  BY DEF Cleared, d, p, f
<1> QED BY <1>3, <1>4, TargetFields, SetAfter

-----------------------------------------------------------------------------
(* The parts of handlers.                                                   *)

(* What a target keeps when a request of it waits, is taken up or given up. *)
SamePlace(u, t) == u.lane = t.lane /\ u.after = t.after

LEMMA IntervalType ==
  ASSUME NEW t \in TargetStates, NEW category
  PROVE  Interval(t, category) \in 1..ControlInterval
<1>1. t.interval \in 1..ControlInterval
  BY TargetFields, IntervalsAssumption
<1>2. ControlInterval \in 1..ControlInterval
  BY IntervalsAssumption
<1> QED BY <1>1, <1>2 DEF Interval

LEMMA RestType ==
  ASSUME NEW interval \in 1..ControlInterval, NEW age \in 0..ControlInterval
  PROVE  Rest(interval, age) \in -1..ControlInterval
BY IntervalsAssumption DEF Rest

LEMMA ArmType ==
  ASSUME NEW t \in TargetStates, t.phase = "none", t.timer = Off
  PROVE  /\ Arm(t) \in TargetStates /\ Timed(Arm(t)) /\ SamePlace(Arm(t), t)
         /\ Arm(t).phase = "none" /\ Arm(t).doing = t.doing
         /\ Arm(t).pendingImmediate = t.pendingImmediate
         /\ Arm(t).pendingRegular = t.pendingRegular
<1>1. CASE t.pendingRegular = NoRequest
  <2>1. Arm(t) = t
    BY <1>1 DEF Arm
  <2> QED BY <2>1 DEF Timed, SamePlace
<1>2. CASE t.pendingRegular # NoRequest
  <2>1. PICK x : x = Rest(Interval(t, t.pendingRegular.category), t.waited)
    OBVIOUS
  <2>2. x \in -1..ControlInterval
    BY <2>1, IntervalType, RestType, TargetFields
  <2>3. Arm(t) = [t EXCEPT !.timer = x]
    BY <1>2, <2>1 DEF Arm
  <2> QED BY <1>2, <2>2, <2>3, SetTimer DEF Timed, SamePlace
<1> QED BY <1>1, <1>2

LEMMA ArmNotes ==
  ASSUME NEW t \in TargetStates
  PROVE  SameNotes(Arm(t), t)
<1>1. CASE t.pendingRegular = NoRequest \/ t.timer # Off
  <2>1. Arm(t) = t
    BY <1>1 DEF Arm
  <2> QED BY <2>1 DEF SameNotes
<1>2. CASE ~(t.pendingRegular = NoRequest \/ t.timer # Off)
  <2>1. PICK x : x = Rest(Interval(t, t.pendingRegular.category), t.waited)
    OBVIOUS
  <2>2. Arm(t) = [t EXCEPT !.timer = x]
    BY <1>2, <2>1 DEF Arm
  <2> QED BY <2>2, TimerNotes
<1> QED BY <1>1, <1>2

(* An idle target takes up a request: it renders it, or shows it already.   *)
LEMMA DrainType ==
  ASSUME NEW t \in TargetStates, t.phase = "none", t.timer = Off,
         t.pendingImmediate # NoRequest \/ t.pendingRegular # NoRequest
  PROVE  LET u == Drain(t)
             immediate == t.pendingImmediate # NoRequest IN
         /\ u \in TargetStates /\ Timed(u) /\ SamePlace(u, t)
         /\ u.pendingImmediate = NoRequest
         /\ u.pendingRegular = IF immediate THEN t.pendingRegular ELSE NoRequest
         /\ \/ u.phase = "none" /\ u.doing = t.doing
            \/ /\ u.phase = "rendering"
               /\ u.doing = IF immediate THEN t.pendingImmediate ELSE t.pendingRegular
<1>1. PICK immediate \in BOOLEAN : immediate <=> t.pendingImmediate # NoRequest
  OBVIOUS
<1>2. PICK r \in MaybeRequests :
        r = IF t.pendingImmediate # NoRequest THEN t.pendingImmediate ELSE t.pendingRegular
  BY TargetFields
<1>3. PICK taken :
        taken = IF t.pendingImmediate # NoRequest THEN [t EXCEPT !.pendingImmediate = NoRequest]
                ELSE [t EXCEPT !.pendingRegular = NoRequest, !.waited = 0]
  OBVIOUS
<1>4. /\ taken \in TargetStates /\ SamePlace(taken, t)
      /\ taken.phase = "none" /\ taken.timer = Off /\ taken.doing = t.doing
      /\ taken.pendingImmediate = NoRequest
      /\ taken.pendingRegular = IF t.pendingImmediate # NoRequest THEN t.pendingRegular
                                ELSE NoRequest
  <2>1. CASE t.pendingImmediate # NoRequest
    <3>1. taken = [t EXCEPT !.pendingImmediate = NoRequest]
      BY <1>3, <2>1
    <3> QED BY <2>1, <3>1, RequestTypes, SetImmediate DEF SamePlace
  <2>2. CASE t.pendingImmediate = NoRequest
    <3>1. PICK v : v = [t EXCEPT !.pendingRegular = NoRequest]
      OBVIOUS
    <3>2. /\ v \in TargetStates /\ SamePlace(v, t) /\ v.phase = "none" /\ v.timer = Off
          /\ v.doing = t.doing /\ v.pendingImmediate = NoRequest
          /\ v.pendingRegular = NoRequest
      BY <2>2, <3>1, RequestTypes, SetRegular DEF SamePlace
    <3>3. taken = [v EXCEPT !.waited = 0]
      BY <1>3, <2>2, <3>1
    <3>4. 0 \in 0..ControlInterval
      BY IntervalsAssumption
    <3> QED BY <2>2, <3>2, <3>3, <3>4, SetWaited DEF SamePlace
  <2> QED BY <2>1, <2>2
<1>5. CASE r.key # t.lastKey
  <2>1. Drain(t) = [taken EXCEPT !.phase = "rendering", !.doing = r]
    BY <1>2, <1>3, <1>5 DEF Drain
  <2>2. PICK v : v = [taken EXCEPT !.phase = "rendering"]
    OBVIOUS
  <2>3. /\ v \in TargetStates /\ SamePlace(v, t) /\ v.phase = "rendering" /\ v.timer = Off
        /\ v.pendingImmediate = taken.pendingImmediate
        /\ v.pendingRegular = taken.pendingRegular
    BY <1>4, <2>2, SetPhase DEF SamePlace, Phases
  <2>4. Drain(t) = [v EXCEPT !.doing = r]
    BY <2>1, <2>2
  <2>5. /\ Drain(t) \in TargetStates /\ SamePlace(Drain(t), t)
        /\ Drain(t).phase = "rendering" /\ Drain(t).timer = Off /\ Drain(t).doing = r
        /\ Drain(t).pendingImmediate = taken.pendingImmediate
        /\ Drain(t).pendingRegular = taken.pendingRegular
    BY <2>3, <2>4, SetDoing DEF SamePlace
  <2> QED BY <1>2, <1>4, <2>5 DEF Timed
<1>6. CASE r.key = t.lastKey
  <2>1. Drain(t) = Arm(taken)
    BY <1>2, <1>3, <1>6 DEF Drain
  <2> QED BY <1>4, <2>1, ArmType DEF SamePlace
<1> QED BY <1>5, <1>6

(* An operation ends: an idle target, or the next request in hand.          *)
LEMMA FinishType ==
  ASSUME NEW t \in TargetStates, t.timer = Off, NEW current
  PROVE  LET u == Finish(t, current) IN
         /\ u \in TargetStates /\ Timed(u) /\ SamePlace(u, t)
         /\ u.pendingImmediate \in {NoRequest, t.pendingImmediate}
         /\ u.pendingRegular = t.pendingRegular
         /\ \/ u.phase = "none" /\ u.doing = NoRequest
            \/ /\ current /\ t.pendingImmediate # NoRequest
               /\ u.phase = "rendering" /\ u.doing = t.pendingImmediate
               /\ u.pendingImmediate = NoRequest
<1>1. PICK idle : idle = [t EXCEPT !.phase = "none", !.doing = NoRequest]
  OBVIOUS
<1>2. PICK v : v = [t EXCEPT !.phase = "none"]
  OBVIOUS
<1>3. /\ v \in TargetStates /\ SamePlace(v, t) /\ v.phase = "none" /\ v.timer = Off
      /\ v.pendingImmediate = t.pendingImmediate /\ v.pendingRegular = t.pendingRegular
  BY <1>2, SetPhase DEF SamePlace, Phases
<1>4. idle = [v EXCEPT !.doing = NoRequest]
  BY <1>1, <1>2
<1>5. /\ idle \in TargetStates /\ SamePlace(idle, t) /\ idle.phase = "none" /\ idle.timer = Off
      /\ idle.pendingImmediate = t.pendingImmediate
      /\ idle.pendingRegular = t.pendingRegular /\ idle.doing = NoRequest
  BY <1>3, <1>4, RequestTypes, SetDoing DEF SamePlace
<1>6. CASE ~current
  <2>1. Finish(t, current) = idle
    BY <1>1, <1>6 DEF Finish
  <2> QED BY <1>5, <2>1 DEF Timed
<1>7. CASE current /\ t.pendingImmediate # NoRequest
  <2>1. Finish(t, current) = Drain(idle)
    BY <1>1, <1>5, <1>7 DEF Finish
  <2>2. t.pendingImmediate # NoRequest
    BY <1>7
  <2>3. PICK u : u = Finish(t, current)
    OBVIOUS
  <2>4. u = Drain(idle)
    BY <2>1, <2>3
  <2>5. /\ u \in TargetStates /\ Timed(u) /\ SamePlace(u, t)
        /\ u.pendingImmediate = NoRequest /\ u.pendingRegular = t.pendingRegular
        /\ \/ u.phase = "none" /\ u.doing = NoRequest
           \/ u.phase = "rendering" /\ u.doing = t.pendingImmediate
    BY <1>5, <2>2, <2>4, DrainType DEF SamePlace
  <2> QED BY <1>7, <2>3, <2>5, Zenon
<1>8. CASE current /\ t.pendingImmediate = NoRequest
  <2>1. Finish(t, current) = Arm(idle)
    BY <1>1, <1>5, <1>8 DEF Finish
  <2> QED BY <1>5, <2>1, ArmType DEF SamePlace
<1> QED BY <1>6, <1>7, <1>8

(* The slots of a target after a request is submitted.                      *)
LEMMA SlottedType ==
  ASSUME NEW t \in TargetStates, NEW r \in Requests
  PROVE  LET u == Slotted(t, r) IN
         /\ u \in TargetStates /\ SamePlace(u, t)
         /\ u.phase = t.phase /\ u.doing = t.doing /\ u.timer = t.timer
         /\ IF r.category = "immediate"
            THEN u.pendingImmediate = r /\ u.pendingRegular = NoRequest
            ELSE u.pendingImmediate = t.pendingImmediate /\ u.pendingRegular = r
<1>1. r \in MaybeRequests /\ NoRequest \in MaybeRequests
  BY DEF MaybeRequests
<1>2. CASE r.category = "immediate"
  <2>1. PICK v : v = [t EXCEPT !.pendingImmediate = r]
    OBVIOUS
  <2>2. /\ v \in TargetStates /\ SamePlace(v, t) /\ v.phase = t.phase /\ v.doing = t.doing
        /\ v.timer = t.timer /\ v.pendingImmediate = r
    BY <1>1, <2>1, SetImmediate DEF SamePlace
  <2>3. PICK w : w = [v EXCEPT !.pendingRegular = NoRequest]
    OBVIOUS
  <2>4. /\ w \in TargetStates /\ SamePlace(w, t) /\ w.phase = t.phase /\ w.doing = t.doing
        /\ w.timer = t.timer /\ w.pendingImmediate = r /\ w.pendingRegular = NoRequest
    BY <1>1, <2>2, <2>3, SetRegular DEF SamePlace
  <2>5. Slotted(t, r) = [w EXCEPT !.waited = 0]
    BY <1>2, <2>1, <2>3 DEF Slotted
  <2>6. 0 \in 0..ControlInterval
    BY IntervalsAssumption
  <2> QED BY <1>2, <2>4, <2>5, <2>6, SetWaited DEF SamePlace
<1>3. CASE r.category # "immediate"
  <2>1. PICK v : v = [t EXCEPT !.pendingRegular = r]
    OBVIOUS
  <2>2. /\ v \in TargetStates /\ SamePlace(v, t) /\ v.phase = t.phase /\ v.doing = t.doing
        /\ v.timer = t.timer /\ v.pendingImmediate = t.pendingImmediate
        /\ v.pendingRegular = r /\ v.waited = t.waited
    BY <1>1, <2>1, SetRegular DEF SamePlace
  <2>3. PICK x : x = IF t.waited > 0 /\ t.pendingRegular.category = r.category
                     THEN t.waited ELSE 0
    OBVIOUS
  <2>4. x \in 0..ControlInterval
    BY <2>3, TargetFields, IntervalsAssumption
  <2>5. Slotted(t, r) = [v EXCEPT !.waited = x]
    BY <1>3, <2>1, <2>3 DEF Slotted
  <2> QED BY <1>3, <2>2, <2>4, <2>5, SetWaited DEF SamePlace
<1> QED BY <1>2, <1>3

-----------------------------------------------------------------------------
(* The order of requests within a target.                                   *)

LEMMA DrainOrdered ==
  ASSUME NEW t \in TargetStates, t.phase = "none", t.timer = Off,
         t.pendingImmediate # NoRequest \/ t.pendingRegular # NoRequest,
         NEW first \in Nat, NEW last \in Nat, NEW newest \in Nat,
         Ordered(t, first, last, newest)
  PROVE  Ordered(Drain(t), first, last, newest)
<1>1. PICK u : u = Drain(t)
  OBVIOUS
<1>2. PICK r : r = IF t.pendingImmediate # NoRequest THEN t.pendingImmediate
                   ELSE t.pendingRegular
  OBVIOUS
<1>3. /\ u.pendingImmediate = NoRequest
      /\ u.pendingRegular = IF t.pendingImmediate # NoRequest THEN t.pendingRegular
                            ELSE NoRequest
      /\ \/ u.phase = "none" /\ u.doing = t.doing
         \/ u.phase = "rendering" /\ u.doing = r
  BY <1>1, <1>2, DrainType
<1>4. Unshown(r.n, first, last, newest) /\ r.n \in Nat
  BY <1>2, RequestTypes, TargetFields DEF Ordered
<1>5. /\ t.pendingRegular.n \in Nat /\ t.pendingImmediate.n \in Nat /\ t.doing.n \in Nat
      /\ t.pendingRegular # NoRequest => t.pendingRegular.n >= 1
  BY RequestTypes, TargetFields
<1>6. ASSUME u.pendingRegular # NoRequest
      PROVE  /\ Unshown(u.pendingRegular.n, first, last, newest)
             /\ u.doing.n < u.pendingRegular.n
             /\ u.pendingImmediate.n < u.pendingRegular.n
  <2>1. /\ u.pendingRegular = t.pendingRegular /\ t.pendingRegular # NoRequest
        /\ r = t.pendingImmediate
    BY <1>2, <1>3, <1>6
  <2>2. /\ Unshown(t.pendingRegular.n, first, last, newest)
        /\ t.doing.n < t.pendingRegular.n
        /\ t.pendingImmediate.n < t.pendingRegular.n
    BY <2>1 DEF Ordered
  <2>3. u.pendingImmediate.n = 0
    BY <1>3, RequestTypes
  <2> QED BY <1>3, <1>5, <2>1, <2>2, <2>3
<1>7. u.doing.n <= newest
  BY <1>3, <1>4 DEF Ordered, Unshown
<1> QED BY <1>1, <1>3, <1>4, <1>6, <1>7 DEF Ordered

(* A timer set anew changes nothing of it. *)
LEMMA ArmOrdered ==
  ASSUME NEW t \in TargetStates, t.phase = "none", t.timer = Off,
         NEW first, NEW last, NEW newest, Ordered(t, first, last, newest)
  PROVE  Ordered(Arm(t), first, last, newest)
<1>1. PICK u : u = Arm(t)
  OBVIOUS
<1>2. /\ u.phase = t.phase /\ u.doing = t.doing
      /\ u.pendingImmediate = t.pendingImmediate /\ u.pendingRegular = t.pendingRegular
  BY <1>1, ArmType
<1> QED BY <1>1, <1>2 DEF Ordered

(* When an operation ends, what was asked for during it is newer.           *)
LEMMA FinishOrdered ==
  ASSUME NEW t \in TargetStates, t.timer = Off, NEW current,
         NEW first \in Nat, NEW last \in Nat, NEW newest \in Nat,
         Ordered(t, first, last, newest)
  PROVE  Ordered(Finish(t, current), first, last, newest)
<1>1. PICK u : u = Finish(t, current)
  OBVIOUS
<1>2. /\ u.pendingImmediate \in {NoRequest, t.pendingImmediate}
      /\ u.pendingRegular = t.pendingRegular
      /\ \/ u.phase = "none" /\ u.doing = NoRequest
         \/ /\ t.pendingImmediate # NoRequest
            /\ u.phase = "rendering" /\ u.doing = t.pendingImmediate
            /\ u.pendingImmediate = NoRequest
  BY <1>1, FinishType, Zenon
<1>3. /\ t.pendingRegular.n \in Nat /\ t.pendingImmediate.n \in Nat
      /\ t.pendingRegular # NoRequest => t.pendingRegular.n >= 1
      /\ t.pendingImmediate # NoRequest => t.pendingImmediate.n >= 1
      /\ NoRequest.n = 0
  BY RequestTypes, TargetFields
<1>4. /\ t.pendingImmediate # NoRequest => Unshown(t.pendingImmediate.n, first, last, newest)
      /\ t.pendingRegular # NoRequest => Unshown(t.pendingRegular.n, first, last, newest)
      /\ t.pendingRegular # NoRequest => t.pendingImmediate.n < t.pendingRegular.n
  BY DEF Ordered
<1>5. u.doing.n <= newest
  BY <1>2, <1>3, <1>4 DEF Unshown
<1>6. u.pendingImmediate # NoRequest =>
        Unshown(u.pendingImmediate.n, first, last, newest) /\ u.doing.n < u.pendingImmediate.n
  BY <1>2, <1>3, <1>4
<1>7. u.pendingRegular # NoRequest =>
        /\ Unshown(u.pendingRegular.n, first, last, newest) /\ u.doing.n < u.pendingRegular.n
        /\ u.pendingImmediate.n < u.pendingRegular.n
  BY <1>2, <1>3, <1>4
<1>8. u.phase = "rendering" => Unshown(u.doing.n, first, last, newest)
  BY <1>2, <1>4
<1> QED BY <1>1, <1>2, <1>5, <1>6, <1>7, <1>8 DEF Ordered

(* The newest request of all may wait behind any other.                     *)
LEMMA SlottedOrdered ==
  ASSUME NEW t \in TargetStates, NEW r \in Requests,
         NEW first \in Nat, NEW last \in Nat, NEW newest \in Nat,
         Ordered(t, first, last, newest), first <= newest + 1, last <= newest,
         r.n = newest + 1
  PROVE  Ordered(Slotted(t, r), first, last, newest + 1)
<1>1. PICK u : u = Slotted(t, r)
  OBVIOUS
<1>2. /\ u.phase = t.phase /\ u.doing = t.doing
      /\ IF r.category = "immediate"
         THEN u.pendingImmediate = r /\ u.pendingRegular = NoRequest
         ELSE u.pendingImmediate = t.pendingImmediate /\ u.pendingRegular = r
  BY <1>1, SlottedType
<1>3. /\ t.pendingImmediate.n \in Nat /\ t.doing.n \in Nat
      /\ t.pendingImmediate = NoRequest => t.pendingImmediate.n = 0
  BY RequestTypes, TargetFields
<1>4. Unshown(r.n, first, last, newest + 1) /\ t.doing.n < r.n
  BY <1>3 DEF Ordered, Unshown
<1>5. t.pendingImmediate # NoRequest => Unshown(t.pendingImmediate.n, first, last, newest + 1)
  BY <1>3 DEF Ordered, Unshown
<1>6. t.pendingImmediate.n < r.n
  BY <1>3 DEF Ordered, Unshown
<1>7. t.phase \in {"rendering", "queued", "committing"} =>
        Unshown(t.doing.n, first, last, newest + 1)
  BY <1>3 DEF Ordered, Unshown
<1>8. u.pendingImmediate # NoRequest =>
        /\ Unshown(u.pendingImmediate.n, first, last, newest + 1)
        /\ u.doing.n < u.pendingImmediate.n
  BY <1>2, <1>4, <1>5 DEF Ordered
<1>9. u.pendingRegular # NoRequest =>
        /\ Unshown(u.pendingRegular.n, first, last, newest + 1)
        /\ u.doing.n < u.pendingRegular.n /\ u.pendingImmediate.n < u.pendingRegular.n
  BY <1>2, <1>4, <1>6
<1>10. u.doing.n <= newest + 1
  BY <1>2, <1>3 DEF Ordered
<1> QED BY <1>1, <1>2, <1>7, <1>8, <1>9, <1>10 DEF Ordered

-----------------------------------------------------------------------------
(* The invariant holds at the start, and gives the types.                   *)

LEMMA InvTypes == Inv => TypeOK
<1>1. Placed => \A g \in Generations :
        target[g] \in TargetStates /\ (target[g].phase # "none" => target[g].timer = Off)
  BY DEF Placed, Timed
<1> QED BY <1>1 DEF Inv, Placed, Counted, TypeOK

LEMMA InitInv == Init => Inv
<1> SUFFICES ASSUME Init PROVE Inv
  OBVIOUS
<1>1. Generations = {} /\ active = 0 /\ lane = 0 /\ sequence = 0 /\ since = 1
  BY DEF Init, Generations
<1>2. latest = NoRequest /\ shown = NoRequest /\ destroyed = FALSE /\ failed = FALSE
  BY DEF Init
<1>3. Cardinality(Generations) = 0
  BY <1>1, FS_EmptySet
<1>4. Placed
  BY <1>1, <1>3, BoundsAssumption DEF Placed
<1>5. Counted
  <2>1. sequence \in 0..MaxSequence /\ since \in 1..(MaxSequence + 1)
    BY <1>1, BoundsAssumption
  <2>2. {latest, shown} \subseteq MaybeRequests
    BY <1>2, RequestTypes
  <2> QED BY <1>2, <2>1, <2>2 DEF Counted
<1>6. Numbers
  BY <1>1, <1>2, RequestTypes DEF Numbers
<1>7. OneLane /\ Turns
  BY <1>1 DEF OneLane, Turns
<1> QED BY <1>4, <1>5, <1>6, <1>7 DEF Inv

LEMMA Numerals ==
  ASSUME Inv
  PROVE  /\ sequence \in Nat /\ since \in Nat /\ since >= 1 /\ shown.n \in Nat
         /\ shown.n <= sequence /\ since <= sequence + 1
         /\ \A g \in Generations :
              /\ g \in Nat /\ g >= 1 /\ g # 0 /\ g <= MaxGeneration
              /\ target[g] \in TargetStates /\ target[g].doing.n \in Nat
              /\ target[g].lane >= 1
<1>1. shown \in MaybeRequests
  BY DEF Inv, Counted
<1>2. shown.n \in Nat
  BY <1>1, RequestTypes
<1>3. sequence \in Nat /\ since \in Nat /\ since >= 1
  BY BoundsAssumption DEF Inv, Counted
<1>4. PICK c : c = Cardinality(Generations)
  OBVIOUS
<1>5. c \in 0..MaxGeneration /\ Generations = 1..c
  BY <1>4 DEF Inv, Placed
<1>6. ASSUME NEW g \in Generations
      PROVE  g \in Nat /\ g >= 1 /\ g # 0 /\ g <= MaxGeneration
  BY <1>5, <1>6, BoundsAssumption
<1>7. ASSUME NEW g \in Generations
      PROVE  target[g] \in TargetStates /\ target[g].doing.n \in Nat /\ target[g].lane >= 1
  <2>1. target[g] \in TargetStates
    BY DEF Inv, Placed
  <2>2. target[g].doing.n \in Nat
    BY <2>1, TargetFields, RequestTypes
  <2>3. target[g].lane \in 1..MaxGeneration
    BY <2>1, TargetFields
  <2> QED BY <2>1, <2>2, <2>3, BoundsAssumption
<1> QED BY <1>2, <1>3, <1>6, <1>7 DEF Inv, Numbers

-----------------------------------------------------------------------------
(* Steps that change one target.                                            *)

LEMMA OneTarget ==
  ASSUME NEW g \in Generations, NEW u, target' = [target EXCEPT ![g] = u]
  PROVE  /\ Generations' = Generations
         /\ \A h \in Generations : target'[h] = IF h = g THEN u ELSE target[h]
BY DEF Generations

(* An operation goes on rendering or ends, or a request waits: the lane is  *)
(* kept, or cleaned up after the last operation of a removed button.        *)
LEMMA ReplacedPlaces ==
  ASSUME Inv, NEW g \in Generations, NEW u \in TargetStates,
         target' = [target EXCEPT ![g] = u], UNCHANGED active,
         Timed(u), SamePlace(u, target[g]),
         u.phase # "none" => g = active \/ target[g].phase # "none",
         u.phase \in InTail => \/ u.phase = target[g].phase
                               \/ target[g].phase \in InTail /\ target[g].after = {},
         \/ lane' = lane
         \/ /\ lane' = 0 /\ active = 0 /\ u.phase = "none"
            /\ \A h \in Generations \ {g} : target[h].phase = "none"
  PROVE  Placed' /\ OneLane' /\ Turns'
<1>1. /\ Generations' = Generations
      /\ \A h \in Generations : target'[h] = IF h = g THEN u ELSE target[h]
  BY OneTarget
<1>2. Placed'
  <2>1. lane' \in Generations \cup {0} /\ active' \in Generations \cup {0}
    BY DEF Inv, Placed
  <2>2. \A h \in Generations : target'[h] \in TargetStates /\ Timed(target'[h])
    BY <1>1 DEF Inv, Placed
  <2>3. /\ Cardinality(Generations) \in 0..MaxGeneration
        /\ Generations = 1..Cardinality(Generations)
    BY DEF Inv, Placed
  <2>4. /\ Cardinality(Generations') \in 0..MaxGeneration
        /\ Generations' = 1..Cardinality(Generations')
    BY <1>1, <2>3, Zenon
  <2>5. \A h \in Generations' : target'[h] \in TargetStates /\ Timed(target'[h])
    BY <1>1, <2>2
  <2>6. active' \in Generations' \cup {0} /\ lane' \in Generations' \cup {0}
    BY <1>1, <2>1
  <2> QED BY <2>4, <2>5, <2>6 DEF Placed, Timed
<1>3. /\ active # 0 => active \in Generations /\ target[active].lane = lane
      /\ \A h \in Generations : target[h].phase # "none" => target[h].lane = lane
      /\ u.lane = target[g].lane /\ u.after = target[g].after
  BY DEF Inv, Placed, OneLane, SamePlace
<1>4. OneLane'
  <2>1. CASE lane' = lane
    <3>1. \A h \in Generations : target'[h].phase # "none" => target'[h].lane = lane
      BY <1>1, <1>3, Numerals
    <3>2. active # 0 => target'[active].lane = lane
      BY <1>1, <1>3
    <3> QED BY <1>1, <2>1, <3>1, <3>2 DEF OneLane
  <2>2. CASE /\ active = 0 /\ u.phase = "none"
             /\ \A h \in Generations \ {g} : target[h].phase = "none"
    <3>1. \A h \in Generations : target'[h].phase = "none"
      BY <1>1, <2>2
    <3> QED BY <1>1, <2>2, <3>1 DEF OneLane
  <2> QED BY <2>1, <2>2
<1>5. Turns'
  <2>1. \A h \in Generations : target'[h].after = target[h].after
    BY <1>1, <1>3
  <2>2. \A h \in Generations : target'[h].phase \in InTail =>
          \/ target'[h].phase = target[h].phase
          \/ target[h].phase \in InTail /\ target[h].after = {}
    BY <1>1
  <2>3. ASSUME NEW h \in Generations, target'[h].phase = "committing"
        PROVE  target'[h].after = {}
    <3>1. target[h].phase = "committing" \/ target[h].after = {}
      BY <2>2, <2>3 DEF InTail
    <3>2. target[h].after = {}
      BY <3>1 DEF Inv, Turns
    <3> QED BY <2>1, <3>2
  <2>4. ASSUME NEW h \in Generations, NEW k \in Generations, h # k,
               target'[h].phase \in InTail, target'[k].phase \in InTail
        PROVE  h \in target'[k].after \/ k \in target'[h].after
    <3>1. target[h].phase \in InTail /\ target[k].phase \in InTail
      BY <2>2, <2>4
    <3>2. h \in target[k].after \/ k \in target[h].after
      BY <2>4, <3>1 DEF Inv, Turns
    <3> QED BY <2>1, <3>2
  <2> QED BY <1>1, <2>3, <2>4 DEF Turns, InTail
<1> QED BY <1>2, <1>4, <1>5

LEMMA ReplacedNumbers ==
  ASSUME Inv, NEW g \in Generations, NEW u \in TargetStates,
         target' = [target EXCEPT ![g] = u], UNCHANGED <<active, since, shown>>,
         NEW m \in Nat, sequence' = m, sequence <= m, sequence = m \/ g = active,
         u.doing.n <= m, g # active => u.doing.n < since,
         g = active => Ordered(u, since, shown.n, m)
  PROVE  Numbers'
<1>1. /\ Generations' = Generations
      /\ \A h \in Generations : target'[h] = IF h = g THEN u ELSE target[h]
  BY OneTarget
<1>2. shown'.n <= m /\ since' <= m + 1
  BY Numerals
<1>3. ASSUME NEW h \in Generations PROVE target'[h].doing.n <= m
  <2>1. target[h].doing.n <= sequence /\ target[h].doing.n \in Nat
    BY Numerals DEF Inv, Numbers
  <2> QED BY <1>1, <2>1, Numerals
<1>4. ASSUME NEW h \in Generations, h # active PROVE target'[h].doing.n < since
  <2>1. target[h].doing.n < since
    BY <1>4 DEF Inv, Numbers
  <2> QED BY <1>1, <1>4, <2>1
<1>5. ASSUME active # 0 PROVE Ordered(target'[active], since, shown.n, m)
  <2>1. active \in Generations /\ Ordered(target[active], since, shown.n, sequence)
    BY <1>5 DEF Inv, Placed, Numbers
  <2>2. CASE g = active
    BY <1>1, <2>1, <2>2
  <2>3. CASE g # active
    BY <1>1, <2>1, <2>3
  <2> QED BY <2>2, <2>3
<1> QED BY <1>1, <1>2, <1>3, <1>4, <1>5 DEF Numbers

LEMMA SameNumbers ==
  ASSUME Inv, NEW g \in Generations, NEW u \in TargetStates,
         target' = [target EXCEPT ![g] = u], UNCHANGED <<active, since, shown, sequence>>,
         u.doing.n <= sequence, g # active => u.doing.n < since,
         g = active => Ordered(u, since, shown.n, sequence)
  PROVE  Numbers'
<1>1. PICK m \in Nat : m = sequence
  BY Numerals
<1>2. sequence' = m /\ sequence <= m /\ u.doing.n <= m
  BY <1>1
<1>3. g = active => Ordered(u, since, shown.n, m)
  BY <1>1, Zenon
<1> QED BY <1>1, <1>2, <1>3, ReplacedNumbers

(* What is being put on the device stays while no commit begins or ends.    *)
LEMMA PuttingKept ==
  ASSUME Generations \subseteq Generations',
         \A h \in Generations' : target'[h].phase = "committing" =>
           h \in Generations /\ target[h].phase = "committing",
         \A h \in Generations : target[h].phase = "committing" =>
           target'[h].phase = "committing" /\ target'[h].doing.n = target[h].doing.n
  PROVE  Putting' = Putting
BY DEF Putting

LEMMA ReplacedPutting ==
  ASSUME NEW g \in Generations, NEW u, target' = [target EXCEPT ![g] = u],
         u.phase = "committing" => target[g].phase = "committing",
         target[g].phase = "committing" => u.phase = "committing" /\ u.doing = target[g].doing
  PROVE  Putting' = Putting
<1>1. /\ Generations' = Generations
      /\ \A h \in Generations : target'[h] = IF h = g THEN u ELSE target[h]
  BY OneTarget
<1> QED BY <1>1, PuttingKept

LEMMA CountedKept ==
  ASSUME Inv, UNCHANGED <<sequence, destroyed, since, latest, shown>>, failed' \in BOOLEAN
  PROVE  Counted'
BY DEF Inv, Counted

(* Nothing that was ordered is disturbed.                                   *)
SameRequests(u, t) ==
  /\ u.phase = t.phase /\ u.doing = t.doing
  /\ u.pendingImmediate = t.pendingImmediate /\ u.pendingRegular = t.pendingRegular

LEMMA SameOrdered ==
  ASSUME NEW u, NEW t, SameRequests(u, t), NEW first, NEW last, NEW newest,
         Ordered(t, first, last, newest)
  PROVE  Ordered(u, first, last, newest)
BY DEF SameRequests, Ordered

(* A change of the active target that leaves its requests as they are.      *)
LEMMA SameRequestsKeep ==
  ASSUME Inv, active # 0, NEW u \in TargetStates, Timed(u), SamePlace(u, target[active]),
         SameRequests(u, target[active]), target' = [target EXCEPT ![active] = u],
         UNCHANGED <<active, lane, sequence, destroyed, since, latest, failed, shown>>
  PROVE  Inv' /\ Putting' = Putting
<1>1. active \in Generations
  BY DEF Inv, Placed
<1>2. Placed' /\ OneLane' /\ Turns'
  BY <1>1, ReplacedPlaces DEF SameRequests
<1>3. Ordered(u, since, shown.n, sequence) /\ u.doing.n <= sequence
  <2>1. Ordered(target[active], since, shown.n, sequence)
    BY DEF Inv, Numbers
  <2> QED BY <2>1, SameOrdered DEF Ordered
<1>4. Numbers'
  BY <1>1, <1>3, SameNumbers
<1>5. failed' \in BOOLEAN
  BY DEF Inv, Counted
<1>6. Counted'
  BY <1>5, CountedKept
<1>7. Putting' = Putting
  BY <1>1, ReplacedPutting DEF SameRequests
<1> QED BY <1>2, <1>4, <1>6, <1>7 DEF Inv

(* A step that leaves the active target its requests.                       *)
RequestsStay ==
  /\ active # 0
  /\ \E u \in TargetStates :
       /\ Timed(u) /\ SamePlace(u, target[active]) /\ SameRequests(u, target[active])
       /\ SameNotes(u, target[active]) /\ target' = [target EXCEPT ![active] = u]
  /\ UNCHANGED <<active, lane, sequence, destroyed, since, latest, failed, shown>>

LEMMA UpdateIntervalStays ==
  ASSUME Inv, NEW interval \in Intervals, UpdateInterval(interval)
  PROVE  RequestsStay
<1>1. PICK a : a = target[active]
  OBVIOUS
<1>2. active # 0 /\ a \in TargetStates /\ Timed(a)
  BY <1>1 DEF UpdateInterval, Inv, Placed
<1>3. PICK t : t = [a EXCEPT !.interval = interval]
  OBVIOUS
<1>4. t \in TargetStates /\ Timed(t) /\ SamePlace(t, a) /\ SameRequests(t, a)
  BY <1>2, <1>3, SetInterval DEF Timed, SamePlace, SameRequests
<1>5. PICK v : v = [t EXCEPT !.waited = 0]
  OBVIOUS
<1>6. 0 \in 0..ControlInterval /\ Off \in -1..ControlInterval
  BY IntervalsAssumption DEF Off
<1>7. v \in TargetStates /\ SamePlace(v, a) /\ SameRequests(v, a)
  BY <1>4, <1>5, <1>6, SetWaited DEF SamePlace, SameRequests
<1>8. PICK u : u = [v EXCEPT !.timer = Off]
  OBVIOUS
<1>9. u \in TargetStates /\ SamePlace(u, a) /\ SameRequests(u, a) /\ u.timer = Off
  BY <1>6, <1>7, <1>8, SetTimer DEF SamePlace, SameRequests
<1>10. u = [t EXCEPT !.waited = 0, !.timer = Off]
  BY <1>5, <1>8
<1>11. PICK w : w = IF t.pendingRegular = NoRequest \/ t.pendingRegular.category # "normal"
                    THEN t ELSE IF t.phase = "none" THEN Arm(u) ELSE u
  OBVIOUS
<1>12. \/ w = t \/ w = u
       \/ u.phase = "none" /\ w = Arm(u)
  BY <1>4, <1>9, <1>11 DEF SameRequests
<1>13. /\ w \in TargetStates /\ Timed(w) /\ SamePlace(w, a) /\ SameRequests(w, a)
       /\ SameNotes(w, a)
  <2>1. SameNotes(t, a) /\ SameNotes(v, t)
    BY <1>2, <1>3, <1>4, <1>5, IntervalNotes, WaitedNotes
  <2>2. SameNotes(u, v)
    BY <1>7, <1>8, TimerNotes
  <2>3. SameNotes(u, a)
    BY <2>1, <2>2 DEF SameNotes
  <2>4. CASE w = t
    BY <1>4, <2>1, <2>4
  <2>5. CASE w = u
    BY <1>9, <2>3, <2>5 DEF Timed
  <2>6. CASE u.phase = "none" /\ w = Arm(u)
    <3>1. /\ w \in TargetStates /\ Timed(w) /\ SamePlace(w, a) /\ SameRequests(w, a)
      BY <1>9, <2>6, ArmType DEF SamePlace, SameRequests
    <3>2. SameNotes(w, u)
      BY <1>9, <2>6, ArmNotes
    <3> QED BY <2>3, <3>1, <3>2 DEF SameNotes
  <2> QED BY <1>12, <2>4, <2>5, <2>6
<1>14. target' = [target EXCEPT ![active] = w]
  BY <1>1, <1>3, <1>10, <1>11, Zenon DEF UpdateInterval
<1>15. UNCHANGED <<active, lane, sequence, destroyed, since, latest, failed, shown>>
  BY DEF UpdateInterval
<1> QED BY <1>1, <1>2, <1>13, <1>14, <1>15 DEF RequestsStay

LEMMA TickStays ==
  ASSUME Inv, Tick PROVE RequestsStay
<1>1. PICK a : a = target[active]
  OBVIOUS
<1>2. active # 0 /\ a \in TargetStates /\ Timed(a)
  BY <1>1 DEF Tick, Inv, Placed
<1>3. PICK x : x = IF a.timer > 0 THEN a.timer - 1 ELSE a.timer
  OBVIOUS
<1>4. x \in -1..ControlInterval /\ (a.timer = Off => x = Off)
  BY <1>2, <1>3, TargetFields, IntervalsAssumption DEF Off
<1>5. PICK y : y = IF a.pendingRegular # NoRequest THEN Older(a.waited) ELSE a.waited
  OBVIOUS
<1>6. y \in 0..ControlInterval
  BY <1>2, <1>5, TargetFields, IntervalsAssumption DEF Older
<1>7. PICK v : v = [a EXCEPT !.timer = x]
  OBVIOUS
<1>8. v \in TargetStates /\ v.timer = x /\ SamePlace(v, a) /\ SameRequests(v, a)
  BY <1>2, <1>4, <1>7, SetTimer DEF SamePlace, SameRequests
<1>9. PICK w : w = [v EXCEPT !.waited = y]
  OBVIOUS
<1>10. w \in TargetStates /\ w.timer = x /\ SamePlace(w, a) /\ SameRequests(w, a)
  BY <1>6, <1>8, <1>9, SetWaited DEF SamePlace, SameRequests
<1>11. Timed(w)
  BY <1>2, <1>4, <1>10 DEF Timed, SameRequests
<1>12. w = [a EXCEPT !.timer = x, !.waited = y]
  BY <1>7, <1>9
<1>13. target' = [target EXCEPT ![active] = [a EXCEPT !.timer = x, !.waited = y]]
  BY <1>1, <1>3, <1>5, Zenon DEF Tick
<1>14. target' = [target EXCEPT ![active] = w]
  BY <1>12, <1>13
<1>15. UNCHANGED <<active, lane, sequence, destroyed, since, latest, failed, shown>>
  BY DEF Tick
<1>16. SameNotes(v, a) /\ SameNotes(w, v)
  BY <1>2, <1>7, <1>8, <1>9, TimerNotes, WaitedNotes
<1>17. SameNotes(w, a)
  BY <1>16 DEF SameNotes
<1> QED BY <1>1, <1>2, <1>10, <1>11, <1>14, <1>15, <1>17 DEF RequestsStay

LEMMA RequestsStayKeeps ==
  ASSUME Inv, RequestsStay PROVE Inv' /\ Putting' = Putting
BY SameRequestsKeep DEF RequestsStay

LEMMA TimerKeeps ==
  ASSUME Inv, Timer PROVE Inv' /\ Putting' = Putting
<1>1. PICK a : a = target[active]
  OBVIOUS
<1>2. /\ active \in Generations /\ active # 0 /\ a \in TargetStates /\ Timed(a)
      /\ a.timer = 0
  BY <1>1 DEF Timer, Inv, Placed
<1>3. a.phase = "none" /\ a.pendingRegular # NoRequest
  BY <1>2 DEF Timed, Off
<1>4. PICK t : t = [a EXCEPT !.timer = Off]
  OBVIOUS
<1>5. Off \in -1..ControlInterval
  BY IntervalsAssumption DEF Off
<1>6. t \in TargetStates /\ SamePlace(t, a) /\ SameRequests(t, a) /\ t.timer = Off
  BY <1>2, <1>4, <1>5, SetTimer DEF SamePlace, SameRequests
<1>7. t.phase = "none" /\ t.pendingRegular # NoRequest
  BY <1>3, <1>6 DEF SameRequests
<1>8. PICK u : u = Drain(t)
  OBVIOUS
<1>9. target' = [target EXCEPT ![active] = u]
  BY <1>1, <1>4, <1>8 DEF Timer
<1>10. u \in TargetStates /\ Timed(u) /\ SamePlace(u, a) /\ u.phase \in {"none", "rendering"}
  BY <1>6, <1>7, <1>8, DrainType DEF SamePlace
<1>11. Ordered(u, since, shown.n, sequence) /\ u.doing.n <= sequence
  <2>1. Ordered(a, since, shown.n, sequence)
    BY <1>1, <1>2 DEF Inv, Numbers
  <2>2. Ordered(t, since, shown.n, sequence)
    BY <1>6, <2>1, SameOrdered
  <2>3. Ordered(u, since, shown.n, sequence)
    BY <1>6, <1>7, <1>8, <2>2, Numerals, DrainOrdered
  <2> QED BY <2>3 DEF Ordered
<1>12. UNCHANGED <<active, lane, sequence, destroyed, since, latest, failed, shown>>
  BY DEF Timer
<1>13. Placed' /\ OneLane' /\ Turns'
  BY <1>1, <1>2, <1>9, <1>10, <1>12, ReplacedPlaces DEF InTail
<1>14. Numbers'
  BY <1>2, <1>9, <1>10, <1>11, <1>12, SameNumbers
<1>15. Counted'
  <2>1. failed' \in BOOLEAN
    BY <1>12 DEF Inv, Counted
  <2> QED BY <1>12, <2>1, CountedKept
<1>16. Putting' = Putting
  BY <1>1, <1>2, <1>3, <1>9, <1>10, ReplacedPutting
<1> QED BY <1>13, <1>14, <1>15, <1>16 DEF Inv

LEMMA SubmitKeeps ==
  ASSUME Inv, NEW category \in Categories, NEW key \in SemanticKeys, Submit(category, key)
  PROVE  Inv' /\ Putting' = Putting /\ sequence' = sequence + 1 /\ UNCHANGED <<since, shown>>
<1>1. PICK a : a = target[active]
  OBVIOUS
<1>2. active \in Generations /\ active # 0 /\ a \in TargetStates /\ Timed(a)
  BY <1>1 DEF Submit, Inv, Placed
<1>3. PICK r : r = [category |-> category, key |-> key, n |-> sequence + 1]
  OBVIOUS
<1>4. r \in Requests /\ r \in MaybeRequests /\ r.category = category /\ r.n = sequence + 1
  <2>1. sequence + 1 \in 1..MaxSequence
    BY Numerals, BoundsAssumption DEF Submit
  <2>2. r \in Requests
    BY <1>3, <2>1 DEF Requests
  <2> QED BY <1>3, <2>2 DEF MaybeRequests
<1>5. PICK t : t = Slotted(a, r)
  OBVIOUS
<1>6. /\ t \in TargetStates /\ SamePlace(t, a)
      /\ t.phase = a.phase /\ t.doing = a.doing /\ t.timer = a.timer
  BY <1>2, <1>4, <1>5, SlottedType
<1>7. Ordered(t, since, shown.n, sequence + 1)
  <2>1. Ordered(a, since, shown.n, sequence)
    BY <1>1, <1>2 DEF Inv, Numbers
  <2> QED BY <1>2, <1>4, <1>5, <2>1, Numerals, SlottedOrdered
<1>8. PICK u : u = [t EXCEPT !.timer = Off]
  OBVIOUS
<1>9. Off \in -1..ControlInterval
  BY IntervalsAssumption DEF Off
<1>10. /\ u \in TargetStates /\ SamePlace(u, t) /\ SameRequests(u, t) /\ u.timer = Off
  BY <1>6, <1>8, <1>9, SetTimer DEF SamePlace, SameRequests
<1>11. Ordered(u, since, shown.n, sequence + 1)
  BY <1>7, <1>10, SameOrdered
<1>12. PICK w : w = IF t.phase # "none" THEN IF category = "immediate" THEN u ELSE t
                    ELSE IF t.pendingImmediate # NoRequest THEN Drain(u) ELSE Arm(u)
  OBVIOUS
<1>13. /\ w \in TargetStates /\ Timed(w) /\ SamePlace(w, a)
       /\ Ordered(w, since, shown.n, sequence + 1)
       /\ \/ w.phase = a.phase /\ w.doing = a.doing
          \/ a.phase = "none" /\ w.phase \in {"none", "rendering"}
  <2>1. CASE w = u /\ t.phase # "none"
    BY <1>6, <1>10, <1>11, <2>1 DEF Timed, SamePlace, SameRequests
  <2>2. CASE w = t /\ t.phase # "none"
    <3>1. t.timer = Off
      BY <1>2, <1>6, <2>2 DEF Timed
    <3> QED BY <1>6, <1>7, <2>2, <3>1 DEF Timed
  <2>3. CASE w = Drain(u) /\ t.phase = "none" /\ t.pendingImmediate # NoRequest
    <3>1. u.phase = "none" /\ u.pendingImmediate # NoRequest
      BY <1>10, <2>3 DEF SameRequests
    <3>2. /\ w \in TargetStates /\ Timed(w) /\ SamePlace(w, u)
          /\ w.phase \in {"none", "rendering"}
      BY <1>10, <2>3, <3>1, DrainType
    <3>3. sequence + 1 \in Nat
      BY Numerals
    <3>4. Ordered(w, since, shown.n, sequence + 1)
      BY <1>10, <1>11, <2>3, <3>1, <3>3, Numerals, DrainOrdered
    <3>5. SamePlace(w, a)
      BY <1>6, <1>10, <3>2 DEF SamePlace
    <3> QED BY <1>6, <2>3, <3>2, <3>4, <3>5
  <2>4. CASE w = Arm(u) /\ t.phase = "none"
    <3>1. u.phase = "none"
      BY <1>10, <2>4 DEF SameRequests
    <3>2. /\ w \in TargetStates /\ Timed(w) /\ SamePlace(w, u) /\ w.phase = "none"
      BY <1>10, <2>4, <3>1, ArmType
    <3>3. Ordered(w, since, shown.n, sequence + 1)
      BY <1>10, <1>11, <2>4, <3>1, ArmOrdered
    <3>4. SamePlace(w, a)
      BY <1>6, <1>10, <3>2 DEF SamePlace
    <3> QED BY <1>6, <2>4, <3>2, <3>3, <3>4
  <2> QED BY <1>12, <2>1, <2>2, <2>3, <2>4
<1>14. target' = [target EXCEPT ![active] = w]
  BY <1>1, <1>3, <1>5, <1>8, <1>12, Zenon DEF Submit
<1>15. /\ UNCHANGED <<active, lane, destroyed, since, shown>>
       /\ sequence' = sequence + 1 /\ latest' = r /\ failed' = FALSE /\ sequence < MaxSequence
  BY <1>3 DEF Submit
<1>16. Placed' /\ OneLane' /\ Turns'
  BY <1>1, <1>2, <1>13, <1>14, <1>15, ReplacedPlaces DEF InTail
<1>17. Numbers'
  <2>1. w.doing.n <= sequence + 1
    BY <1>13 DEF Ordered
  <2>2. PICK m \in Nat : m = sequence + 1
    BY Numerals
  <2>3. sequence' = m /\ sequence <= m /\ w.doing.n <= m
    BY <1>15, <2>1, <2>2, Numerals
  <2>4. Ordered(w, since, shown.n, m)
    BY <1>13, <2>2, Zenon
  <2> QED BY <1>2, <1>13, <1>14, <1>15, <2>3, <2>4, ReplacedNumbers
<1>18. Counted'
  <2>1. sequence' \in 0..MaxSequence
    BY <1>15, Numerals, BoundsAssumption
  <2>2. {latest', shown'} \subseteq MaybeRequests
    BY <1>4, <1>15 DEF Inv, Counted
  <2>3. since' \in 1..(MaxSequence + 1) /\ {destroyed', failed'} \subseteq BOOLEAN
    BY <1>15 DEF Inv, Counted
  <2> QED BY <2>1, <2>2, <2>3 DEF Counted
<1>19. Putting' = Putting
  BY <1>1, <1>2, <1>13, <1>14, ReplacedPutting
<1> QED BY <1>15, <1>16, <1>17, <1>18, <1>19 DEF Inv

-----------------------------------------------------------------------------
(* Operations.                                                              *)

(* One that ends leaves the lane in place unless nothing runs on it and the *)
(* button has been removed.                                                 *)
LEMMA CleanupLane ==
  ASSUME Inv, NEW g \in Generations, target[g].phase # "none", NEW idle, Cleanup(g, idle)
  PROVE  \/ lane' = lane
         \/ /\ lane' = 0 /\ active = 0 /\ idle
            /\ \A h \in Generations \ {g} : target[h].phase = "none"
<1>1. lane' = lane \/ (lane' = 0 /\ idle /\ LaneFree(g))
  BY Zenon DEF Cleanup
<1>2. target[g].lane = lane
  BY DEF Inv, OneLane
<1>3. LaneFree(g) => active = 0 /\ \A h \in Generations \ {g} : target[h].phase = "none"
  <2> SUFFICES ASSUME LaneFree(g)
               PROVE  active = 0 /\ \A h \in Generations \ {g} : target[h].phase = "none"
    OBVIOUS
  <2>1. active = 0
    BY <1>2 DEF LaneFree, Inv, OneLane
  <2>2. \A h \in Generations \ {g} : target[h].phase = "none"
    BY <1>2 DEF LaneFree, Inv, OneLane
  <2> QED BY <2>1, <2>2
<1> QED BY <1>1, <1>3, Zenon

LEMMA EndKeeps ==
  ASSUME Inv, NEW g \in Generations, target[g].phase \in {"rendering", "settling"},
         NEW t \in TargetStates, SamePlace(t, target[g]), SameRequests(t, target[g]),
         t.timer = target[g].timer, End(g, t),
         UNCHANGED <<active, sequence, destroyed, since, latest, shown>>, failed' \in BOOLEAN
  PROVE  Inv' /\ Putting' = Putting
<1>1. t.timer = Off
  BY DEF Inv, Placed, Timed
<1>2. PICK u : u = Finish(t, IsCurrent(g))
  OBVIOUS
<1>3. /\ u \in TargetStates /\ Timed(u) /\ SamePlace(u, t)
      /\ u.phase \in {"none", "rendering"}
      /\ u.doing = NoRequest \/ IsCurrent(g)
  BY <1>1, <1>2, FinishType, Zenon
<1>4. target' = [target EXCEPT ![g] = u] /\ Cleanup(g, u.phase = "none")
  BY <1>2 DEF End
<1>5. target[g].phase # "none" /\ target[g].phase # "committing"
  OBVIOUS
<1>6. Placed' /\ OneLane' /\ Turns'
  <2>1. SamePlace(u, target[g])
    BY <1>3 DEF SamePlace
  <2>2. u.phase \notin InTail
    BY <1>3 DEF InTail
  <2>3. \/ lane' = lane
        \/ /\ lane' = 0 /\ active = 0 /\ u.phase = "none"
           /\ \A h \in Generations \ {g} : target[h].phase = "none"
    BY <1>4, <1>5, CleanupLane
  <2> QED BY <1>3, <1>4, <1>5, <2>1, <2>2, <2>3, ReplacedPlaces
<1>7. Numbers'
  <2>1. CASE g = active
    <3>1. Ordered(target[g], since, shown.n, sequence)
      BY <2>1, Numerals DEF Inv, Numbers
    <3>2. Ordered(t, since, shown.n, sequence)
      BY <3>1, SameOrdered
    <3>3. Ordered(u, since, shown.n, sequence)
      BY <1>1, <1>2, <3>2, Numerals, FinishOrdered
    <3>4. u.doing.n <= sequence
      BY <3>3 DEF Ordered
    <3> QED BY <1>3, <1>4, <2>1, <3>3, <3>4, SameNumbers
  <2>2. CASE g # active
    <3>1. u.doing.n = 0
      BY <1>3, <2>2, RequestTypes DEF IsCurrent
    <3>2. u.doing.n <= sequence /\ u.doing.n < since
      BY <3>1, Numerals
    <3> QED BY <1>3, <1>4, <2>2, <3>2, SameNumbers
  <2> QED BY <2>1, <2>2
<1>8. Counted'
  BY CountedKept
<1>9. Putting' = Putting
  BY <1>3, <1>4, <1>5, ReplacedPutting
<1> QED BY <1>6, <1>7, <1>8, <1>9 DEF Inv

(* An image of the present activation lines up behind all that is in the    *)
(* tail of the lane.                                                        *)
LEMMA QueueKeeps ==
  ASSUME Inv, NEW g \in Generations, target[g].phase = "rendering",
         target' = [target EXCEPT ![g].phase = "queued",
                                  ![g].after = OnTail(target[g].lane)],
         UNCHANGED <<active, lane, sequence, destroyed, since, latest, failed, shown>>
  PROVE  Inv' /\ Putting' = Putting
<1>1. PICK t : t = target[g]
  OBVIOUS
<1>2. t \in TargetStates /\ t.phase = "rendering" /\ t.timer = Off /\ t.lane = lane
  BY <1>1 DEF Inv, Placed, Timed, OneLane
<1>3. PICK tail : tail = OnTail(lane)
  OBVIOUS
<1>4. /\ tail \in SUBSET (1..MaxGeneration)
      /\ \A h \in Generations : target[h].phase \in InTail => h \in tail
  <2>1. tail \subseteq Generations
    BY <1>3 DEF OnTail
  <2>2. Generations \subseteq 1..MaxGeneration
    BY Numerals, BoundsAssumption
  <2>3. ASSUME NEW h \in Generations, target[h].phase \in InTail PROVE h \in tail
    <3>1. target[h].lane = lane
      BY <2>3 DEF Inv, OneLane, InTail
    <3> QED BY <1>3, <2>3, <3>1 DEF OnTail, InTail
  <2> QED BY <2>1, <2>2, <2>3
<1>5. PICK v : v = [t EXCEPT !.phase = "queued"]
  OBVIOUS
<1>6. /\ v \in TargetStates /\ v.phase = "queued" /\ v.timer = Off /\ v.lane = lane
      /\ v.doing = t.doing /\ v.pendingImmediate = t.pendingImmediate
      /\ v.pendingRegular = t.pendingRegular
  BY <1>2, <1>5, SetPhase DEF Phases
<1>7. PICK u : u = [v EXCEPT !.after = tail]
  OBVIOUS
<1>8. /\ u \in TargetStates /\ u.phase = "queued" /\ u.timer = Off /\ u.lane = lane
      /\ u.doing = t.doing /\ u.pendingImmediate = t.pendingImmediate
      /\ u.pendingRegular = t.pendingRegular /\ u.after = tail
  BY <1>4, <1>6, <1>7, SetAfter, ZenonT(40)
<1>9. target' = [target EXCEPT ![g] = u]
  <2>1. target' = [[target EXCEPT ![g].phase = "queued"] EXCEPT ![g].after = tail]
    BY <1>1, <1>2, <1>3
  <2>2. [target EXCEPT ![g].phase = "queued"] = [target EXCEPT ![g] = v]
    BY <1>1, <1>5
  <2>3. [[target EXCEPT ![g] = v] EXCEPT ![g].after = tail] = [target EXCEPT ![g] = u]
    BY <1>7
  <2> QED BY <2>1, <2>2, <2>3
<1>10. /\ Generations' = Generations
       /\ \A h \in Generations : target'[h] = IF h = g THEN u ELSE target[h]
  BY <1>9, OneTarget
<1>11. Placed'
  <2>1. \A h \in Generations : target'[h] \in TargetStates /\ Timed(target'[h])
    BY <1>8, <1>10, ZenonT(40) DEF Inv, Placed, Timed
  <2>2. /\ Cardinality(Generations) \in 0..MaxGeneration
        /\ Generations = 1..Cardinality(Generations)
        /\ active \in Generations \cup {0} /\ lane \in Generations \cup {0}
    BY DEF Inv, Placed
  <2>3. /\ Cardinality(Generations') \in 0..MaxGeneration
        /\ Generations' = 1..Cardinality(Generations')
        /\ active' \in Generations' \cup {0} /\ lane' \in Generations' \cup {0}
    BY <1>10, <2>2
  <2>4. \A h \in Generations' : target'[h] \in TargetStates /\ Timed(target'[h])
    BY <1>10, <2>1
  <2> QED BY <2>3, <2>4 DEF Placed, Timed
<1>12. OneLane'
  <2>1. /\ active # 0 => active \in Generations /\ target[active].lane = lane
        /\ \A h \in Generations : target[h].phase # "none" => target[h].lane = lane
    BY DEF Inv, Placed, OneLane
  <2>2. \A h \in Generations : target'[h].phase # "none" => target'[h].lane = lane
    BY <1>8, <1>10, <2>1
  <2>3. active # 0 => target'[active].lane = lane
    BY <1>8, <1>10, <2>1
  <2> QED BY <1>10, <2>2, <2>3 DEF OneLane
<1>13. Turns'
  <2>1. ASSUME NEW h \in Generations, target'[h].phase = "committing"
        PROVE  target'[h].after = {}
    <3>1. h # g /\ target'[h] = target[h]
      BY <1>8, <1>10, <2>1
    <3> QED BY <2>1, <3>1 DEF Inv, Turns
  <2>2. ASSUME NEW h \in Generations, NEW k \in Generations, h # k,
               target'[h].phase \in InTail, target'[k].phase \in InTail
        PROVE  h \in target'[k].after \/ k \in target'[h].after
    <3>1. CASE h = g
      BY <1>4, <1>8, <1>10, <2>2, <3>1
    <3>2. CASE k = g
      BY <1>4, <1>8, <1>10, <2>2, <3>2
    <3>3. CASE h # g /\ k # g
      <4>1. target'[h] = target[h] /\ target'[k] = target[k]
        BY <1>10, <3>3
      <4> QED BY <2>2, <4>1 DEF Inv, Turns
    <3> QED BY <3>1, <3>2, <3>3
  <2> QED BY <1>10, <2>1, <2>2 DEF Turns, InTail
<1>14. Numbers'
  <2>1. u.doing.n <= sequence /\ (g # active => u.doing.n < since)
    BY <1>1, <1>8 DEF Inv, Numbers
  <2>2. g = active => Ordered(u, since, shown.n, sequence)
    <3>1. g = active => Ordered(t, since, shown.n, sequence)
      BY <1>1, Numerals DEF Inv, Numbers
    <3> QED BY <1>2, <1>8, <3>1 DEF Ordered
  <2> QED BY <1>8, <1>9, <2>1, <2>2, SameNumbers
<1>15. Counted'
  <2>1. failed' \in BOOLEAN
    BY DEF Inv, Counted
  <2> QED BY <2>1, CountedKept
<1>16. Putting' = Putting
  BY <1>1, <1>2, <1>8, <1>9, ReplacedPutting
<1> QED BY <1>11, <1>12, <1>13, <1>14, <1>15, <1>16 DEF Inv

LEMMA RenderResolvesKeeps ==
  ASSUME Inv, NEW g \in Generations, RenderResolves(g)
  PROVE  Inv' /\ Putting' = Putting
<1>1. PICK t : t = target[g]
  OBVIOUS
<1>2. /\ t \in TargetStates /\ t.phase = "rendering"
      /\ UNCHANGED <<active, sequence, destroyed, since, latest, failed, shown>>
      /\ failed \in BOOLEAN
  BY <1>1 DEF RenderResolves, Inv, Placed, Counted
<1>3. CASE End(g, t)
  BY <1>1, <1>2, <1>3, EndKeeps DEF SamePlace, SameRequests
<1>4. CASE End(g, [t EXCEPT !.lastKey = t.doing.key])
  <2>1. PICK u : u = [t EXCEPT !.lastKey = t.doing.key]
    OBVIOUS
  <2>2. t.doing.key \in SemanticKeys \cup {NoKey}
    BY <1>2, TargetFields DEF MaybeRequests, Requests, NoRequest
  <2>3. u \in TargetStates /\ SamePlace(u, t) /\ SameRequests(u, t) /\ u.timer = t.timer
    BY <1>2, <2>1, <2>2, SetLastKey DEF SamePlace, SameRequests
  <2> QED BY <1>1, <1>2, <1>4, <2>1, <2>3, EndKeeps
<1>5. CASE /\ target' = [target EXCEPT ![g].phase = "queued", ![g].after = OnTail(t.lane)]
           /\ UNCHANGED lane
  BY <1>1, <1>2, <1>5, QueueKeeps
<1> QED BY <1>1, <1>3, <1>4, <1>5 DEF RenderResolves

LEMMA RenderFailsKeeps ==
  ASSUME Inv, NEW g \in Generations, RenderFails(g)
  PROVE  Inv' /\ Putting' = Putting
<1>1. /\ target[g] \in TargetStates /\ target[g].phase = "rendering" /\ End(g, target[g])
      /\ UNCHANGED <<active, sequence, destroyed, since, latest, shown>>
  BY DEF RenderFails, Inv, Placed
<1>2. failed' \in BOOLEAN
  BY DEF RenderFails, Inv, Counted
<1> QED BY <1>1, <1>2, EndKeeps DEF SamePlace, SameRequests

LEMMA SettleKeeps ==
  ASSUME Inv, NEW g \in Generations, Settle(g)
  PROVE  Inv' /\ Putting' = Putting
<1>1. /\ target[g] \in TargetStates /\ target[g].phase = "settling" /\ End(g, target[g])
      /\ UNCHANGED <<active, sequence, destroyed, since, latest, failed, shown>>
  BY DEF Settle, Inv, Placed
<1>2. failed' \in BOOLEAN
  BY <1>1 DEF Inv, Counted
<1> QED BY <1>1, <1>2, EndKeeps DEF SamePlace, SameRequests

(* Two commits cannot both be next in the tail.                             *)
LEMMA OneNext ==
  ASSUME Inv, NEW g \in Generations, NEW h \in Generations,
         target[g].phase \in InTail, target[g].after = {},
         target[h].phase \in InTail, target[h].after = {}
  PROVE  g = h
BY DEF Inv, Turns

LEMMA CommittingAlone ==
  ASSUME Inv, NEW g \in Generations, target[g].phase = "committing"
  PROVE  Putting = {target[g].doing.n}
<1>1. ASSUME NEW h \in Generations, target[h].phase = "committing" PROVE h = g
  <2>1. target[g].after = {} /\ target[h].after = {}
    BY <1>1 DEF Inv, Turns
  <2> QED BY <1>1, <2>1, OneNext DEF InTail
<1> QED BY <1>1 DEF Putting

LEMMA NextAlone ==
  ASSUME Inv, NEW g \in Generations, target[g].phase = "queued", target[g].after = {}
  PROVE  Putting = {}
<1>1. ASSUME NEW h \in Generations, target[h].phase = "committing" PROVE FALSE
  <2>1. target[h].after = {}
    BY <1>1 DEF Inv, Turns
  <2>2. g = h
    BY <1>1, <2>1, OneNext DEF InTail
  <2> QED BY <1>1, <2>2
<1> QED BY <1>1 DEF Putting

(* A commit that is over: nobody waits for it any more, and what waits for  *)
(* a picture is newer than what the device has taken.                       *)
LEMMA LeaveTailKeeps ==
  ASSUME Inv, NEW g \in Generations, target[g].phase \in InTail, target[g].after = {},
         NEW t \in TargetStates, SamePlace(t, target[g]), SameRequests(t, target[g]),
         t.timer = target[g].timer, LeaveTail(g, t),
         UNCHANGED <<active, lane, sequence, destroyed, since, latest>>,
         failed' \in BOOLEAN, shown' \in {shown, target[g].doing}
  PROVE  Inv' /\ Putting' = {}
<1>1. PICK u : u = [t EXCEPT !.phase = "settling"]
  OBVIOUS
<1>2. /\ u \in TargetStates /\ SamePlace(u, target[g]) /\ u.phase = "settling"
      /\ u.doing = target[g].doing /\ u.timer = Off
      /\ u.pendingImmediate = target[g].pendingImmediate
      /\ u.pendingRegular = target[g].pendingRegular
  <2>1. t.timer = Off
    BY DEF Inv, Placed, Timed, InTail
  <2> QED BY <1>1, <2>1, SetPhase DEF SamePlace, SameRequests, Phases
<1>3. /\ Generations' = Generations
      /\ target'[g] = u
      /\ \A h \in Generations \ {g} :
           target'[h] = [target[h] EXCEPT !.after = target[h].after \ {g}]
  BY <1>1 DEF LeaveTail, Generations
<1>4. ASSUME NEW h \in Generations \ {g}
      PROVE  /\ target'[h] \in TargetStates
             /\ target'[h].after = target[h].after \ {g}
             /\ target'[h].phase = target[h].phase /\ target'[h].doing = target[h].doing
             /\ target'[h].timer = target[h].timer /\ target'[h].lane = target[h].lane
             /\ target'[h].pendingImmediate = target[h].pendingImmediate
             /\ target'[h].pendingRegular = target[h].pendingRegular
  <2>1. target[h] \in TargetStates
    BY DEF Inv, Placed
  <2>2. PICK x : x = target[h].after \ {g}
    OBVIOUS
  <2>3. x \in SUBSET (1..MaxGeneration)
    BY <2>1, <2>2, TargetFields
  <2>4. target'[h] = [target[h] EXCEPT !.after = x]
    BY <1>3, <2>2
  <2> QED BY <2>1, <2>2, <2>3, <2>4, SetAfter
<1>5. Placed'
  <2>1. \A h \in Generations : target'[h] \in TargetStates /\ Timed(target'[h])
    <3>1. ASSUME NEW h \in Generations \ {g} PROVE Timed(target'[h])
      <4>1. Timed(target[h])
        BY DEF Inv, Placed
      <4> QED BY <1>4, <4>1 DEF Timed
    <3> QED BY <1>2, <1>3, <1>4, <3>1 DEF Timed
  <2>2. /\ Cardinality(Generations) \in 0..MaxGeneration
        /\ Generations = 1..Cardinality(Generations)
        /\ active \in Generations \cup {0} /\ lane \in Generations \cup {0}
    BY DEF Inv, Placed
  <2>3. /\ Cardinality(Generations') \in 0..MaxGeneration
        /\ Generations' = 1..Cardinality(Generations')
        /\ active' \in Generations' \cup {0} /\ lane' \in Generations' \cup {0}
    BY <1>3, <2>2
  <2>4. \A h \in Generations' : target'[h] \in TargetStates /\ Timed(target'[h])
    BY <1>3, <2>1
  <2> QED BY <2>3, <2>4 DEF Placed, Timed
<1>6. OneLane'
  <2>1. /\ active # 0 => active \in Generations /\ target[active].lane = lane
        /\ \A h \in Generations : target[h].phase # "none" => target[h].lane = lane
    BY DEF Inv, Placed, OneLane
  <2>2. \A h \in Generations : target'[h].lane = target[h].lane
    BY <1>2, <1>3, <1>4 DEF SamePlace
  <2>3. \A h \in Generations : target'[h].phase # "none" => target[h].phase # "none"
    BY <1>3, <1>4 DEF InTail
  <2> QED BY <1>3, <2>1, <2>2, <2>3 DEF OneLane
<1>7. Turns'
  <2>1. ASSUME NEW h \in Generations, target'[h].phase = "committing"
        PROVE  target'[h].after = {}
    <3>1. h # g
      BY <1>2, <1>3, <2>1
    <3>2. target[h].phase = "committing"
      BY <1>4, <2>1, <3>1
    <3>3. target[h].after = {}
      BY <3>2 DEF Inv, Turns
    <3> QED BY <1>4, <3>1, <3>3
  <2>2. ASSUME NEW h \in Generations, NEW k \in Generations, h # k,
               target'[h].phase \in InTail, target'[k].phase \in InTail
        PROVE  h \in target'[k].after \/ k \in target'[h].after
    <3>1. h # g /\ k # g
      BY <1>2, <1>3, <2>2 DEF InTail
    <3>2. target[h].phase \in InTail /\ target[k].phase \in InTail
      BY <1>4, <2>2, <3>1
    <3>3. h \in target[k].after \/ k \in target[h].after
      BY <2>2, <3>2 DEF Inv, Turns
    <3> QED BY <1>4, <3>1, <3>3
  <2> QED BY <1>3, <2>1, <2>2 DEF Turns, InTail
<1>8. \A h \in Generations : target'[h].doing = target[h].doing
  BY <1>2, <1>3, <1>4
<1>9. shown' \in MaybeRequests
  <2>1. target[g].doing \in MaybeRequests
    BY TargetFields, Numerals
  <2> QED BY <2>1 DEF Inv, Counted
<1>10. shown'.n \in Nat /\ (shown'.n = shown.n \/ shown'.n = target[g].doing.n)
  BY <1>9, RequestTypes
<1>11. Numbers'
  <2>1. shown'.n <= sequence
    BY <1>10, Numerals DEF Inv, Numbers
  <2>2. ASSUME active # 0 PROVE Ordered(target'[active], since, shown'.n, sequence)
    <3>1. active \in Generations /\ Ordered(target[active], since, shown.n, sequence)
      BY <2>2 DEF Inv, Placed, Numbers
    <3>2. PICK a : a = target[active]
      OBVIOUS
    <3>3. /\ a.pendingImmediate.n \in Nat /\ a.pendingRegular.n \in Nat /\ a.doing.n \in Nat
          /\ Ordered(a, since, shown.n, sequence)
      BY <3>1, <3>2, TargetFields, RequestTypes, Numerals
    <3>4. PICK b : b = target'[active]
      OBVIOUS
    <3>5. /\ b.doing = a.doing /\ b.pendingImmediate = a.pendingImmediate
          /\ b.pendingRegular = a.pendingRegular
      BY <1>2, <1>3, <1>4, <3>1, <3>2, <3>4
    <3>6. CASE active = g
      <4>1. b.phase = "settling" /\ (shown'.n = shown.n \/ shown'.n = a.doing.n)
        BY <1>2, <1>3, <1>10, <3>2, <3>4, <3>6
      <4>2. a.pendingImmediate # NoRequest =>
              Unshown(a.pendingImmediate.n, since, shown'.n, sequence)
        BY <3>3, <4>1 DEF Ordered, Unshown
      <4>3. a.pendingRegular # NoRequest =>
              Unshown(a.pendingRegular.n, since, shown'.n, sequence)
        BY <3>3, <4>1 DEF Ordered, Unshown
      <4> QED BY <3>3, <3>4, <3>5, <4>1, <4>2, <4>3 DEF Ordered
    <3>7. CASE active # g
      <4>1. target[g].doing.n < since /\ target[g].doing.n \in Nat
        BY <3>7, Numerals DEF Inv, Numbers
      <4>2. b.phase = a.phase
        BY <1>4, <3>1, <3>2, <3>4, <3>7
      <4>3. a.pendingImmediate # NoRequest =>
              Unshown(a.pendingImmediate.n, since, shown'.n, sequence)
        BY <1>10, <3>3, <4>1, Numerals DEF Ordered, Unshown
      <4>4. a.pendingRegular # NoRequest =>
              Unshown(a.pendingRegular.n, since, shown'.n, sequence)
        BY <1>10, <3>3, <4>1, Numerals DEF Ordered, Unshown
      <4>5. a.phase \in {"rendering", "queued", "committing"} =>
              Unshown(a.doing.n, since, shown'.n, sequence)
        BY <1>10, <3>3, <4>1, Numerals DEF Ordered, Unshown
      <4> QED BY <3>3, <3>4, <3>5, <4>2, <4>3, <4>4, <4>5 DEF Ordered
    <3> QED BY <3>6, <3>7
  <2>3. /\ since <= sequence + 1
        /\ \A h \in Generations : target[h].doing.n <= sequence
        /\ \A h \in Generations : h # active => target[h].doing.n < since
    BY DEF Inv, Numbers
  <2> QED BY <1>3, <1>8, <2>1, <2>2, <2>3 DEF Numbers
<1>12. Counted'
  <2>1. sequence' \in 0..MaxSequence /\ since' \in 1..(MaxSequence + 1)
    BY DEF Inv, Counted
  <2>2. {destroyed', failed'} \subseteq BOOLEAN /\ latest' \in MaybeRequests
    BY DEF Inv, Counted
  <2> QED BY <1>9, <2>1, <2>2 DEF Counted
<1>13. Putting' = {}
  <2>1. ASSUME NEW h \in Generations, target'[h].phase = "committing" PROVE FALSE
    <3>1. h # g
      BY <1>2, <1>3, <2>1
    <3>2. target[h].phase = "committing"
      BY <1>4, <2>1, <3>1
    <3>3. target[h].after = {}
      BY <3>2 DEF Inv, Turns
    <3> QED BY <3>1, <3>2, <3>3, OneNext DEF InTail
  <2> QED BY <1>3, <2>1 DEF Putting
<1> QED BY <1>5, <1>6, <1>7, <1>11, <1>12, <1>13 DEF Inv

LEMMA CommitOver ==
  ASSUME Inv, NEW g \in Generations, target[g].phase = "committing"
  PROVE  target[g].phase \in InTail /\ target[g].after = {} /\ target[g] \in TargetStates
BY DEF Inv, Turns, Placed, InTail

LEMMA CommitFailsKeeps ==
  ASSUME Inv, NEW g \in Generations, CommitFails(g)
  PROVE  /\ Inv' /\ Putting = {target[g].doing.n} /\ Putting' = {}
         /\ UNCHANGED <<sequence, since, shown>>
<1>1. /\ target[g].phase = "committing" /\ LeaveTail(g, target[g])
      /\ UNCHANGED <<active, lane, sequence, destroyed, since, latest, shown>>
  BY DEF CommitFails
<1>2. failed' \in BOOLEAN
  BY DEF CommitFails, Inv, Counted
<1>3. Inv' /\ Putting' = {}
  BY <1>1, <1>2, CommitOver, LeaveTailKeeps DEF SamePlace, SameRequests
<1> QED BY <1>1, <1>3, CommittingAlone

LEMMA CommitResolvesKeeps ==
  ASSUME Inv, NEW g \in Generations, CommitResolves(g)
  PROVE  /\ Inv' /\ Putting = {target[g].doing.n} /\ Putting' = {}
         /\ shown'.n = target[g].doing.n /\ UNCHANGED <<sequence, since>>
<1>1. PICK t : t = target[g]
  OBVIOUS
<1>2. /\ t.phase = "committing" /\ shown' = t.doing
      /\ UNCHANGED <<active, lane, sequence, destroyed, since, latest, failed>>
  BY <1>1 DEF CommitResolves
<1>3. t \in TargetStates /\ t.phase \in InTail /\ t.after = {}
  BY <1>1, <1>2, CommitOver
<1>4. failed' \in BOOLEAN
  BY <1>2 DEF Inv, Counted
<1>5. PICK u : u = IF IsCurrent(g)
                   THEN [t EXCEPT !.lastKey = t.doing.key, !.lastImage = Picture[t.doing.key]]
                   ELSE t
  OBVIOUS
<1>6. LeaveTail(g, u)
  BY <1>1, <1>5, Zenon DEF CommitResolves
<1>7. u \in TargetStates /\ SamePlace(u, t) /\ SameRequests(u, t) /\ u.timer = t.timer
  <2>1. CASE IsCurrent(g)
    <3>1. active = g /\ active # 0
      BY <2>1, Numerals DEF IsCurrent
    <3>2. t.doing # NoRequest
      <4>1. Ordered(t, since, shown.n, sequence)
        BY <1>1, <3>1 DEF Inv, Numbers
      <4>2. t.doing.n >= 1
        BY <1>1, <1>2, <4>1, Numerals DEF Ordered, Unshown
      <4> QED BY <4>2, RequestTypes
    <3>3. t.doing \in Requests
      BY <1>3, <3>2, TargetFields, RequestTypes
    <3>4. t.doing.key \in SemanticKeys
      BY <3>3 DEF Requests
    <3>5. PICK v : v = [t EXCEPT !.lastKey = t.doing.key]
      OBVIOUS
    <3>6. v \in TargetStates /\ SamePlace(v, t) /\ SameRequests(v, t) /\ v.timer = t.timer
      BY <1>3, <3>4, <3>5, SetLastKey DEF SamePlace, SameRequests
    <3>7. PICK x : x = Picture[t.doing.key]
      OBVIOUS
    <3>8. x \in Images \cup {NoKey}
      BY <3>4, <3>7 DEF Images
    <3>9. u = [v EXCEPT !.lastImage = x]
      BY <1>5, <2>1, <3>5, <3>7
    <3> QED BY <3>6, <3>8, <3>9, SetLastImage DEF SamePlace, SameRequests
  <2>2. CASE ~IsCurrent(g)
    <3>1. u = t
      BY <1>5, <2>2
    <3> QED BY <1>3, <3>1 DEF SamePlace, SameRequests
  <2> QED BY <2>1, <2>2
<1>8. Inv' /\ Putting' = {}
  BY <1>1, <1>2, <1>3, <1>4, <1>6, <1>7, LeaveTailKeeps
<1> QED BY <1>1, <1>2, <1>8, CommittingAlone

(* A commit whose turn has come is called for, or given up.                 *)
CommitBegins(g) ==
  /\ Putting = {} /\ Putting' = {target[g].doing.n}
  /\ Unshown(target[g].doing.n, since, shown.n, sequence)

LEMMA CommitStartsKeeps ==
  ASSUME Inv, NEW g \in Generations, CommitStarts(g)
  PROVE  /\ Inv' /\ (Putting' = Putting \/ CommitBegins(g))
         /\ UNCHANGED <<sequence, since, shown>>
<1>1. /\ target[g] \in TargetStates /\ target[g].phase = "queued" /\ target[g].after = {}
      /\ UNCHANGED <<active, lane, sequence, destroyed, since, latest, failed, shown>>
  BY DEF CommitStarts, Inv, Placed
<1>2. failed' \in BOOLEAN
  BY <1>1 DEF Inv, Counted
<1>3. Putting = {}
  BY <1>1, NextAlone
<1>4. CASE LeaveTail(g, target[g])
  <2>1. Inv' /\ Putting' = {}
    BY <1>1, <1>2, <1>4, LeaveTailKeeps DEF SamePlace, SameRequests, InTail
  <2> QED BY <1>1, <1>3, <2>1
<1>5. CASE IsCurrent(g) /\ target' = [target EXCEPT ![g].phase = "committing"]
  <2>1. g = active /\ active # 0
    BY <1>5, Numerals DEF IsCurrent
  <2>2. PICK u : u = [target[g] EXCEPT !.phase = "committing"]
    OBVIOUS
  <2>3. /\ u \in TargetStates /\ SamePlace(u, target[g]) /\ u.phase = "committing"
        /\ u.doing = target[g].doing /\ u.timer = target[g].timer
        /\ u.pendingImmediate = target[g].pendingImmediate
        /\ u.pendingRegular = target[g].pendingRegular
    BY <1>1, <2>2, SetPhase DEF SamePlace, Phases
  <2>4. target' = [target EXCEPT ![g] = u]
    BY <1>5, <2>2
  <2>5. Timed(u)
    BY <1>1, <2>3 DEF Inv, Placed, Timed
  <2>6. Placed' /\ OneLane' /\ Turns'
    BY <1>1, <2>1, <2>3, <2>4, <2>5, ReplacedPlaces DEF InTail
  <2>7. Ordered(target[g], since, shown.n, sequence)
    BY <2>1 DEF Inv, Numbers
  <2>8. Ordered(u, since, shown.n, sequence) /\ u.doing.n <= sequence
    BY <1>1, <2>3, <2>7 DEF Ordered
  <2>9. Numbers'
    BY <1>1, <2>1, <2>3, <2>4, <2>8, SameNumbers
  <2>10. Counted'
    BY <1>1, <1>2, CountedKept
  <2>11. Putting' = {target[g].doing.n}
    <3>1. /\ Generations' = Generations
          /\ \A h \in Generations : target'[h] = IF h = g THEN u ELSE target[h]
      BY <2>4, OneTarget
    <3>2. ASSUME NEW h \in Generations, h # g PROVE target'[h].phase # "committing"
      <4>1. target'[h].phase = target[h].phase
        BY <3>1, <3>2
      <4> QED BY <1>3, <4>1 DEF Putting
    <3>3. target'[g].phase = "committing" /\ target'[g].doing = target[g].doing
      BY <2>3, <3>1
    <3> QED BY <3>1, <3>2, <3>3 DEF Putting
  <2>12. Unshown(target[g].doing.n, since, shown.n, sequence)
    BY <1>1, <2>7 DEF Ordered
  <2> QED BY <1>1, <1>3, <2>6, <2>9, <2>10, <2>11, <2>12 DEF Inv, CommitBegins
<1> QED BY <1>1, <1>4, <1>5 DEF CommitStarts

-----------------------------------------------------------------------------
(* Buttons that appear and disappear.                                       *)

LEMMA ActivateKeeps ==
  ASSUME Inv, NEW interval \in Intervals, Activate(interval)
  PROVE  /\ Inv' /\ Putting' = Putting
         /\ since' = sequence + 1 /\ UNCHANGED <<sequence, shown>>
<1>1. PICK c : c = Cardinality(Generations)
  OBVIOUS
<1>2. c \in Nat /\ c < MaxGeneration /\ Generations = 1..c
  BY <1>1, BoundsAssumption DEF Activate, Inv, Placed
<1>3. PICK g : g = c + 1
  OBVIOUS
<1>4. /\ g \in Nat /\ g >= 1 /\ g <= MaxGeneration /\ g \notin Generations
      /\ 1..g = Generations \cup {g}
  BY <1>2, <1>3, BoundsAssumption
<1>5. PICK on : on = IF active # 0 THEN target[active].lane ELSE IF lane # 0 THEN lane ELSE g
  OBVIOUS
<1>6. /\ target' = [h \in 1..g |-> IF h = g THEN Fresh(interval, on)
                                   ELSE IF h = active THEN Cleared(target[h]) ELSE target[h]]
      /\ active' = g /\ lane' = IF active # 0 THEN lane ELSE on
      /\ since' = sequence + 1
      /\ UNCHANGED <<sequence, destroyed, latest, failed, shown>>
  BY <1>1, <1>3, <1>5, Zenon DEF Activate
<1>7. /\ active \in Generations \cup {0} /\ lane \in Generations \cup {0}
      /\ active # 0 => target[active].lane = lane
      /\ \A h \in Generations : target[h].phase # "none" => target[h].lane = lane
  BY DEF Inv, Placed, OneLane
<1>8. active # 0 => lane # 0
  BY <1>7, Numerals
<1>9. lane' = on /\ on \in 1..g /\ on \in 1..MaxGeneration /\ (lane # 0 => on = lane)
  <2>1. CASE active # 0
    <3>1. on = lane /\ lane \in Generations
      BY <1>5, <1>7, <1>8, <2>1
    <3> QED BY <1>2, <1>4, <1>6, <2>1, <3>1, BoundsAssumption
  <2>2. CASE active = 0 /\ lane # 0
    <3>1. on = lane /\ lane \in Generations
      BY <1>5, <1>7, <2>2
    <3> QED BY <1>2, <1>4, <1>6, <2>2, <3>1, BoundsAssumption
  <2>3. CASE active = 0 /\ lane = 0
    <3>1. on = g
      BY <1>5, <2>3
    <3> QED BY <1>4, <1>6, <2>3, <3>1, BoundsAssumption
  <2> QED BY <2>1, <2>2, <2>3
<1>10. PICK f : f = Fresh(interval, on)
  OBVIOUS
<1>11. /\ f \in TargetStates /\ f.pendingImmediate = NoRequest /\ f.pendingRegular = NoRequest
       /\ f.doing = NoRequest /\ f.phase = "none" /\ f.timer = Off /\ f.lane = on
  BY <1>9, <1>10, FreshType
<1>12. Generations' = 1..g /\ target'[g] = f
  BY <1>4, <1>6, <1>10 DEF Generations
<1>13. ASSUME NEW h \in Generations
       PROVE  /\ target'[h] \in TargetStates /\ Timed(target'[h])
              /\ target'[h].phase = target[h].phase /\ target'[h].doing = target[h].doing
              /\ target'[h].after = target[h].after /\ target'[h].lane = target[h].lane
  <2>1. target[h] \in TargetStates /\ Timed(target[h]) /\ h \in 1..g /\ h # g
    BY <1>4 DEF Inv, Placed
  <2>2. target'[h] = IF h = active THEN Cleared(target[h]) ELSE target[h]
    BY <1>6, <2>1
  <2>3. CASE h = active
    BY <2>1, <2>2, <2>3, ClearedType DEF Timed
  <2>4. CASE h # active
    BY <2>1, <2>2, <2>4
  <2> QED BY <2>3, <2>4
<1>14. Placed'
  <2>1. Cardinality(1..g) = g
    BY <1>4, FS_Interval
  <2>2. /\ Cardinality(Generations') \in 0..MaxGeneration
        /\ Generations' = 1..Cardinality(Generations')
    BY <1>4, <1>12, <2>1, BoundsAssumption
  <2>3. active' \in Generations' \cup {0} /\ lane' \in Generations' \cup {0}
    BY <1>4, <1>6, <1>9, <1>12
  <2>4. Timed(f)
    BY <1>11 DEF Timed
  <2>5. \A h \in Generations' : target'[h] \in TargetStates /\ Timed(target'[h])
    BY <1>4, <1>11, <1>12, <1>13, <2>4
  <2> QED BY <2>2, <2>3, <2>5 DEF Placed, Timed
<1>15. OneLane'
  <2>1. ASSUME NEW h \in Generations, target'[h].phase # "none" PROVE target'[h].lane = lane'
    <3>1. target[h].lane = lane /\ lane # 0
      BY <1>7, <1>13, <2>1, Numerals
    <3> QED BY <1>9, <1>13, <3>1
  <2>2. target'[active'].lane = lane' /\ target'[g].phase = "none"
    BY <1>6, <1>9, <1>11, <1>12
  <2> QED BY <1>4, <1>12, <2>1, <2>2 DEF OneLane
<1>16. Turns'
  <2>1. ASSUME NEW h \in Generations, target'[h].phase = "committing"
        PROVE  target'[h].after = {}
    BY <1>13, <2>1 DEF Inv, Turns
  <2>2. ASSUME NEW h \in Generations, NEW k \in Generations, h # k,
               target'[h].phase \in InTail, target'[k].phase \in InTail
        PROVE  h \in target'[k].after \/ k \in target'[h].after
    BY <1>13, <2>2 DEF Inv, Turns
  <2>3. target'[g].phase \notin InTail /\ target'[g].phase # "committing"
    BY <1>11, <1>12 DEF InTail
  <2> QED BY <1>4, <1>12, <2>1, <2>2, <2>3 DEF Turns, InTail
<1>17. Numbers'
  <2>1. shown'.n <= sequence' /\ since' <= sequence' + 1
    BY <1>6, Numerals
  <2>2. ASSUME NEW h \in Generations
        PROVE  target'[h].doing.n <= sequence' /\ target'[h].doing.n < since'
    <3>1. target[h].doing.n <= sequence /\ target[h].doing.n \in Nat
      BY Numerals DEF Inv, Numbers
    <3> QED BY <1>6, <1>13, <3>1, Numerals, SMTT(20)
  <2>3. target'[g].doing.n <= sequence'
    BY <1>6, <1>11, <1>12, RequestTypes, Numerals
  <2>4. Ordered(f, since', shown'.n, sequence')
    <3>1. f.doing.n <= sequence'
      BY <1>12, <2>3
    <3> QED BY <1>11, <3>1 DEF Ordered
  <2>5. Ordered(target'[active'], since', shown'.n, sequence')
    BY <1>6, <1>12, <2>4
  <2> QED BY <1>4, <1>6, <1>12, <2>1, <2>2, <2>3, <2>5 DEF Numbers
<1>18. Counted'
  <2>1. since' \in 1..(MaxSequence + 1)
    BY <1>6, Numerals, BoundsAssumption DEF Inv, Counted
  <2>2. /\ sequence' \in 0..MaxSequence /\ {destroyed', failed'} \subseteq BOOLEAN
        /\ {latest', shown'} \subseteq MaybeRequests
    BY <1>6 DEF Inv, Counted
  <2> QED BY <2>1, <2>2 DEF Counted
<1>19. Putting' = Putting
  <2>1. Generations \subseteq Generations'
    BY <1>4, <1>12
  <2>2. \A h \in Generations' : target'[h].phase = "committing" =>
          h \in Generations /\ target[h].phase = "committing"
    BY <1>4, <1>11, <1>12, <1>13
  <2>3. \A h \in Generations : target[h].phase = "committing" =>
          target'[h].phase = "committing" /\ target'[h].doing.n = target[h].doing.n
    BY <1>13
  <2> QED BY <2>1, <2>2, <2>3, PuttingKept
<1> QED BY <1>6, <1>14, <1>15, <1>16, <1>17, <1>18, <1>19 DEF Inv

LEMMA DeactivateKeeps ==
  ASSUME Inv, active # 0, Deactivate, destroyed' \in BOOLEAN
  PROVE  /\ Inv' /\ Putting' = Putting
         /\ since' = sequence + 1 /\ UNCHANGED <<sequence, shown>>
<1>1. active \in Generations
  BY DEF Inv, Placed
<1>2. PICK u : u = Cleared(target[active])
  OBVIOUS
<1>3. /\ target' = [target EXCEPT ![active] = u]
      /\ active' = 0 /\ since' = sequence + 1
      /\ UNCHANGED <<sequence, latest, failed, shown>>
      /\ lane' = IF \E g \in Generations : target[g].lane = lane /\ target[g].phase # "none"
                 THEN lane ELSE 0
  BY <1>2, Zenon DEF Deactivate
<1>4. /\ Generations' = Generations
      /\ \A h \in Generations : target'[h] = IF h = active THEN u ELSE target[h]
  BY <1>1, <1>3, OneTarget
<1>5. ASSUME NEW h \in Generations
      PROVE  /\ target'[h] \in TargetStates /\ Timed(target'[h])
             /\ target'[h].phase = target[h].phase /\ target'[h].doing = target[h].doing
             /\ target'[h].after = target[h].after /\ target'[h].lane = target[h].lane
  <2>1. target[h] \in TargetStates /\ Timed(target[h])
    BY DEF Inv, Placed
  <2>2. CASE h = active
    BY <1>2, <1>4, <2>1, <2>2, ClearedType DEF Timed
  <2>3. CASE h # active
    BY <1>4, <2>1, <2>3
  <2> QED BY <2>2, <2>3
<1>6. Placed'
  <2>1. /\ Cardinality(Generations) \in 0..MaxGeneration
        /\ Generations = 1..Cardinality(Generations) /\ lane \in Generations \cup {0}
    BY DEF Inv, Placed
  <2>2. /\ Cardinality(Generations') \in 0..MaxGeneration
        /\ Generations' = 1..Cardinality(Generations')
    BY <1>4, <2>1
  <2>3. active' \in Generations' \cup {0} /\ lane' \in Generations' \cup {0}
    BY <1>3, <1>4, <2>1
  <2>4. \A h \in Generations' : target'[h] \in TargetStates /\ Timed(target'[h])
    BY <1>4, <1>5
  <2> QED BY <2>2, <2>3, <2>4 DEF Placed, Timed
<1>7. OneLane'
  <2>1. \A h \in Generations : target[h].phase # "none" => target[h].lane = lane
    BY DEF Inv, OneLane
  <2>2. ASSUME NEW h \in Generations, target'[h].phase # "none" PROVE target'[h].lane = lane'
    <3>1. target[h].phase # "none" /\ target[h].lane = lane
      BY <1>5, <2>1, <2>2
    <3>2. lane' = lane
      BY <1>3, <3>1
    <3> QED BY <1>5, <3>1, <3>2
  <2> QED BY <1>3, <1>4, <2>2 DEF OneLane
<1>8. Turns'
  <2>1. ASSUME NEW h \in Generations, target'[h].phase = "committing"
        PROVE  target'[h].after = {}
    BY <1>5, <2>1 DEF Inv, Turns
  <2>2. ASSUME NEW h \in Generations, NEW k \in Generations, h # k,
               target'[h].phase \in InTail, target'[k].phase \in InTail
        PROVE  h \in target'[k].after \/ k \in target'[h].after
    BY <1>5, <2>2 DEF Inv, Turns
  <2> QED BY <1>4, <2>1, <2>2 DEF Turns, InTail
<1>9. Numbers'
  <2>1. shown'.n <= sequence' /\ since' <= sequence' + 1
    BY <1>3, Numerals
  <2>2. ASSUME NEW h \in Generations
        PROVE  target'[h].doing.n <= sequence' /\ target'[h].doing.n < since'
    <3>1. target[h].doing.n <= sequence /\ target[h].doing.n \in Nat
      BY Numerals DEF Inv, Numbers
    <3> QED BY <1>3, <1>5, <3>1, Numerals
  <2> QED BY <1>3, <1>4, <2>1, <2>2 DEF Numbers
<1>10. Counted'
  <2>1. since' \in 1..(MaxSequence + 1)
    BY <1>3, Numerals, BoundsAssumption DEF Inv, Counted
  <2>2. /\ sequence' \in 0..MaxSequence /\ {destroyed', failed'} \subseteq BOOLEAN
        /\ {latest', shown'} \subseteq MaybeRequests
    BY <1>3 DEF Inv, Counted
  <2> QED BY <2>1, <2>2 DEF Counted
<1>11. Putting' = Putting
  BY <1>4, <1>5, PuttingKept
<1> QED BY <1>3, <1>6, <1>7, <1>8, <1>9, <1>10, <1>11 DEF Inv

-----------------------------------------------------------------------------
(* What the steps are on the display.                                       *)

LEMMA StutterSeen ==
  ASSUME UNCHANGED <<sequence, since, shown>>, Putting' = Putting
  PROVE  UNCHANGED Display!vars
BY DEF Display!vars, Putting

LEMMA RenewSeen ==
  ASSUME UNCHANGED <<sequence, shown>>, since' = sequence + 1, Putting' = Putting
  PROVE  Display!Renew
BY DEF Display!Renew, Putting

LEMMA AskSeen ==
  ASSUME UNCHANGED <<since, shown>>, sequence' = sequence + 1, Putting' = Putting
  PROVE  Display!Ask
BY DEF Display!Ask, Putting

LEMMA BeginSeen ==
  ASSUME Inv, NEW g \in Generations, CommitBegins(g), UNCHANGED <<sequence, since, shown>>
  PROVE  Display!Begin
<1>1. PICK n : n = target[g].doing.n
  OBVIOUS
<1>2. n \in since..sequence /\ n > shown.n
  BY <1>1, Numerals DEF CommitBegins, Unshown
<1>3. Putting = {} /\ Putting' = {n}
  BY <1>1 DEF CommitBegins
<1> QED BY <1>2, <1>3 DEF Display!Begin, Putting

LEMMA EndSeen ==
  ASSUME NEW n, Putting = {n}, Putting' = {}, shown'.n \in {shown.n, n},
         UNCHANGED <<sequence, since>>
  PROVE  Display!End
<1>1. n \in Putting /\ shown'.n \in {shown.n, n}
  OBVIOUS
<1> QED BY <1>1 DEF Display!End, Putting

LEMMA InitSeen == Init => Display!Init
<1> SUFFICES ASSUME Init PROVE Display!Init
  OBVIOUS
<1>1. sequence = 0 /\ since = 1 /\ shown.n = 0
  BY RequestTypes DEF Init
<1>2. Putting = {}
  BY DEF Init, Putting, Generations
<1> QED BY <1>1, <1>2 DEF Display!Init, Putting

(* A step keeps the invariant, and is a step of the display or not seen.    *)
Kept == Inv' /\ (Display!Next \/ UNCHANGED Display!vars)

LEMMA ProceedKept ==
  ASSUME Inv, NEW g \in Generations, Proceed(g)
  PROVE  Kept
<1>1. CASE RenderResolves(g)
  <2>1. UNCHANGED <<sequence, since, shown>>
    BY <1>1 DEF RenderResolves
  <2> QED BY <1>1, <2>1, RenderResolvesKeeps, StutterSeen DEF Kept
<1>2. CASE RenderFails(g)
  <2>1. UNCHANGED <<sequence, since, shown>>
    BY <1>2 DEF RenderFails
  <2> QED BY <1>2, <2>1, RenderFailsKeeps, StutterSeen DEF Kept
<1>3. CASE CommitStarts(g)
  <2>1. /\ Inv' /\ (Putting' = Putting \/ CommitBegins(g))
        /\ UNCHANGED <<sequence, since, shown>>
    BY <1>3, CommitStartsKeeps
  <2> QED BY <2>1, StutterSeen, BeginSeen DEF Kept, Display!Next
<1>4. CASE CommitResolves(g)
  <2>1. /\ Inv' /\ Putting = {target[g].doing.n} /\ Putting' = {}
        /\ shown'.n = target[g].doing.n /\ UNCHANGED <<sequence, since>>
    BY <1>4, CommitResolvesKeeps
  <2>2. Display!End
    BY <2>1, EndSeen
  <2> QED BY <2>1, <2>2 DEF Kept, Display!Next
<1>5. CASE CommitFails(g)
  <2>1. /\ Inv' /\ Putting = {target[g].doing.n} /\ Putting' = {}
        /\ UNCHANGED <<sequence, since, shown>>
    BY <1>5, CommitFailsKeeps
  <2>2. Display!End
    BY <2>1, EndSeen
  <2> QED BY <2>1, <2>2 DEF Kept, Display!Next
<1>6. CASE Settle(g)
  <2>1. UNCHANGED <<sequence, since, shown>>
    BY <1>6 DEF Settle
  <2> QED BY <1>6, <2>1, SettleKeeps, StutterSeen DEF Kept
<1> QED BY <1>1, <1>2, <1>3, <1>4, <1>5, <1>6 DEF Proceed

LEMMA RenewKept ==
  ASSUME Inv', Putting' = Putting, since' = sequence + 1, UNCHANGED <<sequence, shown>>
  PROVE  Kept
BY RenewSeen DEF Kept, Display!Next

LEMMA DestroyKept ==
  ASSUME Inv, Destroy PROVE Kept
<1>1. destroyed' \in BOOLEAN /\ destroyed' = TRUE
  BY DEF Destroy
<1>2. CASE active # 0
  <2>1. Deactivate
    BY <1>2 DEF Destroy
  <2> QED BY <1>1, <1>2, <2>1, DeactivateKeeps, RenewKept
<1>3. CASE active = 0
  <2>1. UNCHANGED <<active, target, lane, sequence, since, latest, failed, shown>>
    BY <1>3 DEF Destroy
  <2>2. Generations' = Generations
    BY <2>1 DEF Generations
  <2>3. Placed' /\ OneLane' /\ Turns' /\ Numbers'
    BY <2>1, <2>2 DEF Inv, Placed, Timed, OneLane, Turns, Numbers
  <2>4. Counted'
    BY <1>1, <2>1 DEF Inv, Counted
  <2>5. Putting' = Putting
    BY <2>1, <2>2 DEF Putting
  <2> QED BY <2>1, <2>3, <2>4, <2>5, StutterSeen DEF Kept, Inv
<1> QED BY <1>2, <1>3

LEMMA NextKept == Inv /\ [Next]_vars => Kept
<1> SUFFICES ASSUME Inv, [Next]_vars PROVE Kept
  OBVIOUS
<1>1. ASSUME NEW interval \in Intervals, Activate(interval) PROVE Kept
  BY <1>1, ActivateKeeps, RenewKept
<1>2. ASSUME NEW interval \in Intervals, UpdateInterval(interval) PROVE Kept
  <2>1. UNCHANGED <<sequence, since, shown>>
    BY <1>2 DEF UpdateInterval
  <2> QED BY <1>2, <2>1, UpdateIntervalStays, RequestsStayKeeps, StutterSeen DEF Kept
<1>3. ASSUME NEW category \in Categories, NEW key \in SemanticKeys, Submit(category, key)
      PROVE  Kept
  BY <1>3, SubmitKeeps, AskSeen DEF Kept, Display!Next
<1>4. CASE Remove
  <2>1. active # 0 /\ Deactivate /\ destroyed' \in BOOLEAN
    BY <1>4 DEF Remove, Inv, Counted
  <2> QED BY <2>1, DeactivateKeeps, RenewKept
<1>5. CASE Destroy
  BY <1>5, DestroyKept
<1>6. CASE Timer
  <2>1. UNCHANGED <<sequence, since, shown>>
    BY <1>6 DEF Timer
  <2> QED BY <1>6, <2>1, TimerKeeps, StutterSeen DEF Kept
<1>7. CASE Tick
  <2>1. UNCHANGED <<sequence, since, shown>>
    BY <1>7 DEF Tick
  <2> QED BY <1>7, <2>1, TickStays, RequestsStayKeeps, StutterSeen DEF Kept
<1>8. ASSUME NEW g \in Generations, Proceed(g) PROVE Kept
  BY <1>8, ProceedKept
<1>9. CASE UNCHANGED vars
  <2>1. UNCHANGED <<active, target, lane, sequence, destroyed, since, latest, failed, shown>>
    BY <1>9 DEF vars
  <2>2. Generations' = Generations
    BY <2>1 DEF Generations
  <2>3. Placed' /\ OneLane' /\ Turns' /\ Numbers' /\ Counted'
    BY <2>1, <2>2 DEF Inv, Placed, Timed, OneLane, Turns, Numbers, Counted
  <2>4. Putting' = Putting
    BY <2>1, <2>2 DEF Putting
  <2> QED BY <2>1, <2>3, <2>4, StutterSeen DEF Kept, Inv
<1> QED BY <1>1, <1>2, <1>3, <1>4, <1>5, <1>6, <1>7, <1>8, <1>9 DEF Next

-----------------------------------------------------------------------------
(* The theorems.                                                            *)

(* Types, one lane for all that runs, the order of the commits in its tail, *)
(* and the order of the requests that wait, are in hand and are shown.      *)
THEOREM Invariance == Spec => []Inv
<1>1. Inv /\ [Next]_vars => Inv'
  BY NextKept DEF Kept
<1> QED BY InitInv, <1>1, PTL DEF Spec

(* Every variable keeps its type, and a target with an operation under way  *)
(* has no timer, so that two drains of it never overlap.                    *)
THEOREM TypeCorrect == Spec => []TypeOK
BY Invariance, InvTypes, PTL

(* Of two images in the tail of a lane one has to wait for the other.       *)
THEOREM OneCommit ==
  Spec => [](\A g, h \in Generations :
    target[g].phase = "committing" /\ target[h].phase = "committing" => g = h)
<1>1. Inv => \A g, h \in Generations :
        target[g].phase = "committing" /\ target[h].phase = "committing" => g = h
  <2> SUFFICES ASSUME Inv, NEW g \in Generations, NEW h \in Generations,
                      target[g].phase = "committing", target[h].phase = "committing"
               PROVE  g = h
    OBVIOUS
  <2>1. target[g].after = {} /\ target[h].after = {}
    BY DEF Inv, Turns
  <2> QED BY <2>1, OneNext DEF InTail
<1> QED BY Invariance, <1>1, PTL

(* For every schedule of requests, timers, slow or failing renderers and    *)
(* commits, removals and new activations, requests reach the device one at  *)
(* a time and in order, and none from before the present activation begins  *)
(* to: RenderScheduler implements LatestDisplay.                            *)
THEOREM ShowsInOrder == Spec => LatestWins
<1>1. Inv /\ [Next]_vars => [Display!Next]_Display!vars
  BY NextKept DEF Kept
<1> QED BY Invariance, InitSeen, <1>1, PTL DEF Spec, LatestWins, Display!Spec

-----------------------------------------------------------------------------
(* Nothing is left behind.                                                  *)

(* An idle target has a request only if its timer runs out at the end of    *)
(* the window of that request.                                              *)
Due(t) ==
  t.phase = "none" =>
    /\ t.pendingImmediate = NoRequest
    /\ t.pendingRegular # NoRequest =>
         t.timer = Rest(Interval(t, t.pendingRegular.category), t.waited)

Emptied(t) == t.pendingImmediate = NoRequest /\ t.pendingRegular = NoRequest

Tail == {g \in Generations : target[g].phase \in InTail}

(* Only a queued commit waits, and for commits in the tail: not for itself, *)
(* and for those its predecessors wait for.                                 *)
Behind ==
  \A g \in Generations :
    /\ target[g].after # {} => target[g].phase = "queued"
    /\ target[g].after \subseteq Tail \ {g}
    /\ \A h \in target[g].after : target[h].after \subseteq target[g].after

TakenUp ==
  /\ \A g \in Generations : Due(target[g]) /\ (g # active => Emptied(target[g]))
  /\ Behind

LEMMA ArmDue ==
  ASSUME NEW t \in TargetStates, t.phase = "none", t.timer = Off,
         t.pendingImmediate = NoRequest
  PROVE  Due(Arm(t))
<1>1. CASE t.pendingRegular = NoRequest
  <2>1. Arm(t) = t
    BY <1>1 DEF Arm
  <2> QED BY <1>1, <2>1 DEF Due
<1>2. CASE t.pendingRegular # NoRequest
  <2>1. PICK x : x = Rest(Interval(t, t.pendingRegular.category), t.waited)
    OBVIOUS
  <2>2. x \in -1..ControlInterval
    BY <2>1, IntervalType, RestType, TargetFields
  <2>3. PICK u : u = [t EXCEPT !.timer = x]
    OBVIOUS
  <2>4. Arm(t) = u
    BY <1>2, <2>1, <2>3 DEF Arm
  <2>5. /\ u.timer = x /\ u.waited = t.waited /\ u.interval = t.interval
        /\ u.pendingImmediate = NoRequest /\ u.pendingRegular = t.pendingRegular
    BY <2>2, <2>3, SetTimer
  <2> QED BY <2>1, <2>4, <2>5 DEF Due, Interval
<1> QED BY <1>1, <1>2

LEMMA DrainDue ==
  ASSUME NEW t \in TargetStates, t.phase = "none", t.timer = Off
  PROVE  Due(Drain(t))
<1>1. PICK r \in MaybeRequests :
        r = IF t.pendingImmediate # NoRequest THEN t.pendingImmediate ELSE t.pendingRegular
  BY TargetFields
<1>2. PICK taken :
        taken = IF t.pendingImmediate # NoRequest THEN [t EXCEPT !.pendingImmediate = NoRequest]
                ELSE [t EXCEPT !.pendingRegular = NoRequest, !.waited = 0]
  OBVIOUS
<1>3. /\ taken \in TargetStates /\ taken.phase = "none" /\ taken.timer = Off
      /\ taken.pendingImmediate = NoRequest
  <2>1. CASE t.pendingImmediate # NoRequest
    <3>1. taken = [t EXCEPT !.pendingImmediate = NoRequest]
      BY <1>2, <2>1
    <3> QED BY <3>1, RequestTypes, SetImmediate
  <2>2. CASE t.pendingImmediate = NoRequest
    <3>1. PICK v : v = [t EXCEPT !.pendingRegular = NoRequest]
      OBVIOUS
    <3>2. /\ v \in TargetStates /\ v.phase = "none" /\ v.timer = Off
          /\ v.pendingImmediate = NoRequest
      BY <2>2, <3>1, RequestTypes, SetRegular
    <3>3. taken = [v EXCEPT !.waited = 0]
      BY <1>2, <2>2, <3>1
    <3>4. 0 \in 0..ControlInterval
      BY IntervalsAssumption
    <3> QED BY <3>2, <3>3, <3>4, SetWaited
  <2> QED BY <2>1, <2>2
<1>4. CASE r.key # t.lastKey
  <2>1. Drain(t) = [taken EXCEPT !.phase = "rendering", !.doing = r]
    BY <1>1, <1>2, <1>4 DEF Drain
  <2>2. Drain(t).phase = "rendering"
    BY <1>3, <2>1 DEF TargetStates
  <2> QED BY <2>2 DEF Due
<1>5. CASE r.key = t.lastKey
  <2>1. Drain(t) = Arm(taken)
    BY <1>1, <1>2, <1>5 DEF Drain
  <2> QED BY <1>3, <2>1, ArmDue
<1> QED BY <1>4, <1>5

LEMMA FinishDue ==
  ASSUME NEW t \in TargetStates, t.timer = Off, NEW current \in BOOLEAN,
         current \/ Emptied(t)
  PROVE  /\ Due(Finish(t, current))
         /\ Emptied(t) => Emptied(Finish(t, current))
<1>1. PICK idle : idle = [t EXCEPT !.phase = "none", !.doing = NoRequest]
  OBVIOUS
<1>2. PICK v : v = [t EXCEPT !.phase = "none"]
  OBVIOUS
<1>3. /\ v \in TargetStates /\ v.phase = "none" /\ v.timer = Off
      /\ v.pendingImmediate = t.pendingImmediate /\ v.pendingRegular = t.pendingRegular
  BY <1>2, SetPhase DEF Phases
<1>4. idle = [v EXCEPT !.doing = NoRequest]
  BY <1>1, <1>2
<1>5. /\ idle \in TargetStates /\ idle.phase = "none" /\ idle.timer = Off
      /\ idle.pendingImmediate = t.pendingImmediate
      /\ idle.pendingRegular = t.pendingRegular
  BY <1>3, <1>4, RequestTypes, SetDoing
<1>6. Emptied(t) => Emptied(Finish(t, current))
  <2>1. PICK u : u = Finish(t, current)
    OBVIOUS
  <2>2. /\ u.pendingImmediate \in {NoRequest, t.pendingImmediate}
        /\ u.pendingRegular = t.pendingRegular
    BY <2>1, FinishType, Zenon
  <2> QED BY <2>1, <2>2 DEF Emptied
<1>7. CASE ~current
  <2>1. Finish(t, current) = idle
    BY <1>1, <1>7 DEF Finish
  <2> QED BY <1>5, <1>6, <1>7, <2>1 DEF Due, Emptied
<1>8. CASE current /\ t.pendingImmediate # NoRequest
  <2>1. Finish(t, current) = Drain(idle)
    BY <1>1, <1>5, <1>8 DEF Finish
  <2> QED BY <1>5, <1>6, <2>1, DrainDue
<1>9. CASE current /\ t.pendingImmediate = NoRequest
  <2>1. Finish(t, current) = Arm(idle)
    BY <1>1, <1>5, <1>9 DEF Finish
  <2> QED BY <1>5, <1>6, <1>9, <2>1, ArmDue
<1> QED BY <1>7, <1>8, <1>9

(* The tail stays as it is, but for a commit whose turn comes.              *)
LEMMA BehindSame ==
  ASSUME Behind, Generations \subseteq Generations',
         \A g \in Generations :
           /\ target'[g].after = target[g].after
           /\ target'[g].phase \in InTail <=> target[g].phase \in InTail
           /\ target[g].phase = "queued" /\ target[g].after # {} => target'[g].phase = "queued",
         \A g \in Generations' \ Generations :
           target'[g].after = {} /\ target'[g].phase = "none"
  PROVE  Behind'
<1>1. Tail \subseteq Tail'
  BY DEF Tail
<1>2. ASSUME NEW g \in Generations
      PROVE  /\ target'[g].after # {} => target'[g].phase = "queued"
             /\ target'[g].after \subseteq Tail' \ {g}
             /\ \A h \in target'[g].after : target'[h].after \subseteq target'[g].after
  <2>1. /\ target[g].after # {} => target[g].phase = "queued"
        /\ target[g].after \subseteq Tail \ {g}
        /\ \A h \in target[g].after : target[h].after \subseteq target[g].after
    BY DEF Behind
  <2>2. target[g].after \subseteq Generations
    BY <2>1 DEF Tail
  <2> QED BY <1>1, <2>1, <2>2
<1>3. ASSUME NEW g \in Generations' \ Generations
      PROVE  /\ target'[g].after # {} => target'[g].phase = "queued"
             /\ target'[g].after \subseteq Tail' \ {g}
             /\ \A h \in target'[g].after : target'[h].after \subseteq target'[g].after
  BY <1>3
<1> QED BY <1>2, <1>3 DEF Behind

(* Steps that change one target.                                            *)
LEMMA OneTakenUp ==
  ASSUME TakenUp, NEW g \in Generations, NEW u, target' = [target EXCEPT ![g] = u],
         UNCHANGED active, SamePlace(u, target[g]),
         u.phase \in InTail <=> target[g].phase \in InTail,
         target[g].phase = "queued" /\ target[g].after # {} => u.phase = "queued",
         Due(u), g # active => Emptied(u)
  PROVE  TakenUp'
<1>1. /\ Generations' = Generations
      /\ \A h \in Generations : target'[h] = IF h = g THEN u ELSE target[h]
  BY OneTarget
<1>2. \A h \in Generations : Due(target'[h]) /\ (h # active => Emptied(target'[h]))
  BY <1>1 DEF TakenUp
<1>3. \A h \in Generations :
        /\ target'[h].after = target[h].after
        /\ target'[h].phase \in InTail <=> target[h].phase \in InTail
        /\ target[h].phase = "queued" /\ target[h].after # {} => target'[h].phase = "queued"
  BY <1>1 DEF SamePlace
<1>4. Behind'
  BY <1>1, <1>3, BehindSame DEF TakenUp
<1>5. \A h \in Generations' : Due(target'[h]) /\ (h # active' => Emptied(target'[h]))
  BY <1>1, <1>2
<1> QED BY <1>4, <1>5 DEF TakenUp, Due, Emptied

LEMMA UpdateIntervalTakenUp ==
  ASSUME Inv, TakenUp, NEW interval \in Intervals, UpdateInterval(interval)
  PROVE  TakenUp'
<1>1. PICK a : a = target[active]
  OBVIOUS
<1>2. active # 0 /\ active \in Generations /\ a \in TargetStates /\ Timed(a) /\ Due(a)
  BY <1>1 DEF UpdateInterval, Inv, Placed, TakenUp
<1>3. PICK t : t = [a EXCEPT !.interval = interval]
  OBVIOUS
<1>4. /\ t \in TargetStates /\ SamePlace(t, a) /\ SameRequests(t, a)
      /\ t.timer = a.timer /\ t.waited = a.waited
  BY <1>2, <1>3, SetInterval DEF SamePlace, SameRequests
<1>5. PICK v : v = [t EXCEPT !.waited = 0]
  OBVIOUS
<1>6. 0 \in 0..ControlInterval /\ Off \in -1..ControlInterval
  BY IntervalsAssumption DEF Off
<1>7. v \in TargetStates /\ SamePlace(v, a) /\ SameRequests(v, a)
  BY <1>4, <1>5, <1>6, SetWaited DEF SamePlace, SameRequests
<1>8. PICK u : u = [v EXCEPT !.timer = Off]
  OBVIOUS
<1>9. u \in TargetStates /\ SamePlace(u, a) /\ SameRequests(u, a) /\ u.timer = Off
  BY <1>6, <1>7, <1>8, SetTimer DEF SamePlace, SameRequests
<1>10. u = [t EXCEPT !.waited = 0, !.timer = Off]
  BY <1>5, <1>8
<1>11. PICK w : w = IF t.pendingRegular = NoRequest \/ t.pendingRegular.category # "normal"
                    THEN t ELSE IF t.phase = "none" THEN Arm(u) ELSE u
  OBVIOUS
<1>12. target' = [target EXCEPT ![active] = w] /\ UNCHANGED active
  BY <1>1, <1>3, <1>10, <1>11, Zenon DEF UpdateInterval
<1>13. SamePlace(w, a) /\ w.phase = a.phase /\ Due(w)
  <2>1. CASE w = t /\ (t.pendingRegular = NoRequest \/ t.pendingRegular.category # "normal")
    <3>1. t.pendingRegular # NoRequest =>
            Interval(t, t.pendingRegular.category) = Interval(a, a.pendingRegular.category)
      BY <1>4, <2>1 DEF Interval, SameRequests
    <3> QED BY <1>2, <1>4, <2>1, <3>1 DEF Due, SameRequests
  <2>2. CASE w = u /\ t.phase # "none"
    BY <1>4, <1>9, <2>2 DEF Due, SameRequests
  <2>3. CASE w = Arm(u) /\ t.phase = "none"
    <3>1. u.phase = "none" /\ u.pendingImmediate = NoRequest
      BY <1>2, <1>4, <1>9, <2>3 DEF Due, SameRequests
    <3> QED BY <1>4, <1>9, <2>3, <3>1, ArmType, ArmDue DEF SamePlace, SameRequests
  <2> QED BY <1>11, <2>1, <2>2, <2>3
<1> QED BY <1>1, <1>2, <1>12, <1>13, OneTakenUp

(* Time takes as much from the timer as it adds to the age of the window.   *)
LEMMA TickTakenUp ==
  ASSUME Inv, TakenUp, Tick PROVE TakenUp'
<1>1. PICK a : a = target[active]
  OBVIOUS
<1>2. active # 0 /\ active \in Generations /\ a \in TargetStates /\ Due(a)
  BY <1>1 DEF Tick, Inv, Placed, TakenUp
<1>3. PICK x : x = IF a.timer > 0 THEN a.timer - 1 ELSE a.timer
  OBVIOUS
<1>4. x \in -1..ControlInterval
  BY <1>2, <1>3, TargetFields, IntervalsAssumption
<1>5. PICK y : y = IF a.pendingRegular # NoRequest THEN Older(a.waited) ELSE a.waited
  OBVIOUS
<1>6. y \in 0..ControlInterval
  BY <1>2, <1>5, TargetFields, IntervalsAssumption DEF Older
<1>7. PICK v : v = [a EXCEPT !.timer = x]
  OBVIOUS
<1>8. v \in TargetStates /\ v.timer = x /\ SamePlace(v, a) /\ SameRequests(v, a)
      /\ v.interval = a.interval
  BY <1>2, <1>4, <1>7, SetTimer DEF SamePlace, SameRequests
<1>9. PICK w : w = [v EXCEPT !.waited = y]
  OBVIOUS
<1>10. /\ w \in TargetStates /\ w.timer = x /\ w.waited = y
       /\ SamePlace(w, a) /\ SameRequests(w, a) /\ w.interval = a.interval
  BY <1>6, <1>8, <1>9, SetWaited DEF SamePlace, SameRequests
<1>11. w = [a EXCEPT !.timer = x, !.waited = y]
  BY <1>7, <1>9
<1>12. target' = [target EXCEPT ![active] = [a EXCEPT !.timer = x, !.waited = y]]
       /\ UNCHANGED active
  BY <1>1, <1>3, <1>5, Zenon DEF Tick
<1>13. target' = [target EXCEPT ![active] = w]
  BY <1>11, <1>12
<1>14. Due(w)
  <2> SUFFICES ASSUME w.phase = "none"
               PROVE  /\ w.pendingImmediate = NoRequest
                      /\ w.pendingRegular # NoRequest =>
                           w.timer = Rest(Interval(w, w.pendingRegular.category), w.waited)
    BY DEF Due
  <2>1. w.pendingImmediate = NoRequest
    BY <1>2, <1>10 DEF Due, SameRequests
  <2>2. ASSUME w.pendingRegular # NoRequest
        PROVE  w.timer = Rest(Interval(w, w.pendingRegular.category), w.waited)
    <3>1. PICK i : i = Interval(a, a.pendingRegular.category)
      OBVIOUS
    <3>2. i \in 1..ControlInterval /\ Interval(w, w.pendingRegular.category) = i
      BY <1>2, <1>10, <3>1, IntervalType DEF Interval, SameRequests
    <3>3. a.pendingRegular # NoRequest /\ a.timer = Rest(i, a.waited)
      BY <1>2, <1>10, <2>2, <3>1 DEF Due, SameRequests
    <3>4. a.waited \in 0..ControlInterval
      BY <1>2, TargetFields
    <3>5. y = Older(a.waited)
      BY <1>5, <3>3
    <3>6. x = Rest(i, y)
      BY <1>3, <3>2, <3>3, <3>4, <3>5, IntervalsAssumption DEF Rest, Older
    <3> QED BY <1>10, <3>2, <3>6
  <2> QED BY <2>1, <2>2
<1>15. w.phase = a.phase
  BY <1>10 DEF SameRequests
<1> QED BY <1>1, <1>2, <1>10, <1>12, <1>13, <1>14, <1>15, OneTakenUp

LEMMA TimerTakenUp ==
  ASSUME Inv, TakenUp, Timer PROVE TakenUp'
<1>1. PICK a : a = target[active]
  OBVIOUS
<1>2. /\ active \in Generations /\ active # 0 /\ a \in TargetStates /\ Timed(a)
      /\ a.timer = 0
  BY <1>1 DEF Timer, Inv, Placed
<1>3. a.phase = "none" /\ a.pendingRegular # NoRequest
  BY <1>2 DEF Timed, Off
<1>4. PICK t : t = [a EXCEPT !.timer = Off]
  OBVIOUS
<1>5. Off \in -1..ControlInterval
  BY IntervalsAssumption DEF Off
<1>6. t \in TargetStates /\ SamePlace(t, a) /\ SameRequests(t, a) /\ t.timer = Off
  BY <1>2, <1>4, <1>5, SetTimer DEF SamePlace, SameRequests
<1>7. t.phase = "none" /\ t.pendingRegular # NoRequest
  BY <1>3, <1>6 DEF SameRequests
<1>8. PICK u : u = Drain(t)
  OBVIOUS
<1>9. target' = [target EXCEPT ![active] = u] /\ UNCHANGED active
  BY <1>1, <1>4, <1>8 DEF Timer
<1>10. SamePlace(u, a) /\ u.phase \in {"none", "rendering"}
  BY <1>6, <1>7, <1>8, DrainType DEF SamePlace
<1>11. Due(u)
  BY <1>6, <1>7, <1>8, DrainDue
<1>12. u.phase \notin InTail /\ a.phase \notin InTail /\ a.phase # "queued"
  BY <1>3, <1>10 DEF InTail
<1> QED BY <1>1, <1>2, <1>9, <1>10, <1>11, <1>12, OneTakenUp

LEMMA SubmitTakenUp ==
  ASSUME Inv, TakenUp, NEW category \in Categories, NEW key \in SemanticKeys,
         Submit(category, key)
  PROVE  TakenUp'
<1>1. PICK a : a = target[active]
  OBVIOUS
<1>2. active \in Generations /\ active # 0 /\ a \in TargetStates /\ Timed(a) /\ Due(a)
  BY <1>1 DEF Submit, Inv, Placed, TakenUp
<1>3. PICK r : r = [category |-> category, key |-> key, n |-> sequence + 1]
  OBVIOUS
<1>4. r \in Requests /\ r.category = category
  <2>1. sequence + 1 \in 1..MaxSequence
    BY Numerals, BoundsAssumption DEF Submit
  <2> QED BY <1>3, <2>1 DEF Requests
<1>5. PICK t : t = Slotted(a, r)
  OBVIOUS
<1>6. /\ t \in TargetStates /\ SamePlace(t, a) /\ t.phase = a.phase /\ t.timer = a.timer
      /\ t.pendingImmediate # NoRequest \/ t.pendingRegular # NoRequest
  <2>1. r # NoRequest
    <3>1. r.n = sequence + 1 /\ sequence \in Nat
      BY <1>3, Numerals
    <3> QED BY <3>1, RequestTypes
  <2> QED BY <1>2, <1>4, <1>5, <2>1, SlottedType
<1>7. PICK u : u = [t EXCEPT !.timer = Off]
  OBVIOUS
<1>8. Off \in -1..ControlInterval
  BY IntervalsAssumption DEF Off
<1>9. /\ u \in TargetStates /\ SamePlace(u, a) /\ u.phase = a.phase /\ u.timer = Off
      /\ u.pendingImmediate = t.pendingImmediate /\ u.pendingRegular = t.pendingRegular
  BY <1>6, <1>7, <1>8, SetTimer DEF SamePlace
<1>10. PICK w : w = IF t.phase # "none" THEN IF category = "immediate" THEN u ELSE t
                    ELSE IF t.pendingImmediate # NoRequest THEN Drain(u) ELSE Arm(u)
  OBVIOUS
<1>11. target' = [target EXCEPT ![active] = w] /\ UNCHANGED active
  BY <1>1, <1>3, <1>5, <1>7, <1>10, Zenon DEF Submit
<1>12. /\ SamePlace(w, a) /\ Due(w)
       /\ w.phase = a.phase \/ (a.phase = "none" /\ w.phase = "rendering")
  <2>1. CASE t.phase # "none"
    <3>1. w \in {u, t}
      BY <1>10, <2>1
    <3> QED BY <1>6, <1>9, <2>1, <3>1 DEF Due
  <2>2. CASE t.phase = "none" /\ t.pendingImmediate # NoRequest
    <3>1. w = Drain(u)
      BY <1>10, <2>2
    <3>2. Due(w) /\ SamePlace(w, u) /\ w.phase \in {"none", "rendering"}
      BY <1>6, <1>9, <2>2, <3>1, DrainDue, DrainType
    <3> QED BY <1>6, <1>9, <2>2, <3>2 DEF SamePlace
  <2>3. CASE t.phase = "none" /\ t.pendingImmediate = NoRequest
    <3>1. w = Arm(u)
      BY <1>10, <2>3
    <3>2. Due(w) /\ SamePlace(w, u) /\ w.phase = "none"
      BY <1>6, <1>9, <2>3, <3>1, ArmDue, ArmType
    <3> QED BY <1>6, <1>9, <2>3, <3>2 DEF SamePlace
  <2> QED BY <2>1, <2>2, <2>3
<1>13. /\ w.phase \in InTail <=> a.phase \in InTail
       /\ a.phase = "queued" => w.phase = "queued"
  BY <1>12 DEF InTail
<1> QED BY <1>1, <1>2, <1>11, <1>12, <1>13, OneTakenUp

(* The end of an operation takes up what came in during it.                 *)
LEMMA EndTakenUp ==
  ASSUME Inv, TakenUp, NEW g \in Generations, target[g].phase \in {"rendering", "settling"},
         NEW t \in TargetStates, SamePlace(t, target[g]), SameRequests(t, target[g]),
         t.timer = target[g].timer, End(g, t), UNCHANGED active,
         destroyed => active = 0
  PROVE  TakenUp'
<1>1. t.timer = Off /\ 0 \notin Generations
  BY Numerals DEF Inv, Placed, Timed
<1>2. PICK current \in BOOLEAN : current = IsCurrent(g)
  BY DEF IsCurrent
<1>3. current \/ Emptied(t)
  <2>1. g = active => current
    BY <1>1, <1>2 DEF IsCurrent
  <2>2. g # active => Emptied(target[g])
    BY DEF TakenUp
  <2> QED BY <2>1, <2>2 DEF Emptied, SameRequests
<1>4. PICK u : u = Finish(t, current)
  OBVIOUS
<1>5. SamePlace(u, t) /\ u.phase \in {"none", "rendering"}
  BY <1>1, <1>4, FinishType, Zenon
<1>6. Due(u) /\ (Emptied(t) => Emptied(u))
  BY <1>1, <1>3, <1>4, FinishDue
<1>7. target' = [target EXCEPT ![g] = u]
  BY <1>2, <1>4 DEF End
<1>8. g # active => Emptied(u)
  BY <1>6 DEF TakenUp, Emptied, SameRequests
<1>9. /\ SamePlace(u, target[g])
      /\ u.phase \notin InTail /\ target[g].phase \notin InTail /\ target[g].phase # "queued"
  BY <1>5 DEF SamePlace, InTail
<1> QED BY <1>6, <1>7, <1>8, <1>9, OneTakenUp

(* A commit lines up behind the whole tail. *)
LEMMA QueueTakenUp ==
  ASSUME Inv, TakenUp, NEW g \in Generations, target[g].phase = "rendering",
         target' = [target EXCEPT ![g].phase = "queued",
                                  ![g].after = OnTail(target[g].lane)],
         UNCHANGED active
  PROVE  TakenUp'
<1>1. PICK t : t = target[g]
  OBVIOUS
<1>2. t \in TargetStates /\ t.phase = "rendering" /\ t.lane = lane
  BY <1>1 DEF Inv, Placed, OneLane
<1>3. OnTail(lane) = Tail
  <2>1. \A h \in Generations : target[h].phase \in InTail => target[h].lane = lane
    BY DEF Inv, OneLane, InTail
  <2> QED BY <2>1 DEF OnTail, Tail, InTail
<1>4. Tail \in SUBSET (1..MaxGeneration) /\ g \notin Tail
  <2>1. Generations \subseteq 1..MaxGeneration
    BY Numerals, BoundsAssumption
  <2> QED BY <1>1, <1>2, <2>1 DEF Tail, InTail
<1>5. PICK v : v = [t EXCEPT !.phase = "queued"]
  OBVIOUS
<1>6. /\ v \in TargetStates /\ v.phase = "queued"
      /\ v.pendingImmediate = t.pendingImmediate /\ v.pendingRegular = t.pendingRegular
  BY <1>2, <1>5, SetPhase DEF Phases
<1>7. PICK tail : tail = Tail
  OBVIOUS
<1>8. PICK u : u = [v EXCEPT !.after = tail]
  OBVIOUS
<1>9. /\ u.phase = "queued" /\ u.after = tail
      /\ u.pendingImmediate = t.pendingImmediate /\ u.pendingRegular = t.pendingRegular
  BY <1>4, <1>6, <1>7, <1>8, SetAfter
<1>10. target' = [target EXCEPT ![g] = u]
  <2>1. target' = [[target EXCEPT ![g].phase = "queued"] EXCEPT ![g].after = tail]
    BY <1>1, <1>2, <1>3, <1>7
  <2>2. [target EXCEPT ![g].phase = "queued"] = [target EXCEPT ![g] = v]
    BY <1>1, <1>5
  <2>3. [[target EXCEPT ![g] = v] EXCEPT ![g].after = tail] = [target EXCEPT ![g] = u]
    BY <1>8
  <2> QED BY <2>1, <2>2, <2>3
<1>11. /\ Generations' = Generations
       /\ \A h \in Generations : target'[h] = IF h = g THEN u ELSE target[h]
  BY <1>10, OneTarget
<1>12. ASSUME NEW h \in Generations'
       PROVE  Due(target'[h]) /\ (h # active' => Emptied(target'[h]))
  <2>1. Due(target[h]) /\ (h # active => Emptied(target[h]))
    BY <1>11 DEF TakenUp
  <2>2. CASE h = g
    BY <1>1, <1>9, <1>11, <2>1, <2>2 DEF Due, Emptied
  <2>3. CASE h # g
    BY <1>11, <2>1, <2>3
  <2> QED BY <2>2, <2>3
<1>13. Tail' = Tail \cup {g}
  BY <1>9, <1>11 DEF Tail, InTail
<1>14. ASSUME NEW h \in Generations
       PROVE  /\ target'[h].after # {} => target'[h].phase = "queued"
              /\ target'[h].after \subseteq Tail' \ {h}
              /\ \A k \in target'[h].after : target'[k].after \subseteq target'[h].after
  <2>1. /\ target[h].after # {} => target[h].phase = "queued"
        /\ target[h].after \subseteq Tail \ {h}
        /\ \A k \in target[h].after : target[k].after \subseteq target[h].after
    BY DEF TakenUp, Behind
  <2>2. \A k \in Tail : k \in Generations /\ target[k].after \subseteq Tail
                        /\ target'[k].after = target[k].after
    BY <1>4, <1>11 DEF TakenUp, Behind, Tail
  <2>3. CASE h = g
    BY <1>4, <1>7, <1>9, <1>11, <1>13, <2>2, <2>3
  <2>4. CASE h # g
    BY <1>4, <1>11, <1>13, <2>1, <2>2, <2>4
  <2> QED BY <2>3, <2>4
<1> QED BY <1>11, <1>12, <1>14 DEF TakenUp, Behind

LEMMA RenderResolvesTakenUp ==
  ASSUME Inv, TakenUp, destroyed => active = 0, NEW g \in Generations, RenderResolves(g)
  PROVE  TakenUp'
<1>1. PICK t : t = target[g]
  OBVIOUS
<1>2. /\ t \in TargetStates /\ t.phase = "rendering" /\ UNCHANGED active
  BY <1>1 DEF RenderResolves, Inv, Placed
<1>3. CASE End(g, t)
  BY <1>1, <1>2, <1>3, EndTakenUp DEF SamePlace, SameRequests
<1>4. CASE End(g, [t EXCEPT !.lastKey = t.doing.key])
  <2>1. PICK u : u = [t EXCEPT !.lastKey = t.doing.key]
    OBVIOUS
  <2>2. t.doing.key \in SemanticKeys \cup {NoKey}
    BY <1>2, TargetFields DEF MaybeRequests, Requests, NoRequest
  <2>3. u \in TargetStates /\ SamePlace(u, t) /\ SameRequests(u, t) /\ u.timer = t.timer
    BY <1>2, <2>1, <2>2, SetLastKey DEF SamePlace, SameRequests
  <2> QED BY <1>1, <1>2, <1>4, <2>1, <2>3, EndTakenUp
<1>5. CASE target' = [target EXCEPT ![g].phase = "queued", ![g].after = OnTail(t.lane)]
  BY <1>1, <1>2, <1>5, QueueTakenUp
<1> QED BY <1>1, <1>3, <1>4, <1>5 DEF RenderResolves

(* Whoever waits for a commit waits for it no longer.                       *)
LEMMA LeaveTailTakenUp ==
  ASSUME Inv, TakenUp, NEW g \in Generations, target[g].phase \in InTail,
         target[g].after = {},
         NEW t \in TargetStates, SamePlace(t, target[g]), SameRequests(t, target[g]),
         LeaveTail(g, t), UNCHANGED active
  PROVE  TakenUp'
<1>1. PICK u : u = [t EXCEPT !.phase = "settling"]
  OBVIOUS
<1>2. /\ Generations' = Generations
      /\ target'[g] = u
      /\ \A h \in Generations \ {g} :
           target'[h] = [target[h] EXCEPT !.after = target[h].after \ {g}]
  BY <1>1 DEF LeaveTail, Generations
<1>3. /\ u.phase = "settling" /\ u.after = {}
      /\ u.pendingImmediate = target[g].pendingImmediate
      /\ u.pendingRegular = target[g].pendingRegular
  BY <1>1, SetPhase DEF Phases, SamePlace, SameRequests
<1>4. ASSUME NEW h \in Generations \ {g}
      PROVE  /\ target'[h].after = target[h].after \ {g} /\ target'[h].phase = target[h].phase
             /\ Due(target[h]) => Due(target'[h])
             /\ Emptied(target[h]) => Emptied(target'[h])
  <2>1. PICK k \in TargetStates : k = target[h]
    BY DEF Inv, Placed
  <2>2. PICK x : x = k.after \ {g}
    OBVIOUS
  <2>3. x \in SUBSET (1..MaxGeneration)
    BY <2>1, <2>2, TargetFields
  <2>4. PICK w : w = [k EXCEPT !.after = x]
    OBVIOUS
  <2>5. /\ w.after = x /\ w.phase = k.phase /\ w.timer = k.timer /\ w.waited = k.waited
        /\ w.interval = k.interval
        /\ w.pendingImmediate = k.pendingImmediate /\ w.pendingRegular = k.pendingRegular
    BY <2>3, <2>4, SetAfter
  <2>6. target'[h] = w
    BY <1>2, <2>1, <2>2, <2>4
  <2> QED BY <2>1, <2>2, <2>5, <2>6 DEF Due, Emptied, Interval
<1>5. ASSUME NEW h \in Generations'
      PROVE  Due(target'[h]) /\ (h # active' => Emptied(target'[h]))
  <2>1. Due(target[h]) /\ (h # active => Emptied(target[h]))
    BY <1>2 DEF TakenUp
  <2>2. CASE h = g
    BY <1>2, <1>3, <2>1, <2>2 DEF Due, Emptied
  <2>3. CASE h # g
    BY <1>2, <1>4, <2>1, <2>3
  <2> QED BY <2>2, <2>3
<1>6. Tail' = Tail \ {g}
  BY <1>2, <1>3, <1>4 DEF Tail, InTail
<1>7. \A h \in Generations : target'[h].after = target[h].after \ {g}
  BY <1>2, <1>3, <1>4
<1>8. ASSUME NEW h \in Generations
      PROVE  /\ target'[h].after # {} => target'[h].phase = "queued"
             /\ target'[h].after \subseteq Tail' \ {h}
             /\ \A k \in target'[h].after : target'[k].after \subseteq target'[h].after
  <2>1. /\ target[h].after # {} => target[h].phase = "queued"
        /\ target[h].after \subseteq Tail \ {h}
        /\ \A k \in target[h].after : target[k].after \subseteq target[h].after
    BY DEF TakenUp, Behind
  <2>2. target[h].after \subseteq Generations
    BY <2>1 DEF Tail
  <2>3. target'[h].after # {} => h # g
    BY <1>7
  <2>4. h # g => target'[h].phase = target[h].phase
    BY <1>4
  <2> QED BY <1>6, <1>7, <2>1, <2>2, <2>3, <2>4
<1> QED BY <1>2, <1>5, <1>8 DEF TakenUp, Behind

LEMMA CommitTakenUp ==
  ASSUME Inv, TakenUp, NEW g \in Generations,
         CommitStarts(g) \/ CommitFails(g) \/ CommitResolves(g)
  PROVE  TakenUp'
<1>1. PICK t : t = target[g]
  OBVIOUS
<1>2. t \in TargetStates /\ SamePlace(t, target[g]) /\ SameRequests(t, target[g])
  BY <1>1 DEF Inv, Placed, SamePlace, SameRequests
<1>3. /\ UNCHANGED active /\ t.phase \in InTail /\ t.after = {}
  BY <1>1 DEF CommitStarts, CommitFails, CommitResolves, InTail, Inv, Turns
<1>4. CASE LeaveTail(g, t)
  BY <1>1, <1>2, <1>3, <1>4, LeaveTailTakenUp
<1>5. CASE CommitStarts(g) /\ ~LeaveTail(g, t)
  <2>1. PICK u : u = [t EXCEPT !.phase = "committing"]
    OBVIOUS
  <2>2. target' = [target EXCEPT ![g] = u] /\ t.phase = "queued"
    BY <1>1, <1>5, <2>1 DEF CommitStarts
  <2>3. /\ u.phase = "committing" /\ SamePlace(u, t)
        /\ u.pendingImmediate = t.pendingImmediate /\ u.pendingRegular = t.pendingRegular
    BY <1>2, <2>1, SetPhase DEF Phases, SamePlace
  <2>4. Due(u) /\ (g # active => Emptied(u))
    BY <1>1, <2>3 DEF TakenUp, Due, Emptied
  <2>5. u.phase \in InTail /\ t.phase \in InTail /\ t.after = {}
    BY <1>3, <2>3 DEF InTail
  <2> QED BY <1>1, <1>3, <2>2, <2>3, <2>4, <2>5, OneTakenUp
<1>6. CASE CommitResolves(g) /\ ~LeaveTail(g, t)
  <2>1. IsCurrent(g)
    BY <1>1, <1>6 DEF CommitResolves
  <2>2. PICK x : x = Picture[t.doing.key]
    OBVIOUS
  <2>3. PICK v : v = [t EXCEPT !.lastKey = t.doing.key]
    OBVIOUS
  <2>4. PICK u : u = [v EXCEPT !.lastImage = x]
    OBVIOUS
  <2>5. u = [t EXCEPT !.lastKey = t.doing.key, !.lastImage = x]
    BY <2>3, <2>4
  <2>6. LeaveTail(g, u)
    <3>1. LeaveTail(g, [t EXCEPT !.lastKey = t.doing.key, !.lastImage = Picture[t.doing.key]])
      BY <1>1, <1>6, <2>1, Zenon DEF CommitResolves
    <3> QED BY <2>2, <2>5, <3>1
  <2>7. t.doing \in Requests /\ t.doing.key \in SemanticKeys
    <3>1. g = active /\ active # 0
      BY <2>1, Numerals DEF IsCurrent
    <3>2. Ordered(t, since, shown.n, sequence) /\ t.phase = "committing"
      BY <1>1, <1>6, <3>1 DEF CommitResolves, Inv, Numbers
    <3>3. since <= t.doing.n /\ since >= 1 /\ since \in Nat
      BY <3>2, Numerals DEF Ordered, Unshown
    <3>4. t.doing \in MaybeRequests /\ t.doing.n \in Nat /\ NoRequest.n = 0
      BY <1>2, TargetFields, RequestTypes
    <3>5. t.doing # NoRequest
      BY <3>3, <3>4
    <3>6. t.doing \in Requests
      BY <3>4, <3>5, RequestTypes
    <3> QED BY <3>6 DEF Requests
  <2>8. v \in TargetStates /\ SamePlace(v, t) /\ SameRequests(v, t)
    BY <1>2, <2>3, <2>7, SetLastKey DEF SamePlace, SameRequests
  <2>9. x \in Images \cup {NoKey}
    BY <2>2, <2>7 DEF Images
  <2>10. u \in TargetStates /\ SamePlace(u, t) /\ SameRequests(u, t)
    BY <2>4, <2>8, <2>9, SetLastImage DEF SamePlace, SameRequests
  <2> QED BY <1>1, <1>3, <2>6, <2>10, LeaveTailTakenUp
<1> QED BY <1>1, <1>4, <1>5, <1>6 DEF CommitStarts, CommitFails, CommitResolves

(* A target that leaves the map has nothing left to do. *)
LEMMA ClearedEmptied ==
  ASSUME NEW t \in TargetStates PROVE Emptied(Cleared(t)) /\ Due(Cleared(t))
<1>1. Cleared(t).pendingImmediate = NoRequest /\ Cleared(t).pendingRegular = NoRequest
  BY DEF Cleared, Fresh
<1> QED BY <1>1 DEF Emptied, Due

LEMMA ActivateTakenUp ==
  ASSUME Inv, TakenUp, NEW interval \in Intervals, Activate(interval)
  PROVE  TakenUp'
<1>1. PICK c : c = Cardinality(Generations)
  OBVIOUS
<1>2. c \in Nat /\ Generations = 1..c
  BY <1>1, BoundsAssumption DEF Activate, Inv, Placed
<1>3. PICK g : g = c + 1
  OBVIOUS
<1>4. g \in Nat /\ g \notin Generations /\ 1..g = Generations \cup {g}
  BY <1>2, <1>3
<1>5. PICK on : on = IF active # 0 THEN target[active].lane ELSE IF lane # 0 THEN lane ELSE g
  OBVIOUS
<1>6. PICK f : f = Fresh(interval, on)
  OBVIOUS
<1>7. /\ target' = [h \in 1..g |-> IF h = g THEN f
                                   ELSE IF h = active THEN Cleared(target[h]) ELSE target[h]]
      /\ active' = g
  BY <1>1, <1>3, <1>5, <1>6, Zenon DEF Activate
<1>8. f.pendingImmediate = NoRequest /\ f.pendingRegular = NoRequest /\ f.phase = "none"
      /\ f.after = {}
  BY <1>6 DEF Fresh
<1>9. Generations' = Generations \cup {g} /\ target'[g] = f
  BY <1>4, <1>7 DEF Generations
<1>10. ASSUME NEW h \in Generations
       PROVE  /\ target'[h].after = target[h].after /\ target'[h].phase = target[h].phase
              /\ Due(target'[h]) /\ Emptied(target'[h])
  <2>1. target[h] \in TargetStates /\ h \in 1..g /\ h # g
    BY <1>4 DEF Inv, Placed
  <2>2. target'[h] = IF h = active THEN Cleared(target[h]) ELSE target[h]
    BY <1>7, <2>1
  <2>3. CASE h = active
    BY <2>1, <2>2, <2>3, ClearedType, ClearedEmptied
  <2>4. CASE h # active
    BY <2>1, <2>2, <2>4 DEF TakenUp
  <2> QED BY <2>3, <2>4
<1>11. \A h \in Generations' : Due(target'[h]) /\ (h # active' => Emptied(target'[h]))
  BY <1>7, <1>8, <1>9, <1>10 DEF Due
<1>12. Behind'
  <2>1. Generations \subseteq Generations' /\ Behind
    BY <1>9 DEF TakenUp
  <2>2. \A h \in Generations' \ Generations : target'[h].after = {} /\ target'[h].phase = "none"
    BY <1>8, <1>9
  <2> QED BY <1>10, <2>1, <2>2, BehindSame
<1> QED BY <1>11, <1>12 DEF TakenUp

LEMMA DeactivateTakenUp ==
  ASSUME Inv, TakenUp, active # 0, Deactivate
  PROVE  TakenUp'
<1>1. active \in Generations /\ target[active] \in TargetStates
  BY DEF Inv, Placed
<1>2. PICK u : u = Cleared(target[active])
  OBVIOUS
<1>3. target' = [target EXCEPT ![active] = u] /\ active' = 0
  BY <1>2, Zenon DEF Deactivate
<1>4. /\ Generations' = Generations
      /\ \A h \in Generations : target'[h] = IF h = active THEN u ELSE target[h]
  BY <1>1, <1>3, OneTarget
<1>5. /\ u.phase = target[active].phase /\ u.after = target[active].after
      /\ Due(u) /\ Emptied(u)
  BY <1>1, <1>2, ClearedType, ClearedEmptied
<1>6. ASSUME NEW h \in Generations'
      PROVE  Due(target'[h]) /\ (h # active' => Emptied(target'[h]))
  BY <1>3, <1>4, <1>5 DEF TakenUp
<1>7. Behind'
  <2>1. \A h \in Generations :
          target'[h].after = target[h].after /\ target'[h].phase = target[h].phase
    BY <1>4, <1>5
  <2> QED BY <1>4, <2>1, BehindSame DEF TakenUp
<1> QED BY <1>6, <1>7 DEF TakenUp

LEMMA TakenUpStays ==
  ASSUME TakenUp, UNCHANGED <<active, target>>
  PROVE  TakenUp'
<1>1. Generations' = Generations /\ target' = target /\ active' = active
  BY DEF Generations
<1>2. Tail' = Tail
  BY <1>1 DEF Tail
<1>3. \A g \in Generations' : Due(target'[g]) /\ (g # active' => Emptied(target'[g]))
  BY <1>1, Zenon DEF TakenUp
<1>4. Behind'
  BY <1>1, <1>2 DEF TakenUp, Behind
<1> QED BY <1>3, <1>4 DEF TakenUp

Stopped == destroyed => active = 0

LEMMA NextTakenUp ==
  Inv /\ Stopped /\ TakenUp /\ [Next]_vars => Stopped' /\ TakenUp'
<1> SUFFICES ASSUME Inv, Stopped, TakenUp, [Next]_vars PROVE Stopped' /\ TakenUp'
  OBVIOUS
<1>1. Stopped'
  BY DEF Stopped, Next, Activate, UpdateInterval, Submit, Remove, Destroy, Deactivate, Timer,
         Tick, Proceed, RenderResolves, RenderFails, CommitStarts, CommitResolves, CommitFails,
         Settle, vars
<1>2. ASSUME NEW g \in Generations, Proceed(g) PROVE TakenUp'
  <2>1. CASE RenderFails(g) \/ Settle(g)
    <3>1. /\ target[g] \in TargetStates /\ target[g].phase \in {"rendering", "settling"}
          /\ End(g, target[g]) /\ UNCHANGED active
      BY <2>1 DEF RenderFails, Settle, Inv, Placed
    <3> QED BY <3>1, EndTakenUp DEF SamePlace, SameRequests, Stopped
  <2> QED BY <1>2, <2>1, RenderResolvesTakenUp, CommitTakenUp DEF Proceed, Stopped
<1>3. CASE Remove \/ Destroy
  <2>1. CASE active # 0 /\ Deactivate
    <3>1. active # 0 /\ Deactivate
      BY <2>1
    <3> QED BY <1>1, <3>1, DeactivateTakenUp
  <2>2. CASE UNCHANGED <<active, target>>
    BY <1>1, <2>2, TakenUpStays
  <2> QED BY <1>3, <2>1, <2>2 DEF Remove, Destroy
<1>4. CASE UNCHANGED vars
  <2>1. UNCHANGED <<active, target>>
    BY <1>4 DEF vars
  <2> QED BY <1>1, <2>1, TakenUpStays
<1> QED BY <1>1, <1>2, <1>3, <1>4, ActivateTakenUp, UpdateIntervalTakenUp, SubmitTakenUp,
           TimerTakenUp, TickTakenUp DEF Next

(* Of the commits in the tail one waits for no other: the sets of those     *)
(* they wait for are finite, and whoever is waited for waits for fewer.     *)
LEMMA FirstOfTail ==
  ASSUME Inv, Behind, Tail # {}
  PROVE  \E h \in Tail : target[h].after = {}
<1>1. IsFiniteSet(Generations)
  BY FS_Interval DEF Inv, Placed
<1>2. PICK waits : waits = {target[h].after : h \in Tail}
  OBVIOUS
<1>3. waits \subseteq FiniteSubsetsOf(Generations) /\ waits # {}
  <2>1. \A h \in Tail : target[h].after \in SUBSET Generations
    BY DEF Behind, Tail
  <2>2. \A h \in Tail : IsFiniteSet(target[h].after)
    BY <1>1, <2>1, FS_Subset
  <2> QED BY <1>2, <2>1, <2>2 DEF FiniteSubsetsOf
<1>4. PICK x \in waits : \A y \in waits : <<y, x>> \notin StrictSubsetOrdering(Generations)
  BY <1>3, FS_StrictSubsetOrderingWellFounded, WFMin
<1>5. PICK h \in Tail : target[h].after = x
  BY <1>2
<1>6. SUFFICES ASSUME x # {} PROVE FALSE
  BY <1>5
<1>7. PICK k \in x : TRUE
  BY <1>6
<1>8. /\ h \in Generations /\ k \in Tail /\ k \in Generations
      /\ target[k].after \subseteq x /\ x \subseteq Generations
      /\ k \notin target[k].after
  BY <1>5, <1>7 DEF Behind, Tail
<1>9. target[k].after \in waits
  BY <1>2, <1>8
<1>10. <<target[k].after, x>> \in StrictSubsetOrdering(Generations)
  BY <1>7, <1>8 DEF StrictSubsetOrdering
<1> QED BY <1>4, <1>9, <1>10

(* Whatever comes in while a picture is drawn, and whenever the interval    *)
(* changes: a request that waits has a timer that runs out when its window  *)
(* closes, an idle button has no immediate request, and of the commits in   *)
(* the tail of a lane one has its turn (drain, schedulePending,             *)
(* commitSerialized).                                                       *)
THEOREM NothingIsForgotten == Spec => []EverythingTakenUp
<1>1. Init => Stopped /\ TakenUp
  <2> SUFFICES ASSUME Init PROVE Stopped /\ TakenUp
    OBVIOUS
  <2>1. Generations = {} /\ active = 0
    BY DEF Init, Generations
  <2> QED BY <2>1 DEF Stopped, TakenUp, Behind
<1>2. Spec => [](Stopped /\ TakenUp)
  BY <1>1, NextTakenUp, Invariance, PTL DEF Spec
<1>3. Inv /\ TakenUp => EverythingTakenUp
  <2> SUFFICES ASSUME Inv, TakenUp PROVE EverythingTakenUp
    OBVIOUS
  <2>1. DueInTime
    BY DEF DueInTime, TakenUp, Due
  <2>2. ASSUME NEW g \in Generations
        PROVE  /\ target[g].pendingImmediate # NoRequest => target[g].phase # "none"
               /\ target[g].after \subseteq OnTail(target[g].lane)
               /\ OnTail(target[g].lane) # {} =>
                    \E h \in OnTail(target[g].lane) : target[h].after = {}
    <3>1. \A h \in Tail : h \in OnTail(lane)
      BY DEF Tail, OnTail, InTail, Inv, OneLane
    <3>2. OnTail(target[g].lane) # {} =>
            target[g].lane = lane /\ OnTail(target[g].lane) \subseteq Tail
      BY DEF Tail, OnTail, InTail, Inv, OneLane
    <3>3. target[g].after # {} => target[g].lane = lane
      BY DEF TakenUp, Behind, Inv, OneLane
    <3>4. target[g].after \subseteq Tail
      BY DEF TakenUp, Behind
    <3>5. OnTail(target[g].lane) # {} =>
            \E h \in OnTail(target[g].lane) : target[h].after = {}
      BY <3>1, <3>2, FirstOfTail DEF TakenUp
    <3> QED BY <3>1, <3>3, <3>4, <3>5 DEF TakenUp, Due
  <2> QED BY <2>1, <2>2 DEF EverythingTakenUp, NothingForgotten
<1> QED BY <1>2, <1>3, Invariance, PTL

-----------------------------------------------------------------------------
(* A button at rest shows what was last asked of it.                        *)


(* What a target has noted of the button, "picture" being what it shows.    *)
Note(t, picture) ==
  t.lastKey # NoKey \/ t.lastImage # NoKey =>
    /\ t.lastKey \in SemanticKeys /\ t.lastImage = Picture[t.lastKey]
    /\ picture # NoRequest /\ t.lastImage = Picture[picture.key]

(* What the present target has noted is what the device shows, and no other *)
(* target is about to change it.                                            *)
TrueNotes ==
  /\ destroyed => active = 0
  /\ active # 0 =>
       LET t == target[active] IN
       /\ Note(t, shown)
       /\ t.lastKey # NoKey => \A h \in Generations : target[h].phase = "committing" => h = active

(* A request waits, is in hand, or is on the button, as the target knows.   *)
Waits(t, r) == r = t.pendingImmediate \/ r = t.pendingRegular
InHand(t, r) == t.phase \in {"rendering", "queued", "committing"} /\ t.doing = r
OnButton(t, r) ==
  /\ t.phase \in {"none", "settling"}
  /\ t.pendingImmediate = NoRequest /\ t.pendingRegular = NoRequest
  /\ t.lastKey \in SemanticKeys /\ Picture[t.lastKey] = Picture[r.key]

Accounted(t, r) == Waits(t, r) \/ InHand(t, r) \/ OnButton(t, r)

(* The last request of all has not been lost, unless drawing it failed.     *)
LatestKept ==
  /\ latest.n = sequence
  /\ active # 0 /\ since <= latest.n /\ ~failed => Accounted(target[active], latest)

LatestInv == Inv /\ TrueNotes /\ LatestKept

-----------------------------------------------------------------------------
(* The parts of handlers, as to what a target has noted.                    *)

(* A request leaves its slot: it is in hand, or what it asks for is noted.  *)
LEMMA DrainNotes ==
  ASSUME NEW t \in TargetStates, t.phase = "none", t.timer = Off,
         t.pendingImmediate # NoRequest \/ t.pendingRegular # NoRequest,
         NEW r, r = IF t.pendingImmediate # NoRequest THEN t.pendingImmediate
                    ELSE t.pendingRegular
  PROVE  /\ SameNotes(Drain(t), t)
         /\ \/ Drain(t).phase = "rendering" /\ Drain(t).doing = r
            \/ Drain(t).phase = "none" /\ t.lastKey = r.key
<1>1. r \in MaybeRequests
  BY TargetFields
<1>2. PICK taken :
        taken = IF t.pendingImmediate # NoRequest THEN [t EXCEPT !.pendingImmediate = NoRequest]
                ELSE [t EXCEPT !.pendingRegular = NoRequest, !.waited = 0]
  OBVIOUS
<1>3. /\ taken \in TargetStates /\ SameNotes(taken, t)
      /\ taken.phase = "none" /\ taken.timer = Off
  <2>1. CASE t.pendingImmediate # NoRequest
    <3>1. taken = [t EXCEPT !.pendingImmediate = NoRequest]
      BY <1>2, <2>1
    <3>2. taken \in TargetStates /\ taken.phase = "none" /\ taken.timer = Off
      BY <3>1, RequestTypes, SetImmediate
    <3>3. SameNotes(taken, t)
      BY <3>1 DEF TargetStates, SameNotes
    <3> QED BY <3>2, <3>3
  <2>2. CASE t.pendingImmediate = NoRequest
    <3>1. PICK v : v = [t EXCEPT !.pendingRegular = NoRequest]
      OBVIOUS
    <3>2. v \in TargetStates /\ v.phase = "none" /\ v.timer = Off
      BY <3>1, RequestTypes, SetRegular
    <3>3. SameNotes(v, t)
      BY <3>1 DEF TargetStates, SameNotes
    <3>4. taken = [v EXCEPT !.waited = 0]
      BY <1>2, <2>2, <3>1
    <3>5. 0 \in 0..ControlInterval
      BY IntervalsAssumption
    <3>6. taken \in TargetStates /\ taken.phase = "none" /\ taken.timer = Off
      BY <3>2, <3>4, <3>5, SetWaited
    <3>7. SameNotes(taken, v)
      BY <3>2, <3>4, WaitedNotes
    <3> QED BY <3>3, <3>6, <3>7 DEF SameNotes
  <2> QED BY <2>1, <2>2
<1>4. CASE r.key # t.lastKey
  <2>1. Drain(t) = [taken EXCEPT !.phase = "rendering", !.doing = r]
    BY <1>2, <1>4 DEF Drain
  <2>2. PICK v : v = [taken EXCEPT !.phase = "rendering"]
    OBVIOUS
  <2>3. v \in TargetStates /\ v.phase = "rendering"
    BY <1>3, <2>2, SetPhase DEF Phases
  <2>4. Drain(t) = [v EXCEPT !.doing = r]
    BY <2>1, <2>2
  <2>5. Drain(t).phase = "rendering" /\ Drain(t).doing = r
    BY <1>1, <2>3, <2>4, SetDoing
  <2>6. SameNotes(v, taken)
    BY <1>3, <2>2, PhaseNotes
  <2>7. SameNotes(Drain(t), v)
    BY <2>3, <2>4, DoingNotes
  <2> QED BY <1>3, <2>5, <2>6, <2>7 DEF SameNotes
<1>5. CASE r.key = t.lastKey
  <2>1. Drain(t) = Arm(taken)
    BY <1>2, <1>5 DEF Drain
  <2>2. Drain(t).phase = "none"
    BY <1>3, <2>1, ArmType
  <2>3. SameNotes(Drain(t), taken)
    BY <1>3, <2>1, ArmNotes
  <2> QED BY <1>3, <1>5, <2>2, <2>3 DEF SameNotes
<1> QED BY <1>4, <1>5

(* A request that nothing is newer than is not lost when it is taken up.    *)
LEMMA DrainAccounted ==
  ASSUME NEW t \in TargetStates, t.phase = "none", t.timer = Off,
         t.pendingImmediate # NoRequest \/ t.pendingRegular # NoRequest,
         NEW first \in Nat, NEW last \in Nat, NEW newest \in Nat,
         Ordered(t, first, last, newest),
         NEW r \in Requests, r.n = newest, Waits(t, r)
  PROVE  Accounted(Drain(t), r)
<1>1. PICK q : q = IF t.pendingImmediate # NoRequest THEN t.pendingImmediate
                   ELSE t.pendingRegular
  OBVIOUS
<1>2. PICK u : u = Drain(t)
  OBVIOUS
<1>3. /\ u.pendingImmediate = NoRequest
      /\ u.pendingRegular = IF t.pendingImmediate # NoRequest THEN t.pendingRegular
                            ELSE NoRequest
  BY <1>2, DrainType
<1>4. /\ SameNotes(u, t)
      /\ \/ u.phase = "rendering" /\ u.doing = q
         \/ u.phase = "none" /\ t.lastKey = q.key
  BY <1>1, <1>2, DrainNotes
<1>5. r # NoRequest /\ r.key \in SemanticKeys
  <2>1. r.n >= 1 /\ r.key \in SemanticKeys
    BY BoundsAssumption DEF Requests
  <2> QED BY <2>1, RequestTypes
<1>6. CASE q = r
  <2>1. CASE u.phase = "rendering" /\ u.doing = q
    BY <1>2, <1>6, <2>1 DEF Accounted, InHand
  <2>2. CASE u.phase = "none" /\ t.lastKey = q.key
    <3>1. u.pendingRegular = NoRequest
      <4>1. SUFFICES ASSUME t.pendingImmediate # NoRequest, t.pendingRegular # NoRequest
                     PROVE  FALSE
        BY <1>3
      <4>2. t.pendingImmediate = r
        BY <1>1, <1>6, <4>1
      <4>3. t.pendingRegular.n <= newest /\ r.n < t.pendingRegular.n
        BY <4>1, <4>2 DEF Ordered, Unshown
      <4>4. t.pendingRegular.n \in Nat
        BY TargetFields, RequestTypes
      <4> QED BY <4>3, <4>4
    <3>2. u.lastKey = r.key
      BY <1>4, <1>6, <2>2 DEF SameNotes
    <3> QED BY <1>2, <1>3, <1>5, <2>2, <3>1, <3>2 DEF Accounted, OnButton
  <2> QED BY <1>4, <2>1, <2>2
<1>7. CASE q # r
  <2>1. t.pendingImmediate # NoRequest /\ r = t.pendingRegular
    BY <1>1, <1>5, <1>7 DEF Waits
  <2> QED BY <1>2, <1>3, <2>1 DEF Accounted, Waits
<1> QED BY <1>6, <1>7

LEMMA FinishNotes ==
  ASSUME NEW t \in TargetStates, t.timer = Off
  PROVE  SameNotes(Finish(t, TRUE), t)
<1>1. PICK idle : idle = [t EXCEPT !.phase = "none", !.doing = NoRequest]
  OBVIOUS
<1>2. PICK v : v = [t EXCEPT !.phase = "none"]
  OBVIOUS
<1>3. v \in TargetStates /\ v.phase = "none" /\ v.timer = Off
  BY <1>2, SetPhase DEF Phases
<1>4. idle = [v EXCEPT !.doing = NoRequest]
  BY <1>1, <1>2
<1>5. idle \in TargetStates /\ idle.phase = "none" /\ idle.timer = Off
  BY <1>3, <1>4, RequestTypes, SetDoing
<1>6. SameNotes(idle, t)
  BY <1>1, <1>2 DEF TargetStates, SameNotes
<1>7. CASE idle.pendingImmediate # NoRequest
  <2>1. Finish(t, TRUE) = Drain(idle)
    BY <1>1, <1>7 DEF Finish
  <2>2. SameNotes(Drain(idle), idle)
    BY <1>5, <1>7, DrainNotes
  <2> QED BY <1>6, <2>1, <2>2 DEF SameNotes
<1>8. CASE idle.pendingImmediate = NoRequest
  <2>1. Finish(t, TRUE) = Arm(idle)
    BY <1>1, <1>8 DEF Finish
  <2>2. SameNotes(Arm(idle), idle)
    BY <1>5, ArmNotes
  <2> QED BY <1>6, <2>1, <2>2 DEF SameNotes
<1> QED BY <1>7, <1>8

LEMMA FinishAccounted ==
  ASSUME NEW t \in TargetStates, t.timer = Off,
         NEW first \in Nat, NEW last \in Nat, NEW newest \in Nat,
         Ordered(t, first, last, newest),
         NEW r \in Requests, r.n = newest, Waits(t, r) \/ OnButton([t EXCEPT !.phase = "none"], r)
  PROVE  Accounted(Finish(t, TRUE), r)
<1>1. PICK idle : idle = [t EXCEPT !.phase = "none", !.doing = NoRequest]
  OBVIOUS
<1>2. PICK v : v = [t EXCEPT !.phase = "none"]
  OBVIOUS
<1>3. /\ v \in TargetStates /\ v.phase = "none" /\ v.timer = Off
      /\ v.pendingImmediate = t.pendingImmediate /\ v.pendingRegular = t.pendingRegular
  BY <1>2, SetPhase DEF Phases
<1>4. idle = [v EXCEPT !.doing = NoRequest]
  BY <1>1, <1>2
<1>5. /\ idle \in TargetStates /\ idle.phase = "none" /\ idle.timer = Off
      /\ idle.pendingImmediate = t.pendingImmediate
      /\ idle.pendingRegular = t.pendingRegular /\ idle.doing = NoRequest
  BY <1>3, <1>4, RequestTypes, SetDoing
<1>6. SameNotes(v, t) /\ SameNotes(idle, v)
  BY <1>2, <1>3, <1>4, PhaseNotes, DoingNotes
<1>8. Waits(idle, r) \/ OnButton(idle, r)
  <2>1. Waits(t, r) \/ OnButton(v, r)
    BY <1>2
  <2>2. Waits(t, r) => Waits(idle, r)
    BY <1>5 DEF Waits
  <2>3. OnButton(v, r) => OnButton(idle, r)
    BY <1>3, <1>5, <1>6 DEF OnButton, SameNotes
  <2> QED BY <2>1, <2>2, <2>3
<1>9. CASE t.pendingImmediate # NoRequest
  <2>1. Finish(t, TRUE) = Drain(idle)
    BY <1>1, <1>5, <1>9 DEF Finish
  <2>2. Ordered(idle, first, last, newest)
    <3>1. /\ t.pendingImmediate # NoRequest => t.pendingImmediate.n >= 1
          /\ t.pendingRegular # NoRequest => t.pendingRegular.n >= 1
          /\ NoRequest.n = 0
      BY TargetFields, RequestTypes
    <3>2. /\ t.pendingImmediate # NoRequest => idle.doing.n < t.pendingImmediate.n
          /\ t.pendingRegular # NoRequest => idle.doing.n < t.pendingRegular.n
          /\ idle.doing.n <= newest
      <4>1. idle.doing.n = 0
        BY <1>5, <3>1
      <4>2. /\ t.pendingImmediate.n \in Nat /\ t.pendingRegular.n \in Nat
        BY TargetFields, RequestTypes
      <4> QED BY <3>1, <4>1, <4>2
    <3> QED BY <1>5, <3>2 DEF Ordered
  <2>3. Waits(idle, r)
    BY <1>5, <1>8, <1>9 DEF OnButton
  <2>4. Accounted(Drain(idle), r)
    BY <1>5, <1>9, <2>2, <2>3, DrainAccounted
  <2> QED BY <2>1, <2>4
<1>10. CASE t.pendingImmediate = NoRequest
  <2>1. Finish(t, TRUE) = Arm(idle)
    BY <1>1, <1>5, <1>10 DEF Finish
  <2>2. PICK u : u = Arm(idle)
    OBVIOUS
  <2>3. /\ u.phase = idle.phase /\ u.pendingImmediate = idle.pendingImmediate
        /\ u.pendingRegular = idle.pendingRegular
    BY <1>5, <2>2, ArmType
  <2>4. SameNotes(u, idle)
    BY <1>5, <2>2, ArmNotes
  <2>5. Waits(u, r) \/ OnButton(u, r)
    BY <1>8, <2>3, <2>4 DEF Waits, OnButton, SameNotes
  <2> QED BY <2>1, <2>2, <2>5 DEF Accounted
<1> QED BY <1>9, <1>10

-----------------------------------------------------------------------------
(* Steps.                                                                   *)

LEMMA InitLatest == Init => LatestInv
<1> SUFFICES ASSUME Init PROVE LatestInv
  OBVIOUS
<1>1. active = 0 /\ latest.n = 0 /\ sequence = 0
  BY RequestTypes DEF Init
<1> QED BY <1>1, InitInv DEF LatestInv, TrueNotes, LatestKept

(* The last request, if it is of this activation.                           *)
LEMMA LatestFacts ==
  ASSUME LatestInv
  PROVE  /\ latest.n = sequence
         /\ since <= latest.n => latest \in Requests /\ latest # NoRequest /\ latest.n >= 1
<1>1. latest \in MaybeRequests /\ latest.n = sequence
  BY DEF LatestInv, Inv, Counted, LatestKept
<1>2. since \in Nat /\ since >= 1 /\ latest.n \in Nat
  BY <1>1, Numerals, RequestTypes DEF LatestInv
<1>3. latest = NoRequest => latest.n = 0
  BY RequestTypes
<1>4. ASSUME since <= latest.n
      PROVE  latest \in Requests /\ latest # NoRequest /\ latest.n >= 1
  <2>1. latest # NoRequest /\ latest.n >= 1
    BY <1>2, <1>3, <1>4
  <2> QED BY <1>1, <2>1, RequestTypes
<1> QED BY <1>1, <1>4

LEMMA ActiveFacts ==
  ASSUME LatestInv, active # 0
  PROVE  /\ active \in Generations /\ target[active] \in TargetStates
         /\ Ordered(target[active], since, shown.n, sequence)
         /\ Note(target[active], shown) /\ IsCurrent(active)
BY DEF LatestInv, Inv, Placed, Numbers, TrueNotes, IsCurrent

(* Nothing waits behind the last request of all.                            *)
LEMMA LastInHand ==
  ASSUME NEW t \in TargetStates, NEW first, NEW last, NEW newest \in Nat,
         Ordered(t, first, last, newest), t.doing.n = newest
  PROVE  /\ t.pendingImmediate = NoRequest /\ t.pendingRegular = NoRequest /\ ~Superseded(t)
<1>1. t.pendingImmediate.n \in Nat /\ t.pendingRegular.n \in Nat /\ NoRequest.n = 0
  BY TargetFields, RequestTypes
<1>2. t.pendingImmediate = NoRequest
  <2>1. SUFFICES ASSUME t.pendingImmediate # NoRequest PROVE FALSE
    OBVIOUS
  <2>2. t.pendingImmediate.n <= newest /\ newest < t.pendingImmediate.n
    BY <2>1 DEF Ordered, Unshown
  <2> QED BY <1>1, <2>2
<1>3. t.pendingRegular = NoRequest
  <2>1. SUFFICES ASSUME t.pendingRegular # NoRequest PROVE FALSE
    OBVIOUS
  <2>2. t.pendingRegular.n <= newest /\ newest < t.pendingRegular.n
    BY <2>1 DEF Ordered, Unshown
  <2> QED BY <1>1, <2>2
<1>4. ~Superseded(t)
  BY <1>1, <1>2, <1>3 DEF Superseded
<1> QED BY <1>2, <1>3, <1>4

(* What a step has to respect that accepts no request and renews nothing.   *)
LEMMA Moved ==
  ASSUME LatestInv, Generations' = Generations,
         UNCHANGED <<active, destroyed, sequence, since, latest>>,
         \A h \in Generations : target'[h].phase = "committing" =>
           h = active \/ target[h].phase = "committing",
         active # 0 =>
           /\ Note(target'[active], shown')
           /\ target'[active].lastKey # NoKey =>
                \/ target[active].lastKey # NoKey
                \/ \A h \in Generations : target'[h].phase # "committing",
         active # 0 /\ since <= latest.n /\ ~failed' => Accounted(target'[active], latest)
  PROVE  TrueNotes' /\ LatestKept'
<1>1. TrueNotes'
  <2>1. destroyed => active = 0
    BY DEF LatestInv, TrueNotes
  <2>2. ASSUME active # 0, target'[active].lastKey # NoKey,
               NEW h \in Generations, target'[h].phase = "committing"
        PROVE  h = active
    <3>1. target[active].lastKey # NoKey
      BY <2>2
    <3>2. h = active \/ target[h].phase = "committing"
      BY <2>2
    <3> QED BY <2>2, <3>1, <3>2 DEF LatestInv, TrueNotes
  <2> QED BY <2>1, <2>2 DEF TrueNotes, Note
<1>2. LatestKept'
  BY DEF LatestInv, LatestKept, Accounted, Waits, InHand, OnButton
<1> QED BY <1>1, <1>2

LEMMA AccountedSame ==
  ASSUME NEW u, NEW t, SameRequests(u, t), SameNotes(u, t), NEW r, Accounted(t, r)
  PROVE  Accounted(u, r)
BY DEF SameRequests, SameNotes, Accounted, Waits, InHand, OnButton

LEMMA NoteSame ==
  ASSUME NEW u, NEW t, SameNotes(u, t), NEW picture, Note(t, picture)
  PROVE  Note(u, picture) /\ (u.lastKey # NoKey => t.lastKey # NoKey)
BY DEF SameNotes, Note

(* Steps that change one target.                                            *)
LEMMA OneMoved ==
  ASSUME LatestInv, NEW g \in Generations, NEW u, target' = [target EXCEPT ![g] = u],
         UNCHANGED <<active, destroyed, sequence, since, latest, shown>>,
         failed => failed',
         u.phase = "committing" => g = active \/ target[g].phase = "committing",
         g = active =>
           /\ Note(u, shown) /\ (u.lastKey # NoKey => target[g].lastKey # NoKey)
           /\ since <= latest.n /\ ~failed' => Accounted(u, latest)
  PROVE  TrueNotes' /\ LatestKept'
<1>1. /\ Generations' = Generations
      /\ \A h \in Generations : target'[h] = IF h = g THEN u ELSE target[h]
  BY OneTarget, ZenonT(40)
<1>2. \A h \in Generations : target'[h].phase = "committing" =>
        h = active \/ target[h].phase = "committing"
  BY <1>1
<1>3. ASSUME active # 0
      PROVE  /\ Note(target'[active], shown)
             /\ target'[active].lastKey # NoKey => target[active].lastKey # NoKey
             /\ since <= latest.n /\ ~failed' => Accounted(target'[active], latest)
  <2>1. active \in Generations /\ Note(target[active], shown)
    BY <1>3, ActiveFacts
  <2>2. since <= latest.n /\ ~failed' => Accounted(target[active], latest)
    BY <1>3 DEF LatestInv, LatestKept
  <2>3. CASE g = active
    BY <1>1, <2>1, <2>3
  <2>4. CASE g # active
    <3>1. target'[active] = target[active]
      BY <1>1, <2>1, <2>4
    <3> QED BY <2>1, <2>2, <3>1
  <2> QED BY <2>3, <2>4
<1> QED BY <1>1, <1>2, <1>3, Moved

LEMMA RequestsStayLatest ==
  ASSUME LatestInv, RequestsStay
  PROVE  TrueNotes' /\ LatestKept'
<1>1. PICK u \in TargetStates :
        /\ SameRequests(u, target[active]) /\ SameNotes(u, target[active])
        /\ target' = [target EXCEPT ![active] = u]
  BY DEF RequestsStay
<1>2. /\ active # 0
      /\ UNCHANGED <<active, lane, sequence, destroyed, since, latest, failed, shown>>
  BY DEF RequestsStay
<1>3. active \in Generations /\ Note(target[active], shown)
  BY <1>2, ActiveFacts
<1>4. Note(u, shown) /\ (u.lastKey # NoKey => target[active].lastKey # NoKey)
  BY <1>1, <1>3, NoteSame
<1>5. since <= latest.n /\ ~failed => Accounted(u, latest)
  <2>1. since <= latest.n /\ ~failed => Accounted(target[active], latest)
    BY <1>2 DEF LatestInv, LatestKept
  <2> QED BY <1>1, <2>1, AccountedSame
<1> QED BY <1>1, <1>2, <1>3, <1>4, <1>5, OneMoved

LEMMA TimerLatest ==
  ASSUME LatestInv, Timer
  PROVE  TrueNotes' /\ LatestKept'
<1>1. PICK a : a = target[active]
  OBVIOUS
<1>2. /\ active # 0 /\ active \in Generations /\ a \in TargetStates /\ a.timer = 0
      /\ Ordered(a, since, shown.n, sequence) /\ Note(a, shown)
  BY <1>1, ActiveFacts DEF Timer
<1>3. a.phase = "none" /\ a.pendingRegular # NoRequest
  <2>1. Timed(a)
    BY <1>1, <1>2 DEF LatestInv, Inv, Placed
  <2> QED BY <1>2, <2>1 DEF Timed, Off
<1>4. PICK t : t = [a EXCEPT !.timer = Off]
  OBVIOUS
<1>5. Off \in -1..ControlInterval
  BY IntervalsAssumption DEF Off
<1>6. t \in TargetStates /\ SameRequests(t, a) /\ t.timer = Off /\ SameNotes(t, a)
  BY <1>2, <1>4, <1>5, SetTimer, TimerNotes DEF SameRequests
<1>7. t.phase = "none" /\ t.pendingRegular # NoRequest
  BY <1>3, <1>6 DEF SameRequests
<1>8. PICK u : u = Drain(t)
  OBVIOUS
<1>9. target' = [target EXCEPT ![active] = u]
  BY <1>1, <1>4, <1>8 DEF Timer
<1>10. SameNotes(u, t) /\ u.phase \in {"none", "rendering"}
  BY <1>6, <1>7, <1>8, DrainNotes
<1>11. Note(u, shown) /\ (u.lastKey # NoKey => a.lastKey # NoKey)
  <2>1. SameNotes(u, a)
    BY <1>6, <1>10 DEF SameNotes
  <2> QED BY <1>2, <2>1, NoteSame
<1>12. ASSUME since <= latest.n, ~failed PROVE Accounted(u, latest)
  <2>1. Accounted(a, latest)
    BY <1>1, <1>2, <1>12 DEF LatestInv, LatestKept
  <2>2. Waits(a, latest)
    BY <1>3, <2>1 DEF Accounted, InHand, OnButton
  <2>3. Waits(t, latest)
    BY <1>6, <2>2 DEF Waits, SameRequests
  <2>4. latest \in Requests /\ latest.n = sequence
    BY <1>12, LatestFacts
  <2>5. Ordered(t, since, shown.n, sequence)
    BY <1>2, <1>6, SameOrdered
  <2>6. sequence \in Nat /\ since \in Nat /\ shown.n \in Nat
    BY Numerals DEF LatestInv
  <2> QED BY <1>6, <1>7, <1>8, <2>3, <2>4, <2>5, <2>6, DrainAccounted
<1>13. UNCHANGED <<active, lane, sequence, destroyed, since, latest, failed, shown>>
  BY DEF Timer
<1> QED BY <1>1, <1>2, <1>9, <1>10, <1>11, <1>12, <1>13, OneMoved

LEMMA SlottedNotes ==
  ASSUME NEW t \in TargetStates, NEW r \in Requests
  PROVE  SameNotes(Slotted(t, r), t) /\ Waits(Slotted(t, r), r)
<1>1. Waits(Slotted(t, r), r)
  BY SlottedType DEF Waits
<1>2. CASE r.category = "immediate"
  BY <1>1, <1>2 DEF Slotted, TargetStates, SameNotes
<1>3. CASE r.category # "immediate"
  BY <1>1, <1>3 DEF Slotted, TargetStates, SameNotes
<1> QED BY <1>2, <1>3

LEMMA SubmitLatest ==
  ASSUME LatestInv, NEW category \in Categories, NEW key \in SemanticKeys,
         Submit(category, key)
  PROVE  TrueNotes' /\ LatestKept'
<1>1. PICK a : a = target[active]
  OBVIOUS
<1>2. /\ active # 0 /\ active \in Generations /\ a \in TargetStates
      /\ Ordered(a, since, shown.n, sequence) /\ Note(a, shown)
  BY <1>1, ActiveFacts DEF Submit
<1>3. PICK r : r = [category |-> category, key |-> key, n |-> sequence + 1]
  OBVIOUS
<1>4. sequence \in Nat /\ since \in Nat /\ shown.n \in Nat
      /\ shown.n <= sequence /\ since <= sequence + 1
  BY Numerals DEF LatestInv
<1>5. r \in Requests /\ r.category = category /\ r.n = sequence + 1
  <2>1. sequence + 1 \in 1..MaxSequence
    BY <1>4, BoundsAssumption DEF Submit
  <2> QED BY <1>3, <2>1 DEF Requests
<1>6. PICK t : t = Slotted(a, r)
  OBVIOUS
<1>7. t \in TargetStates /\ SameNotes(t, a) /\ Waits(t, r) /\ t.phase = a.phase
  BY <1>2, <1>5, <1>6, SlottedType, SlottedNotes
<1>8. Ordered(t, since, shown.n, sequence + 1)
  BY <1>2, <1>4, <1>5, <1>6, SlottedOrdered
<1>9. PICK u : u = [t EXCEPT !.timer = Off]
  OBVIOUS
<1>10. Off \in -1..ControlInterval
  BY IntervalsAssumption DEF Off
<1>11. u \in TargetStates /\ SameRequests(u, t) /\ u.timer = Off /\ SameNotes(u, t)
  BY <1>7, <1>9, <1>10, SetTimer, TimerNotes DEF SameRequests
<1>12. Waits(u, r) /\ Ordered(u, since, shown.n, sequence + 1)
  <2>1. Waits(u, r)
    BY <1>7, <1>11 DEF Waits, SameRequests
  <2> QED BY <1>8, <1>11, <2>1, SameOrdered
<1>13. PICK w : w = IF t.phase # "none" THEN IF category = "immediate" THEN u ELSE t
                    ELSE IF t.pendingImmediate # NoRequest THEN Drain(u) ELSE Arm(u)
  OBVIOUS
<1>14. /\ SameNotes(w, t) /\ Accounted(w, r)
       /\ w.phase = "committing" => a.phase = "committing"
  <2>1. CASE w = u
    BY <1>7, <1>11, <1>12, <2>1 DEF Accounted, SameRequests
  <2>2. CASE w = t
    BY <1>7, <2>2 DEF Accounted, SameNotes
  <2>3. CASE w = Drain(u) /\ t.phase = "none" /\ t.pendingImmediate # NoRequest
    <3>1. u.phase = "none" /\ u.pendingImmediate # NoRequest
      BY <1>11, <2>3 DEF SameRequests
    <3>2. SameNotes(w, u) /\ w.phase # "committing"
      BY <1>11, <2>3, <3>1, DrainNotes
    <3>3. Accounted(w, r)
      <4>1. PICK m \in Nat : m = sequence + 1
        BY <1>4
      <4>2. Ordered(u, since, shown.n, m) /\ r.n = m
        BY <1>5, <1>12, <4>1
      <4> QED BY <1>4, <1>5, <1>11, <1>12, <2>3, <3>1, <4>2, DrainAccounted
    <3> QED BY <1>11, <3>2, <3>3 DEF SameNotes
  <2>4. CASE w = Arm(u) /\ t.phase = "none"
    <3>1. u.phase = "none"
      BY <1>11, <2>4 DEF SameRequests
    <3>2. SameRequests(w, u) /\ SameNotes(w, u) /\ w.phase # "committing"
      BY <1>11, <2>4, <3>1, ArmType, ArmNotes DEF SameRequests
    <3>3. Waits(w, r)
      BY <1>12, <3>2 DEF Waits, SameRequests
    <3> QED BY <1>11, <3>2, <3>3 DEF SameNotes, Accounted
  <2> QED BY <1>13, <2>1, <2>2, <2>3, <2>4
<1>15. target' = [target EXCEPT ![active] = w]
  BY <1>1, <1>3, <1>6, <1>9, <1>13, Zenon DEF Submit
<1>16. /\ UNCHANGED <<active, lane, destroyed, since, shown>>
       /\ sequence' = sequence + 1 /\ latest' = r
  BY <1>3 DEF Submit
<1>17. /\ Generations' = Generations
       /\ \A h \in Generations : target'[h] = IF h = active THEN w ELSE target[h]
  BY <1>2, <1>15, OneTarget
<1>18. SameNotes(w, a)
  BY <1>7, <1>14 DEF SameNotes
<1>19. Note(w, shown) /\ (w.lastKey # NoKey => a.lastKey # NoKey)
  BY <1>2, <1>18, NoteSame
<1>20. TrueNotes'
  <2>1. destroyed => active = 0
    BY DEF LatestInv, TrueNotes
  <2>2. ASSUME w.lastKey # NoKey, NEW h \in Generations, target'[h].phase = "committing"
        PROVE  h = active
    <3>1. h = active \/ target[h].phase = "committing"
      BY <1>17, <2>2
    <3> QED BY <1>1, <1>2, <1>19, <2>2, <3>1 DEF LatestInv, TrueNotes
  <2>3. target'[active] = w
    BY <1>2, <1>17
  <2> QED BY <1>2, <1>16, <1>17, <1>19, <2>1, <2>2, <2>3 DEF TrueNotes, Note
<1>21. LatestKept'
  <2>1. target'[active'] = w /\ latest'.n = sequence'
    BY <1>2, <1>5, <1>16, <1>17
  <2>2. Accounted(target'[active'], latest')
    BY <1>14, <1>16, <2>1
  <2> QED BY <2>1, <2>2 DEF LatestKept, Accounted, Waits, InHand, OnButton
<1> QED BY <1>20, <1>21

(* The end of an operation of a superseded target concerns nobody.          *)
LEMMA OtherEnds ==
  ASSUME LatestInv, NEW g \in Generations, g # active, target[g].phase # "committing",
         NEW t \in TargetStates, t.timer = Off, End(g, t),
         UNCHANGED <<active, destroyed, sequence, since, latest, shown>>,
         failed => failed'
  PROVE  TrueNotes' /\ LatestKept'
<1>1. PICK u : u = Finish(t, IsCurrent(g))
  OBVIOUS
<1>2. u.phase \in {"none", "rendering"}
  BY <1>1, FinishType, Zenon
<1>3. target' = [target EXCEPT ![g] = u]
  BY <1>1 DEF End
<1> QED BY <1>2, <1>3, OneMoved

(* At the end of an operation of the present target the last request waits, *)
(* or it is on the button.                                                  *)
LEMMA OwnEnds ==
  ASSUME LatestInv, active # 0,
         NEW t \in TargetStates, t.timer = Off, SameRequests(t, target[active]), End(active, t),
         Note(t, shown), t.lastKey # NoKey => target[active].lastKey # NoKey,
         UNCHANGED <<active, destroyed, sequence, since, latest, shown>>,
         failed => failed',
         since <= latest.n /\ ~failed' =>
           Waits(t, latest) \/ OnButton([t EXCEPT !.phase = "none"], latest)
  PROVE  TrueNotes' /\ LatestKept'
<1>1. active \in Generations /\ Ordered(target[active], since, shown.n, sequence)
  BY ActiveFacts
<1>2. IsCurrent(active) = TRUE
  BY ActiveFacts DEF IsCurrent
<1>3. PICK u : u = Finish(t, TRUE)
  OBVIOUS
<1>4. target' = [target EXCEPT ![active] = u]
  BY <1>2, <1>3 DEF End
<1>5. /\ u.phase \in {"none", "rendering"}
      /\ SameNotes(u, t)
  <2>1. u.phase \in {"none", "rendering"}
    BY <1>3, FinishType
  <2> QED BY <1>3, <2>1, FinishNotes
<1>6. Note(u, shown) /\ (u.lastKey # NoKey => target[active].lastKey # NoKey)
  BY <1>5, NoteSame
<1>7. ASSUME since <= latest.n, ~failed' PROVE Accounted(u, latest)
  <2>1. latest \in Requests /\ latest.n = sequence
    BY <1>7, LatestFacts
  <2>2. Ordered(t, since, shown.n, sequence)
    BY <1>1, SameOrdered
  <2>3. sequence \in Nat /\ since \in Nat /\ shown.n \in Nat
    BY Numerals DEF LatestInv
  <2>4. Waits(t, latest) \/ OnButton([t EXCEPT !.phase = "none"], latest)
    BY <1>7
  <2> QED BY <1>3, <2>1, <2>2, <2>3, <2>4, FinishAccounted
<1> QED BY <1>1, <1>4, <1>5, <1>6, <1>7, OneMoved

LEMMA RenderResolvesLatest ==
  ASSUME LatestInv, NEW g \in Generations, RenderResolves(g)
  PROVE  TrueNotes' /\ LatestKept'
<1>1. PICK t : t = target[g]
  OBVIOUS
<1>2. /\ t \in TargetStates /\ t.phase = "rendering" /\ t.timer = Off
      /\ UNCHANGED <<active, sequence, destroyed, since, latest, failed, shown>>
  BY <1>1 DEF RenderResolves, LatestInv, Inv, Placed, Timed
<1>3. PICK u : u = [t EXCEPT !.lastKey = t.doing.key]
  OBVIOUS
<1>4. /\ u \in TargetStates /\ SameRequests(u, t) /\ u.timer = t.timer
      /\ u.lastKey = t.doing.key /\ u.lastImage = t.lastImage
  <2>1. t.doing.key \in SemanticKeys \cup {NoKey}
    BY <1>2, TargetFields DEF MaybeRequests, Requests, NoRequest
  <2>2. u \in TargetStates /\ SameRequests(u, t) /\ u.timer = t.timer
    BY <1>2, <1>3, <2>1, SetLastKey DEF SameRequests
  <2>3. u.lastKey = t.doing.key /\ u.lastImage = t.lastImage
    BY <1>2, <1>3 DEF TargetStates
  <2> QED BY <2>2, <2>3
<1>5. CASE target' = [target EXCEPT ![g].phase = "queued", ![g].after = OnTail(t.lane)]
  <2>1. PICK x : x = OnTail(t.lane)
    OBVIOUS
  <2>2. PICK v : v = [t EXCEPT !.phase = "queued"]
    OBVIOUS
  <2>3. PICK w : w = [v EXCEPT !.after = x]
    OBVIOUS
  <2>4. target' = [target EXCEPT ![g] = w]
    <3>1. target' = [[target EXCEPT ![g].phase = "queued"] EXCEPT ![g].after = x]
      BY <1>5, <2>1
    <3>2. [target EXCEPT ![g].phase = "queued"] = [target EXCEPT ![g] = v]
      BY <1>1, <2>2
    <3>3. [[target EXCEPT ![g] = v] EXCEPT ![g].after = x] = [target EXCEPT ![g] = w]
      BY <2>3
    <3> QED BY <3>1, <3>2, <3>3
  <2>5. /\ w.phase = "queued" /\ w.doing = t.doing
        /\ w.pendingImmediate = t.pendingImmediate /\ w.pendingRegular = t.pendingRegular
        /\ SameNotes(w, t)
    BY <1>2, <2>2, <2>3 DEF TargetStates, SameNotes
  <2>6. ASSUME g = active
        PROVE  /\ Note(w, shown) /\ (w.lastKey # NoKey => t.lastKey # NoKey)
               /\ since <= latest.n /\ ~failed => Accounted(w, latest)
    <3>1. active # 0 /\ Note(t, shown)
      BY <1>1, <2>6, ActiveFacts, Numerals DEF LatestInv
    <3>2. since <= latest.n /\ ~failed => Accounted(t, latest)
      BY <1>1, <2>6, <3>1 DEF LatestInv, LatestKept
    <3>3. Accounted(t, latest) => Accounted(w, latest)
      BY <1>2, <2>5 DEF Accounted, Waits, InHand, OnButton
    <3> QED BY <2>5, <3>1, <3>2, <3>3, NoteSame
  <2> QED BY <1>1, <1>2, <2>4, <2>5, <2>6, OneMoved
<1>6. CASE g # active
  <2>1. ~IsCurrent(g)
    BY <1>6 DEF IsCurrent
  <2>2. End(g, t)
    BY <1>1, <2>1 DEF RenderResolves
  <2> QED BY <1>1, <1>2, <1>6, <2>2, OtherEnds
<1>7. CASE g = active
  <2>1. /\ active # 0 /\ Note(t, shown) /\ IsCurrent(g)
        /\ Ordered(t, since, shown.n, sequence)
    BY <1>1, <1>7, ActiveFacts, Numerals DEF LatestInv
  <2>2. since <= latest.n /\ ~failed => Waits(t, latest) \/ t.doing = latest
    BY <1>1, <1>2, <1>7, <2>1 DEF LatestInv, LatestKept, Accounted, InHand, OnButton
  <2>3. CASE End(g, t) /\ Superseded(t)
    <3>1. ASSUME since <= latest.n, ~failed PROVE Waits(t, latest)
      <4>1. t.doing = latest => ~Superseded(t)
        BY <1>2, <2>1, <3>1, LatestFacts, LastInHand, Numerals DEF LatestInv
      <4> QED BY <2>2, <2>3, <3>1, <4>1
    <3>2. SameRequests(t, target[active])
      BY <1>1, <1>7 DEF SameRequests
    <3> QED BY <1>1, <1>2, <1>7, <2>1, <2>3, <3>1, <3>2, OwnEnds
  <2>4. CASE End(g, u) /\ Picture[t.doing.key] = t.lastImage
    <3>1. t.doing # NoRequest
      <4>1. since <= t.doing.n /\ since >= 1 /\ since \in Nat
        BY <1>2, <2>1, Numerals DEF Ordered, Unshown, LatestInv
      <4>2. t.doing.n \in Nat /\ NoRequest.n = 0
        BY <1>2, TargetFields, RequestTypes
      <4> QED BY <4>1, <4>2
    <3>2. t.doing.key \in SemanticKeys
      BY <1>2, <3>1, TargetFields, RequestTypes DEF Requests
    <3>3. t.lastImage # NoKey
      BY <2>4, <3>2, KeysAssumption
    <3>4. t.lastKey # NoKey /\ shown # NoRequest /\ t.lastImage = Picture[shown.key]
      BY <2>1, <3>3, KeysAssumption DEF Note
    <3>5. Note(u, shown)
      BY <1>4, <2>4, <3>2, <3>4 DEF Note
    <3>6. ASSUME since <= latest.n, ~failed
          PROVE  Waits(u, latest) \/ OnButton([u EXCEPT !.phase = "none"], latest)
      <4>1. CASE Waits(t, latest)
        BY <1>4, <4>1 DEF Waits, SameRequests
      <4>2. CASE t.doing = latest
        <5>1. t.pendingImmediate = NoRequest /\ t.pendingRegular = NoRequest
          BY <1>2, <2>1, <3>6, <4>2, LatestFacts, LastInHand, Numerals DEF LatestInv
        <5>2. PICK v : v = [u EXCEPT !.phase = "none"]
          OBVIOUS
        <5>3. /\ v.phase = "none" /\ v.lastKey = u.lastKey
              /\ v.pendingImmediate = u.pendingImmediate
              /\ v.pendingRegular = u.pendingRegular
          BY <1>4, <5>2 DEF TargetStates
        <5>4. OnButton(v, latest)
          BY <1>4, <3>2, <4>2, <5>1, <5>3 DEF OnButton, SameRequests
        <5> QED BY <5>2, <5>4
      <4> QED BY <2>2, <3>6, <4>1, <4>2
    <3>7. SameRequests(u, target[active])
      BY <1>1, <1>4, <1>7
    <3>8. u.lastKey # NoKey => target[active].lastKey # NoKey
      BY <1>1, <1>7, <3>4
    <3>9. u.timer = Off /\ u \in TargetStates /\ End(active, u)
      BY <1>2, <1>4, <1>7, <2>4
    <3> QED BY <1>2, <2>1, <3>5, <3>6, <3>7, <3>8, <3>9, OwnEnds
  <2> QED BY <1>1, <1>3, <1>5, <2>1, <2>3, <2>4 DEF RenderResolves
<1> QED BY <1>6, <1>7

LEMMA RenderFailsLatest ==
  ASSUME LatestInv, NEW g \in Generations, RenderFails(g)
  PROVE  TrueNotes' /\ LatestKept'
<1>1. PICK t : t = target[g]
  OBVIOUS
<1>2. /\ t \in TargetStates /\ t.phase = "rendering" /\ t.timer = Off /\ End(g, t)
      /\ UNCHANGED <<active, sequence, destroyed, since, latest, shown>>
  BY <1>1 DEF RenderFails, LatestInv, Inv, Placed, Timed
<1>3. failed => failed'
  BY DEF RenderFails
<1>4. t.doing = latest => failed'
  BY <1>1 DEF RenderFails
<1>5. CASE g # active
  BY <1>1, <1>2, <1>3, <1>5, OtherEnds
<1>6. CASE g = active
  <2>1. active # 0 /\ Note(t, shown)
    BY <1>1, <1>6, ActiveFacts, Numerals DEF LatestInv
  <2>2. since <= latest.n /\ ~failed => Waits(t, latest) \/ t.doing = latest
    BY <1>1, <1>2, <1>6, <2>1 DEF LatestInv, LatestKept, Accounted, InHand, OnButton
  <2>3. since <= latest.n /\ ~failed' => Waits(t, latest)
    BY <1>3, <1>4, <2>2
  <2>4. SameRequests(t, target[active])
    BY <1>1, <1>6 DEF SameRequests
  <2> QED BY <1>1, <1>2, <1>3, <1>6, <2>1, <2>3, <2>4, OwnEnds
<1> QED BY <1>5, <1>6

LEMMA SettleLatest ==
  ASSUME LatestInv, NEW g \in Generations, Settle(g)
  PROVE  TrueNotes' /\ LatestKept'
<1>1. PICK t : t = target[g]
  OBVIOUS
<1>2. /\ t \in TargetStates /\ t.phase = "settling" /\ t.timer = Off /\ End(g, t)
      /\ UNCHANGED <<active, sequence, destroyed, since, latest, failed, shown>>
  BY <1>1 DEF Settle, LatestInv, Inv, Placed, Timed
<1>3. CASE g # active
  BY <1>1, <1>2, <1>3, OtherEnds
<1>4. CASE g = active
  <2>1. active # 0 /\ Note(t, shown)
    BY <1>1, <1>4, ActiveFacts, Numerals DEF LatestInv
  <2>2. since <= latest.n /\ ~failed => Waits(t, latest) \/ OnButton(t, latest)
    BY <1>1, <1>2, <1>4, <2>1 DEF LatestInv, LatestKept, Accounted, InHand
  <2>3. OnButton(t, latest) => OnButton([t EXCEPT !.phase = "none"], latest)
    <3>1. PICK v : v = [t EXCEPT !.phase = "none"]
      OBVIOUS
    <3>2. /\ v.phase = "none" /\ v.lastKey = t.lastKey
          /\ v.pendingImmediate = t.pendingImmediate /\ v.pendingRegular = t.pendingRegular
      BY <1>2, <3>1 DEF TargetStates
    <3>3. OnButton(t, latest) => OnButton(v, latest)
      BY <3>2 DEF OnButton
    <3> QED BY <3>1, <3>3
  <2>4. SameRequests(t, target[active])
    BY <1>1, <1>4 DEF SameRequests
  <2>5. since <= latest.n /\ ~failed' =>
          Waits(t, latest) \/ OnButton([t EXCEPT !.phase = "none"], latest)
    BY <1>2, <2>2, <2>3
  <2> QED BY <1>1, <1>2, <1>4, <2>1, <2>4, <2>5, OwnEnds
<1> QED BY <1>3, <1>4

(* The commit of g leaves the tail of its lane.                             *)
LEMMA Left ==
  ASSUME LatestInv, NEW g \in Generations, target[g].phase \in InTail,
         NEW t \in TargetStates, SameRequests(t, target[g]), LeaveTail(g, t)
  PROVE  /\ Generations' = Generations
         /\ target'[g].phase = "settling"
         /\ target'[g].pendingImmediate = t.pendingImmediate
         /\ target'[g].pendingRegular = t.pendingRegular
         /\ SameNotes(target'[g], t)
         /\ \A h \in Generations \ {g} :
              SameRequests(target'[h], target[h]) /\ SameNotes(target'[h], target[h])
<1>1. PICK u : u = [t EXCEPT !.phase = "settling"]
  OBVIOUS
<1>2. /\ Generations' = Generations
      /\ target'[g] = u
      /\ \A h \in Generations \ {g} :
           target'[h] = [target[h] EXCEPT !.after = target[h].after \ {g}]
  BY <1>1 DEF LeaveTail, Generations
<1>3. /\ u.phase = "settling" /\ SameNotes(u, t)
      /\ u.pendingImmediate = t.pendingImmediate /\ u.pendingRegular = t.pendingRegular
  BY <1>1 DEF TargetStates, SameNotes
<1>4. ASSUME NEW h \in Generations \ {g}
      PROVE  SameRequests(target'[h], target[h]) /\ SameNotes(target'[h], target[h])
  <2>1. target[h] \in TargetStates
    BY DEF LatestInv, Inv, Placed
  <2>2. PICK x : x = target[h].after \ {g}
    OBVIOUS
  <2>3. target'[h] = [target[h] EXCEPT !.after = x]
    BY <1>2, <2>2
  <2> QED BY <2>1, <2>3 DEF TargetStates, SameRequests, SameNotes
<1> QED BY <1>2, <1>3, <1>4

(* When nothing was put on the device, what waits for the target waits on.  *)
LEMMA LeftUnshown ==
  ASSUME LatestInv, NEW g \in Generations, target[g].phase \in InTail, LeaveTail(g, target[g]),
         UNCHANGED <<active, destroyed, sequence, since, latest, shown>>, failed => failed',
         g = active /\ since <= latest.n /\ ~failed' => Waits(target[g], latest)
  PROVE  TrueNotes' /\ LatestKept'
<1>1. PICK t \in TargetStates : t = target[g]
  BY DEF LatestInv, Inv, Placed
<1>2. SameRequests(t, target[g]) /\ LeaveTail(g, t)
  BY <1>1 DEF SameRequests
<1>3. /\ Generations' = Generations
      /\ target'[g].phase = "settling"
      /\ target'[g].pendingImmediate = t.pendingImmediate
      /\ target'[g].pendingRegular = t.pendingRegular
      /\ SameNotes(target'[g], t)
      /\ \A h \in Generations \ {g} :
           SameRequests(target'[h], target[h]) /\ SameNotes(target'[h], target[h])
  BY <1>2, Left
<1>4. \A h \in Generations : target'[h].phase = "committing" =>
        h = active \/ target[h].phase = "committing"
  BY <1>3 DEF SameRequests
<1>5. ASSUME active # 0
      PROVE  /\ Note(target'[active], shown)
             /\ target'[active].lastKey # NoKey => target[active].lastKey # NoKey
             /\ since <= latest.n /\ ~failed' => Accounted(target'[active], latest)
  <2>1. active \in Generations /\ Note(target[active], shown)
    BY <1>5, ActiveFacts
  <2>2. SameNotes(target'[active], target[active])
    BY <1>1, <1>3, <2>1
  <2>3. since <= latest.n /\ ~failed' => Accounted(target[active], latest)
    BY <1>5 DEF LatestInv, LatestKept
  <2>4. CASE g = active
    <3>1. since <= latest.n /\ ~failed' => Waits(target'[active], latest)
      BY <1>1, <1>3, <2>4 DEF Waits
    <3> QED BY <2>1, <2>2, <3>1, NoteSame DEF Accounted
  <2>5. CASE g # active
    <3>1. SameRequests(target'[active], target[active])
      BY <1>3, <2>1, <2>5
    <3> QED BY <2>1, <2>2, <2>3, <3>1, NoteSame, AccountedSame
  <2> QED BY <2>4, <2>5
<1> QED BY <1>3, <1>4, <1>5, Moved

LEMMA CommitStartsLatest ==
  ASSUME LatestInv, NEW g \in Generations, CommitStarts(g)
  PROVE  TrueNotes' /\ LatestKept'
<1>1. PICK t : t = target[g]
  OBVIOUS
<1>2. /\ t \in TargetStates /\ t.phase = "queued"
      /\ UNCHANGED <<active, lane, sequence, destroyed, since, latest, failed, shown>>
  BY <1>1 DEF CommitStarts, LatestInv, Inv, Placed
<1>3. ASSUME g = active
      PROVE  /\ active # 0 /\ Note(t, shown) /\ IsCurrent(g)
             /\ Ordered(t, since, shown.n, sequence)
             /\ since <= latest.n /\ ~failed => Waits(t, latest) \/ t.doing = latest
  <2>1. active # 0
    BY <1>3, Numerals DEF LatestInv
  <2>2. since <= latest.n /\ ~failed => Accounted(t, latest)
    BY <1>1, <1>3, <2>1 DEF LatestInv, LatestKept
  <2>3. Accounted(t, latest) => Waits(t, latest) \/ t.doing = latest
    BY <1>2 DEF Accounted, InHand, OnButton
  <2> QED BY <1>1, <1>3, <2>1, <2>2, <2>3, ActiveFacts
<1>4. CASE LeaveTail(g, t) /\ (~IsCurrent(g) \/ Superseded(t))
  <2>1. ASSUME g = active, since <= latest.n, ~failed PROVE Waits(t, latest)
    <3>1. Superseded(t) /\ Ordered(t, since, shown.n, sequence)
      BY <1>3, <1>4, <2>1
    <3>2. t.doing # latest
      BY <1>2, <2>1, <3>1, LatestFacts, LastInHand, Numerals DEF LatestInv
    <3> QED BY <1>3, <2>1, <3>2
  <2> QED BY <1>1, <1>2, <1>4, <2>1, LeftUnshown DEF InTail
<1>5. CASE IsCurrent(g) /\ target' = [target EXCEPT ![g].phase = "committing"]
  <2>1. g = active
    BY <1>5 DEF IsCurrent
  <2>2. PICK u : u = [t EXCEPT !.phase = "committing"]
    OBVIOUS
  <2>3. target' = [target EXCEPT ![g] = u]
    BY <1>1, <1>5, <2>2
  <2>4. /\ u.phase = "committing" /\ u.doing = t.doing /\ SameNotes(u, t)
        /\ u.pendingImmediate = t.pendingImmediate /\ u.pendingRegular = t.pendingRegular
    BY <1>2, <2>2 DEF TargetStates, SameNotes
  <2>5. Waits(t, latest) \/ t.doing = latest => Accounted(u, latest)
    BY <2>4 DEF Accounted, Waits, InHand
  <2>6. Note(u, shown) /\ (u.lastKey # NoKey => t.lastKey # NoKey)
    BY <1>3, <2>1, <2>4, NoteSame
  <2>7. since <= latest.n /\ ~failed => Accounted(u, latest)
    BY <1>3, <2>1, <2>5
  <2> QED BY <1>1, <1>2, <2>1, <2>3, <2>6, <2>7, OneMoved
<1> QED BY <1>1, <1>4, <1>5 DEF CommitStarts

LEMMA CommitFailsLatest ==
  ASSUME LatestInv, NEW g \in Generations, CommitFails(g)
  PROVE  TrueNotes' /\ LatestKept'
<1>1. PICK t : t = target[g]
  OBVIOUS
<1>2. /\ t.phase = "committing" /\ LeaveTail(g, t)
      /\ UNCHANGED <<active, lane, sequence, destroyed, since, latest, shown>>
  BY <1>1 DEF CommitFails
<1>3. (failed => failed') /\ (t.doing = latest => failed')
  BY <1>1 DEF CommitFails
<1>4. ASSUME g = active, since <= latest.n, ~failed' PROVE Waits(t, latest)
  <2>1. active # 0
    BY <1>4, Numerals DEF LatestInv
  <2>2. Accounted(t, latest)
    BY <1>1, <1>3, <1>4, <2>1 DEF LatestInv, LatestKept
  <2> QED BY <1>2, <1>3, <1>4, <2>2 DEF Accounted, InHand, OnButton
<1> QED BY <1>1, <1>2, <1>3, <1>4, LeftUnshown DEF InTail

(* What the device takes from the present target is noted; from another it  *)
(* takes it only while nothing has been noted.                              *)
LEMMA CommitResolvesLatest ==
  ASSUME LatestInv, NEW g \in Generations, CommitResolves(g)
  PROVE  TrueNotes' /\ LatestKept'
<1>1. PICK t : t = target[g]
  OBVIOUS
<1>2. /\ t \in TargetStates /\ t.phase = "committing" /\ shown' = t.doing
      /\ UNCHANGED <<active, lane, sequence, destroyed, since, latest, failed>>
  BY <1>1 DEF CommitResolves, LatestInv, Inv, Placed
<1>3. CASE g # active
  <2>1. LeaveTail(g, t)
    BY <1>1, <1>3 DEF CommitResolves, IsCurrent
  <2>2. SameRequests(t, target[g]) /\ target[g].phase \in InTail
    BY <1>1, <1>2 DEF SameRequests, InTail
  <2>3. /\ Generations' = Generations
        /\ target'[g].phase = "settling"
        /\ \A h \in Generations \ {g} :
             SameRequests(target'[h], target[h]) /\ SameNotes(target'[h], target[h])
    BY <1>2, <2>1, <2>2, Left
  <2>4. \A h \in Generations : target'[h].phase = "committing" =>
          h = active \/ target[h].phase = "committing"
    BY <2>3 DEF SameRequests
  <2>5. ASSUME active # 0
        PROVE  /\ Note(target'[active], shown')
               /\ target'[active].lastKey # NoKey => target[active].lastKey # NoKey
               /\ since <= latest.n /\ ~failed => Accounted(target'[active], latest)
    <3>1. active \in Generations /\ Note(target[active], shown)
      BY <2>5, ActiveFacts
    <3>2. target[active].lastKey = NoKey
      BY <1>1, <1>2, <1>3, <2>5 DEF LatestInv, TrueNotes
    <3>3. target[active].lastImage = NoKey
      BY <3>1, <3>2, KeysAssumption DEF Note
    <3>4. /\ SameRequests(target'[active], target[active])
          /\ SameNotes(target'[active], target[active])
      BY <1>3, <2>3, <3>1
    <3>5. target'[active].lastKey = NoKey /\ target'[active].lastImage = NoKey
      BY <3>2, <3>3, <3>4 DEF SameNotes
    <3>6. since <= latest.n /\ ~failed => Accounted(target[active], latest)
      BY <2>5 DEF LatestInv, LatestKept
    <3> QED BY <3>4, <3>5, <3>6, AccountedSame DEF Note
  <2> QED BY <1>2, <2>3, <2>4, <2>5, Moved
<1>4. CASE g = active
  <2>1. /\ active # 0 /\ IsCurrent(g) /\ Ordered(t, since, shown.n, sequence)
    BY <1>1, <1>4, ActiveFacts, Numerals DEF LatestInv
  <2>2. t.doing \in Requests /\ t.doing # NoRequest /\ t.doing.key \in SemanticKeys
    <3>1. since <= t.doing.n /\ since >= 1 /\ since \in Nat
      BY <1>2, <2>1, Numerals DEF Ordered, Unshown, LatestInv
    <3>2. t.doing.n \in Nat /\ NoRequest.n = 0
      BY <1>2, TargetFields, RequestTypes
    <3>3. t.doing # NoRequest
      BY <3>1, <3>2
    <3>4. t.doing \in Requests
      BY <1>2, <3>3, TargetFields, RequestTypes
    <3> QED BY <3>3, <3>4 DEF Requests
  <2>3. PICK x : x = Picture[t.doing.key]
    OBVIOUS
  <2>4. PICK v : v = [t EXCEPT !.lastKey = t.doing.key]
    OBVIOUS
  <2>5. PICK u : u = [v EXCEPT !.lastImage = x]
    OBVIOUS
  <2>6. u = [t EXCEPT !.lastKey = t.doing.key, !.lastImage = x]
    BY <2>4, <2>5
  <2>7. LeaveTail(g, u)
    <3>1. LeaveTail(g, [t EXCEPT !.lastKey = t.doing.key, !.lastImage = Picture[t.doing.key]])
      BY <1>1, <2>1, Zenon DEF CommitResolves
    <3> QED BY <2>3, <2>6, <3>1
  <2>8. u \in TargetStates /\ SameRequests(u, t) /\ u.lastKey = t.doing.key /\ u.lastImage = x
    <3>1. v \in TargetStates /\ SameRequests(v, t)
      BY <1>2, <2>2, <2>4, SetLastKey DEF SameRequests
    <3>2. x \in Images \cup {NoKey}
      BY <2>2, <2>3 DEF Images
    <3>3. u \in TargetStates /\ SameRequests(u, v)
      BY <2>5, <3>1, <3>2, SetLastImage DEF SameRequests
    <3>4. u.lastKey = t.doing.key /\ u.lastImage = x
      BY <1>2, <2>4, <2>5 DEF TargetStates
    <3> QED BY <3>1, <3>3, <3>4 DEF SameRequests
  <2>9. target[g].phase \in InTail /\ SameRequests(u, target[g])
    BY <1>1, <1>2, <2>8 DEF InTail
  <2>10. /\ Generations' = Generations
         /\ target'[g].phase = "settling"
         /\ target'[g].pendingImmediate = u.pendingImmediate
         /\ target'[g].pendingRegular = u.pendingRegular
         /\ SameNotes(target'[g], u)
         /\ \A h \in Generations \ {g} : SameRequests(target'[h], target[h])
    BY <2>7, <2>8, <2>9, Left
  <2>11. \A h \in Generations : target'[h].phase # "committing"
    <3>1. Putting' = {}
      BY CommitResolvesKeeps DEF LatestInv
    <3> QED BY <2>10, <3>1 DEF Putting
  <2>12. Note(target'[active], shown')
    BY <1>2, <1>4, <2>2, <2>3, <2>8, <2>10 DEF Note, SameNotes
  <2>13. ASSUME since <= latest.n, ~failed PROVE Accounted(target'[active], latest)
    <3>1. Accounted(t, latest)
      BY <1>1, <1>4, <2>1, <2>13 DEF LatestInv, LatestKept
    <3>2. Waits(t, latest) \/ t.doing = latest
      BY <1>2, <3>1 DEF Accounted, InHand, OnButton
    <3>3. CASE Waits(t, latest)
      BY <1>4, <2>8, <2>10, <3>3 DEF Accounted, Waits, SameRequests
    <3>4. CASE t.doing = latest
      <4>1. t.pendingImmediate = NoRequest /\ t.pendingRegular = NoRequest
        BY <1>2, <2>1, <2>13, <3>4, LatestFacts, LastInHand, Numerals DEF LatestInv
      <4>2. OnButton(target'[active], latest)
        BY <1>4, <2>2, <2>8, <2>10, <3>4, <4>1 DEF OnButton, SameRequests, SameNotes
      <4> QED BY <4>2 DEF Accounted
    <3> QED BY <3>2, <3>3, <3>4
  <2> QED BY <1>2, <2>10, <2>11, <2>12, <2>13, Moved
<1> QED BY <1>3, <1>4

(* A new activation has nothing noted and nothing asked of it.              *)
LEMMA ActivateLatest ==
  ASSUME LatestInv, NEW interval \in Intervals, Activate(interval)
  PROVE  TrueNotes' /\ LatestKept'
<1>1. /\ ~destroyed /\ UNCHANGED <<sequence, destroyed, latest, failed, shown>>
      /\ since' = sequence + 1
  BY DEF Activate
<1>2. PICK g, on : /\ target'[g] = Fresh(interval, on) /\ active' = g
  <2>1. PICK c : c = Cardinality(Generations)
    OBVIOUS
  <2>2. c \in Nat
    BY BoundsAssumption, <2>1 DEF LatestInv, Inv, Placed
  <2>3. PICK g : g = c + 1
    OBVIOUS
  <2>4. g \in 1..g
    BY <2>2, <2>3
  <2>5. PICK on : on = IF active # 0 THEN target[active].lane
                       ELSE IF lane # 0 THEN lane ELSE g
    OBVIOUS
  <2>6. /\ target' = [h \in 1..g |-> IF h = g THEN Fresh(interval, on)
                                    ELSE IF h = active THEN Cleared(target[h]) ELSE target[h]]
        /\ active' = g
    BY <2>1, <2>3, <2>5, Zenon DEF Activate
  <2> QED BY <2>4, <2>6
<1>3. PICK f : f = Fresh(interval, on)
  OBVIOUS
<1>4. f.lastKey = NoKey /\ f.lastImage = NoKey
  BY <1>3 DEF Fresh
<1>5. target'[active'] = f
  BY <1>2, <1>3
<1>6. TrueNotes'
  BY <1>1, <1>4, <1>5 DEF TrueNotes, Note
<1>7. LatestKept'
  <2>1. latest.n = sequence /\ sequence \in Nat
    BY LatestFacts, Numerals DEF LatestInv
  <2>2. ~(since' <= latest'.n) /\ latest'.n = sequence'
    BY <1>1, <2>1
  <2> QED BY <2>2 DEF LatestKept
<1> QED BY <1>6, <1>7

LEMMA RemovedLatest ==
  ASSUME LatestInv, active' = 0, UNCHANGED <<sequence, latest>>
  PROVE  TrueNotes' /\ LatestKept'
BY DEF LatestInv, TrueNotes, LatestKept

LEMMA NextLatest == LatestInv /\ [Next]_vars => LatestInv'
<1> SUFFICES ASSUME LatestInv, [Next]_vars PROVE TrueNotes' /\ LatestKept'
  BY NextKept DEF LatestInv, Kept
<1>1. ASSUME NEW interval \in Intervals, Activate(interval) PROVE TrueNotes' /\ LatestKept'
  BY <1>1, ActivateLatest
<1>2. ASSUME NEW interval \in Intervals, UpdateInterval(interval)
      PROVE  TrueNotes' /\ LatestKept'
  BY <1>2, UpdateIntervalStays, RequestsStayLatest DEF LatestInv
<1>3. ASSUME NEW category \in Categories, NEW key \in SemanticKeys, Submit(category, key)
      PROVE  TrueNotes' /\ LatestKept'
  BY <1>3, SubmitLatest
<1>4. CASE Remove
  <2>1. active' = 0 /\ UNCHANGED <<sequence, latest>>
    BY <1>4 DEF Remove, Deactivate
  <2> QED BY <2>1, RemovedLatest
<1>5. CASE Destroy
  <2>1. active' = 0 /\ UNCHANGED <<sequence, latest>>
    BY <1>5 DEF Destroy, Deactivate
  <2> QED BY <2>1, RemovedLatest
<1>6. CASE Timer
  BY <1>6, TimerLatest
<1>7. CASE Tick
  BY <1>7, TickStays, RequestsStayLatest DEF LatestInv
<1>8. ASSUME NEW g \in Generations, Proceed(g) PROVE TrueNotes' /\ LatestKept'
  BY <1>8, RenderResolvesLatest, RenderFailsLatest, CommitStartsLatest, CommitResolvesLatest,
     CommitFailsLatest, SettleLatest DEF Proceed
<1>9. CASE UNCHANGED vars
  <2>1. UNCHANGED <<active, target, lane, sequence, destroyed, since, latest, failed, shown>>
    BY <1>9 DEF vars
  <2>2. Generations' = Generations
    BY <2>1 DEF Generations
  <2> QED BY <2>1, <2>2
       DEF LatestInv, TrueNotes, LatestKept, Note, Accounted, Waits, InHand, OnButton
<1> QED BY <1>1, <1>2, <1>3, <1>4, <1>5, <1>6, <1>7, <1>8, <1>9 DEF Next

-----------------------------------------------------------------------------
(* The theorem.                                                             *)

LEMMA AtRest == LatestInv => ShowsLatest
<1> SUFFICES ASSUME LatestInv, active # 0, target[active].phase = "none",
                    target[active].pendingImmediate = NoRequest,
                    target[active].pendingRegular = NoRequest,
                    latest.n >= since, ~failed
             PROVE  shown # NoRequest /\ Picture[shown.key] = Picture[latest.key]
  BY DEF ShowsLatest
<1>1. since <= latest.n
  <2>1. latest \in MaybeRequests
    BY DEF LatestInv, Inv, Counted
  <2> QED BY <2>1, Numerals, RequestTypes DEF LatestInv
<1>2. latest # NoRequest
  BY <1>1, LatestFacts
<1>3. Accounted(target[active], latest)
  BY <1>1 DEF LatestInv, LatestKept
<1>4. OnButton(target[active], latest)
  BY <1>2, <1>3 DEF Accounted, Waits, InHand
<1>5. Note(target[active], shown)
  BY ActiveFacts
<1>6. target[active].lastKey # NoKey /\ Picture[target[active].lastKey] = Picture[latest.key]
  BY <1>4, KeysAssumption DEF OnButton
<1> QED BY <1>5, <1>6 DEF Note

(* A button with nothing under way and nothing waiting shows the picture of *)
(* the last request of its activation, unless drawing that one failed: no   *)
(* request skipped as shown already, superseded, or refused as late, and no *)
(* commit of an earlier activation, leaves it with another.                 *)
THEOREM RestShowsLatest == Spec => []ShowsLatest
<1>1. Spec => []LatestInv
  BY InitLatest, NextLatest, PTL DEF Spec
<1> QED BY <1>1, AtRest, PTL

=============================================================================
