----------------------- MODULE SubscriptionSupervisor -----------------------
(***************************************************************************)
(* The physical subscriptions multiplexed over the one WebSocket, as kept  *)
(* by class SubscriptionSupervisor (src/src/kis/subscription-supervisor.ts),*)
(* with the connection it sits on and the KIS server at its far end.       *)
(*                                                                         *)
(* A handler calls others in the same turn (deleting an entry releases its *)
(* demand, which may take the connection down, which deletes entries ...), *)
(* so the state is one record and every method a function from records to  *)
(* records; an action is one turn of the event loop.  Methods that reach   *)
(* themselves again through others are called through `turn`, the function *)
(* that says what a call nested one deeper does.                           *)
(*                                                                         *)
(* An entry is known by its key.  A reference the code may still hold to   *)
(* an entry that has left the map is marked: alive = FALSE in a job, Gone  *)
(* in a rotation pair.  (Jobs of such entries are skipped by nextValidJob; *)
(* here they leave the queue at once.)  Observers of state and data are    *)
(* taken not to call back in the same turn, which the controllers do not.  *)
(***************************************************************************)
EXTENDS Naturals, FiniteSets, Sequences, SequencesExt, TLC

CONSTANTS
  Keys,          \* tr_id and tr_key of an instrument, in its day or night form
  Successions,   \* pairs of keys of one overseas ticker, the second of which
                 \* replaces the first when the session of the market changes
  MaxLive,       \* MAX_LIVE_SUBSCRIPTIONS
  MaxHandles,    \* bound on the handles held by the actions
  MaxDisturbances, \* bound on calls and faults; 0 lifts it
  MaxDepth,      \* bound on the calls nested in one turn
  None,          \* no key
  Gone           \* a reference to an entry that is no longer in the map

(* A ticker has two forms, so a key that succeeds or is succeeded does so   *)
(* by one other only.                                                       *)
ASSUME KeysAssumption == IsFiniteSet(Keys) /\ None \notin Keys /\ Gone \notin Keys
ASSUME SuccessionsAssumption ==
  /\ Successions \subseteq Keys \X Keys
  /\ \A k \in Keys : <<k, k>> \notin Successions
  /\ \A p, q \in Successions :
       {p[1], p[2]} \cap {q[1], q[2]} # {} => {p[1], p[2]} = {q[1], q[2]}
ASSUME BoundsAssumption ==
  {MaxLive, MaxHandles, MaxDisturbances, MaxDepth} \subseteq Nat

VARIABLES
  sup,           \* the supervisor, its connection and its server
  disturbances   \* calls and faults so far

vars == <<sup, disturbances>>

(* Everything outside the supervisor that is bounded in a run. *)
Disturb ==
  IF MaxDisturbances = 0 THEN UNCHANGED disturbances
  ELSE disturbances < MaxDisturbances /\ disturbances' = disturbances + 1

Quiet == UNCHANGED disturbances

States == {"desired", "pending", "live", "stale", "parked", "rejected"}
OnWire == {"pending", "live", "stale"}       \* the states the server has heard of
Actions == {"none", "subscribe", "unsubscribe"}
(* The frames of the two look alike. *)
Sibling(j, k) == <<j, k>> \in Successions \/ <<k, j>> \in Successions

Absent ==
  [present |-> FALSE, state |-> "desired", subscribed |-> FALSE, refs |-> 0,
   queuedAction |-> "none", removing |-> FALSE, retarget |-> None, waitingTarget |-> None,
   rotationOutgoing |-> None, rotationIncoming |-> FALSE]
Fresh == [Absent EXCEPT !.present = TRUE]

NoJob == [key |-> None, action |-> "none", alive |-> FALSE]
NoPair == [outgoing |-> None, incoming |-> None]

(* entry and order are the map and its insertion order; sending is the job  *)
(* inside sendJob, sendTimer the one its closure holds; paused while less   *)
(* than 100 ms have passed since the last frame.  While the connection is   *)
(* open, its socket takes frames (open), is not yet or no more in the state *)
(* OPEN (early, closing), or throws on a send (failing).  registered and    *)
(* seen are the keys the server pushes, and has pushed, on this socket;     *)
(* answer is its reply.                                                     *)
Refs == Keys \cup {None, Gone}
Entries ==
  [present : BOOLEAN, state : States, subscribed : BOOLEAN, refs : Nat,
   queuedAction : Actions, removing : BOOLEAN, retarget : Keys \cup {None},
   waitingTarget : Keys \cup {None}, rotationOutgoing : Refs, rotationIncoming : BOOLEAN]
QueuedJobs == [key : Keys, action : Actions \ {"none"}]
Jobs == [key : Keys \cup {None}, action : Actions, alive : BOOLEAN]
Pairs == [outgoing : Refs, incoming : Refs]
Sockets == {"early", "open", "closing", "failing"}
Supervisors ==
  [conn : {"away", "connecting", "open"}, demand : Nat, handles : Nat, destroyed : BOOLEAN,
   entry : [Keys -> Entries], order : Seq(Keys),
   queue : Seq(QueuedJobs), currentJob : Jobs, sendTimer : Jobs, sending : Jobs,
   retryTimer : BOOLEAN, requiresFreshOpen : BOOLEAN, paused : BOOLEAN,
   rotationCurrent : Pairs, rotationQueue : Seq(Pairs), retired : SUBSET Keys,
   socket : Sockets, registered : SUBSET Keys, seen : SUBSET Keys,
   answer : {"none", "sent", "accepted", "refused"}]

Init ==
  /\ disturbances = 0
  /\ sup = [conn |-> "away", demand |-> 0, handles |-> 0, destroyed |-> FALSE,
            entry |-> [k \in Keys |-> Absent], order |-> <<>>,
            queue |-> <<>>, currentJob |-> NoJob, sendTimer |-> NoJob, sending |-> NoJob,
            retryTimer |-> FALSE, requiresFreshOpen |-> FALSE, paused |-> FALSE,
            rotationCurrent |-> NoPair, rotationQueue |-> <<>>, retired |-> {},
            socket |-> "open", registered |-> {}, seen |-> {}, answer |-> "none"]

(* Nested calls, by name.                                                   *)
Methods == {"pump", "advanceRotation", "deleteEntry", "completeRetarget"}

PumpAgain(turn, s) == turn["pump"][None][s]
AdvanceRotation(turn, s) == turn["advanceRotation"][None][s]
DeleteEntry(turn, s, k) == turn["deleteEntry"][k][s]
CompleteRetarget(turn, s, k) == turn["completeRetarget"][k][s]

(* What is left of `s` when `step` has been taken for each of `keys`.       *)
Each(step, s, keys) ==
  LET after[n \in 0..Len(keys)] == IF n = 0 THEN s ELSE step[keys[n]][after[n - 1]]
  IN  after[Len(keys)]

(* The elements of `seq` that are in `set`, in their order.                 *)
Only(seq, set) ==
  Each([x \in ToSet(seq) |-> [kept \in Seq(ToSet(seq)) |->
          IF x \in set THEN Append(kept, x) ELSE kept]], <<>>, seq)

-----------------------------------------------------------------------------
(* Entries, and what is counted of them.                                    *)

Has(s, k) == s.entry[k].present
State(s, k) == s.entry[k].state
Held(s, k) == Has(s, k) /\ s.entry[k].refs > 0
JobOn(s, k) == s.currentJob.key = k /\ s.currentJob.alive

SetState(s, k, state) == [s EXCEPT !.entry[k].state = state]

InOrder(s, set) == Only(s.order, set)

ActiveKeys(s) == {k \in Keys : Held(s, k) /\ State(s, k) \notin {"parked", "rejected"}}
ParkedKeys(s) == {k \in Keys : Held(s, k) /\ State(s, k) = "parked"}

-----------------------------------------------------------------------------
(* The control queue.                                                       *)

EnqueueSubscribe(s, k) ==
  LET e == s.entry[k] IN
  IF e.removing \/ e.refs = 0 \/ e.state # "desired" \/ e.queuedAction # "none" \/ JobOn(s, k)
  THEN s
  ELSE [s EXCEPT !.entry[k].queuedAction = "subscribe",
                 !.queue = Append(@, [key |-> k, action |-> "subscribe"])]

EnqueueUnsubscribe(s, k) ==
  LET e == s.entry[k] IN
  IF ~e.subscribed \/ e.queuedAction # "none" \/ JobOn(s, k)
  THEN s
  ELSE [s EXCEPT !.entry[k].queuedAction = "unsubscribe",
                 !.queue = Append(@, [key |-> k, action |-> "unsubscribe"])]

Unqueue(queue, k, actions) ==
  Only(queue, QueuedJobs \ {[key |-> k, action |-> a] : a \in actions})

(* The test of nextValidJob on a job whose entry is still in the map.       *)
Sensible(s, job) ==
  LET e == s.entry[job.key] IN
  IF job.action = "subscribe" THEN e.refs > 0 /\ ~e.removing /\ e.state = "desired"
                              ELSE e.subscribed

(* nextValidJob takes jobs off the queue up to the first sensible one, and  *)
(* clears the queuedAction of the entries it passes.                        *)
FirstSensible(s) == SelectInSeq(s.queue, LAMBDA job : Sensible(s, job))

TakeJobs(s) ==
  LET n == IF FirstSensible(s) = 0 THEN Len(s.queue) ELSE FirstSensible(s)
  IN  [s EXCEPT
        !.queue = SubSeq(@, n + 1, Len(@)),
        !.entry = [k \in Keys |->
                    IF \E i \in 1..n : s.queue[i] = [key |-> k, action |-> @[k].queuedAction]
                    THEN [@[k] EXCEPT !.queuedAction = "none"] ELSE @[k]]]

(* requeue: the job goes back to the head, and after a failed send a retry  *)
(* timer is set.  A job whose entry has gone is dropped.                    *)
Requeue(s, job, retry) ==
  IF ~job.alive THEN s
  ELSE [s EXCEPT
         !.entry[job.key].queuedAction = IF @ = "none" THEN job.action ELSE @,
         !.queue = <<[key |-> job.key, action |-> job.action]>> \o @,
         !.retryTimer = @ \/ retry]

(* The connection drops its socket; what the server knew of it goes along.  *)
Dropped(s) ==
  [s EXCEPT !.conn = "away", !.socket = "open",
            !.registered = {}, !.seen = {}, !.answer = "none"]

-----------------------------------------------------------------------------
(* The end of a rotation.                                                   *)

ResetRotation(s) ==
  [s EXCEPT !.rotationCurrent = NoPair, !.rotationQueue = <<>>,
            !.entry = [k \in Keys |-> [@[k] EXCEPT !.rotationOutgoing = None,
                                                   !.rotationIncoming = FALSE]]]

(* Mutant: only the running pair is cancelled, and the marks stay. *)
CancelCurrentOnly(s, k) ==
  IF s.rotationCurrent.outgoing = k \/ s.rotationCurrent.incoming = k
  THEN [s EXCEPT !.rotationCurrent = NoPair, !.rotationQueue = <<>>] ELSE s

(* cancelRotationFor: the end of one side of a pair cancels the whole lease. *)
CancelRotationFor(s, k) ==
  IF \/ s.entry[k].rotationOutgoing # None \/ s.entry[k].rotationIncoming
     \/ s.rotationCurrent.outgoing = k \/ s.rotationCurrent.incoming = k
  THEN ResetRotation(s) ELSE s

-----------------------------------------------------------------------------
(* The connection is lost, or not open yet.                                 *)

(* Mutant: what was subscribed on the lost socket is still taken to be. *)
LostOneSubscribed(turn, s, k) ==
  IF ~Has(s, k) THEN s
  ELSE IF s.entry[k].refs = 0 THEN DeleteEntry(turn, s, k)
  ELSE IF State(s, k) \in OnWire
  THEN SetState([s EXCEPT !.entry[k].queuedAction = "none"], k, "desired") ELSE s

LostOne(turn, s, k) ==
  IF ~Has(s, k) THEN s
  ELSE LET t == [s EXCEPT !.entry[k].queuedAction = "none",
                          !.entry[k].subscribed = IF State(s, k) \in OnWire THEN FALSE ELSE @]
       IN  IF s.entry[k].refs = 0 THEN DeleteEntry(turn, t, k)
           ELSE IF State(s, k) \in OnWire THEN SetState(t, k, "desired") ELSE t

RetargetOne(turn, s, k) ==
  IF Held(s, k) /\ s.entry[k].retarget # None THEN CompleteRetarget(turn, s, k) ELSE s

(* handleConnectionState of any state but "open": all control is cancelled, *)
(* entries without handles go, and pending retargets complete.              *)
HandleDown(turn, s) ==
  IF s.destroyed THEN s
  ELSE LET reset == [ResetRotation(s) EXCEPT
                       !.currentJob = NoJob, !.sendTimer = NoJob, !.retryTimer = FALSE,
                       !.queue = <<>>, !.retired = {}]
           lost  == Each([k \in Keys |-> [t \in Supervisors |-> LostOne(turn, t, k)]],
                         reset, reset.order)
       IN  Each([k \in Keys |-> [t \in Supervisors |-> RetargetOne(turn, t, k)]], lost, lost.order)

ForceReconnect(turn, s) ==
  IF s.demand = 0 \/ s.conn = "away" THEN s ELSE HandleDown(turn, Dropped(s))

-----------------------------------------------------------------------------
(* Sending.                                                                 *)

Sent(s, job) ==
  LET t == [s EXCEPT !.currentJob = job, !.paused = TRUE, !.answer = "sent"] IN
  IF job.action = "subscribe"
  THEN [t EXCEPT !.entry[job.key].state = "pending", !.retired = @ \ {job.key}]
  ELSE t

(* What is sent for is retired no more, whether or not the frame gets out.  *)
Awaited(s, job) ==
  IF job.action = "subscribe" THEN [s EXCEPT !.retired = @ \ {job.key}] ELSE s

(* Mutant: no retry timer is armed as long as the connection stays open. *)
NotSentUntimed(turn, s, job) ==
  IF s.socket # "failing" THEN Requeue(s, job, FALSE)
  ELSE LET t == HandleDown(turn, Dropped([s EXCEPT !.sending = job]))
       IN  Requeue([t EXCEPT !.sending = NoJob], t.sending, TRUE)

(* A send that fails leaves the job to the retry timer.  A socket that is   *)
(* not OPEN is not even tried, and the connection stays as it is (sendRaw); *)
(* one that throws is given up in the same turn, and only then is the job   *)
(* requeued.                                                                *)
NotSent(turn, s, job) ==
  IF s.socket # "failing" THEN Requeue(s, job, TRUE)
  ELSE LET t == HandleDown(turn, Dropped([s EXCEPT !.sending = job]))
       IN  Requeue([t EXCEPT !.sending = NoJob], t.sending, TRUE)

(* Mutant: a job whose entry has gone ends the turn. *)
SendJobOrNothing(turn, s, job) ==
  IF s.destroyed \/ s.requiresFreshOpen \/ s.conn # "open" \/ s.currentJob # NoJob
  THEN Requeue(s, job, FALSE)
  ELSE IF ~job.alive THEN s
  ELSE IF s.socket = "open" THEN Sent(s, job) ELSE NotSent(turn, Awaited(s, job), job)

(* sendJob. *)
SendJob(turn, s, job) ==
  IF s.destroyed \/ s.requiresFreshOpen \/ s.conn # "open" \/ s.currentJob # NoJob
  THEN Requeue(s, job, FALSE)
  ELSE IF ~job.alive THEN PumpAgain(turn, s)
  ELSE IF s.socket = "open" THEN Sent(s, job) ELSE NotSent(turn, Awaited(s, job), job)

Blocked(s) ==
  \/ s.destroyed \/ s.requiresFreshOpen \/ s.conn # "open"
  \/ s.currentJob # NoJob \/ s.sendTimer # NoJob \/ s.retryTimer

Pump(turn, s) ==
  IF Blocked(s) THEN s
  ELSE IF FirstSensible(s) = 0 THEN TakeJobs(s)
  ELSE LET next == s.queue[FirstSensible(s)]
           job  == [key |-> next.key, action |-> next.action, alive |-> TRUE]
       IN  IF s.paused THEN [TakeJobs(s) EXCEPT !.sendTimer = job]
                       ELSE SendJob(turn, TakeJobs(s), job)

-----------------------------------------------------------------------------
(* The cap and the rotation of what exceeds it.                             *)

(* Mutant: the job leaves the queue, and its entry is not told. *)
ParkLeavingMark(s, k) ==
  LET unqueue == s.entry[k].queuedAction = "subscribe" /\ ~JobOn(s, k) IN
  [s EXCEPT !.entry[k].state = "parked",
            !.queue = IF unqueue THEN Unqueue(@, k, {"subscribe"}) ELSE @]

ParkEntry(s, k) ==
  LET unqueue == s.entry[k].queuedAction = "subscribe" /\ ~JobOn(s, k) IN
  [s EXCEPT !.entry[k].state = "parked",
            !.entry[k].queuedAction = IF unqueue THEN "none" ELSE @,
            !.queue = IF unqueue THEN Unqueue(@, k, {"subscribe"}) ELSE @]

(* enforceSubscriptionCap parks desired entries, the newest first.          *)
EnforceCap(s) ==
  LET excess    == Cardinality(ActiveKeys(s)) - MaxLive
      parkable  == InOrder(s, {k \in Keys : /\ Held(s, k) /\ State(s, k) = "desired"
                                            /\ ~s.entry[k].rotationIncoming})
      parked    == SubSeq(Reverse(parkable), 1, Min({excess, Len(parkable)}))
  IN  IF Cardinality(ActiveKeys(s)) <= MaxLive THEN s
      ELSE Each([k \in Keys |-> [t \in Supervisors |-> ParkEntry(t, k)]], s, parked)

(* Mutant: a free place waits for the next rotation. *)
PromoteNobody(turn, s) == s

(* promoteParked: the oldest parked entry takes a free place.               *)
PromoteParked(turn, s) ==
  LET waiting == InOrder(s, {k \in ParkedKeys(s) : ~s.entry[k].rotationIncoming}) IN
  IF s.destroyed \/ Cardinality(ActiveKeys(s)) >= MaxLive \/ waiting = <<>>
  THEN s
  ELSE Pump(turn, EnqueueSubscribe(SetState(s, waiting[1], "desired"), waiting[1]))

Rebalance(turn, s) == IF s.destroyed THEN s ELSE PromoteParked(turn, EnforceCap(s))

(* Take a pair's marks off those of its entries that are still in the map.  *)
Unmark(s, pair) ==
  [s EXCEPT !.entry = [k \in Keys |->
      [s.entry[k] EXCEPT !.rotationOutgoing = IF k = pair.outgoing THEN None ELSE @,
                         !.rotationIncoming = IF k = pair.incoming THEN FALSE ELSE @]]]

Exchangeable(s, pair) ==
  /\ pair.outgoing \in Keys /\ Held(s, pair.outgoing)
  /\ State(s, pair.outgoing) = "live" /\ s.entry[pair.outgoing].subscribed
  /\ pair.incoming \in Keys /\ pair.incoming \in ParkedKeys(s)

RotationAdvanced(turn, s) ==
  IF s.rotationCurrent # NoPair \/ s.rotationQueue = <<>> THEN s
  ELSE LET pair == Head(s.rotationQueue)
           t    == [s EXCEPT !.rotationQueue = Tail(@)]
       IN  IF Exchangeable(s, pair)
           THEN Pump(turn, EnqueueUnsubscribe([t EXCEPT !.rotationCurrent = pair], pair.outgoing))
           ELSE AdvanceRotation(turn, Unmark(t, pair))

(* startRotationLease with the live entries in the order `outgoing`; the    *)
(* code takes those longest live, and the clock it reads may be set back.   *)
StartRotationLease(turn, s, outgoing) ==
  LET incoming == InOrder(s, {k \in ParkedKeys(s) : ~s.entry[k].rotationIncoming})
      excess   == Cardinality(ActiveKeys(s)) + Cardinality(ParkedKeys(s)) - MaxLive
      count    == Min({excess, MaxLive, Len(outgoing), Len(incoming)})
      pairs    == [i \in 1..count |-> [outgoing |-> outgoing[i], incoming |-> incoming[i]]]
  IN  AdvanceRotation(turn,
        [s EXCEPT
          !.rotationQueue = pairs,
          !.entry = [k \in Keys |->
            [s.entry[k] EXCEPT
              !.rotationOutgoing = IF \E i \in 1..count : outgoing[i] = k
                                   THEN incoming[CHOOSE i \in 1..count : outgoing[i] = k] ELSE @,
              !.rotationIncoming = @ \/ \E i \in 1..count : incoming[i] = k]]])

(* completeRotationOutgoing: the place of `k` goes to its partner.          *)
CompleteRotationOutgoing(turn, s, k) ==
  LET incoming == s.entry[k].rotationOutgoing
      t        == [s EXCEPT !.entry[k].rotationOutgoing = None]
      parked   == SetState(t, k, "parked")
  IN  IF s.rotationCurrent.outgoing # k THEN t
      ELSE IF incoming = Gone \/ incoming \notin ParkedKeys(s)
      THEN AdvanceRotation(turn, [Unmark(parked, [outgoing |-> k, incoming |-> incoming])
                              EXCEPT !.rotationCurrent = NoPair])
      ELSE EnqueueSubscribe(SetState(parked, incoming, "desired"), incoming)

EndPairOf(turn, s, incoming) ==
  IF s.rotationCurrent.incoming = incoming
  THEN AdvanceRotation(turn, [s EXCEPT !.rotationCurrent = NoPair]) ELSE s

(* finishRotationIncoming; an entry that a retarget has moved still carries *)
(* its mark.                                                                *)
FinishRotationIncoming(turn, s, k, marked) ==
  IF Has(s, k)
  THEN IF s.entry[k].rotationIncoming
       THEN EndPairOf(turn, [s EXCEPT !.entry[k].rotationIncoming = FALSE], k) ELSE s
  ELSE IF marked THEN EndPairOf(turn, s, Gone) ELSE s

-----------------------------------------------------------------------------
(* Entries leave the map.                                                   *)

MarkGone(ref, k) == IF ref = k THEN Gone ELSE ref
MarkDead(job, k) == IF job.key = k THEN [job EXCEPT !.alive = FALSE] ELSE job
PairWithout(pair, k) ==
  [outgoing |-> MarkGone(pair.outgoing, k), incoming |-> MarkGone(pair.incoming, k)]

Forget(s, k) ==
  [s EXCEPT
    !.entry = [j \in Keys |-> IF j = k THEN Absent
                ELSE [s.entry[j] EXCEPT !.rotationOutgoing = MarkGone(@, k)]],
    !.order = Only(@, Keys \ {k}),
    !.queue = Unqueue(@, k, {"subscribe", "unsubscribe"}),
    !.currentJob = MarkDead(@, k), !.sendTimer = MarkDead(@, k), !.sending = MarkDead(@, k),
    !.rotationCurrent = PairWithout(@, k),
    !.rotationQueue = [i \in 1..Len(@) |-> PairWithout(@[i], k)]]

(* releaseDemand: without demand the connection stops, which publishes      *)
(* "idle" in the same turn.                                                 *)
ReleaseDemand(turn, s) ==
  LET t == [s EXCEPT !.demand = @ - 1] IN
  IF t.demand = 0 THEN HandleDown(turn, Dropped(t)) ELSE t

WakeOne(turn, s, source) ==
  LET t == [s EXCEPT !.entry[source].waitingTarget = None] IN
  IF Has(s, source) /\ s.entry[source].retarget # None THEN CompleteRetarget(turn, t, source) ELSE t

(* Mutant: those waiting for `k` are not told. *)
NobodyWoken(turn, s, k) == s

WakeRetargetWaiters(turn, s, k) ==
  Each([source \in Keys |-> [t \in Supervisors |-> WakeOne(turn, t, source)]],
       s, InOrder(s, {j \in Keys : s.entry[j].waitingTarget = k}))

EntryDeleted(turn, s, k) ==
  IF ~Has(s, k) THEN s
  ELSE LET t == ReleaseDemand(turn, Forget(CancelRotationFor(s, k), k))
       IN  Rebalance(turn, WakeRetargetWaiters(turn, t, k))

CancelQueuedUnsubscribe(s, k) ==
  [s EXCEPT !.entry[k].queuedAction = "none", !.entry[k].removing = FALSE,
            !.queue = Unqueue(@, k, {"unsubscribe"})]

(* Mutant: an entry merged into another keeps its demand. *)
MoveRefsKeepingDemand(turn, s, k) ==
  LET next  == s.entry[k].retarget
      refs  == s.entry[k].refs
      moved == IF Has(s, next)
               THEN Forget([s EXCEPT !.entry[next].refs = @ + refs], k)
               ELSE Forget([s EXCEPT !.entry[next] = [Fresh EXCEPT !.refs = refs],
                                     !.order = Append(@, next)], k)
  IN  Pump(turn, Rebalance(turn, EnqueueSubscribe(moved, next)))

(* Mutant: the handles of the target are overwritten by those that move. *)
MoveRefsOverwriting(turn, s, k) ==
  LET next  == s.entry[k].retarget
      refs  == s.entry[k].refs
      moved == Forget([s EXCEPT !.entry[next] = [Fresh EXCEPT !.refs = refs],
                                !.order = IF Has(s, next) THEN @ ELSE Append(@, next)], k)
      held  == IF Has(s, next) THEN ReleaseDemand(turn, moved) ELSE moved
  IN  Pump(turn, Rebalance(turn, EnqueueSubscribe(held, next)))

(* The handles of `k` move to the entry of its target, which is merged into *)
(* when it exists and otherwise inherits the demand.                        *)
MoveRefs(turn, s, k) ==
  LET next   == s.entry[k].retarget
      refs   == s.entry[k].refs
      merges == Has(s, next)
      moved  == IF merges
                THEN Forget([s EXCEPT !.entry[next].refs = @ + refs], k)
                ELSE Forget([s EXCEPT !.entry[next] = [Fresh EXCEPT !.refs = refs],
                                      !.order = Append(@, next)], k)
      held   == IF merges THEN ReleaseDemand(turn, moved) ELSE moved
  IN  Pump(turn, Rebalance(turn, EnqueueSubscribe(held, next)))

(* completeRetarget.  A target that is being removed is taken back if its   *)
(* unsubscribe is still queued, replaced if it is under way, and otherwise  *)
(* waited for.                                                              *)
RetargetCompleted(turn, s, k) ==
  LET next     == s.entry[k].retarget
      detached == [s EXCEPT !.entry[k].waitingTarget = None]
  IN  IF next = None \/ ~Has(s, k) THEN s
      ELSE IF s.entry[k].refs = 0
      THEN DeleteEntry(turn, [detached EXCEPT !.entry[k].retarget = None], k)
      ELSE IF ~(Has(s, next) /\ s.entry[next].removing) THEN MoveRefs(turn, detached, k)
      ELSE IF s.entry[next].queuedAction = "unsubscribe" /\ ~JobOn(s, next)
      THEN MoveRefs(turn, CancelQueuedUnsubscribe(detached, next), k)
      ELSE IF JobOn(s, next) /\ s.currentJob.action = "unsubscribe"
      THEN LET t == EntryDeleted(turn, detached, next)
           IN  IF Has(t, k) THEN MoveRefs(turn, t, k) ELSE t
      ELSE [s EXCEPT !.entry[k].waitingTarget = next]

-----------------------------------------------------------------------------
(* A turn.                                                                  *)

Do(turn, method, s, k) ==
  CASE method = "pump"             -> Pump(turn, s)
    [] method = "advanceRotation"  -> RotationAdvanced(turn, s)
    [] method = "deleteEntry"      -> EntryDeleted(turn, s, k)
    [] method = "completeRetarget" -> RetargetCompleted(turn, s, k)

(* Calls nested up to `depth` deep.  No call of the instances goes deeper   *)
(* than MaxDepth: TLC stops if one does.                                    *)
TooDeep(s) == IF Assert(FALSE, "a turn goes deeper than MaxDepth") THEN s ELSE s

Turns[depth \in 0..MaxDepth] ==
  [method \in Methods |-> [k \in Keys \cup {None} |-> [s \in Supervisors |->
     IF depth = 0 THEN TooDeep(s) ELSE Do(Turns[depth - 1], method, s, k)]]]

Turn == Turns[MaxDepth]

-----------------------------------------------------------------------------
(* Events of the connection and of the server.                              *)

HandleOpen(turn, s) ==
  Pump(turn, Each([k \in Keys |-> [t \in Supervisors |-> EnqueueSubscribe(t, k)]],
                  [s EXCEPT !.requiresFreshOpen = FALSE], s.order))

(* Mutant: the entry is reset, and the socket kept. *)
GiveUpJobOnly(turn, s, job) ==
  LET t == [s EXCEPT !.entry[job.key].subscribed = FALSE] IN
  IF ~job.alive THEN s
  ELSE IF s.entry[job.key].refs = 0 THEN DeleteEntry(turn, t, job.key)
  ELSE SetState(t, job.key, "desired")

(* The end of an attempt whose result is unknown or unusable.               *)
GiveUpSocket(turn, s, job) ==
  LET k == job.key
      t == [s EXCEPT !.entry[k].subscribed = FALSE]
      u == IF ~job.alive THEN s
           ELSE IF s.entry[k].refs = 0 THEN DeleteEntry(turn, t, k)
           ELSE SetState(t, k, "desired")
  IN  ForceReconnect(turn, [u EXCEPT !.requiresFreshOpen = TRUE])

(* handleControlMessage for a reply to the subscribe of `k`.                *)
SubscribeAnswered(turn, s, k, success) ==
  LET e == s.entry[k] IN
  IF success
  THEN LET t == [s EXCEPT !.entry[k].subscribed = TRUE, !.entry[k].state = "live"]
           u == IF e.refs = 0 \/ e.removing \/ e.retarget # None
                THEN EnqueueUnsubscribe(t, k) ELSE t
       IN  FinishRotationIncoming(turn, u, k, e.rotationIncoming)
  ELSE LET t == [s EXCEPT !.entry[k].subscribed = FALSE, !.entry[k].state = "rejected"]
           u == IF e.retarget # None THEN CompleteRetarget(turn, t, k)
                ELSE IF e.refs = 0 THEN DeleteEntry(turn, t, k) ELSE t
           moved == e.rotationIncoming /\ e.retarget # None
       IN  PromoteParked(turn, FinishRotationIncoming(turn, u, k, moved))

(* The same for a successful reply to its unsubscribe.                      *)
UnsubscribeConfirmed(turn, s, k) ==
  LET e == s.entry[k]
      t == [s EXCEPT !.entry[k].subscribed = FALSE, !.retired = @ \cup {k}]
  IN  IF e.retarget # None THEN CompleteRetarget(turn, t, k)
      ELSE IF e.rotationOutgoing # None THEN CompleteRotationOutgoing(turn, t, k)
      ELSE IF e.refs = 0 \/ e.removing THEN DeleteEntry(turn, t, k)
      ELSE EnqueueSubscribe(SetState(t, k, "desired"), k)

HandleAnswer(turn, s, success) ==
  LET job == s.currentJob
      t   == [s EXCEPT !.currentJob = NoJob, !.answer = "none"]
  IN  Pump(turn, IF ~job.alive THEN t
           ELSE IF job.action = "subscribe" THEN SubscribeAnswered(turn, t, job.key, success)
           ELSE IF success THEN UnsubscribeConfirmed(turn, t, job.key)
           ELSE GiveUpSocket(turn, t, job))

(* findDataTargets and handleRawMessage for a frame of `k`: it goes to the  *)
(* entry of that key, or else to the only entry with the same ticker.       *)
Routable(s, k) == Held(s, k) /\ State(s, k) \in OnWire

DataTargets(s, k) ==
  LET alike == {j \in Keys : Sibling(j, k) /\ Routable(s, j)} IN
  IF Routable(s, k) THEN {k}
  ELSE IF Cardinality(alike) = 1 THEN alike ELSE {}

HandleData(s, k) ==
  IF k \in s.retired THEN s
  ELSE [s EXCEPT !.entry = [j \in Keys |->
         IF j \in DataTargets(s, k) THEN [@[j] EXCEPT !.state = "live"] ELSE @[j]]]

-----------------------------------------------------------------------------
(* Calls of the controllers.                                                *)

(* subscribe.  The retain of a first entry publishes "connecting" in the    *)
(* same turn, unless the connection waits for credentials.                  *)
Subscribe(k) ==
  /\ Disturb
  /\ ~sup.destroyed /\ sup.handles < MaxHandles
  /\ \E credentials \in BOOLEAN :
     LET new        == ~Has(sup, k)
         reappeared == Has(sup, k) /\ sup.entry[k].removing /\ sup.entry[k].refs = 0
         e          == IF new THEN Fresh ELSE sup.entry[k]
         s1 == [sup EXCEPT
                 !.handles = @ + 1, !.retired = @ \ {k},
                 !.entry[k] = [e EXCEPT !.refs = e.refs + 1,
                                        !.removing = ~reappeared /\ e.removing],
                 !.order = IF new THEN Append(@, k) ELSE @,
                 !.demand = IF new THEN @ + 1 ELSE @]
         s2 == IF new /\ sup.demand = 0 /\ credentials
               THEN HandleDown(Turn, [s1 EXCEPT !.conn = "connecting"]) ELSE s1
         s3 == EnforceCap(s2)
         s4 == IF reappeared THEN WakeRetargetWaiters(Turn, s3, k) ELSE s3
     IN  /\ credentials \/ (new /\ sup.demand = 0)
         /\ sup' = Pump(Turn, EnqueueSubscribe(s4, k))

(* releaseRef, of one of the handles of `k`.                                *)
Release(k) ==
  /\ Disturb
  /\ Held(sup, k)
  /\ LET s1 == [sup EXCEPT !.handles = @ - 1, !.entry[k].refs = @ - 1]
         s2 == [CancelRotationFor(s1, k) EXCEPT !.entry[k].removing = TRUE]
     IN  sup' = IF s1.entry[k].refs > 0 THEN s1
                ELSE Pump(Turn, IF State(sup, k) = "pending" THEN s2
                          ELSE IF State(sup, k) \in OnWire THEN EnqueueUnsubscribe(s2, k)
                          ELSE DeleteEntry(Turn, s2, k))

(* retargetAll, called by a controller that holds a handle of `k`.  A call  *)
(* while another retarget of `k` is pending changes nothing.                *)
RetargetAll(k, next) ==
  /\ Disturb
  /\ ~sup.destroyed /\ Held(sup, k) /\ <<k, next>> \in Successions /\ sup.entry[k].retarget = None
  /\ LET s == [CancelRotationFor(sup, k) EXCEPT !.entry[k].retarget = next]
     IN  sup' = Pump(Turn, IF State(s, k) = "pending" THEN s
                     ELSE IF s.entry[k].subscribed \/ State(s, k) \in {"live", "stale"}
                     THEN EnqueueUnsubscribe(s, k)
                     ELSE CompleteRetarget(Turn, s, k))

(* The promise of retain() settles, and pump runs once more. *)
RetainResolves ==
  /\ Quiet
  /\ sup.conn = "open" /\ sup.demand > 0
  /\ sup' = Pump(Turn, sup)

(* destroy: all entries go without control frames, and with them the demand. *)
Destroy ==
  /\ Disturb
  /\ ~sup.destroyed
  /\ sup' = [Dropped(sup) EXCEPT
               !.destroyed = TRUE, !.demand = 0, !.handles = 0,
               !.entry = [k \in Keys |-> Absent], !.order = <<>>, !.queue = <<>>,
               !.currentJob = NoJob, !.sendTimer = NoJob, !.retryTimer = FALSE,
               !.rotationCurrent = NoPair, !.rotationQueue = <<>>, !.retired = {}]

-----------------------------------------------------------------------------
(* Timers.                                                                  *)

(* 100 ms have passed since the last frame. *)
SpacingElapses ==
  /\ Quiet
  /\ sup.paused /\ sup.sendTimer = NoJob
  /\ sup' = [sup EXCEPT !.paused = FALSE]

SendTimer ==
  /\ Quiet
  /\ sup.sendTimer # NoJob
  /\ sup' = SendJob(Turn, [sup EXCEPT !.sendTimer = NoJob, !.paused = FALSE], sup.sendTimer)

RetryTimer ==
  /\ Quiet
  /\ sup.retryTimer
  /\ sup' = Pump(Turn, [sup EXCEPT !.retryTimer = FALSE])

(* handleControlTimeout: 5 s without a reply. *)
ControlTimeout ==
  /\ Disturb
  /\ sup.currentJob # NoJob
  /\ sup' = GiveUpSocket(Turn, [sup EXCEPT !.currentJob = NoJob], sup.currentJob)

(* markStaleEntries: 20 s without data. *)
MarkStale(k) ==
  /\ Disturb
  /\ ~sup.destroyed /\ Held(sup, k) /\ State(sup, k) = "live"
  /\ sup' = SetState(sup, k, "stale")

(* The rotation interval: every 60 s. *)
RotationTick ==
  /\ Disturb
  /\ ~sup.destroyed /\ sup.rotationCurrent = NoPair /\ sup.rotationQueue = <<>>
  /\ Cardinality(ActiveKeys(sup)) + Cardinality(ParkedKeys(sup)) > MaxLive
  /\ \E outgoing \in SetToSeqs({k \in Keys : /\ Held(sup, k) /\ State(sup, k) = "live"
                                            /\ sup.entry[k].rotationOutgoing = None}) :
       sup' = StartRotationLease(Turn, sup, outgoing)

-----------------------------------------------------------------------------
(* The connection and the server.                                           *)

(* The connection publishes a state: open only out of connecting.  Nothing  *)
(* says that its socket is OPEN by then.                                    *)
ConnectionOpens ==
  /\ Quiet
  /\ sup.conn = "connecting" /\ sup.demand > 0
  /\ \E socket \in {"early", "open"} :
       sup' = HandleOpen(Turn, [sup EXCEPT !.conn = "open", !.socket = socket])

ConnectionConnects ==
  /\ IF sup.conn = "open" THEN Disturb ELSE Quiet
  /\ sup.conn # "connecting" /\ sup.demand > 0
  /\ sup' = HandleDown(Turn, [Dropped(sup) EXCEPT !.conn = "connecting"])

ConnectionLost ==
  /\ Disturb
  /\ sup.conn # "away"
  /\ sup' = HandleDown(Turn, Dropped(sup))

SocketReady ==
  /\ Quiet
  /\ sup.socket = "early"
  /\ sup' = [sup EXCEPT !.socket = "open"]

(* The socket is closing, and its close event has not come yet; or it goes  *)
(* on in a state in which a send throws.                                    *)
SocketBreaks ==
  /\ Disturb
  /\ sup.conn = "open" /\ sup.socket \in {"early", "open"}
  /\ \E socket \in {"closing", "failing"} : sup' = [sup EXCEPT !.socket = socket]

(* The server carries the request out, or refuses it; its reply may get     *)
(* lost on the way or lack the key, which comes to the same.                *)
ServerActs ==
  /\ sup.answer = "sent"
  /\ \/ /\ Quiet
        /\ LET k == sup.currentJob.key IN
           sup' = IF sup.currentJob.action = "subscribe"
                  THEN [sup EXCEPT !.answer = "accepted", !.registered = @ \cup {k},
                                   !.seen = @ \cup {k}]
                  ELSE [sup EXCEPT !.answer = "accepted", !.registered = @ \ {k}]
     \/ Disturb /\ sup' = [sup EXCEPT !.answer = "refused"]

AnswerArrives ==
  /\ Quiet
  /\ sup.answer \in {"accepted", "refused"}
  /\ sup' = HandleAnswer(Turn, sup, sup.answer = "accepted")

(* A frame of a key subscribed on this socket, perhaps one still under way  *)
(* when the key was unsubscribed.                                           *)
DataArrives(k) ==
  /\ Quiet
  /\ k \in sup.seen /\ sup' = HandleData(sup, k)

Next ==
  \/ \E k \in Keys : Subscribe(k) \/ Release(k) \/ MarkStale(k) \/ DataArrives(k)
  \/ \E k, next \in Keys : RetargetAll(k, next)
  \/ RetainResolves \/ Destroy
  \/ SpacingElapses \/ SendTimer \/ RetryTimer \/ ControlTimeout \/ RotationTick
  \/ ConnectionOpens \/ ConnectionConnects \/ ConnectionLost
  \/ SocketBreaks \/ SocketReady \/ ServerActs \/ AnswerArrives

(* No timer stays armed for ever (a retry timer that fires over a socket    *)
(* that is not OPEN is armed again at once), a socket that is not OPEN      *)
(* becomes so or closes, and a frame that was sent is answered or times out.*)
Fairness ==
  /\ []<>(sup.sendTimer = NoJob) /\ []<>(sup.socket = "open")
  /\ []<>(~sup.retryTimer \/ sup.socket # "open")
  /\ []<>(sup.answer # "sent") /\ []<>(sup.answer \notin {"accepted", "refused"})

Spec == Init /\ [][Next]_vars /\ Fairness
-----------------------------------------------------------------------------
(* Properties.                                                              *)

PairsOfLease == {sup.rotationCurrent} \cup ToSet(sup.rotationQueue)

(* Every field keeps its type, the insertion order lists the entries of the *)
(* map, and no job of an entry that has left the map stays in the queue.    *)
TypeOK ==
  /\ sup \in Supervisors /\ sup.sending = NoJob
  /\ \A k \in Keys : k \in ToSet(sup.order) <=> Has(sup, k)
  /\ \A i \in DOMAIN sup.queue : Has(sup, sup.queue[i].key)

(* The connection is kept for exactly the entries that exist: every path    *)
(* that merges, moves or deletes an entry returns one demand, once.         *)
DemandPerEntry == sup.demand = Cardinality({k \in Keys : Has(sup, k)})

(* No retarget, merge or lost connection loses a handle or counts it twice: *)
(* the references of the entries are the handles the actions hold.          *)
HandlesAttached ==
  sup.handles = FoldFunction(+, 0, [k \in Keys |-> sup.entry[k].refs])

(* An entry taken to be subscribed is pushed by the server on the socket of *)
(* today, or its unsubscribe is out.                                        *)
SubscribedIsRegistered ==
  \A k \in Keys : sup.entry[k].subscribed =>
    k \in sup.registered \/ (sup.currentJob.key = k /\ sup.currentJob.action = "unsubscribe")

(* What the entries say is true of the demand on the connection, of the     *)
(* handles the controllers hold and of the server, after every retarget,    *)
(* merge, release and loss (completeRetarget, deleteEntry,                  *)
(* handleConnectionState).                                                  *)
EntriesTrue == DemandPerEntry /\ HandlesAttached /\ SubscribedIsRegistered

(* queuedAction, which keeps further jobs from being queued, names a job    *)
(* that is in the queue; otherwise the entry could never be queued again.   *)
QueuedActionHasJob ==
  \A k \in Keys : sup.entry[k].queuedAction # "none" =>
    [key |-> k, action |-> sup.entry[k].queuedAction] \in ToSet(sup.queue)

(* A retarget that waits for its target to leave waits for an entry that is *)
(* in the map and being removed, so that deleteEntry will wake it.          *)
WaiterWakes ==
  \A k \in Keys : LET target == sup.entry[k].waitingTarget IN
    target # None =>
      Has(sup, target) /\ sup.entry[target].removing /\ sup.entry[k].retarget = target

(* Nothing waits in vain: neither an entry for a job that is not queued,    *)
(* nor a retarget for an entry nobody removes (enqueue*, nextValidJob,      *)
(* wakeRetargetWaiters).                                                    *)
NothingWaitsInVain == QueuedActionHasJob /\ WaiterWakes

(* What the server pushes is known here: the entry is marked subscribed, or *)
(* the job for it is out.  The server pushes nothing that nobody will stop. *)
KnownToServer ==
  \A k \in sup.registered : sup.entry[k].subscribed \/ sup.currentJob.key = k

(* No entry stays parked while there is room for it.  (A released entry     *)
(* that is still leaving holds its place until it is deleted.)              *)
FreePlacesTaken ==
  /\ \E k \in ParkedKeys(sup) : ~sup.entry[k].rotationIncoming
  /\ Cardinality(ActiveKeys(sup)) < MaxLive
  => \E k \in Keys : Has(sup, k) /\ sup.entry[k].refs = 0

(* An entry set aside for the rotation belongs to a pair of the lease, so   *)
(* it is not kept from promotion for ever.                                  *)
RotationMarks ==
  \A k \in Keys : sup.entry[k].rotationIncoming => \E pair \in PairsOfLease : pair.incoming = k

(* While the connection is open, every queued job is taken.                 *)
QueueServed ==
  \A k \in Keys :
    sup.conn = "open" /\ sup.entry[k].queuedAction # "none"
      ~> sup.conn # "open" \/ sup.entry[k].queuedAction = "none"

-----------------------------------------------------------------------------
(* What the documentation and the tests say, and the code does not keep.    *)

(* "keeps a reappearing reference when it arrives while the final           *)
(* unsubscribe is awaiting acknowledgement": on an open connection an entry *)
(* that is wanted and not yet subscribed has its subscribe under way.       *)
WantedIsQueued ==
  \A k \in Keys :
    /\ sup.conn = "open" /\ ~sup.requiresFreshOpen
    /\ Held(sup, k) /\ State(sup, k) = "desired" /\ sup.entry[k].retarget = None
    => \/ [key |-> k, action |-> "subscribe"] \in ToSet(sup.queue)
       \/ JobOn(sup, k) \/ sup.sendTimer.key = k

(* "unsubscribes only after the final shared reference is released and then *)
(* releases one connection demand": on an open connection an entry without  *)
(* handles has a job under way that ends in its removal.                    *)
RemovalIsDriven ==
  \A k \in Keys :
    sup.conn = "open" /\ Has(sup, k) /\ sup.entry[k].refs = 0 =>
      \/ sup.entry[k].queuedAction = "unsubscribe" \/ JobOn(sup, k)
      \/ sup.sendTimer = [key |-> k, action |-> "unsubscribe", alive |-> TRUE]

(* At most 41 subscriptions are live at the server at the same time.        *)
CapRespected == Cardinality(sup.registered) <= MaxLive

(* The end of one side of a rotation pair cancels the lease: the running    *)
(* pair never names an entry that has left the map.                         *)
LeaseEndsWithPair ==
  sup.rotationCurrent # NoPair =>
    Gone \notin {sup.rotationCurrent.outgoing, sup.rotationCurrent.incoming}
=============================================================================
