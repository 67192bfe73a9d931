------------------------ MODULE StockActionController ------------------------
(***************************************************************************)
(* One button under class StockActionController                            *)
(* (src/src/actions/stock-action-controller.ts): its lifecycle, the policy *)
(* that picks a source of quotes for it, and the views it submits.         *)
(*                                                                         *)
(* The button shows an overseas stock, the harder kind: its market is open *)
(* by the clock of New York, or by the Korean daytime (day), which no clock*)
(* event announces.  The clock, the repository, the supervisor, the REST   *)
(* coordinator and the device do whatever their own modules let them do.   *)
(*                                                                         *)
(* The code tells stale work by numbers it captures: policyGeneration,     *)
(* webSocketRevision, lifecycleEpoch.  Only whether a captured number is   *)
(* still the present one matters, so what captured it says live or fresh,  *)
(* and moving the number on clears these.  An operator takes live where the*)
(* method takes a generation.                                              *)
(*                                                                         *)
(* snapshot() of the clock tells the clock's listeners at once when time   *)
(* has crossed a boundary, this button's among them: a handler that asks   *)
(* for it may come back to a policy that has moved on under it (Observe).  *)
(***************************************************************************)
EXTENDS Naturals, FiniteSets

CONSTANTS
  MaxEpoch,      \* bound on the sessions of the market
  MaxGeneration  \* bound on credentialGeneration

ASSUME BoundsAssumption == MaxEpoch \in Nat /\ MaxGeneration \in Nat

VARIABLES
  button,        \* the controller, as far as it concerns this button
  wall           \* the market as it is by the time of day

vars == <<button, wall>>

Phys == {"waiting", "live", "down"}        \* desired or pending; live; stale, parked or rejected
Outcomes == Phys \cup {"refused"}          \* of subscribe: a first state, or a throw

Settings == [creds : BOOLEAN, gen : 0..MaxGeneration, mode : {"automatic", "rest-only"}]

(* held: fallbackAbort or manualAbort is of this request.  own: it belongs  *)
(* to the present session.  overtaken: something newer is known than what   *)
(* the request asked for; the code has no such flag.                        *)
Requests == [kind : {"closed", "initial", "fallback", "manual"}, held : BOOLEAN, live : BOOLEAN,
             fresh : BOOLEAN, aborted : BOOLEAN, own : BOOLEAN, overtaken : BOOLEAN]

(* subscription, its binding, wsDescriptor and retargetPromise.             *)
NoSub == [held |-> FALSE, bound |-> FALSE, desc |-> "night", phys |-> "waiting",
          retarget |-> "none", retargetLive |-> FALSE]
NoKey == <<>>

(* applied is what the session has taken from the settings: its preferences,*)
(* policySettingsSignature and credentialIdentityKey.                       *)
NewSession(settings, snapshot) ==
  [applied |-> settings, snapshot |-> snapshot, attached |-> FALSE,
   valid |-> FALSE, fallback |-> FALSE, recovering |-> FALSE, quoted |-> FALSE,
   grace |-> "off", poll |-> "off", tick |-> "off", recovery |-> "off",
   sub |-> NoSub, connection |-> "waiting", closedKey |-> NoKey, opened |-> FALSE]

InitialSettings == [creds |-> TRUE, gen |-> 0, mode |-> "automatic"]
NoSession == NewSession(InitialSettings, [open |-> FALSE, epoch |-> 0])

NoView == "waiting"

ClockView == [open |-> wall.open, epoch |-> wall.epoch]

(* handles and listeners count what is held at the supervisor and the       *)
(* clock.  Four flags record what has happened: lapsed, that a quote was    *)
(* adopted that had been overtaken; reentered, that a policy moved on within*)
(* a handler; unheard, that it has done so since it was last set up; opened,*)
(* that the market opened after the one request made for it while closed.   *)
Init ==
  /\ wall \in [open : BOOLEAN, day : BOOLEAN, epoch : {0}]
  /\ button =
       [phase |-> "none", settings |-> InitialSettings, session |-> NoSession,
        seen |-> ClockView, requests |-> {}, handles |-> 0, listeners |-> 0,
        view |-> NoView, destroyed |-> FALSE,
        lapsed |-> FALSE, reentered |-> FALSE, unheard |-> FALSE]

Up(b) == b.phase = "up"                    \* isCurrent of the session

-----------------------------------------------------------------------------
(* Views, timers and the policy generation.                                 *)

SubmitView(b) == IF Up(b) THEN [b EXCEPT !.view = b.session.connection] ELSE b

Armed(live) == IF live THEN "live" ELSE "dead"
Past(timer) == IF timer = "live" THEN "dead" ELSE timer

(* policyGeneration += 1.  A request that was ruled out twice already is    *)
(* forgotten; a manual one still stands in the way of the next.             *)
BumpPolicy(b) ==
  [b EXCEPT
    !.session.grace = Past(@), !.session.poll = Past(@),
    !.session.tick = Past(@), !.session.recovery = Past(@),
    !.session.sub.bound = FALSE, !.session.sub.retargetLive = FALSE,
    !.requests = {[r EXCEPT !.live = FALSE, !.overtaken = TRUE] :
                    r \in {q \in @ : q.live \/ q.fresh \/ q.kind = "manual"}}]

(* webSocketRevision += 1 *)
BumpRevision(b) == [b EXCEPT !.requests = {[r EXCEPT !.fresh = FALSE] : r \in @}]

Overtake(b) == [b EXCEPT !.requests = {[r EXCEPT !.overtaken = TRUE] : r \in @}]

(* What a request was made for no longer matters when it is aborted.        *)
Abort(r) ==
  [r EXCEPT !.aborted = TRUE, !.held = FALSE, !.kind = IF @ = "manual" THEN @ ELSE "initial"]

ReleaseSubscription(b) ==
  [b EXCEPT !.session.sub = NoSub,
            !.handles = IF b.session.sub.held THEN @ - 1 ELSE @]

(* Mutant: a manual request is left to itself. *)
ClearAutomaticWork(b, release) ==
  LET c == [b EXCEPT
             !.session.grace = "off", !.session.poll = "off",
             !.session.tick = "off", !.session.recovery = "off",
             !.session.recovering = FALSE, !.session.fallback = FALSE,
             !.requests = {IF r.kind # "manual" THEN Abort(r) ELSE r : r \in @}]
  IN  IF release THEN ReleaseSubscription(c) ELSE c

(* Every request of the session is in policyAbortControllers or is          *)
(* manualAbort.                                                             *)
ClearPolicyWork(b, release) ==
  LET c == [b EXCEPT
             !.session.grace = "off", !.session.poll = "off",
             !.session.tick = "off", !.session.recovery = "off",
             !.session.recovering = FALSE, !.session.fallback = FALSE,
             !.requests = {IF r.own THEN Abort(r) ELSE r : r \in @}]
  IN  IF release THEN ReleaseSubscription(c) ELSE c

CancelRecovery(b) ==
  IF ~b.session.recovering THEN b
  ELSE [b EXCEPT !.session.recovering = FALSE, !.session.recovery = "off"]

(* The timer shows the plain view when it fires.                            *)
ShowRecovery(b, live) ==
  SubmitView([b EXCEPT !.session.recovering = TRUE, !.session.recovery = Armed(live)])

ArmGrace(b, live) == [b EXCEPT !.session.grace = Armed(live)]

ArmPoll(b, live) ==
  IF live /\ b.session.poll = "off" THEN [b EXCEPT !.session.poll = "live"] ELSE b

(* Mutant: not while the subscription is retargeted. *)
ArmTickWhenStill(b, live) ==
  IF b.session.sub.retarget # "none" THEN b ELSE [b EXCEPT !.session.tick = Armed(live)]

ArmPolicyTick(b, live) == [b EXCEPT !.session.tick = Armed(live)]

-----------------------------------------------------------------------------
(* REST.                                                                    *)

Request(kind, held) ==
  [kind |-> kind, held |-> held, live |-> TRUE, fresh |-> TRUE, aborted |-> FALSE,
   own |-> TRUE, overtaken |-> FALSE]

(* fallbackAbort, as set while a fallback request is under way.             *)
FallbackUnderWay(b) == \E r \in b.requests : r.own /\ r.kind = "fallback" /\ r.held

PerformRest(b, live, kind) ==
  IF ~live THEN b
  ELSE [b EXCEPT !.requests =
          {IF kind = "fallback" /\ r.kind = "fallback" THEN [r EXCEPT !.held = FALSE] ELSE r
             : r \in @} \cup {Request(kind, kind = "fallback")}]

(* Mutant: a request is made whether or not one is under way. *)
StartFallbackAgain(b, live) ==
  IF ~live THEN b
  ELSE ArmPoll(PerformRest([b EXCEPT !.session.grace = "off", !.session.fallback = TRUE],
                           live, "fallback"), live)

StartFallback(b, live) ==
  IF ~live THEN b
  ELSE LET c == [b EXCEPT !.session.grace = "off", !.session.fallback = TRUE]
           d == IF FallbackUnderWay(c) THEN c ELSE PerformRest(c, live, "fallback")
       IN  ArmPoll(d, live)

StopFallback(b) ==
  [b EXCEPT !.session.fallback = FALSE, !.session.grace = "off", !.session.poll = "off",
            !.requests = {IF r.own /\ r.kind = "fallback" /\ r.held THEN Abort(r) ELSE r
                            : r \in @}]

StartRestOnlyRealtime(b, live) ==
  ArmPoll(PerformRest([b EXCEPT !.session.fallback = TRUE], live, "initial"), live)

(* Mutant: other credentials are not worth another request. *)
EpochKey(b) == <<b.session.snapshot.epoch>>

(* One request for a closed market and a credential generation.             *)
ClosedKey(b) == <<b.session.snapshot.epoch, b.settings.gen>>

StartClosedRest(b, live) ==
  IF b.session.closedKey = ClosedKey(b) THEN b
  ELSE PerformRest([b EXCEPT !.session.closedKey = ClosedKey(b), !.session.opened = FALSE],
                   live, "closed")

-----------------------------------------------------------------------------
(* The subscription.                                                        *)

(* webSocketDescriptor of the adapter, at this time.                        *)
Descriptor == IF wall.day THEN "day" ELSE "night"

(* Mutant: a feed that had worked is waited for. *)
HandleLastingLoss(b, live, phys) ==
  IF ~live THEN b
  ELSE IF phys = "down"
       THEN StartFallback(SubmitView([CancelRecovery(b) EXCEPT !.session.connection = "BROKEN"]),
                          live)
       ELSE SubmitView(b)

(* A lasting loss of the feed, or a loss of one that had worked.            *)
HandleSubscriptionState(b, live, phys) ==
  IF ~live THEN b
  ELSE IF phys = "down" \/ (b.session.valid /\ phys = "waiting")
       THEN StartFallback(SubmitView([CancelRecovery(b) EXCEPT !.session.connection = "BROKEN"]),
                          live)
       ELSE SubmitView(b)

(* Mutant: the loss is not shown. *)
FailQuietly(b, live) ==
  IF ~live THEN b
  ELSE StartFallback(IF b.session.quoted THEN b
                     ELSE [b EXCEPT !.session.connection = "BROKEN"], live)

HandleRetargetFailure(b, live) ==
  IF ~live THEN b
  ELSE StartFallback(IF b.session.quoted THEN b
                     ELSE SubmitView([b EXCEPT !.session.connection = "BROKEN"]), live)

(* Nothing is done while a retarget is under way.  The supervisor may       *)
(* refuse, by a throw.                                                      *)
BeginRetarget(b, live, next, outcome) ==
  IF b.session.sub.retarget # "none" THEN b
  ELSE IF outcome = "refused" THEN HandleRetargetFailure(b, live)
  ELSE [b EXCEPT !.session.sub.retarget = next, !.session.sub.retargetLive = live]

(* A subscription the session has is kept, and tells its state; subscribe   *)
(* may throw, or tell the new observer a first state in the same turn.      *)
StartAutomaticRealtime(b, live, outcome) ==
  LET s == b.session
      c == [b EXCEPT !.session.connection = IF s.quoted THEN @ ELSE "waiting"]
      kept == [c EXCEPT !.session.sub.bound = live]
      stays == s.sub.desc = Descriptor
      moved == IF stays THEN kept ELSE BeginRetarget(kept, live, Descriptor, outcome)
      told == HandleSubscriptionState(moved, live, s.sub.phys)
      released == ReleaseSubscription(c)
      failed == [released EXCEPT !.session.connection = "BROKEN"]
      made == [released EXCEPT
                !.session.sub = [NoSub EXCEPT !.held = TRUE, !.bound = live,
                                              !.desc = Descriptor, !.phys = outcome],
                !.handles = @ + 1]
      heard == SubmitView(HandleSubscriptionState(made, live, outcome))
      end == IF s.sub.held THEN told ELSE heard
  IN  IF ~s.sub.held /\ outcome = "refused"
      THEN StartFallback(SubmitView(failed), live)
      ELSE IF s.sub.held /\ ~stays /\ outcome = "refused" /\ s.sub.retarget = "none"
      THEN moved
      ELSE IF end.session.fallback THEN end ELSE ArmGrace(end, live)

-----------------------------------------------------------------------------
(* The policy.                                                              *)

(* effectiveSnapshot: the Korean daytime opens a market that is closed.     *)
Effective(b) == IF wall.day /\ ~b.seen.open THEN [b.seen EXCEPT !.open = TRUE] ELSE b.seen

Take(b, snapshot) ==
  LET c == [b EXCEPT !.session.snapshot = snapshot] IN
  IF snapshot = b.session.snapshot THEN c ELSE Overtake(c)

(* reconfigurePolicy.  The clock has been asked just before, so asking it   *)
(* again tells nobody anything.                                             *)
ReconfigurePolicy(b, outcome) ==
  IF ~Up(b) THEN b
  ELSE
  LET a == Take(ClearPolicyWork(BumpPolicy(b), FALSE), Effective(b))
      s == a.session
      c == ArmPolicyTick([a EXCEPT !.session.opened = @ \/ s.snapshot.open,
                                  !.unheard = FALSE], TRUE)
  IN  IF s.applied.mode = "automatic" /\ s.snapshot.open
      THEN StartAutomaticRealtime(BumpRevision([c EXCEPT !.session.valid = FALSE]),
                                  TRUE, outcome)
      ELSE LET r == ReleaseSubscription(c) IN
           IF s.snapshot.open THEN StartRestOnlyRealtime(r, TRUE) ELSE StartClosedRest(r, TRUE)

(* The clock's listener.                                                    *)
Hears(b) ==
  /\ Up(b) /\ b.session.attached
  /\ b.session.snapshot # ClockView
  /\ b.settings.creds

Listen(b, outcome) ==
  IF ~(Up(b) /\ b.session.attached) THEN b
  ELSE LET c == Take(b, ClockView) IN
       IF Hears(b) THEN ReconfigurePolicy(c, outcome) ELSE c

(* snapshot() of the clock: Moves says that the policy moves on within it.  *)
Late(b) == b.seen # ClockView
Moves(b) == Late(b) /\ Hears(b)

Observe(b, outcome) ==
  IF ~Late(b) THEN b
  ELSE [Listen([b EXCEPT !.seen = ClockView], outcome) EXCEPT
         !.reentered = @ \/ Moves(b), !.unheard = @ \/ Moves(b)]

AttachClock(b) ==
  IF b.session.attached \/ ~Up(b) THEN b
  ELSE [Take(b, ClockView) EXCEPT !.session.attached = TRUE, !.listeners = @ + 1]

DetachClock(b) ==
  [b EXCEPT !.session.attached = FALSE,
            !.listeners = IF b.session.attached THEN @ - 1 ELSE @]

(* Mutant: the market does not matter. *)
PreservesAnyMarket(b, old) ==
  b.settings.creds /\ old.creds /\ b.settings.gen = old.gen

(* The settings have been published; nothing is done about what the policy  *)
(* does not depend on, nor in a closed market whose one request stands.     *)
Preserves(b, old) ==
  /\ b.settings.creds /\ old.creds /\ b.settings.gen = old.gen
  /\ ~b.session.snapshot.open /\ ~Effective(b).open
  /\ b.session.snapshot.epoch = Effective(b).epoch

ReconfigureForGlobalSettings(b, outcome) ==
  IF ~Up(b) \/ b.session.applied = b.settings THEN b
  ELSE
  LET c == Observe([b EXCEPT !.session.applied = b.settings], outcome)
      d == ClearPolicyWork(BumpPolicy(c), TRUE)
  IN  IF Preserves(c, b.session.applied) THEN c
      ELSE IF ~b.settings.creds
           THEN SubmitView([DetachClock(d) EXCEPT !.session.closedKey = NoKey,
                                              !.session.connection = "BROKEN"])
           ELSE ReconfigurePolicy(AttachClock(d), outcome)

-----------------------------------------------------------------------------
(* The life of the button.                                                  *)

(* What is still under way for the old session can do nothing more; what    *)
(* was not aborted of it is kept in sight.                                  *)
TeardownSession(b) ==
  IF ~Up(b) THEN b
  ELSE LET c == DetachClock(ClearPolicyWork(BumpPolicy(b), TRUE)) IN
       [c EXCEPT !.requests = {[r EXCEPT !.own = FALSE] : r \in {q \in @ : ~q.aborted}},
                 !.session = NoSession, !.view = NoView, !.reentered = FALSE,
                 !.unheard = FALSE]

(* The record of the button is replaced, and what belonged to it is dropped.*)
Gone(b) == [TeardownSession(b) EXCEPT !.phase = "none", !.view = NoView]

(* createSession.                                                           *)
CreateSession(b, valid, outcome) ==
  IF ~valid THEN [b EXCEPT !.phase = "fatal", !.view = "BROKEN"]
  ELSE
  LET c == [b EXCEPT !.phase = "up", !.seen = ClockView,
                     !.session = NewSession(b.settings, ClockView)]
  IN  IF ~b.settings.creds
      THEN SubmitView([c EXCEPT !.session.connection = "BROKEN"])
      ELSE ReconfigurePolicy(AttachClock(c), outcome)

(* appear and updateSettings alike drop what was there and wait.            *)
Appear ==
  /\ ~button.destroyed
  /\ button' = [Gone(button) EXCEPT !.phase = "waiting"]
  /\ UNCHANGED wall

UpdateSettings == button.phase # "none" /\ Appear

(* ensureReady has come through for the last of the calls that wait, and    *)
(* the session is set up; nothing is taken to run between its return and the*)
(* turn of its caller.                                                      *)
Create ==
  /\ button.phase = "waiting"
  /\ \E valid \in BOOLEAN, outcome \in Outcomes : button' = CreateSession(button, valid, outcome)
  /\ UNCHANGED wall

Disappear ==
  /\ button.phase # "none"
  /\ button' = Gone(button)
  /\ UNCHANGED wall

Destroy ==
  /\ ~button.destroyed
  /\ button' = [Gone(button) EXCEPT !.destroyed = TRUE]
  /\ UNCHANGED wall

ManualUnderWay(b) == \E r \in b.requests : r.own /\ r.kind = "manual"

ManualRefresh ==
  /\ Up(button) /\ ~ManualUnderWay(button)
  /\ button' = SubmitView([button EXCEPT !.requests = @ \cup {Request("manual", TRUE)}])
  /\ UNCHANGED wall

(* The outcomes to choose from in a turn that subscribes, if it does.       *)
Possible(subscribes) == IF subscribes THEN Outcomes ELSE {"waiting"}

-----------------------------------------------------------------------------
(* What the others do.                                                      *)

(* A session begins or ends, or the Korean daytime does; the machine may    *)
(* have slept over several.                                                 *)
MarketMoves ==
  /\ \E w \in [open : BOOLEAN, day : BOOLEAN, epoch : wall.epoch..MaxEpoch] :
       /\ w # wall
       /\ w.epoch = wall.epoch => w.open = wall.open
       /\ wall' = w
  /\ UNCHANGED button

(* A timer of the clock, or another button, has it look at the time.        *)
ClockFires ==
  /\ Late(button) /\ ~button.destroyed
  /\ \E outcome \in Possible(Hears(button)) :
       button' = Listen([button EXCEPT !.seen = ClockView], outcome)
  /\ UNCHANGED wall

(* Preferences are saved, or credentials are saved, lost or found again.    *)
SettingsChange ==
  /\ \E s \in Settings, outcome \in Possible(Up(button)) :
       /\ \/ s # button.settings /\ [s EXCEPT !.mode = button.settings.mode] = button.settings
          \/ /\ s.mode = button.settings.mode
             /\ s.creds # button.settings.creds \/ s.gen = button.settings.gen + 1
             /\ s.gen \in {button.settings.gen, button.settings.gen + 1}
       /\ outcome # "waiting" => s.creds
       /\ button' = LET b == [button EXCEPT !.settings = s] IN
                    IF b.destroyed THEN b ELSE ReconfigureForGlobalSettings(b, outcome)
  /\ UNCHANGED wall

SubscriptionState ==
  /\ button.session.sub.held
  /\ \E phys \in Phys :
       LET b == [button EXCEPT !.session.sub.phys = phys] IN
       button' = HandleSubscriptionState(b, b.session.sub.bound, phys)
  /\ UNCHANGED wall

(* A frame that cannot be parsed is a failure of the feed.                  *)
HandleSubscriptionData(b, live, parsed, outcome) ==
  IF ~live THEN b
  ELSE
  LET c == Observe(b, outcome)
      now == ~Moves(b)
      broken == IF c.session.quoted THEN c ELSE SubmitView([c EXCEPT !.session.connection = "BROKEN"])
      turned == ~c.session.recovering /\ c.session.connection \in {"BACKUP", "BROKEN"}
      adopted == StopFallback(BumpRevision(Overtake(
                   [c EXCEPT !.session.quoted = TRUE, !.session.connection = "LIVE",
                             !.session.valid = TRUE])))
  IN  IF ~parsed THEN StartFallback(broken, now)
      ELSE IF turned THEN ShowRecovery(adopted, now)
      ELSE SubmitView(adopted)

(* The supervisor takes an entry to be live before it passes a frame on.    *)
Frame ==
  /\ button.session.sub.held
  /\ \E parsed \in BOOLEAN, outcome \in Possible(Moves(button)) :
       LET s == button.session.sub
           b == [button EXCEPT !.session.sub.phys = "live"]
           c == IF s.phys = "live" THEN b ELSE HandleSubscriptionState(b, s.bound, "live")
       IN  button' = HandleSubscriptionData(c, s.bound, parsed, outcome)
  /\ UNCHANGED wall

(* The descriptor is that of the new key when the retarget is done.         *)
RetargetEnds ==
  /\ button.session.sub.retarget # "none"
  /\ \E done \in BOOLEAN :
       LET s == button.session.sub
           b == [button EXCEPT !.session.sub.retarget = "none",
                               !.session.sub.retargetLive = FALSE]
       IN  button' = IF done THEN [b EXCEPT !.session.sub.desc = s.retarget]
                     ELSE HandleRetargetFailure(b, s.retargetLive)
  /\ UNCHANGED wall

(* Mutant: webSocketRevision is not compared. *)
AdoptsOfPolicy(r) == r.live

Adopts(r) == r.live /\ r.fresh

(* performRest and performManual after the await.                           *)
RestSettled(b, r, ok) ==
  LET adopted == [b EXCEPT !.session.quoted = TRUE, !.session.connection = "BACKUP",
                           !.lapsed = @ \/ r.overtaken]
      broken == IF b.session.quoted THEN b ELSE [b EXCEPT !.session.connection = "BROKEN"]
  IN  IF ok THEN IF Adopts(r) THEN SubmitView(adopted) ELSE b
      ELSE IF ~r.live \/ r.aborted THEN b
      ELSE IF r.kind = "manual" \/ ~b.session.quoted THEN SubmitView(broken) ELSE b

(* A request may have been answered already when it is aborted.             *)
RestAnswers ==
  /\ \E r \in button.requests, ok \in BOOLEAN :
       LET b == [button EXCEPT !.requests = @ \ {r}] IN
       button' = IF r.own THEN RestSettled(b, r, ok) ELSE b
  /\ UNCHANGED wall

GraceFires ==
  /\ button.session.grace # "off"
  /\ LET b == [button EXCEPT !.session.grace = "off"] IN
     button' = IF b.session.valid THEN b ELSE StartFallback(b, button.session.grace = "live")
  /\ UNCHANGED wall

PollFires ==
  /\ button.session.poll # "off"
  /\ LET b == [button EXCEPT !.session.poll = "off"]
         live == button.session.poll = "live"
     IN button' = IF ~live \/ ~b.session.fallback THEN b
                  ELSE ArmPoll(IF FallbackUnderWay(b) THEN b
                               ELSE PerformRest(b, live, "fallback"), live)
  /\ UNCHANGED wall

RecoveryFires ==
  /\ button.session.recovery # "off"
  /\ LET b == [button EXCEPT !.session.recovery = "off"] IN
     button' = IF button.session.recovery = "dead" THEN b
               ELSE SubmitView([b EXCEPT !.session.recovering = FALSE])
  /\ UNCHANGED wall

(* Every minute: what the clock does not tell is noticed here.              *)
HandlePolicyTick(b, outcome) ==
  LET c == Observe(b, outcome)
      now == ~Moves(b)
      changed == Effective(c) # c.session.snapshot
      d == Take(c, Effective(c))
      s == d.session.sub
      e == IF s.held /\ s.retarget = "none" /\ s.desc # Descriptor
           THEN BeginRetarget(d, now, Descriptor, outcome) ELSE d
  IN  IF changed THEN ReconfigurePolicy(d, outcome) ELSE ArmPolicyTick(e, now)

PolicyTickFires ==
  /\ button.session.tick # "off"
  /\ \E outcome \in Possible(Late(button) \/ Effective(button) # button.session.snapshot
                              \/ button.session.sub.held) :
       LET b == [button EXCEPT !.session.tick = "off"] IN
       button' = IF button.session.tick = "dead" THEN b ELSE HandlePolicyTick(b, outcome)
  /\ UNCHANGED wall

Next ==
  \/ Appear \/ UpdateSettings \/ Create \/ Disappear \/ Destroy \/ ManualRefresh
  \/ MarketMoves \/ ClockFires \/ SettingsChange
  \/ SubscriptionState \/ Frame \/ RetargetEnds \/ RestAnswers
  \/ GraceFires \/ PollFires \/ RecoveryFires \/ PolicyTickFires

Spec == Init /\ [][Next]_vars

-----------------------------------------------------------------------------
(* Properties.                                                              *)

Session == button.session
Working == Up(button) /\ Session.applied.creds     \* a policy is in force

(* performRest, performManual: an answer is never adopted once real-time    *)
(* data, another session of the market or other credentials have come in    *)
(* since it was asked for.                                                  *)
NoStaleAnswer == ~button.lapsed

(* startFallback, stopFallback: one backup request at a time, the one that  *)
(* can still be aborted when the feed comes back.                           *)
SingleFallback ==
  /\ \A r \in button.requests : r.kind = "fallback" /\ ~r.aborted => r.held
  /\ Cardinality({r \in button.requests : r.held /\ r.kind = "fallback"}) <= 1

(* teardownSession, clearPolicyWork, releaseSubscription: nothing of a past *)
(* session or policy is left: no request that was not aborted, no handle    *)
(* and no listener of the clock; one backup request goes on at a time.      *)
NothingLeftBehind ==
  /\ button.requests \subseteq Requests
  /\ \A r \in button.requests : r.own /\ (r.live \/ r.aborted)
  /\ button.handles = IF Session.sub.held THEN 1 ELSE 0
  /\ button.listeners = IF Session.attached THEN 1 ELSE 0
  /\ ~Working => ~Session.sub.held /\ ~Session.attached
  /\ SingleFallback

(* reconfigureForGlobalSettings, reconfigurePolicy: a subscription is held  *)
(* only while the settings as they are, and the market as last taken, call  *)
(* for one, and its news are taken: no generation it was not handed to has  *)
(* begun.                                                                   *)
SubscribedByPolicy ==
  Session.sub.held =>
    /\ Session.sub.bound
    /\ button.settings.creds /\ button.settings.mode = "automatic"
    /\ Session.snapshot.open

(* startAutomaticRealtime, handleSubscriptionState, startFallback: a button *)
(* in an open market is fed by a live subscription it listens to, or waits  *)
(* for one no longer than grace, or polls.                                  *)
NeverBlind ==
  Working /\ Session.snapshot.open =>
    \/ Session.valid /\ Session.sub.bound /\ Session.sub.phys = "live"
    \/ Session.sub.bound /\ Session.grace = "live"
    \/ Session.fallback /\ Session.poll = "live"

(* armPolicyTick: the minute tick, which alone notices the Korean daytime   *)
(* and a change of the descriptor, goes on as long as there is a policy.    *)
PolicyTicks == Working => Session.tick = "live"

(* armPolicyTick, showRecovery: unless a policy moved on within a handler   *)
(* since it was last set up, the minute tick goes on, and the recovery      *)
(* screen is up just as long as the timer that takes it down: a handler that*)
(* cuts its own timers off does so until the next set-up and no longer.     *)
TimersRun ==
  ~button.unheard =>
    PolicyTicks /\ (Session.recovering <=> Session.recovery = "live")

Awaited(r) == r.own /\ r.kind = "closed" /\ ~r.aborted

(* startClosedRest: in a closed market the button says how it is connected  *)
(* once its one request is answered or fails; until then the request is     *)
(* under way and its answer will be taken.                                  *)
ClosedAnswered ==
  Working /\ ~Session.snapshot.open /\ ~button.reentered /\ ~Session.opened =>
    Session.connection # "waiting" \/ \E r \in button.requests : Awaited(r) /\ Adopts(r)

(* submitView: the view last submitted says how the session is connected.   *)
ViewUpToDate == Up(button) => button.view = Session.connection

(* startClosedRest, submitView: the button says how its session is          *)
(* connected, and in a closed market that is known once its request ends.   *)
ConnectionShown == ClosedAnswered /\ ViewUpToDate
=============================================================================
