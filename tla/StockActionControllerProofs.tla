---------------------- MODULE StockActionControllerProofs ----------------------
(* What holds of StockActionController for any numbers of sessions of the   *)
(* market and of credentials: its six invariants, which follow from one that*)
(* is inductive, IInv.                                                      *)
(*                                                                          *)
(* The operators of the model take a button to a button, and so do the      *)
(* lemmas: each says what an operator makes of any button b, in one of a few*)
(* relations between b and the outcome (Further, Over, Automatic, Moved and *)
(* so on).  The proofs of the actions compose these.                        *)
(*                                                                          *)
(* At the end, what holds of the clock the controllers go by (MarketClock)  *)
(* in any market: sessions last as announced, and a running clock is at the *)
(* present one.                                                             *)
EXTENDS StockActionController, MarketSessions, FiniteSetTheorems, WellFoundedInduction, TLAPS

(* Types.                                                                   *)

Timers == {"off", "live", "dead"}
Connections == {"waiting", "BROKEN", "BACKUP", "LIVE"}
Snapshots == [open : BOOLEAN, epoch : Nat]
AllSettings == [creds : BOOLEAN, gen : Nat, mode : {"automatic", "rest-only"}]
Subs ==
  [held : BOOLEAN, bound : BOOLEAN, desc : {"day", "night"}, phys : Phys,
   retarget : {"none", "day", "night"}, retargetLive : BOOLEAN]
Sessions ==
  [applied : AllSettings, snapshot : Snapshots, attached : BOOLEAN, valid : BOOLEAN,
   fallback : BOOLEAN, recovering : BOOLEAN, quoted : BOOLEAN, grace : Timers, poll : Timers,
   tick : Timers, recovery : Timers, sub : Subs, connection : Connections,
   closedKey : {NoKey} \cup (Nat \X Nat), opened : BOOLEAN]
Buttons ==
  [phase : {"none", "waiting", "up", "fatal"}, settings : AllSettings, session : Sessions,
   seen : Snapshots, requests : SUBSET Requests, handles : Nat, listeners : Nat,
   view : Connections, destroyed : BOOLEAN, lapsed : BOOLEAN, reentered : BOOLEAN,
   unheard : BOOLEAN]
Walls == [open : BOOLEAN, day : BOOLEAN, epoch : Nat]

-----------------------------------------------------------------------------
(* The invariant, in parts.                                                 *)

(* A policy is in force. *)
On(b) == Up(b) /\ b.session.applied.creds

(* Every request is of the session, and of the present policy unless it was *)
(* aborted; there is one backup request, which can be aborted; and one whose*)
(* answer would be taken has not been overtaken.                            *)
Accounted(R) ==
  /\ \A r \in R : r.own /\ (r.live \/ r.aborted)
  /\ \A r \in R : r.aborted => r.kind \in {"initial", "manual"}
  /\ \A r \in R : r.kind = "fallback" => r.held
  /\ \A r, q \in R : r.kind = "fallback" /\ q.kind = "fallback" => r = q
  /\ \A r \in R : r.live /\ r.fresh => ~r.overtaken

(* Outside a session nothing is under way; within one its settings are those*)
(* that are published.                                                      *)
Life(b) ==
  /\ Up(b) => b.session.applied = b.settings
  /\ b.destroyed => b.phase = "none"
  /\ ~Up(b) => b.session = NoSession /\ b.requests = {}
  /\ b.phase = "waiting" => b.view = "waiting"

Counts(b) ==
  /\ b.handles = IF b.session.sub.held THEN 1 ELSE 0
  /\ b.listeners = IF b.session.attached THEN 1 ELSE 0

(* Without credentials nothing is waited for. *)
Idle(s) ==
  /\ s.sub = NoSub /\ ~s.attached /\ ~s.fallback /\ ~s.recovering
  /\ s.grace = "off" /\ s.poll = "off" /\ s.tick = "off" /\ s.recovery = "off"
  /\ s.closedKey = NoKey

(* A subscription is listened to, and one the policy calls for. *)
Subscribed(s) ==
  /\ s.sub.held <=> s.sub.bound
  /\ ~s.sub.held => s.sub = NoSub
  /\ s.sub.held => s.applied.creds /\ s.applied.mode = "automatic" /\ s.snapshot.open

(* Neither timer of the backup is of a past policy, and the backup polls. *)
Polled(s) ==
  /\ s.poll \in {"off", "live"} /\ s.grace \in {"off", "live"}
  /\ s.fallback => s.poll = "live"
  /\ s.grace = "live" => s.sub.held

(* A feed taken to work does work, or the backup is on.  This is broken     *)
(* between a change of the feed and the handler that is told of it.         *)
Told(s) == s.sub.held /\ s.valid => s.sub.phys = "live" \/ s.fallback

Fed(s) == Polled(s) /\ Told(s)

(* In an open market a feed is waited for or works, or the backup is on. *)
Sighted(s) == s.snapshot.open => s.fallback \/ (s.sub.held /\ (s.grace = "live" \/ s.valid))

Ticking(b) == On(b) => b.session.tick = "live"
Recovers(s) == s.recovering <=> s.recovery = "live"

(* The view is that of the connection, which is known once there is a quote.*)
Shown(b) ==
  /\ Up(b) => b.view = b.session.connection
  /\ b.session.quoted => b.session.connection # "waiting"

WillBeAnswered(b) == \E r \in b.requests : Awaited(r) /\ Adopts(r)

(* The one request for a closed market has been made, and unless the market *)
(* opened since, or a policy moved on within a handler, it is still under   *)
(* way or has told how the button is connected.                             *)
Closed(b) ==
  /\ b.session.snapshot.open => b.session.opened
  /\ ~b.session.snapshot.open => b.session.closedKey = ClosedKey(b)
  /\ ~b.session.snapshot.open /\ ~b.session.opened /\ ~b.reentered =>
        b.session.connection # "waiting" \/ WillBeAnswered(b)

(* What holds throughout a handler, and what holds between two. *)
Sound(b) ==
  /\ b \in Buttons /\ ~b.lapsed
  /\ Accounted(b.requests)
  /\ Life(b)
  /\ Counts(b)
  /\ ~On(b) => Idle(b.session)
  /\ Subscribed(b.session)
  /\ Polled(b.session)
  /\ On(b) => Sighted(b.session)
  /\ ~b.unheard => Recovers(b.session)
  /\ Shown(b)
  /\ On(b) => Closed(b)

Good(b) ==
  /\ Sound(b)
  /\ Told(b.session)
  /\ ~b.unheard => Ticking(b)
SameFace(b, c) ==
  /\ c.phase = b.phase /\ c.settings = b.settings /\ c.seen = b.seen
  /\ c.listeners = b.listeners /\ c.destroyed = b.destroyed
  /\ c.lapsed = b.lapsed /\ c.reentered = b.reentered

SameOuter(b, c) ==
  /\ c.phase = b.phase /\ c.settings = b.settings /\ c.seen = b.seen
  /\ c.listeners = b.listeners /\ c.destroyed = b.destroyed
  /\ c.lapsed = b.lapsed /\ c.reentered = b.reentered /\ c.unheard = b.unheard

SameCourse(s, t) ==
  /\ t.applied = s.applied /\ t.snapshot = s.snapshot /\ t.attached = s.attached
  /\ t.valid = s.valid /\ t.quoted = s.quoted /\ t.tick = s.tick
  /\ t.closedKey = s.closedKey /\ t.opened = s.opened

Kept(b, c) == SameOuter(b, c) /\ SameCourse(b.session, c.session)

LEMMA Typing == ASSUME NEW b \in Buttons
  PROVE  /\ b.session \in Sessions /\ b.session.sub \in Subs
         /\ b.requests \subseteq Requests
BY DEF Buttons, Sessions

LEMMA SubmitFacts == ASSUME NEW b \in Buttons, NEW c, c = SubmitView(b)
  PROVE  /\ c \in Buttons /\ SameOuter(b, c)
         /\ c.session = b.session /\ c.requests = b.requests /\ c.handles = b.handles
         /\ c.view = IF Up(b) THEN b.session.connection ELSE b.view
<1>1. CASE Up(b)
  BY <1>1 DEF Buttons, Sessions, SubmitView, SameOuter
<1>2. CASE ~Up(b)
  BY <1>2 DEF SubmitView, SameOuter
<1>3. QED BY <1>1, <1>2

LEMMA ArmPollFacts == ASSUME NEW b \in Buttons, NEW c, c = ArmPoll(b, TRUE)
  PROVE  /\ c \in Buttons /\ Kept(b, c)
         /\ c.requests = b.requests /\ c.handles = b.handles /\ c.view = b.view
         /\ c.session.sub = b.session.sub /\ c.session.connection = b.session.connection
         /\ c.session.grace = b.session.grace /\ c.session.fallback = b.session.fallback
         /\ c.session.recovering = b.session.recovering /\ c.session.recovery = b.session.recovery
         /\ c.session.poll = IF b.session.poll = "off" THEN "live" ELSE b.session.poll
<1>1. CASE b.session.poll = "off"
  <2>1. [b EXCEPT !.session.poll = "live"] =
          [b EXCEPT !.session = [b.session EXCEPT !.poll = "live"]]
    OBVIOUS
  <2>2. [b.session EXCEPT !.poll = "live"] \in Sessions
    BY Typing DEF Sessions, Timers
  <2>3. PICK s \in Sessions : s = [b.session EXCEPT !.poll = "live"]
    BY <2>2
  <2>4. c = [b EXCEPT !.session = s]
    BY <1>1, <2>1, <2>3 DEF ArmPoll
  <2>5. /\ c \in Buttons /\ SameOuter(b, c) /\ c.session = s
        /\ c.requests = b.requests /\ c.handles = b.handles /\ c.view = b.view
    BY <2>4 DEF Buttons, SameOuter
  <2>. QED BY <1>1, <2>3, <2>5, Typing, ZenonT(40) DEF Kept, SameCourse, Sessions
<1>2. CASE b.session.poll # "off"
  BY <1>2 DEF ArmPoll, Kept, SameOuter, SameCourse
<1>3. QED BY <1>1, <1>2

LEMMA RequestType ==
  ASSUME NEW kind \in {"closed", "initial", "fallback", "manual"}, NEW held \in BOOLEAN
  PROVE  /\ Request(kind, held) \in Requests
         /\ Request(kind, held).kind = kind /\ Request(kind, held).held = held
         /\ Request(kind, held).live /\ Request(kind, held).fresh /\ Request(kind, held).own
         /\ ~Request(kind, held).aborted /\ ~Request(kind, held).overtaken
BY DEF Request, Requests

NoneOf(R, kind) == \A r \in R : r.kind # kind

(* One more request of this kind is under way. *)
Asks(b, c, kind) ==
  /\ c \in Buttons /\ SameOuter(b, c) /\ c.session = b.session
  /\ c.handles = b.handles /\ c.view = b.view
  /\ b.requests \subseteq c.requests /\ Accounted(c.requests)
  /\ \E q \in c.requests : q.own /\ q.kind = kind /\ ~q.aborted /\ q.live /\ q.fresh

LEMMA PerformRestFacts ==
  ASSUME NEW b \in Buttons, Accounted(b.requests), NEW kind \in {"closed", "initial", "fallback"},
         kind = "fallback" => NoneOf(b.requests, kind)
  PROVE  Asks(b, PerformRest(b, TRUE, kind), kind)
<1>0. PICK c : c = PerformRest(b, TRUE, kind)
  OBVIOUS
<1>1. {IF kind = "fallback" /\ r.kind = "fallback" THEN [r EXCEPT !.held = FALSE] ELSE r
             : r \in b.requests} = b.requests
  BY DEF NoneOf
<1>2. PICK held \in BOOLEAN : held <=> (kind = "fallback")
  OBVIOUS
<1>3. PICK q : q = Request(kind, held)
  OBVIOUS
<1>4. /\ q \in Requests /\ q.kind = kind /\ q.held = held
      /\ q.live /\ q.fresh /\ q.own /\ ~q.aborted /\ ~q.overtaken
  BY <1>3, RequestType
<1>5. q = Request(kind, kind = "fallback")
  BY <1>2, <1>3
<1>6. PICK R : R = b.requests \cup {q}
  OBVIOUS
<1>7. R \subseteq Requests
  BY <1>4, <1>6, Typing
<1>8. c = [b EXCEPT !.requests = R]
  BY <1>0, <1>1, <1>5, <1>6 DEF PerformRest
<1>9. Accounted(R)
  <2>1. \A r \in R : r \in b.requests \/ r = q
    BY <1>6
  <2>. QED BY <2>1, <1>4, <1>2 DEF Accounted, NoneOf
<1>10. /\ c \in Buttons /\ c.session = b.session /\ SameOuter(b, c) /\ c.requests = R
       /\ c.handles = b.handles /\ c.view = b.view
  BY <1>7, <1>8 DEF Buttons, SameOuter
<1>11. QED
  BY <1>0, <1>4, <1>6, <1>9, <1>10 DEF Asks

Shows(b) == Up(b) => b.view = b.session.connection

(* A backup is on, or is as it was. *)
Backed(s, t) ==
  \/ t.fallback = s.fallback /\ t.grace = s.grace /\ t.poll = s.poll
  \/ t.fallback /\ t.grace = "off" /\ t.poll = IF s.poll = "off" THEN "live" ELSE s.poll

(* What a handler of the state of the feed does at most. *)
Further(b, c) ==
  /\ c \in Buttons /\ Kept(b, c)
  /\ Accounted(c.requests) /\ b.requests \subseteq c.requests
  /\ c.handles = b.handles
  /\ c.session.sub.held = b.session.sub.held
  /\ c.session.sub.bound = b.session.sub.bound
  /\ c.session.sub.phys = b.session.sub.phys
  /\ ~b.session.sub.held => c.session.sub = b.session.sub
  /\ Shows(b) => Shows(c)
  /\ c.session.connection \in {b.session.connection, "BROKEN"}
  /\ Backed(b.session, c.session)
  /\ Recovers(b.session) => Recovers(c.session)

LEMMA FurtherSelf == ASSUME NEW b \in Buttons, Accounted(b.requests)
  PROVE  Further(b, b)
BY DEF Further, Kept, SameOuter, SameCourse, Backed

LEMMA FurtherOn ==
  ASSUME NEW b \in Buttons, NEW c, NEW d, Further(b, c), Further(c, d)
  PROVE  Further(b, d)
<1>1. Kept(b, d)
  BY DEF Further, Kept, SameOuter, SameCourse
<1>2. Backed(b.session, d.session)
  BY DEF Further, Backed
<1>3. QED BY <1>1, <1>2 DEF Further

LEMMA FurtherSubmit ==
  ASSUME NEW b \in Buttons, Accounted(b.requests), NEW c, c = SubmitView(b)
  PROVE  Further(b, c) /\ Shows(c) /\ c.session = b.session
<1>1. /\ c \in Buttons /\ SameOuter(b, c)
      /\ c.session = b.session /\ c.requests = b.requests /\ c.handles = b.handles
      /\ c.view = IF Up(b) THEN b.session.connection ELSE b.view
  BY SubmitFacts
<1>2. Kept(b, c)
  BY <1>1 DEF Kept, SameCourse
<1>3. Up(c) <=> Up(b)
  BY <1>1 DEF SameOuter, Up
<1>4. Shows(c)
  BY <1>1, <1>3 DEF Shows
<1>5. QED BY <1>1, <1>2, <1>4 DEF Further, Backed

LEMMA FurtherFallback ==
  ASSUME NEW b \in Buttons, Accounted(b.requests), NEW c, c = StartFallback(b, TRUE)
  PROVE  /\ Further(b, c) /\ c.session.fallback /\ c.session.grace = "off"
         /\ c.session.poll = IF b.session.poll = "off" THEN "live" ELSE b.session.poll
         /\ c.view = b.view /\ c.session.connection = b.session.connection
<1>1. PICK s : s = [b.session EXCEPT !.grace = "off", !.fallback = TRUE]
  OBVIOUS
<1>2. PICK b1 : b1 = [b EXCEPT !.session.grace = "off", !.session.fallback = TRUE]
  OBVIOUS
<1>3. b1 = [b EXCEPT !.session = s]
  BY <1>1, <1>2
<1>4. s \in Sessions
  BY <1>1, Typing, ZenonT(40) DEF Sessions, Timers
<1>5. /\ b1 \in Buttons /\ SameOuter(b, b1) /\ b1.session = s
      /\ b1.requests = b.requests /\ b1.handles = b.handles /\ b1.view = b.view
  BY <1>3, <1>4 DEF Buttons, SameOuter
<1>6. PICK d : d = IF FallbackUnderWay(b1) THEN b1 ELSE PerformRest(b1, TRUE, "fallback")
  OBVIOUS
<1>7. /\ d \in Buttons /\ SameOuter(b1, d) /\ d.session = b1.session
      /\ d.handles = b1.handles /\ d.view = b1.view
      /\ Accounted(d.requests) /\ b1.requests \subseteq d.requests
  <2>1. CASE FallbackUnderWay(b1)
    BY <2>1, <1>5, <1>6 DEF SameOuter
  <2>2. CASE ~FallbackUnderWay(b1)
    <3>1. NoneOf(b1.requests, "fallback")
      BY <2>2, <1>5 DEF FallbackUnderWay, Accounted, NoneOf
    <3>2. Accounted(b1.requests)
      BY <1>5
    <3>3. d = PerformRest(b1, TRUE, "fallback")
      BY <2>2, <1>6
    <3>4. Asks(b1, d, "fallback")
      BY <1>5, <3>1, <3>2, <3>3, PerformRestFacts
    <3>. QED BY <3>4 DEF Asks
  <2>3. QED BY <2>1, <2>2
<1>8. c = ArmPoll(d, TRUE)
  BY <1>2, <1>6 DEF StartFallback
<1>9. /\ c \in Buttons /\ Kept(d, c)
      /\ c.requests = d.requests /\ c.handles = d.handles /\ c.view = d.view
      /\ c.session.sub = d.session.sub /\ c.session.connection = d.session.connection
      /\ c.session.grace = d.session.grace /\ c.session.fallback = d.session.fallback
      /\ c.session.recovering = d.session.recovering /\ c.session.recovery = d.session.recovery
      /\ c.session.poll = IF d.session.poll = "off" THEN "live" ELSE d.session.poll
  BY <1>7, <1>8, ArmPollFacts
<1>10. SameOuter(b, c)
  BY <1>5, <1>7, <1>9 DEF SameOuter, Kept
<1>11. SameCourse(b.session, c.session)
  <2>1. SameCourse(b.session, s)
    BY <1>1, Typing DEF SameCourse, Sessions
  <2>2. SameCourse(s, c.session)
    BY <1>5, <1>7, <1>9 DEF Kept
  <2>. QED BY <2>1, <2>2 DEF SameCourse
<1>12. /\ c.session.fallback /\ c.session.grace = "off"
       /\ c.session.poll = IF b.session.poll = "off" THEN "live" ELSE b.session.poll
       /\ c.view = b.view /\ c.session.connection = b.session.connection
       /\ c.session.sub = b.session.sub /\ c.handles = b.handles
       /\ c.session.recovering = b.session.recovering
       /\ c.session.recovery = b.session.recovery
  <2>1. /\ s.fallback /\ s.grace = "off" /\ s.poll = b.session.poll /\ s.sub = b.session.sub
        /\ s.connection = b.session.connection /\ s.recovering = b.session.recovering
        /\ s.recovery = b.session.recovery
    BY <1>1, Typing DEF Sessions
  <2>2. d.session = s /\ d.view = b.view /\ d.handles = b.handles
    BY <1>5, <1>7
  <2>3. c.session.poll = IF s.poll = "off" THEN "live" ELSE s.poll
    BY <2>2, <1>9
  <2>4. /\ c.session.fallback /\ c.session.grace = "off"
        /\ c.session.connection = s.connection /\ c.session.sub = s.sub
        /\ c.session.recovering = s.recovering /\ c.session.recovery = s.recovery
        /\ c.view = d.view /\ c.handles = d.handles
    BY <2>1, <2>2, <1>9
  <2>. QED BY <2>1, <2>2, <2>3, <2>4
<1>13. Shows(b) => Shows(c)
  BY <1>10, <1>12 DEF Shows, SameOuter, Up
<1>14. Recovers(b.session) => Recovers(c.session)
  BY <1>12 DEF Recovers
<1>15. Backed(b.session, c.session)
  BY <1>12 DEF Backed
<1>16. Accounted(c.requests) /\ b.requests \subseteq c.requests
  BY <1>5, <1>7, <1>9
<1>17. QED
  BY <1>9, <1>10, <1>11, <1>12, <1>13, <1>14, <1>15, <1>16 DEF Further, Kept

(* The connection is broken, and that is shown. *)
Broken(b) == SubmitView([b EXCEPT !.session.connection = "BROKEN"])

LEMMA FurtherBroken ==
  ASSUME NEW b \in Buttons, Accounted(b.requests), NEW c, c = Broken(b)
  PROVE  /\ Further(b, c) /\ Shows(c)
         /\ c.session = [b.session EXCEPT !.connection = "BROKEN"]
<1>1. PICK s : s = [b.session EXCEPT !.connection = "BROKEN"]
  OBVIOUS
<1>2. PICK d : d = [b EXCEPT !.session = s]
  OBVIOUS
<1>3. s \in Sessions
  BY <1>1, Typing DEF Sessions, Connections
<1>4. /\ d \in Buttons /\ SameOuter(b, d) /\ d.session = s
      /\ d.requests = b.requests /\ d.handles = b.handles /\ d.view = b.view
  BY <1>2, <1>3 DEF Buttons, SameOuter
<1>5. c = SubmitView(d)
  BY <1>1, <1>2 DEF Broken
<1>6. Further(d, c) /\ Shows(c) /\ c.session = d.session
  BY <1>4, <1>5, FurtherSubmit
<1>7. /\ s.sub = b.session.sub /\ s.connection = "BROKEN" /\ s.fallback = b.session.fallback
      /\ s.grace = b.session.grace /\ s.poll = b.session.poll
      /\ s.recovering = b.session.recovering /\ s.recovery = b.session.recovery
      /\ SameCourse(b.session, s)
  BY <1>1, Typing DEF Sessions, SameCourse
<1>8. Kept(b, c)
  BY <1>4, <1>6, <1>7 DEF Further, Kept, SameOuter, SameCourse
<1>9. Backed(b.session, c.session) /\ (Recovers(b.session) => Recovers(c.session))
  BY <1>4, <1>6, <1>7 DEF Backed, Recovers
<1>10. QED BY <1>1, <1>4, <1>6, <1>7, <1>8, <1>9 DEF Further

LEMMA FurtherCancel ==
  ASSUME NEW b \in Buttons, Accounted(b.requests), NEW c, c = CancelRecovery(b)
  PROVE  Further(b, c)
<1>1. CASE ~b.session.recovering
  BY <1>1, FurtherSelf DEF CancelRecovery
<1>2. CASE b.session.recovering
  <2>1. PICK s : s = [b.session EXCEPT !.recovering = FALSE, !.recovery = "off"]
    OBVIOUS
  <2>2. c = [b EXCEPT !.session = s]
    BY <2>1, <1>2 DEF CancelRecovery
  <2>3. s \in Sessions
    BY <2>1, Typing, ZenonT(40) DEF Sessions, Timers
  <2>4. /\ c \in Buttons /\ SameOuter(b, c) /\ c.session = s
        /\ c.requests = b.requests /\ c.handles = b.handles /\ c.view = b.view
    BY <2>2, <2>3 DEF Buttons, SameOuter
  <2>5. /\ s.sub = b.session.sub /\ s.connection = b.session.connection
        /\ s.fallback = b.session.fallback
        /\ s.grace = b.session.grace /\ s.poll = b.session.poll
        /\ ~s.recovering /\ s.recovery = "off" /\ SameCourse(b.session, s)
    BY <2>1, Typing DEF Sessions, SameCourse
  <2>6. Backed(b.session, c.session) /\ Recovers(c.session)
    BY <2>4, <2>5 DEF Backed, Recovers
  <2>7. Shows(b) => Shows(c)
    BY <2>4, <2>5 DEF Shows, Up, SameOuter
  <2>. QED BY <2>4, <2>5, <2>6, <2>7 DEF Further, Kept
<1>3. QED BY <1>1, <1>2, Typing DEF Sessions

(* The backup is on: it polls, unless its timer is of a past policy. *)
BackedUp(s, t) ==
  t.fallback /\ t.grace = "off" /\ t.poll = IF s.poll = "off" THEN "live" ELSE s.poll

LEMMA StateFacts ==
  ASSUME NEW b \in Buttons, Accounted(b.requests), NEW phys \in Phys
  PROVE  LET c == HandleSubscriptionState(b, TRUE, phys) IN
         /\ Further(b, c) /\ Shows(c)
         /\ phys = "down" \/ (b.session.valid /\ phys = "waiting") => BackedUp(b.session, c.session)
<1>1. PICK c : c = HandleSubscriptionState(b, TRUE, phys)
  OBVIOUS
<1>2. CASE phys = "down" \/ (b.session.valid /\ phys = "waiting")
  <2>1. PICK c1 : c1 = CancelRecovery(b)
    OBVIOUS
  <2>2. PICK c2 : c2 = Broken(c1)
    OBVIOUS
  <2>3. c = StartFallback(c2, TRUE)
    BY <1>1, <1>2, <2>1, <2>2 DEF HandleSubscriptionState, Broken
  <2>4. Further(b, c1)
    BY <2>1, FurtherCancel
  <2>5. c1 \in Buttons /\ Accounted(c1.requests)
    BY <2>4 DEF Further
  <2>6. Further(c1, c2) /\ Shows(c2)
    BY <2>2, <2>5, FurtherBroken
  <2>7. c2 \in Buttons /\ Accounted(c2.requests)
    BY <2>6 DEF Further
  <2>8. /\ Further(c2, c) /\ BackedUp(c2.session, c.session)
        /\ c.view = c2.view /\ c.session.connection = c2.session.connection
    BY <2>3, <2>7, FurtherFallback DEF BackedUp
  <2>9. Further(b, c2)
    BY <2>4, <2>6, FurtherOn
  <2>10. Further(b, c)
    BY <2>8, <2>9, FurtherOn
  <2>11. Shows(c)
    BY <2>6, <2>8 DEF Shows, Further
  <2>12. c2.session.poll = b.session.poll \/ BackedUp(b.session, c2.session)
    BY <2>9 DEF Further, Backed, BackedUp
  <2>13. BackedUp(b.session, c.session)
    BY <2>8, <2>12 DEF BackedUp
  <2>. QED BY <1>1, <2>10, <2>11, <2>13
<1>3. CASE ~(phys = "down" \/ (b.session.valid /\ phys = "waiting"))
  <2>1. c = SubmitView(b)
    BY <1>1, <1>3 DEF HandleSubscriptionState
  <2>. QED BY <1>1, <1>3, <2>1, FurtherSubmit
<1>4. QED BY <1>2, <1>3

LEMMA FailureFacts ==
  ASSUME NEW b \in Buttons, Accounted(b.requests)
  PROVE  LET c == HandleRetargetFailure(b, TRUE) IN
         /\ Further(b, c) /\ BackedUp(b.session, c.session)
         /\ ~b.session.quoted => Shows(c)
<1>1. PICK c : c = HandleRetargetFailure(b, TRUE)
  OBVIOUS
<1>2. PICK d : d = IF b.session.quoted THEN b ELSE Broken(b)
  OBVIOUS
<1>3. /\ Further(b, d) /\ (~b.session.quoted => Shows(d))
      /\ d.session.poll = b.session.poll
  <2>1. CASE b.session.quoted
    BY <2>1, <1>2, FurtherSelf
  <2>2. CASE ~b.session.quoted
    <3>1. /\ Further(b, d) /\ Shows(d)
          /\ d.session = [b.session EXCEPT !.connection = "BROKEN"]
      BY <2>2, <1>2, FurtherBroken
    <3>2. d.session.poll = b.session.poll
      BY <3>1, Typing DEF Sessions
    <3>. QED BY <3>1, <3>2
  <2>3. QED BY <2>1, <2>2
<1>4. c = StartFallback(d, TRUE)
  BY <1>1, <1>2 DEF HandleRetargetFailure, Broken
<1>5. /\ Further(d, c) /\ BackedUp(d.session, c.session)
      /\ c.view = d.view /\ c.session.connection = d.session.connection
  <2>1. d \in Buttons /\ Accounted(d.requests)
    BY <1>3 DEF Further
  <2>. QED BY <1>4, <2>1, FurtherFallback DEF BackedUp
<1>6. Further(b, c)
  BY <1>3, <1>5, FurtherOn
<1>7. ~b.session.quoted => Shows(c)
  BY <1>3, <1>5 DEF Shows, Further
<1>8. BackedUp(b.session, c.session)
  BY <1>3, <1>5 DEF BackedUp
<1>9. QED BY <1>1, <1>6, <1>7, <1>8

LEMMA RetargetFacts ==
  ASSUME NEW b \in Buttons, Accounted(b.requests), b.session.sub.held,
         NEW next \in {"day", "night"}, NEW outcome \in Outcomes
  PROVE  LET c == BeginRetarget(b, TRUE, next, outcome) IN
         /\ Further(b, c)
         /\ b.session.sub.retarget = "none" /\ outcome = "refused" =>
              BackedUp(b.session, c.session) /\ (~b.session.quoted => Shows(c))
<1>1. PICK c : c = BeginRetarget(b, TRUE, next, outcome)
  OBVIOUS
<1>2. CASE b.session.sub.retarget # "none"
  BY <1>1, <1>2, FurtherSelf DEF BeginRetarget
<1>3. CASE b.session.sub.retarget = "none" /\ outcome = "refused"
  <2>1. c = HandleRetargetFailure(b, TRUE)
    BY <1>1, <1>3 DEF BeginRetarget
  <2>. QED BY <1>1, <2>1, FailureFacts
<1>4. CASE b.session.sub.retarget = "none" /\ outcome # "refused"
  <2>1. PICK u : u = [b.session.sub EXCEPT !.retarget = next, !.retargetLive = TRUE]
    OBVIOUS
  <2>2. PICK s : s = [b.session EXCEPT !.sub = u]
    OBVIOUS
  <2>3. c = [b EXCEPT !.session.sub.retarget = next, !.session.sub.retargetLive = TRUE]
    BY <1>1, <1>4 DEF BeginRetarget
  <2>4. c = [b EXCEPT !.session = s]
    BY <2>1, <2>2, <2>3
  <2>5. u \in Subs
    BY <2>1, Typing DEF Subs
  <2>6. s \in Sessions
    BY <2>2, <2>5, Typing DEF Sessions
  <2>7. /\ c \in Buttons /\ SameOuter(b, c) /\ c.session = s
        /\ c.requests = b.requests /\ c.handles = b.handles /\ c.view = b.view
    BY <2>4, <2>6 DEF Buttons, SameOuter
  <2>8. /\ u.held = b.session.sub.held /\ u.bound = b.session.sub.bound
        /\ u.phys = b.session.sub.phys
    BY <2>1, Typing DEF Subs
  <2>9. /\ s.sub = u /\ SameCourse(b.session, s) /\ s.connection = b.session.connection
        /\ s.recovering = b.session.recovering /\ s.recovery = b.session.recovery
        /\ Backed(b.session, s)
    BY <2>2, Typing DEF Sessions, SameCourse, Backed
  <2>10. Shows(b) => Shows(c)
    BY <2>7, <2>9 DEF Shows, Up, SameOuter
  <2>11. Recovers(b.session) => Recovers(c.session)
    BY <2>7, <2>9 DEF Recovers
  <2>12. Further(b, c)
    BY <2>7, <2>8, <2>9, <2>10, <2>11 DEF Further, Kept
  <2>. QED BY <1>1, <1>4, <2>12
<1>5. QED BY <1>2, <1>3, <1>4

ArmedOrBacked(s) == s.fallback \/ (s.sub.held /\ s.grace = "live")

(* What startAutomaticRealtime leaves. *)
Automatic(b, d) ==
  /\ d \in Buttons /\ Kept(b, d) /\ Accounted(d.requests) /\ Shows(d)
  /\ d.handles = IF d.session.sub.held THEN 1 ELSE 0
  /\ d.session.sub.held <=> d.session.sub.bound
  /\ ~d.session.sub.held => d.session.sub = NoSub
  /\ b.session.sub.held => d.session.sub.held /\ d.session.sub.phys = b.session.sub.phys
  /\ Fed(d.session)
  /\ ArmedOrBacked(d.session)
  /\ b.session.quoted => d.session.connection \in {b.session.connection, "BROKEN"}
  /\ Recovers(d.session)

(* What the policy has been cleared to before: nothing waits, and nothing   *)
(* is heard of the subscription.                                            *)
Cleared(b) ==
  /\ b \in Buttons /\ Up(b) /\ Accounted(b.requests) /\ Shows(b)
  /\ b.handles = IF b.session.sub.held THEN 1 ELSE 0
  /\ ~b.session.sub.held => b.session.sub = NoSub
  /\ ~b.session.valid /\ ~b.session.fallback /\ Recovers(b.session)
  /\ b.session.grace = "off" /\ b.session.poll = "off"

LEMMA GraceFacts ==
  ASSUME NEW b \in Buttons
  PROVE  LET c == ArmGrace(b, TRUE) IN
         /\ c \in Buttons /\ Kept(b, c) /\ c.requests = b.requests /\ c.handles = b.handles
         /\ c.view = b.view /\ c.session = [b.session EXCEPT !.grace = "live"]
<1>1. PICK c : c = ArmGrace(b, TRUE)
  OBVIOUS
<1>2. PICK s : s = [b.session EXCEPT !.grace = "live"]
  OBVIOUS
<1>3. c = [b EXCEPT !.session = s]
  BY <1>1, <1>2 DEF ArmGrace, Armed
<1>4. s \in Sessions /\ SameCourse(b.session, s)
  BY <1>2, Typing DEF Sessions, SameCourse, Timers
<1>5. /\ c \in Buttons /\ SameOuter(b, c) /\ c.session = s
      /\ c.requests = b.requests /\ c.handles = b.handles /\ c.view = b.view
  BY <1>3, <1>4 DEF Buttons, SameOuter
<1>6. QED BY <1>1, <1>2, <1>4, <1>5 DEF Kept

(* Grace is waited for unless the backup is on already. *)
LEMMA WaitOrBack ==
  ASSUME NEW c \in Buttons, Accounted(c.requests), Shows(c), Recovers(c.session),
         c.session.sub.held, c.session.sub.bound, c.handles = 1, ~c.session.valid,
         c.session.poll \in {"off", "live"}, c.session.grace \in {"off", "live"},
         c.session.fallback => c.session.poll = "live",
         NEW d, d = IF c.session.fallback THEN c ELSE ArmGrace(c, TRUE)
  PROVE  Automatic(c, d) /\ d.session.sub = c.session.sub
                         /\ d.session.connection = c.session.connection
<1>1. CASE c.session.fallback
  <2>1. Kept(c, c)
    BY DEF Kept, SameOuter, SameCourse
  <2>. QED BY <1>1, <2>1, Typing DEF Automatic, Fed, Polled, Told, ArmedOrBacked, Sessions, Subs
<1>2. CASE ~c.session.fallback
  <2>1. /\ d \in Buttons /\ Kept(c, d) /\ d.requests = c.requests /\ d.handles = c.handles
        /\ d.view = c.view /\ d.session = [c.session EXCEPT !.grace = "live"]
    BY <1>2, GraceFacts
  <2>2. /\ d.session.sub = c.session.sub /\ d.session.connection = c.session.connection
        /\ d.session.fallback = c.session.fallback /\ d.session.poll = c.session.poll
        /\ d.session.grace = "live" /\ d.session.recovering = c.session.recovering
        /\ d.session.recovery = c.session.recovery /\ d.session.valid = c.session.valid
    BY <2>1, Typing DEF Sessions
  <2>3. Shows(d)
    BY <2>1, <2>2 DEF Shows, Up, Kept, SameOuter
  <2>4. Fed(d.session) /\ ArmedOrBacked(d.session) /\ Recovers(d.session)
    BY <1>2, <2>2 DEF Fed, Polled, Told, ArmedOrBacked, Recovers
  <2>. QED BY <1>2, <2>1, <2>2, <2>3, <2>4 DEF Automatic
<1>3. QED BY <1>1, <1>2

LEMMA BackedFromOff ==
  ASSUME NEW s, NEW t, Backed(s, t), ~s.fallback, s.grace = "off", s.poll = "off"
  PROVE  /\ t.grace = "off" /\ t.poll \in {"off", "live"}
         /\ t.fallback => t.poll = "live"
BY DEF Backed

LEMMA DescriptorType == ASSUME wall \in Walls
  PROVE  Descriptor \in {"day", "night"}
BY DEF Descriptor, Walls

LEMMA NoSubType ==
  /\ NoSub \in Subs /\ ~NoSub.held /\ ~NoSub.bound /\ NoSub.retarget = "none"
  /\ ~NoSub.retargetLive
BY DEF NoSub, Subs, Phys

(* From one clearing to the end of startAutomaticRealtime. *)
LEMMA AutomaticFrom ==
  ASSUME NEW b \in Buttons, Up(b), NEW c \in Buttons, Kept(b, c),
         NEW d, Automatic(c, d),
         b.session.sub.held => c.session.sub.held /\ c.session.sub.phys = b.session.sub.phys,
         b.session.quoted => c.session.connection \in {b.session.connection, "BROKEN"}
  PROVE  Automatic(b, d)
<1>1. Kept(b, d)
  BY DEF Automatic, Kept, SameOuter, SameCourse
<1>2. c.session.quoted = b.session.quoted
  BY DEF Kept, SameCourse
<1>3. QED BY <1>1, <1>2 DEF Automatic

LEMMA AutomaticHeld ==
  ASSUME wall \in Walls, NEW b, Cleared(b), b.session.sub.held, NEW outcome \in Outcomes
  PROVE  Automatic(b, StartAutomaticRealtime(b, TRUE, outcome))
<1>1. PICK d : d = StartAutomaticRealtime(b, TRUE, outcome)
  OBVIOUS
<1> DEFINE stays == b.session.sub.desc = Descriptor
           c0 == [b EXCEPT !.session.connection = IF b.session.quoted THEN @ ELSE "waiting"]
           kept0 == [c0 EXCEPT !.session.sub.bound = TRUE]
           moved0 == IF stays THEN kept0 ELSE BeginRetarget(kept0, TRUE, Descriptor, outcome)
           told0 == HandleSubscriptionState(moved0, TRUE, b.session.sub.phys)
<1>a. d = IF ~stays /\ outcome = "refused" /\ b.session.sub.retarget = "none" THEN moved0
          ELSE IF told0.session.fallback THEN told0 ELSE ArmGrace(told0, TRUE)
  BY <1>1 DEF StartAutomaticRealtime
<1>2. PICK c : c = c0
  OBVIOUS
<1>3. PICK kept : kept = [c EXCEPT !.session.sub.bound = TRUE]
  OBVIOUS
<1>5. PICK moved : moved = IF stays THEN kept ELSE BeginRetarget(kept, TRUE, Descriptor, outcome)
  OBVIOUS
<1>6. PICK told : told = HandleSubscriptionState(moved, TRUE, b.session.sub.phys)
  OBVIOUS
<1>b. kept = kept0
  BY <1>2, <1>3
<1> HIDE DEF kept0
<1>c. moved = moved0
  BY <1>5, <1>b
<1> HIDE DEF moved0
<1>d. told = told0
  BY <1>6, <1>c
<1> HIDE DEF told0, stays
<1>7. d = IF ~stays /\ outcome = "refused" /\ b.session.sub.retarget = "none" THEN moved
          ELSE IF told.session.fallback THEN told ELSE ArmGrace(told, TRUE)
  BY <1>a, <1>c, <1>d
<1>8. b \in Buttons /\ Accounted(b.requests) /\ Up(b)
  BY DEF Cleared
<1>9. PICK t : t = [b.session EXCEPT !.connection = IF b.session.quoted THEN @ ELSE "waiting"]
  OBVIOUS
<1>10. t \in Sessions
  BY <1>8, <1>9, Typing DEF Sessions, Connections
<1>11. c = [b EXCEPT !.session = t]
  BY <1>2, <1>9
<1>12. PICK u : u = [b.session.sub EXCEPT !.bound = TRUE]
  OBVIOUS
<1>13. u \in Subs
  BY <1>8, <1>12, Typing DEF Subs
<1>14. PICK s : s = [t EXCEPT !.sub = u]
  OBVIOUS
<1>15. s \in Sessions
  BY <1>10, <1>13, <1>14 DEF Sessions
<1>16. /\ c \in Buttons /\ SameOuter(b, c) /\ c.session = t
       /\ c.requests = b.requests /\ c.handles = b.handles /\ c.view = b.view
  BY <1>8, <1>10, <1>11 DEF Buttons, SameOuter
<1>17. /\ t.sub = b.session.sub /\ SameCourse(b.session, t)
       /\ t.connection = IF b.session.quoted THEN b.session.connection ELSE "waiting"
       /\ t.fallback = b.session.fallback /\ t.grace = b.session.grace /\ t.poll = b.session.poll
       /\ t.recovering = b.session.recovering /\ t.recovery = b.session.recovery
  BY <1>8, <1>9, Typing DEF Sessions, SameCourse
<1>18. kept = [c EXCEPT !.session = s]
  BY <1>3, <1>12, <1>14, <1>16, <1>17
<1>19. /\ kept \in Buttons /\ SameOuter(c, kept) /\ kept.session = s
       /\ kept.requests = c.requests /\ kept.handles = c.handles /\ kept.view = c.view
  BY <1>15, <1>16, <1>18 DEF Buttons, SameOuter
<1>20. /\ s.sub = u /\ SameCourse(t, s)
       /\ s.connection = t.connection
       /\ s.fallback = t.fallback /\ s.grace = t.grace /\ s.poll = t.poll
       /\ s.recovering = t.recovering /\ s.recovery = t.recovery
  BY <1>10, <1>14 DEF Sessions, SameCourse
<1>21. u.held /\ u.bound /\ u.phys = b.session.sub.phys /\ u.retarget = b.session.sub.retarget
  BY <1>8, <1>12, Typing DEF Subs
<1>22. /\ kept.session.sub.held /\ kept.session.sub.bound
       /\ kept.session.sub.phys = b.session.sub.phys
       /\ kept.session.sub.retarget = b.session.sub.retarget
       /\ ~kept.session.valid /\ kept.handles = 1
       /\ ~kept.session.fallback /\ kept.session.grace = "off" /\ kept.session.poll = "off"
       /\ Recovers(kept.session) /\ Accounted(kept.requests)
  BY <1>16, <1>17, <1>19, <1>20, <1>21 DEF Cleared, Recovers, SameCourse
<1>23. Kept(b, kept)
  BY <1>16, <1>17, <1>19, <1>20 DEF Kept, SameOuter, SameCourse
<1>24. b.session.quoted => kept.session.connection = b.session.connection
  BY <1>17, <1>19, <1>20
<1>25. Descriptor \in {"day", "night"}
  BY DescriptorType
<1>26. /\ Further(kept, moved)
       /\ ~stays /\ outcome = "refused" /\ b.session.sub.retarget = "none" =>
            BackedUp(kept.session, moved.session) /\ (~kept.session.quoted => Shows(moved))
  <2>1. CASE stays
    BY <2>1, <1>5, <1>19, <1>22, FurtherSelf
  <2>2. CASE ~stays
    BY <2>2, <1>5, <1>19, <1>22, <1>25, RetargetFacts
  <2>3. QED BY <2>1, <2>2
<1>27. CASE ~stays /\ outcome = "refused" /\ b.session.sub.retarget = "none"
  <2>1. d = moved
    BY <1>7, <1>27
  <2>2. /\ Further(kept, d) /\ BackedUp(kept.session, d.session)
        /\ ~kept.session.quoted => Shows(d)
    BY <2>1, <1>26, <1>27
  <2>3. kept.session.quoted = b.session.quoted
    BY <1>23 DEF Kept, SameCourse
  <2>4. Shows(d)
    <3>1. CASE b.session.quoted
      <4>1. Shows(kept)
        BY <3>1, <1>16, <1>19, <1>24 DEF Cleared, Shows, Up, SameOuter
      <4>. QED BY <2>2, <4>1 DEF Further
    <3>2. CASE ~b.session.quoted
      BY <2>2, <2>3, <3>2
    <3>3. QED BY <3>1, <3>2
  <2>5. /\ d \in Buttons /\ Accounted(d.requests) /\ Recovers(d.session) /\ Kept(kept, d)
        /\ d.session.sub.held /\ d.session.sub.bound /\ d.handles = 1
        /\ d.session.sub.phys = b.session.sub.phys /\ ~d.session.valid
        /\ d.session.connection \in {kept.session.connection, "BROKEN"}
    BY <1>22, <2>2 DEF Further, Kept, SameCourse
  <2>6. Fed(d.session) /\ ArmedOrBacked(d.session)
    BY <1>22, <2>2, <2>5 DEF BackedUp, Fed, Polled, Told, ArmedOrBacked
  <2>7. Kept(b, d)
    BY <1>23, <2>5 DEF Kept, SameOuter, SameCourse
  <2>8. Automatic(b, d)
    BY <1>24, <2>4, <2>5, <2>6, <2>7 DEF Automatic
  <2>. QED BY <1>1, <2>8
<1>28. CASE ~(~stays /\ outcome = "refused" /\ b.session.sub.retarget = "none")
  <2>1. d = IF told.session.fallback THEN told ELSE ArmGrace(told, TRUE)
    BY <1>7, <1>28
  <2>2. moved \in Buttons /\ Accounted(moved.requests)
    BY <1>26 DEF Further
  <2>3. b.session.sub.phys \in Phys
    BY <1>8, Typing DEF Subs
  <2>4. Further(moved, told) /\ Shows(told)
    BY <1>6, <2>2, <2>3, StateFacts
  <2>5. Further(kept, told)
    BY <1>19, <1>26, <2>4, FurtherOn
  <2>6. /\ told.session.grace = "off" /\ told.session.poll \in {"off", "live"}
        /\ told.session.fallback => told.session.poll = "live"
    BY <1>22, <2>5, BackedFromOff DEF Further
  <2>7. /\ told \in Buttons /\ Accounted(told.requests) /\ Recovers(told.session)
        /\ told.session.sub.held /\ told.session.sub.bound /\ told.handles = 1
        /\ ~told.session.valid /\ Kept(kept, told)
        /\ told.session.sub.phys = kept.session.sub.phys
        /\ told.session.connection \in {kept.session.connection, "BROKEN"}
    BY <1>22, <2>5 DEF Further, Kept, SameCourse
  <2>8. Automatic(told, d)
    BY <2>1, <2>4, <2>6, <2>7, WaitOrBack
  <2>9. Kept(b, told)
    BY <1>23, <2>7 DEF Kept, SameOuter, SameCourse
  <2>10. Automatic(b, d)
    BY <1>8, <1>22, <1>24, <2>7, <2>8, <2>9, AutomaticFrom
  <2>. QED BY <1>1, <2>10
<1>29. QED BY <1>27, <1>28

LEMMA ReleaseFacts ==
  ASSUME NEW b \in Buttons, b.handles = IF b.session.sub.held THEN 1 ELSE 0
  PROVE  LET c == ReleaseSubscription(b) IN
         /\ c \in Buttons /\ Kept(b, c) /\ c.requests = b.requests /\ c.view = b.view
         /\ c.handles = 0 /\ c.session = [b.session EXCEPT !.sub = NoSub]
<1>1. PICK c : c = ReleaseSubscription(b)
  OBVIOUS
<1>2. PICK s : s = [b.session EXCEPT !.sub = NoSub]
  OBVIOUS
<1>3. PICK n : n = IF b.session.sub.held THEN b.handles - 1 ELSE b.handles
  OBVIOUS
<1>4. c = [b EXCEPT !.session = s, !.handles = n]
  BY <1>1, <1>2, <1>3 DEF ReleaseSubscription
<1>5. n = 0
  BY <1>3
<1>6. s \in Sessions /\ SameCourse(b.session, s)
  BY <1>2, Typing, NoSubType DEF Sessions, SameCourse
<1>7. /\ c \in Buttons /\ SameOuter(b, c) /\ c.session = s
      /\ c.requests = b.requests /\ c.handles = n /\ c.view = b.view
  BY <1>4, <1>5, <1>6 DEF Buttons, SameOuter
<1>8. QED BY <1>1, <1>2, <1>5, <1>6, <1>7 DEF Kept

LEMMA AutomaticNew ==
  ASSUME wall \in Walls, NEW b, Cleared(b), ~b.session.sub.held, NEW outcome \in Outcomes
  PROVE  Automatic(b, StartAutomaticRealtime(b, TRUE, outcome))
<1>1. PICK d : d = StartAutomaticRealtime(b, TRUE, outcome)
  OBVIOUS
<1> DEFINE c0 == [b EXCEPT !.session.connection = IF b.session.quoted THEN @ ELSE "waiting"]
           released0 == ReleaseSubscription(c0)
           failed0 == [released0 EXCEPT !.session.connection = "BROKEN"]
           made0 == [released0 EXCEPT
                !.session.sub = [NoSub EXCEPT !.held = TRUE, !.bound = TRUE,
                                              !.desc = Descriptor, !.phys = outcome],
                !.handles = @ + 1]
           heard0 == SubmitView(HandleSubscriptionState(made0, TRUE, outcome))
<1>a. d = IF outcome = "refused" THEN StartFallback(SubmitView(failed0), TRUE)
          ELSE IF heard0.session.fallback THEN heard0 ELSE ArmGrace(heard0, TRUE)
  BY <1>1 DEF StartAutomaticRealtime
<1>2. PICK c : c = c0
  OBVIOUS
<1>3. PICK released : released = ReleaseSubscription(c)
  OBVIOUS
<1>b. released = released0
  BY <1>2, <1>3
<1> HIDE DEF released0
<1>8. b \in Buttons /\ Accounted(b.requests) /\ Up(b)
  BY DEF Cleared
<1>9. PICK t : t = [b.session EXCEPT !.connection = IF b.session.quoted THEN @ ELSE "waiting"]
  OBVIOUS
<1>10. t \in Sessions
  BY <1>8, <1>9, Typing DEF Sessions, Connections
<1>11. c = [b EXCEPT !.session = t]
  BY <1>2, <1>9
<1>12. /\ c \in Buttons /\ SameOuter(b, c) /\ c.session = t
       /\ c.requests = b.requests /\ c.handles = b.handles /\ c.view = b.view
  BY <1>8, <1>10, <1>11 DEF Buttons, SameOuter
<1>13. /\ t.sub = b.session.sub /\ SameCourse(b.session, t)
       /\ t.connection = IF b.session.quoted THEN b.session.connection ELSE "waiting"
       /\ t.fallback = b.session.fallback /\ t.grace = b.session.grace /\ t.poll = b.session.poll
       /\ t.recovering = b.session.recovering /\ t.recovery = b.session.recovery
  BY <1>8, <1>9, Typing DEF Sessions, SameCourse
<1>14. c.handles = IF c.session.sub.held THEN 1 ELSE 0
  BY <1>12, <1>13 DEF Cleared
<1>15. /\ released \in Buttons /\ Kept(c, released) /\ released.requests = c.requests
       /\ released.view = c.view /\ released.handles = 0
       /\ released.session = [c.session EXCEPT !.sub = NoSub]
  BY <1>3, <1>12, <1>14, ReleaseFacts
<1>16. /\ released.session.sub = NoSub
       /\ released.session.connection = t.connection
       /\ released.session.fallback = t.fallback /\ released.session.grace = t.grace
       /\ released.session.poll = t.poll
       /\ released.session.recovering = t.recovering /\ released.session.recovery = t.recovery
  BY <1>12, <1>10, <1>15 DEF Sessions
<1>17. Kept(b, released) /\ Accounted(released.requests) /\ ~released.session.valid
  BY <1>8, <1>12, <1>13, <1>15 DEF Kept, SameOuter, SameCourse, Cleared
<1>18. /\ ~released.session.fallback /\ released.session.grace = "off"
       /\ released.session.poll = "off" /\ Recovers(released.session)
       /\ b.session.quoted => released.session.connection = b.session.connection
  BY <1>13, <1>16 DEF Cleared, Recovers
<1>19. CASE outcome = "refused"
  <2>1. d = StartFallback(SubmitView(failed0), TRUE)
    BY <1>a, <1>19
  <2>2. PICK e : e = Broken(released)
    OBVIOUS
  <2>3. d = StartFallback(e, TRUE)
    BY <2>1, <2>2, <1>b DEF Broken
  <2>4. Further(released, e) /\ Shows(e)
    BY <1>15, <1>17, <2>2, FurtherBroken
  <2>5. e \in Buttons /\ Accounted(e.requests)
    BY <2>4 DEF Further
  <2>6. /\ Further(e, d) /\ d.session.fallback /\ d.session.grace = "off"
        /\ d.view = e.view /\ d.session.connection = e.session.connection
    BY <2>3, <2>5, FurtherFallback
  <2>7. Further(released, d)
    BY <1>15, <2>4, <2>6, FurtherOn
  <2>8. Shows(d)
    BY <2>4, <2>6 DEF Shows, Up, Further, Kept, SameOuter
  <2>9. /\ d.session.grace = "off" /\ d.session.poll \in {"off", "live"}
        /\ d.session.fallback => d.session.poll = "live"
    BY <1>18, <2>7, BackedFromOff DEF Further
  <2>10. /\ d \in Buttons /\ Accounted(d.requests) /\ Recovers(d.session) /\ Kept(released, d)
         /\ d.session.sub = NoSub /\ d.handles = 0
         /\ d.session.connection \in {released.session.connection, "BROKEN"}
    BY <1>15, <1>16, <1>18, <2>7, NoSubType DEF Further
  <2>11. Fed(d.session) /\ ArmedOrBacked(d.session)
    BY <2>6, <2>9, <2>10, NoSubType DEF Fed, Polled, Told, ArmedOrBacked
  <2>12. Kept(b, d)
    BY <1>17, <2>10 DEF Kept, SameOuter, SameCourse
  <2>13. Automatic(b, d)
    BY <1>18, <2>8, <2>10, <2>11, <2>12, NoSubType DEF Automatic
  <2>. QED BY <1>1, <2>13
<1>20. CASE outcome # "refused"
  <2>1. d = IF heard0.session.fallback THEN heard0 ELSE ArmGrace(heard0, TRUE)
    BY <1>a, <1>20
  <2>2. PICK u : u = [NoSub EXCEPT !.held = TRUE, !.bound = TRUE,
                                   !.desc = Descriptor, !.phys = outcome]
    OBVIOUS
  <2>3. PICK made : made = made0
    OBVIOUS
  <2>4. PICK s : s = [released.session EXCEPT !.sub = u]
    OBVIOUS
  <2>n. PICK n \in Nat : n = 1
    OBVIOUS
  <2>m. made = [released EXCEPT !.session = s, !.handles = released.handles + 1]
    BY <2>2, <2>3, <2>4, <1>b
  <2>5. made = [released EXCEPT !.session = s, !.handles = n]
    BY <1>15, <2>n, <2>m
  <2>6. Descriptor \in {"day", "night"} /\ outcome \in Phys
    BY <1>20, DescriptorType DEF Outcomes
  <2>7. u \in Subs /\ u.held /\ u.bound /\ u.phys = outcome
    BY <2>2, <2>6, NoSubType DEF Subs
  <2>8. s \in Sessions
    BY <1>15, <2>4, <2>7, Typing DEF Sessions
  <2>9. /\ made \in Buttons /\ SameOuter(released, made) /\ made.session = s
        /\ made.requests = released.requests /\ made.handles = 1 /\ made.view = released.view
    BY <1>15, <2>n, <2>5, <2>8 DEF Buttons, SameOuter
  <2>10. /\ s.sub = u /\ SameCourse(released.session, s)
         /\ s.connection = released.session.connection
         /\ s.fallback = released.session.fallback /\ s.grace = released.session.grace
         /\ s.poll = released.session.poll
         /\ s.recovering = released.session.recovering
         /\ s.recovery = released.session.recovery
    BY <1>15, <2>4, Typing DEF Sessions, SameCourse
  <2>11. PICK e : e = HandleSubscriptionState(made, TRUE, outcome)
    OBVIOUS
  <2>12. PICK heard : heard = SubmitView(e)
    OBVIOUS
  <2>13. heard = heard0
    BY <2>3, <2>11, <2>12
  <2> HIDE DEF made0, heard0
  <2>14. d = IF heard.session.fallback THEN heard ELSE ArmGrace(heard, TRUE)
    BY <2>1, <2>13
  <2>15. Accounted(made.requests)
    BY <1>17, <2>9
  <2>16. Further(made, e) /\ Shows(e)
    BY <2>6, <2>9, <2>11, <2>15, StateFacts
  <2>17. e \in Buttons /\ Accounted(e.requests)
    BY <2>16 DEF Further
  <2>18. Further(e, heard) /\ Shows(heard)
    BY <2>12, <2>17, FurtherSubmit
  <2>19. Further(made, heard)
    BY <2>9, <2>16, <2>18, FurtherOn
  <2>20. ~s.fallback /\ s.grace = "off" /\ s.poll = "off" /\ Recovers(s) /\ ~s.valid
    BY <1>17, <1>18, <2>10 DEF Recovers, SameCourse
  <2>21. /\ heard.session.grace = "off" /\ heard.session.poll \in {"off", "live"}
         /\ heard.session.fallback => heard.session.poll = "live"
    BY <2>9, <2>19, <2>20, BackedFromOff DEF Further
  <2>22. /\ heard \in Buttons /\ Accounted(heard.requests) /\ Recovers(heard.session)
         /\ heard.session.sub.held /\ heard.session.sub.bound /\ heard.handles = 1
         /\ ~heard.session.valid /\ Kept(made, heard)
         /\ heard.session.connection \in {made.session.connection, "BROKEN"}
    BY <2>7, <2>9, <2>10, <2>19, <2>20 DEF Further, Kept, SameCourse
  <2>23. Automatic(heard, d)
    BY <2>14, <2>18, <2>21, <2>22, WaitOrBack
  <2>24. Kept(b, heard)
    BY <1>17, <2>9, <2>10, <2>22 DEF Kept, SameOuter, SameCourse
  <2>25. b.session.quoted => heard.session.connection \in {b.session.connection, "BROKEN"}
    BY <1>18, <2>9, <2>10, <2>22
  <2>26. Automatic(b, d)
    BY <1>8, <2>22, <2>23, <2>24, <2>25, AutomaticFrom
  <2>. QED BY <1>1, <2>26
<1>21. QED BY <1>19, <1>20

(* What a policy that is over leaves of its requests. *)
Quiet(R) ==
  \A r \in R : r.own /\ ~r.live /\ r.aborted /\ r.kind \in {"initial", "manual"}

LEMMA QuietAccounted == ASSUME NEW R, Quiet(R)
  PROVE  Accounted(R)
BY DEF Quiet, Accounted

(* What stays of a session when its policy is over. *)
Over(s, t) ==
  /\ t.applied = s.applied /\ t.snapshot = s.snapshot /\ t.attached = s.attached
  /\ t.valid = s.valid /\ t.quoted = s.quoted /\ t.closedKey = s.closedKey
  /\ t.opened = s.opened /\ t.connection = s.connection
  /\ t.grace = "off" /\ t.poll = "off" /\ t.tick = "off" /\ t.recovery = "off"
  /\ ~t.recovering /\ ~t.fallback

LEMMA BumpFacts ==
  ASSUME NEW b \in Buttons, \A r \in b.requests : r.own
  PROVE  LET c == BumpPolicy(b) IN
         /\ c \in Buttons /\ SameOuter(b, c) /\ c.handles = b.handles /\ c.view = b.view
         /\ \A r \in c.requests : r.own /\ ~r.live
         /\ c.session.applied = b.session.applied /\ c.session.snapshot = b.session.snapshot
         /\ c.session.attached = b.session.attached /\ c.session.valid = b.session.valid
         /\ c.session.quoted = b.session.quoted /\ c.session.closedKey = b.session.closedKey
         /\ c.session.opened = b.session.opened
         /\ c.session.connection = b.session.connection
         /\ c.session.sub.held = b.session.sub.held /\ c.session.sub.phys = b.session.sub.phys
         /\ b.session.sub = NoSub => c.session.sub = NoSub
<1>1. PICK c : c = BumpPolicy(b)
  OBVIOUS
<1>2. PICK u : u = [b.session.sub EXCEPT !.bound = FALSE, !.retargetLive = FALSE]
  OBVIOUS
<1>3. PICK g, p, k, v : /\ g = Past(b.session.grace) /\ p = Past(b.session.poll)
                        /\ k = Past(b.session.tick) /\ v = Past(b.session.recovery)
  OBVIOUS
<1>4. PICK s : s = [b.session EXCEPT !.grace = g, !.poll = p, !.tick = k, !.recovery = v, !.sub = u]
  OBVIOUS
<1>5. PICK R : R = {[r EXCEPT !.live = FALSE, !.overtaken = TRUE] :
                    r \in {q \in b.requests : q.live \/ q.fresh \/ q.kind = "manual"}}
  OBVIOUS
<1>6. c = [b EXCEPT !.session.grace = g, !.session.poll = p, !.session.tick = k,
                    !.session.recovery = v, !.session.sub.bound = FALSE,
                    !.session.sub.retargetLive = FALSE, !.requests = R]
  BY <1>1, <1>3, <1>5 DEF BumpPolicy
<1>7. c = [b EXCEPT !.session = s, !.requests = R]
  <2>1. PICK x : x = [b EXCEPT !.session.grace = g, !.session.poll = p, !.session.tick = k,
                               !.session.recovery = v]
    OBVIOUS
  <2>2. PICK t : t = [b.session EXCEPT !.grace = g, !.poll = p, !.tick = k, !.recovery = v]
    OBVIOUS
  <2>3. x = [b EXCEPT !.session = t]
    BY <2>1, <2>2
  <2>4. x.session = t /\ t.sub = b.session.sub
    BY <2>2, <2>3, Typing DEF Buttons, Sessions
  <2>5. c = [x EXCEPT !.session.sub.bound = FALSE, !.session.sub.retargetLive = FALSE,
                      !.requests = R]
    BY <1>6, <2>1
  <2>6. c = [x EXCEPT !.session = [t EXCEPT !.sub = u], !.requests = R]
    BY <1>2, <2>4, <2>5, ZenonT(40)
  <2>7. s = [t EXCEPT !.sub = u]
    BY <1>4, <2>2
  <2>. QED BY <2>3, <2>6, <2>7
<1>8. R \subseteq Requests /\ (\A r \in R : r.own /\ ~r.live)
  <2>1. ASSUME NEW r \in R
        PROVE  r \in Requests /\ r.own /\ ~r.live
    <3>1. PICK q \in b.requests : r = [q EXCEPT !.live = FALSE, !.overtaken = TRUE]
      BY <1>5, <2>1
    <3>2. q \in Requests /\ q.own
      BY <3>1, Typing
    <3>. QED BY <3>1, <3>2 DEF Requests
  <2>2. QED BY <2>1
<1>9. u \in Subs /\ u.held = b.session.sub.held /\ u.phys = b.session.sub.phys
  BY <1>2, Typing DEF Subs
<1>10. b.session.sub = NoSub => u = NoSub
  BY <1>2, <1>9, NoSubType, Typing DEF Subs
<1>11. g \in Timers /\ p \in Timers /\ k \in Timers /\ v \in Timers
  BY <1>3, Typing DEF Past, Timers, Sessions
<1>12. s \in Sessions
  BY <1>4, <1>9, <1>11, Typing, ZenonT(40) DEF Sessions
<1>13. /\ c \in Buttons /\ SameOuter(b, c) /\ c.session = s
       /\ c.requests = R /\ c.handles = b.handles /\ c.view = b.view
  BY <1>7, <1>8, <1>12 DEF Buttons, SameOuter
<1>14. /\ s.applied = b.session.applied /\ s.snapshot = b.session.snapshot
       /\ s.attached = b.session.attached /\ s.valid = b.session.valid
       /\ s.quoted = b.session.quoted /\ s.closedKey = b.session.closedKey
       /\ s.opened = b.session.opened
       /\ s.connection = b.session.connection /\ s.sub = u
  BY <1>4, Typing DEF Sessions
<1>15. QED
  BY <1>1, <1>8, <1>9, <1>10, <1>13, <1>14

LEMMA AbortFacts == ASSUME NEW r \in Requests
  PROVE  /\ Abort(r) \in Requests /\ Abort(r).own = r.own /\ Abort(r).live = r.live
         /\ Abort(r).aborted /\ Abort(r).kind \in {"initial", "manual"}
BY DEF Abort, Requests

LEMMA ClearFacts ==
  ASSUME NEW b \in Buttons, \A r \in b.requests : r.own /\ ~r.live
  PROVE  LET c == ClearPolicyWork(b, FALSE) IN
         /\ c \in Buttons /\ SameOuter(b, c) /\ c.handles = b.handles /\ c.view = b.view
         /\ Quiet(c.requests) /\ Over(b.session, c.session) /\ c.session.sub = b.session.sub
<1>1. PICK c : c = ClearPolicyWork(b, FALSE)
  OBVIOUS
<1>2. PICK s : s = [b.session EXCEPT !.grace = "off", !.poll = "off", !.tick = "off",
                      !.recovery = "off", !.recovering = FALSE, !.fallback = FALSE]
  OBVIOUS
<1>3. PICK R : R = {IF r.own THEN Abort(r) ELSE r : r \in b.requests}
  OBVIOUS
<1>4. c = [b EXCEPT
             !.session.grace = "off", !.session.poll = "off",
             !.session.tick = "off", !.session.recovery = "off",
             !.session.recovering = FALSE, !.session.fallback = FALSE, !.requests = R]
  BY <1>1, <1>3 DEF ClearPolicyWork
<1>5. c = [b EXCEPT !.session = s, !.requests = R]
  BY <1>2, <1>4
<1>6. R \subseteq Requests /\ Quiet(R)
  <2>1. ASSUME NEW r \in R
        PROVE  r \in Requests /\ r.own /\ ~r.live /\ r.aborted /\ r.kind \in {"initial", "manual"}
    <3>1. PICK q \in b.requests : r = Abort(q)
      BY <1>3, <2>1
    <3>2. q \in Requests /\ q.own /\ ~q.live
      BY <3>1, Typing
    <3>. QED BY <3>1, <3>2, AbortFacts
  <2>2. QED BY <2>1 DEF Quiet
<1>7. s \in Sessions
  <2>1. PICK t \in Sessions : t = b.session
    BY Typing
  <2>2. [t EXCEPT !.grace = "off", !.poll = "off", !.tick = "off",
                      !.recovery = "off", !.recovering = FALSE, !.fallback = FALSE] \in Sessions
    BY DEF Sessions, Timers
  <2>. QED BY <1>2, <2>1, <2>2
<1>8. /\ c \in Buttons /\ SameOuter(b, c) /\ c.session = s
      /\ c.requests = R /\ c.handles = b.handles /\ c.view = b.view
  BY <1>5, <1>6, <1>7 DEF Buttons, SameOuter
<1>9. Over(b.session, s) /\ s.sub = b.session.sub
  BY <1>2, Typing DEF Sessions, Over
<1>10. QED
  BY <1>1, <1>6, <1>8, <1>9

(* The end of a policy, its subscription left in place. *)
LEMMA OverFacts ==
  ASSUME NEW b \in Buttons, \A r \in b.requests : r.own
  PROVE  LET c == ClearPolicyWork(BumpPolicy(b), FALSE) IN
         /\ c \in Buttons /\ SameOuter(b, c) /\ c.handles = b.handles /\ c.view = b.view
         /\ Quiet(c.requests) /\ Over(b.session, c.session)
         /\ c.session.sub.held = b.session.sub.held /\ c.session.sub.phys = b.session.sub.phys
         /\ b.session.sub = NoSub => c.session.sub = NoSub
<1>1. PICK d : d = BumpPolicy(b)
  OBVIOUS
<1>2. PICK c : c = ClearPolicyWork(d, FALSE)
  OBVIOUS
<1>3. /\ d \in Buttons /\ SameOuter(b, d) /\ d.handles = b.handles /\ d.view = b.view
      /\ \A r \in d.requests : r.own /\ ~r.live
  BY <1>1, BumpFacts
<1>4. /\ d.session.applied = b.session.applied /\ d.session.snapshot = b.session.snapshot
      /\ d.session.attached = b.session.attached /\ d.session.valid = b.session.valid
      /\ d.session.quoted = b.session.quoted /\ d.session.closedKey = b.session.closedKey
      /\ d.session.opened = b.session.opened
      /\ d.session.connection = b.session.connection
      /\ d.session.sub.held = b.session.sub.held /\ d.session.sub.phys = b.session.sub.phys
      /\ b.session.sub = NoSub => d.session.sub = NoSub
  BY <1>1, BumpFacts
<1>5. /\ c \in Buttons /\ SameOuter(d, c) /\ c.handles = d.handles /\ c.view = d.view
      /\ Quiet(c.requests) /\ Over(d.session, c.session) /\ c.session.sub = d.session.sub
  BY <1>2, <1>3, ClearFacts
<1>6. SameOuter(b, c) /\ Over(b.session, c.session)
  BY <1>3, <1>4, <1>5 DEF SameOuter, Over
<1>7. QED BY <1>1, <1>2, <1>3, <1>4, <1>5, <1>6

LEMMA TakeSame ==
  ASSUME NEW b \in Buttons, NEW snapshot, snapshot = b.session.snapshot
  PROVE  Take(b, snapshot) = b
<1>1. [b EXCEPT !.session.snapshot = snapshot] = b
  BY Typing DEF Buttons, Sessions
<1>2. QED BY <1>1 DEF Take

LEMMA OvertakeFacts ==
  ASSUME NEW b \in Buttons
  PROVE  LET c == Overtake(b) IN
         /\ c \in Buttons /\ SameOuter(b, c) /\ c.session = b.session
         /\ c.handles = b.handles /\ c.view = b.view
         /\ \A r \in c.requests : \E q \in b.requests :
              /\ r.own = q.own /\ r.live = q.live /\ r.fresh = q.fresh
              /\ r.aborted = q.aborted /\ r.kind = q.kind /\ r.held = q.held
<1>1. PICK c : c = Overtake(b)
  OBVIOUS
<1>2. PICK R : R = {[r EXCEPT !.overtaken = TRUE] : r \in b.requests}
  OBVIOUS
<1>3. c = [b EXCEPT !.requests = R]
  BY <1>1, <1>2 DEF Overtake
<1>4. \A r \in R : r \in Requests /\ \E q \in b.requests :
              /\ r.own = q.own /\ r.live = q.live /\ r.fresh = q.fresh
              /\ r.aborted = q.aborted /\ r.kind = q.kind /\ r.held = q.held
  <2>1. ASSUME NEW r \in R
        PROVE  r \in Requests /\ \E q \in b.requests :
              /\ r.own = q.own /\ r.live = q.live /\ r.fresh = q.fresh
              /\ r.aborted = q.aborted /\ r.kind = q.kind /\ r.held = q.held
    <3>1. PICK q \in b.requests : r = [q EXCEPT !.overtaken = TRUE]
      BY <1>2, <2>1
    <3>2. q \in Requests
      BY <3>1, Typing
    <3>3. /\ r \in Requests
          /\ r.own = q.own /\ r.live = q.live /\ r.fresh = q.fresh
          /\ r.aborted = q.aborted /\ r.kind = q.kind /\ r.held = q.held
      BY <3>1, <3>2 DEF Requests
    <3>. QED BY <3>3
  <2>2. QED BY <2>1
<1>5. /\ c \in Buttons /\ SameOuter(b, c) /\ c.session = b.session
      /\ c.requests = R /\ c.handles = b.handles /\ c.view = b.view
  BY <1>3, <1>4 DEF Buttons, SameOuter
<1>6. QED BY <1>1, <1>4, <1>5

LEMMA RevisionFacts ==
  ASSUME NEW b \in Buttons
  PROVE  LET c == BumpRevision(b) IN
         /\ c \in Buttons /\ SameOuter(b, c) /\ c.session = b.session
         /\ c.handles = b.handles /\ c.view = b.view
         /\ \A r \in c.requests : ~r.fresh /\ \E q \in b.requests :
              /\ r.own = q.own /\ r.live = q.live
              /\ r.aborted = q.aborted /\ r.kind = q.kind /\ r.held = q.held
<1>1. PICK c : c = BumpRevision(b)
  OBVIOUS
<1>2. PICK R : R = {[r EXCEPT !.fresh = FALSE] : r \in b.requests}
  OBVIOUS
<1>3. c = [b EXCEPT !.requests = R]
  BY <1>1, <1>2 DEF BumpRevision
<1>4. \A r \in R : r \in Requests /\ ~r.fresh /\ \E q \in b.requests :
              /\ r.own = q.own /\ r.live = q.live
              /\ r.aborted = q.aborted /\ r.kind = q.kind /\ r.held = q.held
  <2>1. ASSUME NEW r \in R
        PROVE  r \in Requests /\ ~r.fresh /\ \E q \in b.requests :
              /\ r.own = q.own /\ r.live = q.live
              /\ r.aborted = q.aborted /\ r.kind = q.kind /\ r.held = q.held
    <3>1. PICK q \in b.requests : r = [q EXCEPT !.fresh = FALSE]
      BY <1>2, <2>1
    <3>2. q \in Requests
      BY <3>1, Typing
    <3>3. /\ r \in Requests /\ ~r.fresh
          /\ r.own = q.own /\ r.live = q.live
          /\ r.aborted = q.aborted /\ r.kind = q.kind /\ r.held = q.held
      BY <3>1, <3>2 DEF Requests
    <3>. QED BY <3>3
  <2>2. QED BY <2>1
<1>5. /\ c \in Buttons /\ SameOuter(b, c) /\ c.session = b.session
      /\ c.requests = R /\ c.handles = b.handles /\ c.view = b.view
  BY <1>3, <1>4 DEF Buttons, SameOuter
<1>6. QED BY <1>1, <1>4, <1>5

(* All of a session but its snapshot and what its requests know. *)
SameButSnapshot(s, t) ==
  /\ t.applied = s.applied /\ t.attached = s.attached /\ t.valid = s.valid
  /\ t.quoted = s.quoted /\ t.tick = s.tick /\ t.closedKey = s.closedKey
  /\ t.opened = s.opened /\ t.connection = s.connection /\ t.sub = s.sub
  /\ t.fallback = s.fallback /\ t.grace = s.grace /\ t.poll = s.poll
  /\ t.recovering = s.recovering /\ t.recovery = s.recovery

LEMMA TakeFacts ==
  ASSUME NEW b \in Buttons, NEW snapshot \in Snapshots
  PROVE  LET c == Take(b, snapshot) IN
         /\ c \in Buttons /\ SameOuter(b, c) /\ SameButSnapshot(b.session, c.session)
         /\ c.session.snapshot = snapshot
         /\ c.handles = b.handles /\ c.view = b.view
         /\ \A r \in c.requests : \E q \in b.requests :
              /\ r.own = q.own /\ r.live = q.live /\ r.fresh = q.fresh
              /\ r.aborted = q.aborted /\ r.kind = q.kind /\ r.held = q.held
<1>1. PICK c : c = Take(b, snapshot)
  OBVIOUS
<1>2. CASE snapshot = b.session.snapshot
  <2>1. c = b
    BY <1>1, <1>2, TakeSame
  <2>. QED BY <1>1, <1>2, <2>1 DEF SameOuter, SameButSnapshot
<1>3. CASE snapshot # b.session.snapshot
  <2>1. PICK s : s = [b.session EXCEPT !.snapshot = snapshot]
    OBVIOUS
  <2>2. PICK d : d = [b EXCEPT !.session = s]
    OBVIOUS
  <2>3. c = Overtake(d)
    BY <1>1, <1>3, <2>1, <2>2 DEF Take
  <2>4. s \in Sessions /\ SameButSnapshot(b.session, s) /\ s.snapshot = snapshot
    BY <2>1, Typing DEF Sessions, SameButSnapshot
  <2>5. /\ d \in Buttons /\ SameOuter(b, d) /\ d.session = s
        /\ d.requests = b.requests /\ d.handles = b.handles /\ d.view = b.view
    BY <2>2, <2>4 DEF Buttons, SameOuter
  <2>6. /\ c \in Buttons /\ SameOuter(d, c) /\ c.session = d.session
        /\ c.handles = d.handles /\ c.view = d.view
        /\ \A r \in c.requests : \E q \in d.requests :
              /\ r.own = q.own /\ r.live = q.live /\ r.fresh = q.fresh
              /\ r.aborted = q.aborted /\ r.kind = q.kind /\ r.held = q.held
    BY <2>3, <2>5, OvertakeFacts
  <2>7. SameOuter(b, c)
    BY <2>5, <2>6 DEF SameOuter
  <2>. QED BY <1>1, <2>4, <2>5, <2>6, <2>7
<1>4. QED BY <1>2, <1>3

LEMMA TickFacts ==
  ASSUME NEW b \in Buttons, NEW live \in BOOLEAN
  PROVE  LET c == ArmPolicyTick(b, live) IN
         /\ c \in Buttons /\ SameOuter(b, c) /\ c.requests = b.requests
         /\ c.handles = b.handles /\ c.view = b.view
         /\ c.session = [b.session EXCEPT !.tick = IF live THEN "live" ELSE "dead"]
<1>1. PICK c : c = ArmPolicyTick(b, live)
  OBVIOUS
<1>2. PICK s : s = [b.session EXCEPT !.tick = IF live THEN "live" ELSE "dead"]
  OBVIOUS
<1>3. c = [b EXCEPT !.session = s]
  BY <1>1, <1>2 DEF ArmPolicyTick, Armed
<1>4. s \in Sessions
  BY <1>2, Typing DEF Sessions, Timers
<1>5. /\ c \in Buttons /\ SameOuter(b, c) /\ c.session = s
      /\ c.requests = b.requests /\ c.handles = b.handles /\ c.view = b.view
  BY <1>3, <1>4 DEF Buttons, SameOuter
<1>6. QED BY <1>1, <1>2, <1>5

LEMMA EffectiveFacts ==
  ASSUME NEW b \in Buttons, wall \in Walls
  PROVE  /\ Effective(b) \in Snapshots /\ Effective(b).epoch = b.seen.epoch
         /\ ~Effective(b).open => Effective(b) = b.seen
BY DEF Effective, Buttons, Snapshots, Walls

(* A policy about to begin: the last one is over. *)
Fresh(b) ==
  /\ b \in Buttons /\ Up(b) /\ ~b.lapsed /\ ~b.destroyed
  /\ b.settings.creds /\ b.session.applied = b.settings
  /\ Quiet(b.requests) /\ Counts(b) /\ Shown(b)
  /\ ~b.session.sub.held => b.session.sub = NoSub
  /\ b.session.grace = "off" /\ b.session.poll = "off" /\ b.session.recovery = "off"
  /\ ~b.session.recovering /\ ~b.session.fallback
  /\ b.session.tick = "live"
  /\ b.session.snapshot.open => b.session.opened
  /\ ~b.session.snapshot.open /\ b.session.closedKey = ClosedKey(b) =>
       b.session.opened \/ b.reentered

(* What the policies have in common. *)
SamePolicy(b, c) ==
  /\ SameOuter(b, c)
  /\ c.session.applied = b.session.applied /\ c.session.snapshot = b.session.snapshot
  /\ c.session.attached = b.session.attached

LEMMA FreshAutomatic ==
  ASSUME wall \in Walls, NEW b, Fresh(b), b.session.applied.mode = "automatic",
         b.session.snapshot.open, NEW outcome \in Outcomes
  PROVE  LET d == StartAutomaticRealtime(BumpRevision([b EXCEPT !.session.valid = FALSE]),
                                         TRUE, outcome) IN
         /\ Good(d) /\ SamePolicy(b, d)
         /\ b.session.sub.held => d.session.sub.held /\ d.session.sub.phys = b.session.sub.phys
<1>1. PICK s : s = [b.session EXCEPT !.valid = FALSE]
  OBVIOUS
<1>2. PICK c : c = [b EXCEPT !.session = s]
  OBVIOUS
<1>3. PICK e : e = BumpRevision(c)
  OBVIOUS
<1>4. PICK d : d = StartAutomaticRealtime(e, TRUE, outcome)
  OBVIOUS
<1>5. c = [b EXCEPT !.session.valid = FALSE]
  BY <1>1, <1>2
<1>6. b \in Buttons
  BY DEF Fresh
<1>7. /\ s \in Sessions /\ ~s.valid
      /\ s.applied = b.session.applied /\ s.snapshot = b.session.snapshot
      /\ s.attached = b.session.attached /\ s.quoted = b.session.quoted
      /\ s.tick = b.session.tick /\ s.closedKey = b.session.closedKey
      /\ s.opened = b.session.opened /\ s.connection = b.session.connection
      /\ s.sub = b.session.sub /\ s.fallback = b.session.fallback
      /\ s.grace = b.session.grace /\ s.poll = b.session.poll
      /\ s.recovering = b.session.recovering /\ s.recovery = b.session.recovery
  BY <1>1, <1>6, Typing DEF Sessions
<1>8. /\ c \in Buttons /\ SameOuter(b, c) /\ c.session = s
      /\ c.requests = b.requests /\ c.handles = b.handles /\ c.view = b.view
  BY <1>2, <1>6, <1>7 DEF Buttons, SameOuter
<1>9. /\ e \in Buttons /\ SameOuter(c, e) /\ e.session = c.session
      /\ e.handles = c.handles /\ e.view = c.view
      /\ \A r \in e.requests : ~r.fresh /\ \E q \in c.requests :
              /\ r.own = q.own /\ r.live = q.live
              /\ r.aborted = q.aborted /\ r.kind = q.kind /\ r.held = q.held
  BY <1>3, <1>8, RevisionFacts
<1>10. Quiet(e.requests)
  BY <1>8, <1>9 DEF Quiet, Fresh
<1>11. SameOuter(b, e)
  BY <1>8, <1>9 DEF SameOuter
<1>12. Cleared(e)
  BY <1>7, <1>8, <1>9, <1>10, <1>11, QuietAccounted
     DEF Fresh, Cleared, Counts, Shown, Shows, Recovers, SameOuter, Up
<1>13. Automatic(e, d)
  BY <1>4, <1>12, AutomaticHeld, AutomaticNew
<1>14. /\ d \in Buttons /\ Kept(e, d) /\ Accounted(d.requests) /\ Shows(d)
       /\ Fed(d.session) /\ ArmedOrBacked(d.session) /\ Recovers(d.session)
  BY <1>13 DEF Automatic
<1>15. SameOuter(b, d)
  BY <1>11, <1>14 DEF SameOuter, Kept
<1>16. /\ d.session.applied = b.session.applied /\ d.session.snapshot = b.session.snapshot
       /\ d.session.attached = b.session.attached /\ d.session.quoted = b.session.quoted
       /\ d.session.tick = b.session.tick /\ d.session.opened = b.session.opened
       /\ ~d.session.valid
  BY <1>7, <1>8, <1>9, <1>14 DEF Kept, SameCourse
<1>17. b.session.sub.held => d.session.sub.held /\ d.session.sub.phys = b.session.sub.phys
  BY <1>7, <1>8, <1>9, <1>13 DEF Automatic
<1>18. Up(d) /\ On(d)
  BY <1>15, <1>16 DEF Fresh, On, Up, SameOuter
<1>19. Life(d) /\ ~d.lapsed
  BY <1>15, <1>16, <1>18 DEF Life, Fresh, SameOuter, Up
<1>20. Counts(d)
  BY <1>13, <1>15, <1>16 DEF Counts, Fresh, Automatic, SameOuter
<1>21. Subscribed(d.session)
  BY <1>13, <1>16 DEF Subscribed, Automatic, Fresh
<1>22. Sighted(d.session)
  BY <1>14 DEF Sighted, ArmedOrBacked
<1>23. Ticking(d)
  BY <1>16 DEF Ticking, Fresh
<1>24. Shown(d)
  <2>1. b.session.quoted => d.session.connection # "waiting"
    <3>1. b.session.quoted => b.session.connection # "waiting"
      BY DEF Fresh, Shown
    <3>2. e.session.quoted = b.session.quoted /\ e.session.connection = b.session.connection
      BY <1>7, <1>8, <1>9
    <3>3. e.session.quoted => d.session.connection \in {e.session.connection, "BROKEN"}
      BY <1>13 DEF Automatic
    <3>. QED BY <3>1, <3>2, <3>3
  <2>. QED BY <1>14, <1>16, <2>1 DEF Shown, Shows
<1>25. Closed(d)
  BY <1>16 DEF Closed, Fresh
<1>26. Good(d)
  BY <1>14, <1>18, <1>19, <1>20, <1>21, <1>22, <1>23, <1>24, <1>25 DEF Good, Sound, Fed
<1>27. SamePolicy(b, d)
  BY <1>15, <1>16 DEF SamePolicy
<1>28. QED BY <1>3, <1>4, <1>5, <1>17, <1>26, <1>27

(* Nothing is held of the supervisor any more. *)
LEMMA FreshReleased ==
  ASSUME NEW b, Fresh(b)
  PROVE  LET c == ReleaseSubscription(b) IN
         Fresh(c) /\ Kept(b, c) /\ c.session.sub = NoSub /\ c.handles = 0
<1>1. PICK c : c = ReleaseSubscription(b)
  OBVIOUS
<1>2. b \in Buttons /\ b.handles = IF b.session.sub.held THEN 1 ELSE 0
  BY DEF Fresh, Counts
<1>3. /\ c \in Buttons /\ Kept(b, c) /\ c.requests = b.requests /\ c.view = b.view
      /\ c.handles = 0 /\ c.session = [b.session EXCEPT !.sub = NoSub]
  BY <1>1, <1>2, ReleaseFacts
<1>4. /\ c.session.sub = NoSub /\ c.session.connection = b.session.connection
      /\ c.session.fallback = b.session.fallback
      /\ c.session.grace = b.session.grace /\ c.session.poll = b.session.poll
      /\ c.session.recovering = b.session.recovering /\ c.session.recovery = b.session.recovery
  BY <1>2, <1>3, Typing DEF Sessions
<1>5. Up(c) /\ ClosedKey(c) = ClosedKey(b)
  BY <1>3 DEF Fresh, Up, ClosedKey, Kept, SameOuter, SameCourse
<1>6. Counts(c) /\ Shown(c)
  BY <1>3, <1>4, NoSubType DEF Fresh, Counts, Shown, Kept, SameOuter, SameCourse, Up
<1>7. Fresh(c)
  BY <1>3, <1>4, <1>5, <1>6 DEF Fresh, Kept, SameOuter, SameCourse
<1>8. QED BY <1>1, <1>3, <1>4, <1>7

LEMMA FreshRest ==
  ASSUME NEW b, Fresh(b), b.session.sub = NoSub, b.session.snapshot.open
  PROVE  LET d == StartRestOnlyRealtime(b, TRUE) IN Good(d) /\ SamePolicy(b, d)
<1>1. PICK d : d = StartRestOnlyRealtime(b, TRUE)
  OBVIOUS
<1>2. PICK s : s = [b.session EXCEPT !.fallback = TRUE]
  OBVIOUS
<1>3. PICK c : c = [b EXCEPT !.session = s]
  OBVIOUS
<1>4. PICK e : e = PerformRest(c, TRUE, "initial")
  OBVIOUS
<1>5. d = ArmPoll(e, TRUE)
  <2>1. c = [b EXCEPT !.session.fallback = TRUE]
    BY <1>2, <1>3
  <2>. QED BY <1>1, <1>4, <2>1 DEF StartRestOnlyRealtime
<1>6. b \in Buttons
  BY DEF Fresh
<1>7. /\ s \in Sessions /\ s.fallback /\ SameCourse(b.session, s)
      /\ s.sub = b.session.sub /\ s.connection = b.session.connection
      /\ s.grace = b.session.grace /\ s.poll = b.session.poll
      /\ s.recovering = b.session.recovering /\ s.recovery = b.session.recovery
  BY <1>2, <1>6, Typing DEF Sessions, SameCourse
<1>8. /\ c \in Buttons /\ SameOuter(b, c) /\ c.session = s
      /\ c.requests = b.requests /\ c.handles = b.handles /\ c.view = b.view
  BY <1>3, <1>6, <1>7 DEF Buttons, SameOuter
<1>9. Accounted(c.requests)
  BY <1>8, QuietAccounted DEF Fresh
<1>10. Asks(c, e, "initial")
  BY <1>4, <1>8, <1>9, PerformRestFacts
<1>11. /\ e \in Buttons /\ SameOuter(c, e) /\ e.session = c.session
       /\ e.handles = c.handles /\ e.view = c.view /\ Accounted(e.requests)
  BY <1>10 DEF Asks
<1>12. /\ d \in Buttons /\ Kept(e, d)
       /\ d.requests = e.requests /\ d.handles = e.handles /\ d.view = e.view
       /\ d.session.sub = e.session.sub /\ d.session.connection = e.session.connection
       /\ d.session.grace = e.session.grace /\ d.session.fallback = e.session.fallback
       /\ d.session.recovering = e.session.recovering /\ d.session.recovery = e.session.recovery
       /\ d.session.poll = IF e.session.poll = "off" THEN "live" ELSE e.session.poll
  BY <1>5, <1>11, ArmPollFacts, ZenonT(40)
<1>13. Kept(b, d)
  BY <1>7, <1>8, <1>11, <1>12 DEF Kept, SameOuter, SameCourse
<1>14. /\ d.session.sub = NoSub /\ d.session.connection = b.session.connection
       /\ d.session.grace = "off" /\ d.session.fallback /\ d.session.poll = "live"
       /\ ~d.session.recovering /\ d.session.recovery = "off"
       /\ d.handles = b.handles /\ d.view = b.view
  <2>1. d.session.poll = "live"
    BY <1>7, <1>8, <1>11, <1>12 DEF Fresh
  <2>2. d.session.fallback
    BY <1>7, <1>8, <1>11, <1>12
  <2>3. /\ d.session.sub = NoSub /\ d.session.connection = b.session.connection
        /\ d.session.grace = b.session.grace
        /\ d.session.recovering = b.session.recovering
        /\ d.session.recovery = b.session.recovery
        /\ d.handles = b.handles /\ d.view = b.view
    BY <1>7, <1>8, <1>11, <1>12
  <2>. QED BY <2>1, <2>2, <2>3 DEF Fresh
<1>15. Up(d) /\ On(d) /\ Life(d) /\ ~d.lapsed
  BY <1>13 DEF Kept, SameOuter, SameCourse, Fresh, Up, On, Life
<1>16. Counts(d)
  BY <1>13, <1>14 DEF Kept, SameOuter, SameCourse, Fresh, Counts
<1>17. Subscribed(d.session) /\ Fed(d.session) /\ Sighted(d.session) /\ Recovers(d.session)
  BY <1>14, NoSubType DEF Subscribed, Fed, Polled, Told, Sighted, Recovers
<1>18. Ticking(d) /\ Shown(d)
  BY <1>13, <1>14, <1>15 DEF Kept, SameOuter, SameCourse, Fresh, Ticking, Shown, Up
<1>19. Closed(d)
  BY <1>13 DEF Closed, Fresh, Kept, SameCourse
<1>20. Good(d)
  BY <1>11, <1>12, <1>15, <1>16, <1>17, <1>18, <1>19 DEF Good, Sound, Fed
<1>21. SamePolicy(b, d)
  BY <1>13 DEF SamePolicy, Kept, SameCourse
<1>22. QED BY <1>1, <1>20, <1>21

LEMMA FreshClosed ==
  ASSUME NEW b, Fresh(b), b.session.sub = NoSub, ~b.session.snapshot.open
  PROVE  LET d == StartClosedRest(b, TRUE) IN Good(d) /\ SamePolicy(b, d)
<1>1. PICK d : d = StartClosedRest(b, TRUE)
  OBVIOUS
<1>2. b \in Buttons
  BY DEF Fresh
<1>3. /\ d \in Buttons /\ SameOuter(b, d) /\ Accounted(d.requests)
      /\ d.handles = b.handles /\ d.view = b.view
      /\ d.session.applied = b.session.applied /\ d.session.snapshot = b.session.snapshot
      /\ d.session.attached = b.session.attached /\ d.session.quoted = b.session.quoted
      /\ d.session.tick = b.session.tick /\ d.session.sub = b.session.sub
      /\ d.session.connection = b.session.connection
      /\ d.session.grace = b.session.grace /\ d.session.poll = b.session.poll
      /\ d.session.fallback = b.session.fallback
      /\ d.session.recovering = b.session.recovering /\ d.session.recovery = b.session.recovery
      /\ d.session.closedKey = ClosedKey(d)
      /\ ~d.session.opened /\ ~d.reentered => WillBeAnswered(d)
  <2>1. CASE b.session.closedKey = ClosedKey(b)
    <3>1. d = b
      BY <1>1, <2>1 DEF StartClosedRest
    <3>2. b.session.opened \/ b.reentered
      BY <2>1 DEF Fresh
    <3>3. SameOuter(b, b)
      BY DEF SameOuter
    <3>4. Accounted(b.requests)
      BY QuietAccounted DEF Fresh
    <3>. QED BY <1>2, <2>1, <3>1, <3>2, <3>3, <3>4
  <2>2. CASE b.session.closedKey # ClosedKey(b)
    <3>1. PICK s : s = [b.session EXCEPT !.closedKey = ClosedKey(b), !.opened = FALSE]
      OBVIOUS
    <3>2. PICK c : c = [b EXCEPT !.session = s]
      OBVIOUS
    <3>3. d = PerformRest(c, TRUE, "closed")
      <4>1. c = [b EXCEPT !.session.closedKey = ClosedKey(b), !.session.opened = FALSE]
        BY <3>1, <3>2
      <4>. QED BY <1>1, <2>2, <4>1 DEF StartClosedRest
    <3>4. ClosedKey(b) \in {NoKey} \cup (Nat \X Nat)
      BY <1>2, Typing DEF ClosedKey, Buttons, Sessions, Snapshots, AllSettings
    <3>5. s \in Sessions /\ s.closedKey = ClosedKey(b) /\ ~s.opened
      BY <1>2, <3>1, <3>4, Typing, ZenonT(40) DEF Sessions
    <3>6. /\ s.applied = b.session.applied /\ s.snapshot = b.session.snapshot
          /\ s.attached = b.session.attached /\ s.quoted = b.session.quoted
          /\ s.tick = b.session.tick /\ s.sub = b.session.sub
          /\ s.connection = b.session.connection
          /\ s.grace = b.session.grace /\ s.poll = b.session.poll
          /\ s.fallback = b.session.fallback
          /\ s.recovering = b.session.recovering /\ s.recovery = b.session.recovery
      BY <1>2, <3>1, Typing DEF Sessions
    <3>7. /\ c \in Buttons /\ SameOuter(b, c) /\ c.session = s
          /\ c.requests = b.requests /\ c.handles = b.handles /\ c.view = b.view
      BY <1>2, <3>2, <3>5 DEF Buttons, SameOuter
    <3>8. Accounted(c.requests)
      BY <3>7, QuietAccounted DEF Fresh
    <3>9. Asks(c, d, "closed")
      BY <3>3, <3>7, <3>8, PerformRestFacts
    <3>10. /\ d \in Buttons /\ SameOuter(c, d) /\ d.session = s
           /\ d.handles = b.handles /\ d.view = b.view /\ Accounted(d.requests)
      BY <3>7, <3>9 DEF Asks
    <3>11. WillBeAnswered(d)
      BY <3>9 DEF Asks, WillBeAnswered, Awaited, Adopts
    <3>12. SameOuter(b, d)
      BY <3>7, <3>10 DEF SameOuter
    <3>13. ClosedKey(d) = ClosedKey(b)
      BY <3>6, <3>10, <3>12 DEF ClosedKey, SameOuter
    <3>. QED BY <3>5, <3>6, <3>10, <3>11, <3>12, <3>13
  <2>3. QED BY <2>1, <2>2
<1>4. Up(d) /\ On(d) /\ Life(d) /\ ~d.lapsed
  BY <1>3 DEF SameOuter, Fresh, Up, On, Life
<1>5. Counts(d)
  BY <1>3 DEF SameOuter, Fresh, Counts
<1>6. Subscribed(d.session) /\ Fed(d.session) /\ Sighted(d.session) /\ Recovers(d.session)
  BY <1>3, NoSubType DEF Fresh, Subscribed, Fed, Polled, Told, Sighted, Recovers
<1>7. Ticking(d) /\ Shown(d)
  BY <1>3, <1>4 DEF SameOuter, Fresh, Ticking, Shown, Up
<1>8. Closed(d)
  BY <1>3 DEF Closed
<1>9. Good(d)
  BY <1>3, <1>4, <1>5, <1>6, <1>7, <1>8 DEF Good, Sound, Fed
<1>10. SamePolicy(b, d)
  BY <1>3 DEF SamePolicy
<1>11. QED BY <1>1, <1>9, <1>10

(* What a button must be for its policy to be made anew. *)
Ready(b) ==
  /\ b \in Buttons /\ Up(b) /\ ~b.lapsed /\ ~b.destroyed
  /\ b.settings.creds /\ b.session.applied = b.settings
  /\ \A r \in b.requests : r.own
  /\ Counts(b) /\ Shown(b)
  /\ ~b.session.sub.held => b.session.sub = NoSub
  /\ ~Effective(b).open /\ b.session.closedKey = <<Effective(b).epoch, b.settings.gen>> =>
       b.session.opened \/ b.reentered

(* reconfigurePolicy up to the choice of a source. *)
Ended(b) == Take(ClearPolicyWork(BumpPolicy(b), FALSE), Effective(b))
Begun(b) ==
  ArmPolicyTick([Ended(b) EXCEPT !.session.opened = @ \/ Ended(b).session.snapshot.open,
                                 !.unheard = FALSE], TRUE)

LEMMA ReadyFresh ==
  ASSUME wall \in Walls, NEW b, Ready(b)
  PROVE  LET a == Ended(b)
             c == Begun(b)
         IN  /\ Fresh(c) /\ SameFace(b, c) /\ SameFace(a, c)
             /\ c.session.applied = b.session.applied /\ c.session.snapshot = Effective(b)
             /\ c.session.attached = b.session.attached
             /\ c.session.sub.held = b.session.sub.held
             /\ c.session.sub.phys = b.session.sub.phys
             /\ a.session.applied = c.session.applied /\ a.session.snapshot = c.session.snapshot
<1>1. PICK o : o = ClearPolicyWork(BumpPolicy(b), FALSE)
  OBVIOUS
<1>2. PICK a : a = Take(o, Effective(b))
  OBVIOUS
<1>3. PICK n : n = (a.session.opened \/ a.session.snapshot.open)
  OBVIOUS
<1>4. PICK s : s = [a.session EXCEPT !.opened = n]
  OBVIOUS
<1>5. PICK e : e = [a EXCEPT !.session = s, !.unheard = FALSE]
  OBVIOUS
<1>6. PICK c : c = ArmPolicyTick(e, TRUE)
  OBVIOUS
<1>7. e = [a EXCEPT !.session.opened = @ \/ a.session.snapshot.open, !.unheard = FALSE]
  BY <1>3, <1>4, <1>5
<1>8. b \in Buttons /\ (\A r \in b.requests : r.own) /\ Effective(b) \in Snapshots
  BY EffectiveFacts DEF Ready
<1>9. /\ o \in Buttons /\ SameOuter(b, o) /\ o.handles = b.handles /\ o.view = b.view
      /\ Quiet(o.requests) /\ Over(b.session, o.session)
      /\ o.session.sub.held = b.session.sub.held /\ o.session.sub.phys = b.session.sub.phys
      /\ b.session.sub = NoSub => o.session.sub = NoSub
  BY <1>1, <1>8, OverFacts
<1>10. /\ a \in Buttons /\ SameOuter(o, a) /\ SameButSnapshot(o.session, a.session)
       /\ a.session.snapshot = Effective(b)
       /\ a.handles = o.handles /\ a.view = o.view
       /\ \A r \in a.requests : \E q \in o.requests :
              /\ r.own = q.own /\ r.live = q.live /\ r.fresh = q.fresh
              /\ r.aborted = q.aborted /\ r.kind = q.kind /\ r.held = q.held
  BY <1>2, <1>8, <1>9, TakeFacts
<1>11. Quiet(a.requests)
  BY <1>9, <1>10 DEF Quiet
<1>12. n \in BOOLEAN /\ (a.session.snapshot.open => n) /\ (a.session.opened => n)
  BY <1>3, <1>10, Typing DEF Sessions
<1>13. /\ s \in Sessions /\ SameButSnapshot([a.session EXCEPT !.opened = n], s)
       /\ s.opened = n /\ s.snapshot = a.session.snapshot
       /\ s.applied = a.session.applied /\ s.attached = a.session.attached
       /\ s.quoted = a.session.quoted /\ s.closedKey = a.session.closedKey
       /\ s.connection = a.session.connection /\ s.sub = a.session.sub
       /\ s.fallback = a.session.fallback /\ s.grace = a.session.grace
       /\ s.poll = a.session.poll
       /\ s.recovering = a.session.recovering /\ s.recovery = a.session.recovery
  BY <1>4, <1>10, <1>12, Typing DEF Sessions, SameButSnapshot
<1>14. /\ e \in Buttons /\ SameFace(a, e) /\ e.session = s
       /\ e.requests = a.requests /\ e.handles = a.handles /\ e.view = a.view
  BY <1>5, <1>10, <1>13 DEF Buttons, SameFace, SameOuter
<1>15. /\ c \in Buttons /\ SameOuter(e, c) /\ c.requests = e.requests
       /\ c.handles = e.handles /\ c.view = e.view
       /\ c.session = [e.session EXCEPT !.tick = "live"]
  BY <1>6, <1>14, TickFacts
<1>16. /\ c.session.tick = "live"
       /\ c.session.opened = n /\ c.session.snapshot = Effective(b)
       /\ c.session.applied = s.applied /\ c.session.attached = s.attached
       /\ c.session.quoted = s.quoted /\ c.session.closedKey = s.closedKey
       /\ c.session.connection = s.connection /\ c.session.sub = s.sub
       /\ c.session.fallback = s.fallback /\ c.session.grace = s.grace
       /\ c.session.poll = s.poll
       /\ c.session.recovering = s.recovering /\ c.session.recovery = s.recovery
  BY <1>10, <1>13, <1>14, <1>15 DEF Sessions
<1>17. SameFace(b, c) /\ SameFace(a, c)
  BY <1>9, <1>10, <1>14, <1>15 DEF SameFace, SameOuter
<1>18. /\ c.session.applied = b.session.applied /\ c.session.attached = b.session.attached
       /\ c.session.quoted = b.session.quoted /\ c.session.closedKey = b.session.closedKey
       /\ c.session.connection = b.session.connection
       /\ c.session.grace = "off" /\ c.session.poll = "off" /\ c.session.recovery = "off"
       /\ ~c.session.recovering /\ ~c.session.fallback
       /\ c.session.sub.held = b.session.sub.held /\ c.session.sub.phys = b.session.sub.phys
       /\ b.session.sub = NoSub => c.session.sub = NoSub
       /\ b.session.opened => c.session.opened
  BY <1>9, <1>10, <1>12, <1>13, <1>16 DEF Over, SameButSnapshot
<1>19. c.view = b.view /\ c.handles = b.handles /\ Quiet(c.requests)
  BY <1>9, <1>10, <1>11, <1>14, <1>15
<1>20. Up(c) /\ Counts(c) /\ Shown(c)
  BY <1>17, <1>18, <1>19 DEF Ready, Up, Counts, Shown, SameFace, SameOuter
<1>21. ClosedKey(c) = <<Effective(b).epoch, b.settings.gen>>
  BY <1>16, <1>17 DEF ClosedKey, SameFace, SameOuter
<1>22. c.session.snapshot.open => c.session.opened
  BY <1>10, <1>12, <1>16
<1>23. Fresh(c)
  BY <1>15, <1>16, <1>17, <1>18, <1>19, <1>20, <1>21, <1>22 DEF Fresh, Ready, SameFace, SameOuter
<1>24. /\ a.session.applied = c.session.applied /\ a.session.snapshot = c.session.snapshot
  BY <1>10, <1>13, <1>16
<1>25. a = Ended(b)
  BY <1>1, <1>2 DEF Ended
<1>26. c = Begun(b)
  BY <1>6, <1>7, <1>25 DEF Begun
<1>27. QED
  BY <1>16, <1>17, <1>18, <1>23, <1>24, <1>25, <1>26

(* reconfigurePolicy: whatever the button was, its new policy is in order.  *)
LEMMA ReconfigureFacts ==
  ASSUME wall \in Walls, NEW b, Ready(b), NEW outcome \in Outcomes
  PROVE  LET d == ReconfigurePolicy(b, outcome) IN
         /\ Good(d) /\ SameFace(b, d)
         /\ d.session.applied = b.session.applied /\ d.session.attached = b.session.attached
         /\ d.session.snapshot = Effective(b)
         /\ b.session.sub.held /\ b.session.applied.mode = "automatic" /\ Effective(b).open =>
              d.session.sub.held /\ d.session.sub.phys = b.session.sub.phys
<1>1. PICK d : d = ReconfigurePolicy(b, outcome)
  OBVIOUS
<1>2. PICK a : a = Ended(b)
  OBVIOUS
<1>3. PICK c : c = Begun(b)
  OBVIOUS
<1>4. /\ Fresh(c) /\ SameFace(b, c) /\ SameFace(a, c)
      /\ c.session.applied = b.session.applied /\ c.session.snapshot = Effective(b)
      /\ c.session.attached = b.session.attached
      /\ c.session.sub.held = b.session.sub.held
      /\ c.session.sub.phys = b.session.sub.phys
      /\ a.session.applied = c.session.applied /\ a.session.snapshot = c.session.snapshot
  BY <1>2, <1>3, ReadyFresh
<1>5. Up(b)
  BY DEF Ready
<1> DEFINE auto == a.session.applied.mode = "automatic" /\ a.session.snapshot.open
           e0 == StartAutomaticRealtime(BumpRevision([Begun(b) EXCEPT !.session.valid = FALSE]),
                                        TRUE, outcome)
           r0 == ReleaseSubscription(Begun(b))
           f0 == IF a.session.snapshot.open
                 THEN StartRestOnlyRealtime(r0, TRUE) ELSE StartClosedRest(r0, TRUE)
<1>6. d = IF auto THEN e0 ELSE f0
  BY <1>1, <1>2, <1>5 DEF ReconfigurePolicy, Ended, Begun
<1>7. CASE auto
  <2>1. PICK e : e = StartAutomaticRealtime(BumpRevision([c EXCEPT !.session.valid = FALSE]),
                                            TRUE, outcome)
    OBVIOUS
  <2>2. d = e
    BY <1>3, <1>6, <1>7, <2>1
  <2>3. c.session.applied.mode = "automatic" /\ c.session.snapshot.open
    BY <1>4, <1>7
  <2>4. /\ Good(e) /\ SamePolicy(c, e)
        /\ c.session.sub.held => e.session.sub.held /\ e.session.sub.phys = c.session.sub.phys
    BY <1>4, <2>1, <2>3, FreshAutomatic
  <2>5. SameFace(b, e)
    BY <1>4, <2>4 DEF SameFace, SameOuter, SamePolicy
  <2>. QED BY <1>1, <1>4, <2>2, <2>4, <2>5 DEF SamePolicy
<1>8. CASE ~auto
  <2>1. PICK r : r = ReleaseSubscription(c)
    OBVIOUS
  <2>2. Fresh(r) /\ Kept(c, r) /\ r.session.sub = NoSub
    BY <1>4, <2>1, FreshReleased
  <2>3. d = IF a.session.snapshot.open
            THEN StartRestOnlyRealtime(r, TRUE) ELSE StartClosedRest(r, TRUE)
    BY <1>3, <1>6, <1>8, <2>1
  <2>4. r.session.snapshot = a.session.snapshot
    BY <1>4, <2>2 DEF Kept, SameCourse
  <2>5. Good(d) /\ SamePolicy(r, d)
    <3>1. CASE a.session.snapshot.open
      BY <2>2, <2>3, <2>4, <3>1, FreshRest
    <3>2. CASE ~a.session.snapshot.open
      BY <2>2, <2>3, <2>4, <3>2, FreshClosed
    <3>3. QED BY <3>1, <3>2
  <2>6. SameFace(b, d)
    BY <1>4, <2>2, <2>5 DEF SameFace, SameOuter, SamePolicy, Kept
  <2>7. /\ d.session.applied = b.session.applied /\ d.session.attached = b.session.attached
        /\ d.session.snapshot = Effective(b)
    BY <1>4, <2>2, <2>5 DEF SamePolicy, Kept, SameCourse
  <2>8. ~(b.session.applied.mode = "automatic" /\ Effective(b).open)
    BY <1>4, <1>8
  <2>. QED BY <1>1, <2>5, <2>6, <2>7, <2>8
<1>9. QED BY <1>7, <1>8

(* A handler of the feed's state keeps a working button in order.           *)
LEMMA SoundFurther ==
  ASSUME NEW b, Sound(b), On(b), NEW c, Further(b, c)
  PROVE  /\ Sound(c) /\ On(c)
         /\ Told(b.session) \/ c.session.fallback => Told(c.session)
         /\ Ticking(b) => Ticking(c)
         /\ c.reentered = b.reentered /\ c.unheard = b.unheard /\ c.seen = b.seen
<1>1. /\ c \in Buttons /\ Kept(b, c) /\ Accounted(c.requests)
  BY DEF Further
<1>2. SameOuter(b, c) /\ SameCourse(b.session, c.session)
  BY <1>1 DEF Kept
<1>3. On(c) /\ Up(c) /\ Up(b)
  BY <1>2 DEF On, Up, SameOuter, SameCourse
<1>4. Life(c) /\ ~c.lapsed
  BY <1>2, <1>3 DEF Sound, Life, SameOuter, SameCourse, Up
<1>5. Counts(c)
  BY <1>2 DEF Sound, Counts, SameOuter, SameCourse, Further
<1>6. Subscribed(c.session)
  BY <1>2 DEF Sound, Subscribed, SameCourse, Further
<1>7. Polled(c.session)
  BY <1>2 DEF Sound, Polled, Further, Backed
<1>8. Sighted(c.session)
  BY <1>2 DEF Sound, Sighted, Further, Backed, SameCourse
<1>9. ~c.unheard => Recovers(c.session)
  BY <1>2 DEF Sound, Further, SameOuter
<1>10. Shown(c)
  <2>1. Shows(c)
    BY DEF Sound, Shown, Shows, Further
  <2>2. c.session.quoted => c.session.connection # "waiting"
    BY <1>2 DEF Sound, Shown, Further, SameCourse
  <2>. QED BY <2>1, <2>2 DEF Shows, Shown
<1>11. Closed(c)
  <2>1. Closed(b)
    BY DEF Sound
  <2>2. ClosedKey(c) = ClosedKey(b)
    BY <1>2 DEF ClosedKey, SameOuter, SameCourse
  <2>3. WillBeAnswered(b) => WillBeAnswered(c)
    BY DEF WillBeAnswered, Further
  <2>4. b.session.connection # "waiting" => c.session.connection # "waiting"
    BY DEF Further
  <2>. QED BY <1>2, <2>1, <2>2, <2>3, <2>4 DEF Closed, SameOuter, SameCourse
<1>12. Sound(c)
  BY <1>1, <1>3, <1>4, <1>5, <1>6, <1>7, <1>8, <1>9, <1>10, <1>11 DEF Sound
<1>13. Told(b.session) \/ c.session.fallback => Told(c.session)
  BY <1>2 DEF Told, Further, Backed, SameCourse
<1>14. Ticking(b) => Ticking(c)
  BY <1>2, <1>3 DEF Ticking, SameCourse, On
<1>15. QED BY <1>2, <1>3, <1>12, <1>13, <1>14 DEF SameOuter

LEMMA GoodFurther ==
  ASSUME NEW b, Good(b), On(b), NEW c, Further(b, c)
  PROVE  Good(c) /\ On(c) /\ c.reentered = b.reentered
       /\ c.unheard = b.unheard /\ c.seen = b.seen
BY SoundFurther DEF Good

(* What the clock has been seen to say is nothing to the rest.              *)
LEMMA SoundSame ==
  ASSUME NEW b, Sound(b), NEW c \in Buttons,
         c.session = b.session, c.requests = b.requests, c.handles = b.handles,
         c.listeners = b.listeners, c.view = b.view, c.phase = b.phase,
         c.settings = b.settings, c.destroyed = b.destroyed, c.lapsed = b.lapsed,
         b.reentered => c.reentered, b.unheard => c.unheard
  PROVE  Sound(c) /\ (On(c) <=> On(b)) /\ (Ticking(b) <=> Ticking(c))
<1>1. (On(c) <=> On(b)) /\ (Up(c) <=> Up(b))
  BY DEF On, Up
<1>2. Life(c)
  BY <1>1 DEF Sound, Life
<1>3. Counts(c)
  BY DEF Sound, Counts
<1>4. Shown(c)
  BY <1>1 DEF Sound, Shown
<1>5. On(c) => Closed(c)
  <2>1. ClosedKey(c) = ClosedKey(b)
    BY DEF ClosedKey
  <2>2. WillBeAnswered(b) => WillBeAnswered(c)
    BY DEF WillBeAnswered
  <2>. QED BY <1>1, <2>1, <2>2 DEF Sound, Closed
<1>6. Sound(c)
  <2>1. Accounted(c.requests) /\ ~c.lapsed /\ Subscribed(c.session) /\ Polled(c.session)
    BY DEF Sound
  <2>2. (~On(c) => Idle(c.session)) /\ (On(c) => Sighted(c.session))
    BY <1>1 DEF Sound
  <2>3. ~c.unheard => Recovers(c.session)
    BY DEF Sound
  <2>. QED BY <2>1, <2>2, <2>3, <1>2, <1>3, <1>4, <1>5 DEF Sound
<1>7. Ticking(b) <=> Ticking(c)
  BY <1>1 DEF Ticking
<1>8. QED BY <1>1, <1>6, <1>7

-----------------------------------------------------------------------------
(* The clock: what hearing of it, or asking it, does.                       *)

Rests(s) ==
  /\ s.snapshot.open => s.opened
  /\ ~s.snapshot.open => \E g \in Nat : s.closedKey = <<s.snapshot.epoch, g>>

(* A session whose settings may just have been replaced.                    *)
Steady(b) ==
  /\ b \in Buttons /\ Up(b) /\ ~b.lapsed /\ ~b.destroyed
  /\ b.session.applied = b.settings
  /\ \A r \in b.requests : r.own
  /\ Counts(b) /\ Shown(b)
  /\ ~b.session.sub.held => b.session.sub = NoSub
  /\ b.session.attached => Rests(b.session)

LEMMA SoundSteady == ASSUME NEW b, Sound(b), Up(b)
  PROVE  Steady(b) /\ (On(b) => Rests(b.session))
<1>1. b.session.attached => On(b)
  BY DEF Sound, Idle
<1>2. b.settings.gen \in Nat
  BY DEF Sound, Buttons, AllSettings
<1>3. On(b) => \/ b.session.snapshot.open /\ b.session.opened
               \/ /\ ~b.session.snapshot.open
                  /\ b.session.closedKey = <<b.session.snapshot.epoch, b.settings.gen>>
  <2>1. b.session.snapshot.open \in BOOLEAN
    BY Typing DEF Sound, Sessions, Snapshots
  <2>. QED BY <2>1 DEF Sound, Closed, ClosedKey
<1>4. On(b) => Rests(b.session)
  BY <1>2, <1>3 DEF Rests
<1>5. Steady(b)
  BY <1>1, <1>4 DEF Steady, Sound, Life, Up, Accounted, Subscribed
<1>6. QED BY <1>4, <1>5

LEMMA ClockViewType == ASSUME wall \in Walls
  PROVE  ClockView \in Snapshots /\ ClockView.open = wall.open /\ ClockView.epoch = wall.epoch
BY DEF ClockView, Walls, Snapshots

(* Two closed snapshots of one epoch are the same.                          *)
LEMMA SameClosed ==
  ASSUME NEW s \in Snapshots, NEW t \in Snapshots, ~s.open, ~t.open, s.epoch = t.epoch
  PROVE  s = t
BY DEF Snapshots

(* The policy follows the clock: another snapshot, a new policy.            *)
LEMMA FollowFacts ==
  ASSUME wall \in Walls, NEW b, Steady(b), b.settings.creds, Rests(b.session),
         NEW snapshot \in Snapshots, snapshot # b.session.snapshot,
         ~Effective(b).open => Effective(b) = snapshot,
         NEW outcome \in Outcomes
  PROVE  LET d == ReconfigurePolicy(Take(b, snapshot), outcome) IN
         /\ Good(d) /\ SameFace(b, d)
         /\ d.session.applied = b.session.applied /\ d.session.attached = b.session.attached
         /\ d.session.snapshot = Effective(b)
         /\ b.session.sub.held /\ b.session.applied.mode = "automatic" /\ Effective(b).open =>
              d.session.sub.held /\ d.session.sub.phys = b.session.sub.phys
<1>1. PICK c : c = Take(b, snapshot)
  OBVIOUS
<1>2. PICK d : d = ReconfigurePolicy(c, outcome)
  OBVIOUS
<1>3. b \in Buttons
  BY DEF Steady
<1>4. /\ c \in Buttons /\ SameOuter(b, c) /\ SameButSnapshot(b.session, c.session)
      /\ c.session.snapshot = snapshot
      /\ c.handles = b.handles /\ c.view = b.view
      /\ \A r \in c.requests : \E q \in b.requests :
           /\ r.own = q.own /\ r.live = q.live /\ r.fresh = q.fresh
           /\ r.aborted = q.aborted /\ r.kind = q.kind /\ r.held = q.held
  BY <1>1, <1>3, TakeFacts
<1>5. Effective(c) = Effective(b)
  BY <1>4 DEF Effective, SameFace, SameOuter
<1>6. ~Effective(c).open /\ c.session.closedKey = <<Effective(c).epoch, c.settings.gen>> =>
        c.session.opened
  <2>1. SUFFICES ASSUME ~Effective(b).open, ~b.session.opened,
                        b.session.closedKey = <<snapshot.epoch, b.settings.gen>>
                 PROVE  FALSE
    BY <1>4, <1>5 DEF SameButSnapshot, SameFace, SameOuter
  <2>2. ~snapshot.open
    BY <2>1
  <2>3. ~b.session.snapshot.open
    BY <2>1 DEF Rests
  <2>4. PICK g \in Nat : b.session.closedKey = <<b.session.snapshot.epoch, g>>
    BY <2>3 DEF Rests
  <2>5. b.session.snapshot.epoch = snapshot.epoch
    BY <2>1, <2>4
  <2>6. b.session.snapshot \in Snapshots
    BY <1>3, Typing DEF Sessions
  <2>. QED BY <2>2, <2>3, <2>5, <2>6, SameClosed
<1>7. Up(c) /\ Counts(c) /\ Shown(c)
  BY <1>4 DEF Steady, Up, Counts, Shown, SameFace, SameOuter, SameButSnapshot
<1>8. \A r \in c.requests : r.own
  BY <1>4 DEF Steady
<1>9. Ready(c)
  BY <1>4, <1>6, <1>7, <1>8 DEF Ready, Steady, SameFace, SameOuter, SameButSnapshot
<1>10. /\ Good(d) /\ SameFace(c, d)
       /\ d.session.applied = c.session.applied /\ d.session.attached = c.session.attached
       /\ d.session.snapshot = Effective(c)
       /\ c.session.sub.held /\ c.session.applied.mode = "automatic" /\ Effective(c).open =>
            d.session.sub.held /\ d.session.sub.phys = c.session.sub.phys
  BY <1>2, <1>9, ReconfigureFacts
<1>11. SameFace(b, d)
  BY <1>4, <1>10 DEF SameFace, SameOuter
<1>12. QED
  BY <1>1, <1>2, <1>4, <1>5, <1>10, <1>11 DEF SameButSnapshot

(* The policy has moved on within a handler.                                *)
Moved(b, c) ==
  /\ Good(c) /\ c.reentered /\ c.unheard /\ c.seen = ClockView
  /\ c.phase = b.phase /\ c.settings = b.settings /\ c.destroyed = b.destroyed
  /\ c.session.applied = b.session.applied /\ c.session.attached
  /\ c.session.snapshot = Effective(c)
  /\ b.session.sub.held /\ b.session.applied.mode = "automatic" /\ Effective(c).open =>
       c.session.sub.held /\ c.session.sub.phys = b.session.sub.phys

Aware(b) == [b EXCEPT !.seen = ClockView]

LEMMA AwareFacts ==
  ASSUME wall \in Walls, NEW b \in Buttons
  PROVE  LET c == Aware(b) IN
         /\ c \in Buttons /\ c.seen = ClockView /\ c.session = b.session
         /\ c.requests = b.requests /\ c.handles = b.handles /\ c.listeners = b.listeners
         /\ c.view = b.view /\ c.phase = b.phase /\ c.settings = b.settings
         /\ c.destroyed = b.destroyed /\ c.lapsed = b.lapsed /\ c.reentered = b.reentered
         /\ c.unheard = b.unheard
         /\ b.seen = ClockView => c = b
BY ClockViewType DEF Aware, Buttons

LEMMA AwareSteady ==
  ASSUME wall \in Walls, NEW b, Steady(b)
  PROVE  Steady(Aware(b)) /\ (Hears(Aware(b)) <=> Hears(b))
<1>1. PICK c : c = Aware(b)
  OBVIOUS
<1>2. b \in Buttons
  BY DEF Steady
<1>3. /\ c \in Buttons /\ c.seen = ClockView /\ c.session = b.session
      /\ c.requests = b.requests /\ c.handles = b.handles /\ c.listeners = b.listeners
      /\ c.view = b.view /\ c.phase = b.phase /\ c.settings = b.settings
      /\ c.destroyed = b.destroyed /\ c.lapsed = b.lapsed
  BY <1>1, <1>2, AwareFacts
<1>4. Hears(c) <=> Hears(b)
  BY <1>3 DEF Hears, Up
<1>5. Steady(c)
  BY <1>3 DEF Steady, Up, Counts, Shown
<1>6. QED BY <1>1, <1>4, <1>5

(* The clock's listener.                                                    *)
LEMMA ListenFacts ==
  ASSUME wall \in Walls, NEW b, Steady(b), b.seen = ClockView, NEW outcome \in Outcomes
  PROVE  LET d == Listen(b, outcome) IN
         /\ Hears(b) =>
              /\ Good(d) /\ SameFace(b, d)
              /\ d.session.applied = b.session.applied /\ d.session.attached
              /\ d.session.snapshot = Effective(b)
              /\ b.session.sub.held /\ b.session.applied.mode = "automatic" /\ Effective(b).open =>
                   d.session.sub.held /\ d.session.sub.phys = b.session.sub.phys
         /\ ~Hears(b) /\ (b.session.attached => b.settings.creds) => d = b
         /\ ~Hears(b) => d = b \/ d = Take(b, ClockView)
<1>1. PICK d : d = Listen(b, outcome)
  OBVIOUS
<1>2. PICK c : c = Take(b, ClockView)
  OBVIOUS
<1>3. d = IF ~(Up(b) /\ b.session.attached) THEN b
          ELSE IF Hears(b) THEN ReconfigurePolicy(c, outcome) ELSE c
  BY <1>1, <1>2 DEF Listen
<1>4. b \in Buttons
  BY DEF Steady
<1>5. CASE Hears(b)
  <2>1. /\ b.settings.creds /\ b.session.attached /\ Up(b)
        /\ ClockView # b.session.snapshot /\ Rests(b.session)
    BY <1>5 DEF Hears, Steady
  <2>2. d = ReconfigurePolicy(c, outcome)
    BY <1>3, <1>5, <2>1
  <2>3. ~Effective(b).open => Effective(b) = ClockView
    BY <1>4, EffectiveFacts
  <2>4. d = ReconfigurePolicy(Take(b, ClockView), outcome)
    BY <1>2, <2>2
  <2>5. ClockView \in Snapshots
    BY ClockViewType
  <2>6. /\ Good(d) /\ SameFace(b, d)
        /\ d.session.applied = b.session.applied /\ d.session.attached
        /\ d.session.snapshot = Effective(b)
        /\ b.session.sub.held /\ b.session.applied.mode = "automatic" /\ Effective(b).open =>
              d.session.sub.held /\ d.session.sub.phys = b.session.sub.phys
    BY <2>1, <2>3, <2>4, <2>5, FollowFacts
  <2>. QED BY <1>1, <1>5, <2>6
<1>6. CASE ~Hears(b)
  <2>1. d = b \/ d = Take(b, ClockView)
    BY <1>2, <1>3, <1>6
  <2>2. (b.session.attached => b.settings.creds) => d = b
    <3>1. SUFFICES ASSUME b.session.attached, b.settings.creds
                   PROVE  d = b
      BY <1>3
    <3>2. Up(b)
      BY DEF Steady
    <3>3. ClockView = b.session.snapshot
      BY <1>6, <3>1, <3>2 DEF Hears
    <3>4. Take(b, ClockView) = b
      BY <1>4, <3>3, TakeSame
    <3>. QED BY <2>1, <3>4
  <2>. QED BY <1>1, <1>6, <2>1, <2>2
<1>7. QED BY <1>5, <1>6

LEMMA ReenteredFacts ==
  ASSUME NEW b, Good(b), NEW c,
         c = [b EXCEPT !.reentered = TRUE, !.unheard = TRUE]
  PROVE  /\ Good(c) /\ c.reentered /\ c.unheard /\ c.session = b.session /\ c.seen = b.seen
         /\ c.phase = b.phase /\ c.settings = b.settings /\ c.destroyed = b.destroyed
<1>1. b \in Buttons
  BY DEF Good, Sound
<1>2. /\ c \in Buttons /\ c.reentered /\ c.unheard
      /\ c.session = b.session /\ c.requests = b.requests /\ c.handles = b.handles
      /\ c.listeners = b.listeners /\ c.view = b.view /\ c.phase = b.phase
      /\ c.settings = b.settings /\ c.destroyed = b.destroyed /\ c.lapsed = b.lapsed
      /\ c.seen = b.seen
  BY <1>1 DEF Buttons
<1>3. Sound(c)
  BY <1>2, SoundSame DEF Good
<1>4. QED BY <1>2, <1>3 DEF Good

(* snapshot() of the clock: the policy moves on, or nothing is changed.     *)
LEMMA ObserveFacts ==
  ASSUME wall \in Walls, NEW b, Steady(b), NEW outcome \in Outcomes
  PROVE  LET c == Observe(b, outcome) IN
         /\ Moves(b) => Moved(b, c)
         /\ ~Moves(b) /\ (b.session.attached => b.settings.creds) => c = Aware(b)
         /\ ~Moves(b) => c = Aware(b) \/ c = Take(Aware(b), ClockView)
<1>1. PICK c : c = Observe(b, outcome)
  OBVIOUS
<1>2. PICK e : e = Aware(b)
  OBVIOUS
<1>3. b \in Buttons
  BY DEF Steady
<1>4. /\ e \in Buttons /\ e.seen = ClockView /\ e.session = b.session
      /\ e.phase = b.phase /\ e.settings = b.settings
      /\ e.destroyed = b.destroyed
      /\ b.seen = ClockView => e = b
  BY <1>2, <1>3, AwareFacts
<1>5. Steady(e) /\ (Hears(e) <=> Hears(b))
  BY <1>2, AwareSteady
<1>6. CASE ~Late(b)
  <2>1. c = b /\ e = b
    BY <1>1, <1>4, <1>6 DEF Observe, Late
  <2>2. ~Moves(b)
    BY <1>6 DEF Moves
  <2>. QED BY <1>1, <1>2, <2>1, <2>2
<1>7. CASE Late(b)
  <2>1. PICK d : d = Listen(e, outcome)
    OBVIOUS
  <2>2. c = [d EXCEPT !.reentered = @ \/ Moves(b), !.unheard = @ \/ Moves(b)]
    BY <1>1, <1>2, <1>7, <2>1 DEF Observe, Aware
  <2>3. Moves(b) <=> Hears(e)
    BY <1>5, <1>7 DEF Moves
  <2>4. CASE Hears(e)
    <3>1. c = [d EXCEPT !.reentered = TRUE, !.unheard = TRUE]
      BY <2>2, <2>3, <2>4
    <3>2. /\ Good(d) /\ SameFace(e, d)
          /\ d.session.applied = e.session.applied /\ d.session.attached
          /\ d.session.snapshot = Effective(e)
          /\ e.session.sub.held /\ e.session.applied.mode = "automatic" /\ Effective(e).open =>
               d.session.sub.held /\ d.session.sub.phys = e.session.sub.phys
      BY <1>4, <1>5, <2>1, <2>4, ListenFacts
    <3>3. /\ Good(c) /\ c.reentered /\ c.unheard /\ c.session = d.session /\ c.seen = d.seen
          /\ c.phase = d.phase /\ c.settings = d.settings /\ c.destroyed = d.destroyed
      BY <3>1, <3>2, ReenteredFacts
    <3>4. Effective(c) = Effective(e)
      BY <3>2, <3>3 DEF Effective, SameFace, SameOuter
    <3>5. Moved(b, c)
      BY <1>4, <3>2, <3>3, <3>4 DEF Moved, SameFace, SameOuter
    <3>. QED BY <1>1, <2>3, <2>4, <3>5
  <2>5. CASE ~Hears(e)
    <3>1. /\ (e.session.attached => e.settings.creds) => d = e
          /\ d = e \/ d = Take(e, ClockView)
      BY <1>4, <1>5, <2>1, <2>5, ListenFacts
    <3>2. d \in Buttons
      BY <1>4, <3>1, ClockViewType, TakeFacts
    <3>3. c = [d EXCEPT !.reentered = d.reentered, !.unheard = d.unheard]
      BY <2>2, <2>3, <2>5, <3>2 DEF Buttons
    <3>4. c = d
      BY <3>2, <3>3 DEF Buttons
    <3>. QED BY <1>1, <1>2, <1>4, <2>3, <2>5, <3>1, <3>4
  <2>6. QED BY <2>4, <2>5
<1>8. QED BY <1>6, <1>7

-----------------------------------------------------------------------------
(* The actions.                                                             *)

LEMMA HeldIsOn == ASSUME NEW b, Sound(b), b.session.sub.held
  PROVE  On(b) /\ Up(b) /\ b.session.sub.bound /\ b.session.applied.mode = "automatic"
BY NoSubType DEF Sound, Idle, Subscribed, On

LEMMA PhysFacts ==
  ASSUME NEW b, Good(b), b.session.sub.held, NEW phys \in Phys
  PROVE  LET c == [b EXCEPT !.session.sub.phys = phys] IN
         /\ Sound(c) /\ On(c) /\ c.session.sub.held /\ c.session.sub.bound
         /\ c.session.sub.phys = phys /\ c.session.valid = b.session.valid
         /\ c.session.fallback = b.session.fallback
         /\ Ticking(b) => Ticking(c)
         /\ c.reentered = b.reentered /\ c.unheard = b.unheard
<1>1. PICK u : u = [b.session.sub EXCEPT !.phys = phys]
  OBVIOUS
<1>2. PICK s : s = [b.session EXCEPT !.sub = u]
  OBVIOUS
<1>3. PICK c : c = [b EXCEPT !.session = s]
  OBVIOUS
<1>4. c = [b EXCEPT !.session.sub.phys = phys]
  BY <1>1, <1>2, <1>3
<1>5. b \in Buttons /\ Sound(b) /\ On(b)
  BY HeldIsOn DEF Good, Sound
<1>6. /\ u \in Subs /\ u.held /\ u.bound /\ u.phys = phys
  BY <1>1, <1>5, HeldIsOn, Typing DEF Subs
<1>7. /\ s \in Sessions /\ SameCourse(b.session, s) /\ s.sub = u
      /\ s.connection = b.session.connection /\ s.fallback = b.session.fallback
      /\ s.grace = b.session.grace /\ s.poll = b.session.poll
      /\ s.recovering = b.session.recovering /\ s.recovery = b.session.recovery
  BY <1>2, <1>5, <1>6, Typing DEF Sessions, SameCourse
<1>8. /\ c \in Buttons /\ SameOuter(b, c) /\ c.session = s
      /\ c.requests = b.requests /\ c.handles = b.handles /\ c.view = b.view
  BY <1>3, <1>5, <1>7 DEF Buttons, SameOuter
<1>9. On(c) /\ Up(c) /\ Up(b)
  BY <1>5, <1>7, <1>8 DEF On, Up, SameOuter, SameCourse
<1>10. Life(c) /\ ~c.lapsed
  BY <1>5, <1>7, <1>8, <1>9 DEF Sound, Life, SameOuter, SameCourse, Up
<1>11. Counts(c)
  BY <1>5, <1>6, <1>7, <1>8 DEF Sound, Counts, SameOuter, SameCourse
<1>12. Subscribed(c.session)
  BY <1>5, <1>6, <1>7, <1>8 DEF Sound, Subscribed, SameCourse
<1>13. Polled(c.session) /\ Sighted(c.session)
  BY <1>5, <1>6, <1>7, <1>8 DEF Sound, Polled, Sighted, SameCourse
<1>14. ~c.unheard => Recovers(c.session)
  BY <1>5, <1>7, <1>8 DEF Sound, Recovers, SameOuter
<1>15. Shown(c)
  BY <1>5, <1>7, <1>8, <1>9 DEF Sound, Shown, SameCourse
<1>16. Closed(c)
  <2>1. b.session.snapshot.open
    BY <1>5 DEF Sound, Subscribed
  <2>. QED BY <1>5, <1>7, <1>8, <2>1 DEF Sound, Closed, SameCourse
<1>17. Sound(c)
  BY <1>5, <1>8, <1>9, <1>10, <1>11, <1>12, <1>13, <1>14, <1>15, <1>16 DEF Sound
<1>18. Ticking(b) => Ticking(c)
  BY <1>5, <1>7, <1>8 DEF Ticking, SameCourse
<1>19. QED
  BY <1>4, <1>6, <1>7, <1>8, <1>9, <1>17, <1>18 DEF SameOuter, SameCourse

(* A state of the subscription, told to a button that listens to it.        *)
LEMMA StateTold ==
  ASSUME NEW b, Good(b), b.session.sub.held, NEW phys \in Phys
  PROVE  LET c == HandleSubscriptionState([b EXCEPT !.session.sub.phys = phys], TRUE, phys) IN
         Good(c) /\ c.session.sub.held /\ c.session.sub.phys = phys
<1>1. PICK e : e = [b EXCEPT !.session.sub.phys = phys]
  OBVIOUS
<1>2. PICK c : c = HandleSubscriptionState(e, TRUE, phys)
  OBVIOUS
<1>3. /\ Sound(e) /\ On(e) /\ e.session.sub.held /\ e.session.sub.bound
      /\ e.session.sub.phys = phys /\ e.session.valid = b.session.valid
      /\ e.session.fallback = b.session.fallback
      /\ Ticking(b) => Ticking(e)
      /\ e.reentered = b.reentered /\ e.unheard = b.unheard
  BY <1>1, PhysFacts
<1>4. e \in Buttons /\ Accounted(e.requests)
  BY <1>3 DEF Sound
<1>5. /\ Further(e, c) /\ Shows(c)
      /\ phys = "down" \/ (e.session.valid /\ phys = "waiting") =>
           BackedUp(e.session, c.session)
  BY <1>2, <1>4, StateFacts
<1>6. /\ Sound(c) /\ On(c)
      /\ Told(e.session) \/ c.session.fallback => Told(c.session)
      /\ Ticking(e) => Ticking(c)
      /\ c.reentered = e.reentered /\ c.unheard = e.unheard
  BY <1>3, <1>5, SoundFurther
<1>7. Told(e.session) \/ c.session.fallback
  <2>1. CASE phys = "down" \/ (e.session.valid /\ phys = "waiting")
    BY <1>5, <2>1 DEF BackedUp
  <2>2. CASE ~(phys = "down" \/ (e.session.valid /\ phys = "waiting"))
    BY <1>3, <2>2 DEF Told, Phys
  <2>3. QED BY <2>1, <2>2
<1>8. Good(c)
  BY <1>3, <1>6, <1>7 DEF Good
<1>9. c.session.sub.held /\ c.session.sub.phys = phys
  BY <1>3, <1>5 DEF Further
<1>10. QED BY <1>1, <1>2, <1>8, <1>9

LEMMA SubscriptionStateStep ==
  ASSUME Good(button), SubscriptionState
  PROVE  Good(button')
<1>1. button.session.sub.held /\ Sound(button)
  BY DEF SubscriptionState, Good
<1>2. PICK phys \in Phys :
        button' = HandleSubscriptionState([button EXCEPT !.session.sub.phys = phys],
                    [button EXCEPT !.session.sub.phys = phys].session.sub.bound, phys)
  BY DEF SubscriptionState
<1>3. [button EXCEPT !.session.sub.phys = phys].session.sub.bound = TRUE
  <2>1. PICK e : e = [button EXCEPT !.session.sub.phys = phys]
    OBVIOUS
  <2>2. e.session.sub.bound /\ Sound(e)
    BY <1>1, <2>1, PhysFacts
  <2>3. e.session.sub.bound \in BOOLEAN
    BY <2>2, Typing DEF Sound, Subs
  <2>. QED BY <2>1, <2>2, <2>3
<1>4. button' = HandleSubscriptionState([button EXCEPT !.session.sub.phys = phys], TRUE, phys)
  BY <1>2, <1>3
<1>5. QED BY <1>1, <1>4, StateTold

LEMMA DoneFacts ==
  ASSUME wall \in Walls, NEW b, Good(b), b.session.sub.held, NEW next \in {"day", "night"}
  PROVE  /\ Further(b, [b EXCEPT !.session.sub.retarget = "none",
                                 !.session.sub.retargetLive = FALSE])
         /\ Further(b, [b EXCEPT !.session.sub.retarget = "none",
                                 !.session.sub.retargetLive = FALSE,
                                 !.session.sub.desc = next])
<1>1. ASSUME NEW u \in Subs, u.held, u.bound = b.session.sub.bound, u.phys = b.session.sub.phys,
             NEW c, c = [b EXCEPT !.session = [b.session EXCEPT !.sub = u]]
      PROVE  Further(b, c)
  <2>1. PICK s : s = [b.session EXCEPT !.sub = u]
    OBVIOUS
  <2>2. b \in Buttons /\ Accounted(b.requests)
    BY DEF Good, Sound
  <2>3. /\ s \in Sessions /\ SameCourse(b.session, s) /\ s.sub = u
        /\ s.connection = b.session.connection /\ s.fallback = b.session.fallback
        /\ s.grace = b.session.grace /\ s.poll = b.session.poll
        /\ s.recovering = b.session.recovering /\ s.recovery = b.session.recovery
    BY <2>1, <2>2, Typing DEF Sessions, SameCourse
  <2>4. /\ c \in Buttons /\ SameOuter(b, c) /\ c.session = s
        /\ c.requests = b.requests /\ c.handles = b.handles /\ c.view = b.view
    BY <1>1, <2>1, <2>2, <2>3 DEF Buttons, SameOuter
  <2>5. Backed(b.session, c.session) /\ (Recovers(b.session) => Recovers(c.session))
    BY <2>3, <2>4 DEF Backed, Recovers
  <2>6. Shows(b) => Shows(c)
    BY <2>3, <2>4 DEF Shows, Up, SameOuter
  <2>7. u.held = b.session.sub.held
    BY <1>1, <2>2, Typing DEF Subs
  <2>. QED BY <1>1, <2>2, <2>3, <2>4, <2>5, <2>6, <2>7 DEF Further, Kept
<1>2. b \in Buttons
  BY DEF Good, Sound
<1>3. PICK u : u = [b.session.sub EXCEPT !.retarget = "none", !.retargetLive = FALSE]
  OBVIOUS
<1>4. PICK v : v = [u EXCEPT !.desc = next]
  OBVIOUS
<1>5. /\ u \in Subs /\ u.held /\ u.bound = b.session.sub.bound /\ u.phys = b.session.sub.phys
  BY <1>2, <1>3, Typing DEF Subs
<1>6. /\ v \in Subs /\ v.held /\ v.bound = b.session.sub.bound /\ v.phys = b.session.sub.phys
  BY <1>4, <1>5 DEF Subs
<1>7. PICK c : c = [b EXCEPT !.session = [b.session EXCEPT !.sub = u]]
  OBVIOUS
<1>8. PICK d : d = [b EXCEPT !.session = [b.session EXCEPT !.sub = v]]
  OBVIOUS
<1>9. Further(b, c)
  BY <1>1, <1>5, <1>7
<1>10. Further(b, d)
  BY <1>1, <1>6, <1>8
<1>11. c = [b EXCEPT !.session.sub.retarget = "none", !.session.sub.retargetLive = FALSE]
  BY <1>3, <1>7
<1>12. d = [b EXCEPT !.session.sub.retarget = "none", !.session.sub.retargetLive = FALSE,
                     !.session.sub.desc = next]
  BY <1>3, <1>4, <1>8
<1>13. QED BY <1>9, <1>10, <1>11, <1>12

LEMMA RetargetEndsStep ==
  ASSUME wall \in Walls, Good(button), RetargetEnds
  PROVE  Good(button')
<1>1. button.session.sub.retarget # "none"
  BY DEF RetargetEnds
<1>2. button.session.sub.held
  BY <1>1, NoSubType DEF Good, Sound, Subscribed
<1>3. On(button) /\ button \in Buttons
  BY <1>2, HeldIsOn DEF Good, Sound
<1>4. PICK next \in {"day", "night"} : next = button.session.sub.retarget
  BY <1>1, <1>3, Typing DEF Subs
<1>5. PICK b : b = [button EXCEPT !.session.sub.retarget = "none",
                                  !.session.sub.retargetLive = FALSE]
  OBVIOUS
<1>6. Further(button, b)
  BY <1>2, <1>5, DoneFacts
<1>7. Good(b) /\ On(b)
  BY <1>3, <1>6, GoodFurther
<1>8. PICK live : live = button.session.sub.retargetLive
  OBVIOUS
<1>9. \/ button' = [b EXCEPT !.session.sub.desc = button.session.sub.retarget]
      \/ button' = HandleRetargetFailure(b, live)
  BY <1>5, <1>8 DEF RetargetEnds
<1>10. CASE button' = [b EXCEPT !.session.sub.desc = button.session.sub.retarget]
  <2>1. button' = [button EXCEPT !.session.sub.retarget = "none",
                     !.session.sub.retargetLive = FALSE, !.session.sub.desc = next]
    BY <1>4, <1>5, <1>10
  <2>2. PICK d : d = [button EXCEPT !.session.sub.retarget = "none",
                     !.session.sub.retargetLive = FALSE, !.session.sub.desc = next]
    OBVIOUS
  <2>3. Further(button, d)
    BY <1>2, <2>2, DoneFacts
  <2>4. Good(d)
    BY <1>3, <2>3, GoodFurther
  <2>. QED BY <2>1, <2>2, <2>4
<1>11. CASE button' = HandleRetargetFailure(b, live)
  <2>1. live \in BOOLEAN
    BY <1>3, <1>8, Typing DEF Subs
  <2>2. CASE live = TRUE
    <3>1. PICK d : d = HandleRetargetFailure(b, TRUE)
      OBVIOUS
    <3>2. b \in Buttons /\ Accounted(b.requests)
      BY <1>7 DEF Good, Sound
    <3>3. Further(b, d)
      BY <3>1, <3>2, FailureFacts
    <3>4. Good(d)
      BY <1>7, <3>3, GoodFurther
    <3>. QED BY <1>11, <2>2, <3>1, <3>4
  <2>3. CASE live = FALSE
    <3>1. button' = b
      BY <1>11, <2>3 DEF HandleRetargetFailure
    <3>. QED BY <1>7, <3>1
  <2>4. QED BY <2>1, <2>2, <2>3
<1>12. QED BY <1>9, <1>10, <1>11

(* A timer that ends changes what waits, not what the button is.            *)
LEMMA SoundTimers ==
  ASSUME NEW b, Sound(b), On(b), NEW c \in Buttons, Kept(b, c), c.requests = b.requests,
         c.handles = b.handles, c.view = b.view, c.session.sub = b.session.sub,
         c.session.connection = b.session.connection,
         Polled(c.session), Sighted(c.session), ~c.unheard => Recovers(c.session)
  PROVE  /\ Sound(c) /\ On(c) /\ (Ticking(b) => Ticking(c)) /\ c.reentered = b.reentered
         /\ c.unheard = b.unheard
         /\ Told(b.session) /\ (b.session.fallback => c.session.fallback) => Told(c.session)
<1>1. SameOuter(b, c) /\ SameCourse(b.session, c.session)
  BY DEF Kept
<1>2. On(c) /\ Up(c) /\ Up(b)
  BY <1>1 DEF On, Up, SameOuter, SameCourse
<1>3. Life(c) /\ ~c.lapsed
  BY <1>1, <1>2 DEF Sound, Life, SameOuter, SameCourse, Up
<1>4. Counts(c)
  BY <1>1 DEF Sound, Counts, SameOuter, SameCourse
<1>5. Subscribed(c.session)
  BY <1>1 DEF Sound, Subscribed, SameCourse
<1>6. Shown(c)
  BY <1>1, <1>2 DEF Sound, Shown, SameCourse
<1>7. Closed(c)
  <2>1. ClosedKey(c) = ClosedKey(b)
    BY <1>1 DEF ClosedKey, SameOuter, SameCourse
  <2>2. WillBeAnswered(b) => WillBeAnswered(c)
    BY DEF WillBeAnswered
  <2>. QED BY <1>1, <2>1, <2>2 DEF Sound, Closed, SameOuter, SameCourse
<1>8. Sound(c)
  BY <1>2, <1>3, <1>4, <1>5, <1>6, <1>7 DEF Sound
<1>9. Ticking(b) => Ticking(c)
  BY <1>1, <1>2 DEF Ticking, SameCourse
<1>10. Told(b.session) /\ (b.session.fallback => c.session.fallback) => Told(c.session)
  BY <1>1 DEF Told, SameCourse
<1>11. QED BY <1>1, <1>2, <1>8, <1>9, <1>10 DEF SameOuter

LEMMA GraceFiresStep ==
  ASSUME Good(button), GraceFires
  PROVE  Good(button')
<1>1. PICK b : b = [button EXCEPT !.session.grace = "off"]
  OBVIOUS
<1>2. PICK s : s = [button.session EXCEPT !.grace = "off"]
  OBVIOUS
<1>3. button \in Buttons /\ Sound(button)
  BY DEF Good, Sound
<1>4. button.session.grace = "live" /\ button.session.sub.held
  BY <1>3 DEF GraceFires, Sound, Polled
<1>5. button' = IF b.session.valid THEN b ELSE StartFallback(b, TRUE)
  BY <1>1, <1>4 DEF GraceFires
<1>6. On(button)
  BY <1>3, <1>4, HeldIsOn
<1>7. b = [button EXCEPT !.session = s]
  BY <1>1, <1>2
<1>8. /\ s \in Sessions /\ SameCourse(button.session, s) /\ s.sub = button.session.sub
      /\ s.connection = button.session.connection /\ s.fallback = button.session.fallback
      /\ s.grace = "off" /\ s.poll = button.session.poll
      /\ s.recovering = button.session.recovering /\ s.recovery = button.session.recovery
  BY <1>2, <1>3, Typing DEF Sessions, SameCourse, Timers
<1>9. /\ b \in Buttons /\ SameOuter(button, b) /\ b.session = s
      /\ b.requests = button.requests /\ b.handles = button.handles /\ b.view = button.view
  BY <1>3, <1>7, <1>8 DEF Buttons, SameOuter
<1>10. Kept(button, b)
  BY <1>8, <1>9 DEF Kept
<1>11. CASE b.session.valid
  <2>1. Polled(b.session)
    BY <1>3, <1>8, <1>9 DEF Sound, Polled
  <2>2. Sighted(b.session)
    BY <1>4, <1>8, <1>9, <1>11 DEF Sighted
  <2>3. ~b.unheard => Recovers(b.session)
    BY <1>3, <1>8, <1>9 DEF Sound, Recovers, SameOuter
  <2>4. /\ Sound(b) /\ (Ticking(button) => Ticking(b)) /\ b.reentered = button.reentered
        /\ b.unheard = button.unheard
        /\ Told(button.session) => Told(b.session)
    BY <1>3, <1>6, <1>8, <1>9, <1>10, <2>1, <2>2, <2>3, SoundTimers
  <2>. QED BY <1>5, <1>11, <2>4 DEF Good
<1>12. CASE ~b.session.valid
  <2>1. PICK c : c = StartFallback(b, TRUE)
    OBVIOUS
  <2>2. Accounted(b.requests)
    BY <1>3, <1>9 DEF Sound
  <2>3. /\ Further(b, c) /\ c.session.fallback /\ c.session.grace = "off"
        /\ c.session.poll = IF b.session.poll = "off" THEN "live" ELSE b.session.poll
    BY <1>9, <2>1, <2>2, FurtherFallback
  <2>4. Backed(button.session, c.session)
    BY <1>8, <1>9, <2>3 DEF Backed
  <2>5. Kept(button, c)
    BY <1>10, <2>3 DEF Further, Kept, SameOuter, SameCourse
  <2>6. Shows(button) => Shows(b)
    BY <1>8, <1>9 DEF Shows, Up, SameOuter
  <2>7. Recovers(button.session) => Recovers(b.session)
    BY <1>8, <1>9 DEF Recovers
  <2>8. Further(button, c)
    BY <1>8, <1>9, <2>3, <2>4, <2>5, <2>6, <2>7 DEF Further
  <2>9. Good(c)
    BY <1>6, <2>8, GoodFurther
  <2>. QED BY <1>5, <1>12, <2>1, <2>9
<1>13. QED BY <1>11, <1>12

LEMMA PollFiresStep ==
  ASSUME Good(button), PollFires
  PROVE  Good(button')
<1>1. PICK b : b = [button EXCEPT !.session.poll = "off"]
  OBVIOUS
<1>2. PICK s : s = [button.session EXCEPT !.poll = "off"]
  OBVIOUS
<1>3. button \in Buttons /\ Sound(button)
  BY DEF Good, Sound
<1>4. button.session.poll = "live"
  BY <1>3 DEF PollFires, Sound, Polled
<1>5. On(button)
  BY <1>3, <1>4 DEF Sound, Idle
<1>6. button' = IF ~b.session.fallback THEN b
                ELSE ArmPoll(IF FallbackUnderWay(b) THEN b ELSE PerformRest(b, TRUE, "fallback"),
                             TRUE)
  BY <1>1, <1>4 DEF PollFires
<1>7. b = [button EXCEPT !.session = s]
  BY <1>1, <1>2
<1>8. /\ s \in Sessions /\ SameCourse(button.session, s) /\ s.sub = button.session.sub
      /\ s.connection = button.session.connection /\ s.fallback = button.session.fallback
      /\ s.grace = button.session.grace /\ s.poll = "off"
      /\ s.recovering = button.session.recovering /\ s.recovery = button.session.recovery
  BY <1>2, <1>3, Typing DEF Sessions, SameCourse, Timers
<1>9. /\ b \in Buttons /\ SameOuter(button, b) /\ b.session = s
      /\ b.requests = button.requests /\ b.handles = button.handles /\ b.view = button.view
  BY <1>3, <1>7, <1>8 DEF Buttons, SameOuter
<1>10. Kept(button, b)
  BY <1>8, <1>9 DEF Kept
<1>11. CASE ~b.session.fallback
  <2>1. Polled(b.session)
    BY <1>3, <1>8, <1>9, <1>11 DEF Sound, Polled
  <2>2. Sighted(b.session)
    BY <1>3, <1>5, <1>8, <1>9 DEF Sound, Sighted, SameCourse
  <2>3. ~b.unheard => Recovers(b.session)
    BY <1>3, <1>8, <1>9 DEF Sound, Recovers, SameOuter
  <2>4. /\ Sound(b) /\ (Ticking(button) => Ticking(b)) /\ b.reentered = button.reentered
        /\ b.unheard = button.unheard
        /\ Told(button.session) => Told(b.session)
    BY <1>3, <1>5, <1>8, <1>9, <1>10, <2>1, <2>2, <2>3, SoundTimers
  <2>. QED BY <1>6, <1>11, <2>4 DEF Good
<1>12. CASE b.session.fallback
  <2>1. PICK d : d = IF FallbackUnderWay(b) THEN b ELSE PerformRest(b, TRUE, "fallback")
    OBVIOUS
  <2>2. PICK c : c = ArmPoll(d, TRUE)
    OBVIOUS
  <2>3. Accounted(b.requests)
    BY <1>3, <1>9 DEF Sound
  <2>4. /\ d \in Buttons /\ SameOuter(b, d) /\ d.session = b.session
        /\ d.handles = b.handles /\ d.view = b.view
        /\ Accounted(d.requests) /\ b.requests \subseteq d.requests
    <3>1. CASE FallbackUnderWay(b)
      BY <3>1, <1>9, <2>1, <2>3 DEF SameOuter
    <3>2. CASE ~FallbackUnderWay(b)
      <4>1. NoneOf(b.requests, "fallback")
        BY <2>3, <3>2 DEF FallbackUnderWay, Accounted, NoneOf
      <4>2. d = PerformRest(b, TRUE, "fallback")
        BY <3>2, <2>1
      <4>3. Asks(b, d, "fallback")
        BY <1>9, <2>3, <4>1, <4>2, PerformRestFacts
      <4>. QED BY <4>3 DEF Asks
    <3>3. QED BY <3>1, <3>2
  <2>5. /\ c \in Buttons /\ Kept(d, c)
        /\ c.requests = d.requests /\ c.handles = d.handles /\ c.view = d.view
        /\ c.session.sub = d.session.sub /\ c.session.connection = d.session.connection
        /\ c.session.grace = d.session.grace /\ c.session.fallback = d.session.fallback
        /\ c.session.recovering = d.session.recovering
        /\ c.session.recovery = d.session.recovery
        /\ c.session.poll = IF d.session.poll = "off" THEN "live" ELSE d.session.poll
    BY <2>2, <2>4, ArmPollFacts, ZenonT(40)
  <2>6. Kept(button, c)
    BY <1>10, <2>4, <2>5 DEF Kept, SameOuter, SameCourse
  <2>7. Backed(button.session, c.session) /\ c.session.recovering = button.session.recovering
        /\ c.session.recovery = button.session.recovery
    BY <1>4, <1>8, <1>9, <2>4, <2>5 DEF Backed
  <2>8. /\ c.session.sub = button.session.sub /\ c.handles = button.handles
        /\ c.session.connection = button.session.connection /\ c.view = button.view
        /\ Accounted(c.requests) /\ button.requests \subseteq c.requests
    BY <1>8, <1>9, <2>4, <2>5
  <2>9. Shows(button) => Shows(c)
    BY <2>6, <2>8 DEF Shows, Up, Kept, SameOuter
  <2>10. Further(button, c)
    BY <2>5, <2>6, <2>7, <2>8, <2>9 DEF Further, Recovers
  <2>11. Good(c)
    BY <1>5, <2>10, GoodFurther
  <2>. QED BY <1>6, <1>12, <2>1, <2>2, <2>11
<1>13. QED BY <1>11, <1>12

LEMMA RecoveryFiresStep ==
  ASSUME Good(button), RecoveryFires
  PROVE  Good(button')
<1>1. button \in Buttons /\ Sound(button) /\ button.session.recovery # "off"
  BY DEF Good, Sound, RecoveryFires
<1>2. On(button)
  BY <1>1 DEF Sound, Idle
<1>3. ASSUME NEW t \in BOOLEAN, t => button.session.recovery # "live",
             NEW c, c = [button EXCEPT !.session =
                      [button.session EXCEPT !.recovery = "off",
                         !.recovering = IF t THEN @ ELSE FALSE]]
      PROVE  Good(c) /\ On(c)
  <2>1. PICK s : s = [button.session EXCEPT !.recovery = "off",
                        !.recovering = IF t THEN @ ELSE FALSE]
    OBVIOUS
  <2>2. /\ s \in Sessions /\ SameCourse(button.session, s) /\ s.sub = button.session.sub
        /\ s.connection = button.session.connection /\ s.fallback = button.session.fallback
        /\ s.grace = button.session.grace /\ s.poll = button.session.poll
        /\ s.recovery = "off"
        /\ s.recovering = IF t THEN button.session.recovering ELSE FALSE
    BY <1>1, <2>1, Typing, ZenonT(40) DEF Sessions, SameCourse, Timers
  <2>3. /\ c \in Buttons /\ SameOuter(button, c) /\ c.session = s
        /\ c.requests = button.requests /\ c.handles = button.handles
        /\ c.view = button.view
    BY <1>1, <1>3, <2>1, <2>2 DEF Buttons, SameOuter
  <2>4. Kept(button, c)
    BY <2>2, <2>3 DEF Kept
  <2>5. Polled(c.session)
    BY <1>1, <2>2, <2>3 DEF Sound, Polled
  <2>6. Sighted(c.session)
    BY <1>1, <1>2, <2>2, <2>3 DEF Sound, Sighted, SameCourse
  <2>7. ~c.unheard => Recovers(c.session)
    BY <1>1, <1>3, <2>2, <2>3 DEF Sound, Recovers, SameOuter
  <2>8. /\ Sound(c) /\ On(c) /\ (Ticking(button) => Ticking(c))
        /\ c.reentered = button.reentered /\ c.unheard = button.unheard
        /\ Told(button.session) => Told(c.session)
    BY <1>1, <1>2, <2>2, <2>3, <2>4, <2>5, <2>6, <2>7, SoundTimers
  <2>. QED BY <2>8 DEF Good
<1>4. PICK b : b = [button EXCEPT !.session.recovery = "off"]
  OBVIOUS
<1>5. button' = IF button.session.recovery = "dead" THEN b
                ELSE SubmitView([b EXCEPT !.session.recovering = FALSE])
  BY <1>4 DEF RecoveryFires
<1>6. CASE button.session.recovery = "dead"
  <2>1. PICK c : c = [button EXCEPT !.session =
                      [button.session EXCEPT !.recovery = "off",
                         !.recovering = IF TRUE THEN @ ELSE FALSE]]
    OBVIOUS
  <2>2. button.session.recovering \in BOOLEAN
    BY <1>1, Typing DEF Sessions
  <2>3. c = b
    BY <1>1, <1>4, <2>1, Typing DEF Buttons, Sessions
  <2>4. Good(c)
    BY <1>3, <1>6, <2>1
  <2>. QED BY <1>5, <1>6, <2>3, <2>4
<1>7. CASE button.session.recovery # "dead"
  <2>1. PICK c : c = [button EXCEPT !.session =
                      [button.session EXCEPT !.recovery = "off",
                         !.recovering = IF FALSE THEN @ ELSE FALSE]]
    OBVIOUS
  <2>2. c = [b EXCEPT !.session.recovering = FALSE]
    BY <1>4, <2>1
  <2>3. Good(c) /\ On(c)
    BY <1>3, <2>1
  <2>4. PICK d : d = SubmitView(c)
    OBVIOUS
  <2>5. c \in Buttons /\ Accounted(c.requests)
    BY <2>3 DEF Good, Sound
  <2>6. Further(c, d)
    BY <2>4, <2>5, FurtherSubmit
  <2>7. Good(d)
    BY <2>3, <2>6, GoodFurther
  <2>. QED BY <1>5, <1>7, <2>2, <2>4, <2>7
<1>8. QED BY <1>6, <1>7

(* A request that ends changes what the button shows, and little else.      *)
SameButShown(s, t) ==
  /\ t.applied = s.applied /\ t.snapshot = s.snapshot /\ t.attached = s.attached
  /\ t.valid = s.valid /\ t.tick = s.tick /\ t.closedKey = s.closedKey
  /\ t.opened = s.opened /\ t.sub = s.sub
  /\ t.fallback = s.fallback /\ t.grace = s.grace /\ t.poll = s.poll
  /\ t.recovering = s.recovering /\ t.recovery = s.recovery

LEMMA FewerAccounted == ASSUME NEW R, Accounted(R), NEW S, S \subseteq R
  PROVE  Accounted(S)
BY DEF Accounted

LEMMA GoodAnswered ==
  ASSUME NEW b, Good(b), Up(b), NEW c \in Buttons, SameOuter(b, c),
         Accounted(c.requests), c.handles = b.handles,
         SameButShown(b.session, c.session), Shown(c),
         c.session.connection # "waiting" \/ (c.session.connection = b.session.connection
                                              /\ (WillBeAnswered(b) => WillBeAnswered(c)))
  PROVE  Good(c)
<1>1. Sound(b) /\ Told(b.session) /\ (~b.unheard => Ticking(b))
  BY DEF Good
<1>2. Up(c) /\ (On(c) <=> On(b)) /\ c.reentered = b.reentered /\ c.unheard = b.unheard
  BY DEF On, Up, SameOuter, SameButShown
<1>3. Life(c) /\ ~c.lapsed
  BY <1>1, <1>2 DEF Sound, Life, SameOuter, SameButShown, Up
<1>4. Counts(c)
  BY <1>1 DEF Sound, Counts, SameOuter, SameButShown
<1>5. ~On(c) => Idle(c.session)
  BY <1>1, <1>2 DEF Sound, Idle, SameButShown
<1>6. Subscribed(c.session) /\ Polled(c.session)
  BY <1>1 DEF Sound, Subscribed, Polled, SameButShown
<1>7. On(c) => Sighted(c.session)
  BY <1>1, <1>2 DEF Sound, Sighted, SameButShown
<1>8. ~c.unheard => Recovers(c.session)
  BY <1>1, <1>2 DEF Sound, Recovers, SameButShown
<1>9. On(c) => Closed(c)
  <2>1. ClosedKey(c) = ClosedKey(b)
    BY DEF ClosedKey, SameOuter, SameButShown
  <2>. QED BY <1>1, <1>2, <2>1 DEF Sound, Closed, SameButShown
<1>10. Sound(c)
  BY <1>3, <1>4, <1>5, <1>6, <1>7, <1>8, <1>9 DEF Sound
<1>11. Told(c.session)
  BY <1>1 DEF Told, SameButShown
<1>12. ~c.unheard => Ticking(c)
  BY <1>1, <1>2 DEF Ticking, SameButShown
<1>13. QED BY <1>10, <1>11, <1>12 DEF Good

LEMMA RestAnswersStep ==
  ASSUME Good(button), RestAnswers
  PROVE  Good(button')
<1>1. PICK r \in button.requests, ok \in BOOLEAN :
        LET b == [button EXCEPT !.requests = @ \ {r}] IN
        button' = IF r.own THEN RestSettled(b, r, ok) ELSE b
  BY DEF RestAnswers
<1>2. button \in Buttons /\ Sound(button) /\ Accounted(button.requests)
  BY DEF Good, Sound
<1>3. r \in Requests /\ r.own /\ (r.live /\ r.fresh => ~r.overtaken)
  BY <1>2, Typing DEF Accounted
<1>4. Up(button)
  BY <1>2 DEF Sound, Life
<1>5. PICK b : b = [button EXCEPT !.requests = @ \ {r}]
  OBVIOUS
<1>6. button' = RestSettled(b, r, ok)
  BY <1>1, <1>3, <1>5
<1>7. /\ b \in Buttons /\ SameOuter(button, b) /\ b.session = button.session
      /\ b.requests = button.requests \ {r} /\ b.handles = button.handles
      /\ b.view = button.view
  BY <1>2, <1>5 DEF Buttons, SameOuter
<1>8. Up(b) /\ Shown(b)
  BY <1>2, <1>4, <1>7 DEF Sound, Shown, Up, SameOuter
<1>9. Accounted(b.requests)
  BY <1>2, <1>7, FewerAccounted
<1>10. SameButShown(button.session, b.session)
  BY <1>7 DEF SameButShown
<1>11. ASSUME button' = b,
              b.session.connection # "waiting" \/ ~(Awaited(r) /\ Adopts(r))
       PROVE  Good(button')
  <2>1. (Awaited(r) /\ Adopts(r)) \/ (WillBeAnswered(button) => WillBeAnswered(b))
    BY <1>7 DEF WillBeAnswered
  <2>2. Good(b)
    BY <1>4, <1>7, <1>8, <1>10, <1>11, <1>9, <2>1, GoodAnswered
  <2>. QED BY <1>11, <2>2
<1>12. CASE ok /\ Adopts(r)
  <2>1. PICK s : s = [b.session EXCEPT !.quoted = TRUE, !.connection = "BACKUP"]
    OBVIOUS
  <2>2. PICK l : l = (b.lapsed \/ r.overtaken)
    OBVIOUS
  <2>3. PICK c : c = [b EXCEPT !.session = s, !.lapsed = l]
    OBVIOUS
  <2>4. PICK d : d = SubmitView(c)
    OBVIOUS
  <2>5. c = [b EXCEPT !.session.quoted = TRUE, !.session.connection = "BACKUP",
                      !.lapsed = @ \/ r.overtaken]
    BY <2>1, <2>2, <2>3
  <2>6. button' = d
    BY <1>6, <1>12, <2>4, <2>5 DEF RestSettled
  <2>7. l = FALSE /\ b.lapsed = FALSE
    BY <1>2, <1>3, <1>7, <1>12, <2>2 DEF Adopts, Sound, SameOuter, Buttons, Requests
  <2>8. /\ s \in Sessions /\ SameButShown(b.session, s) /\ s.quoted
        /\ s.connection = "BACKUP"
    BY <1>7, <2>1, Typing, ZenonT(40) DEF Sessions, SameButShown, Connections
  <2>9. /\ c \in Buttons /\ SameOuter(b, c) /\ c.session = s
        /\ c.requests = b.requests /\ c.handles = b.handles /\ c.view = b.view
    BY <1>7, <2>3, <2>7, <2>8 DEF Buttons, SameOuter
  <2>10. /\ d \in Buttons /\ SameOuter(c, d) /\ d.session = c.session
         /\ d.requests = c.requests /\ d.handles = c.handles
         /\ d.view = IF Up(c) THEN c.session.connection ELSE c.view
    BY <2>4, <2>9, SubmitFacts
  <2>11. SameOuter(button, d) /\ Up(c)
    BY <1>7, <1>8, <2>9, <2>10 DEF SameOuter, Up
  <2>12. Shown(d)
    BY <2>8, <2>9, <2>10, <2>11 DEF Shown
  <2>13. SameButShown(button.session, d.session) /\ d.session.connection # "waiting"
    BY <1>7, <2>8, <2>9, <2>10
  <2>14. Good(d)
    BY <1>4, <1>7, <1>9, <2>9, <2>10, <2>11, <2>12, <2>13, GoodAnswered
  <2>. QED BY <2>6, <2>14
<1>13. CASE ok /\ ~Adopts(r)
  <2>1. button' = b
    BY <1>6, <1>13 DEF RestSettled
  <2>. QED BY <1>11, <1>13, <2>1
<1>14. CASE ~ok /\ (~r.live \/ r.aborted)
  <2>1. button' = b
    BY <1>6, <1>14 DEF RestSettled
  <2>2. ~(Awaited(r) /\ Adopts(r))
    BY <1>14 DEF Awaited, Adopts
  <2>. QED BY <1>11, <2>1, <2>2
<1>15. CASE ~ok /\ ~(~r.live \/ r.aborted) /\ b.session.quoted
  <2>1. b.session.connection # "waiting"
    BY <1>8, <1>15 DEF Shown
  <2>2. button' = SubmitView(b) \/ button' = b
    BY <1>6, <1>15 DEF RestSettled
  <2>3. PICK d : d = SubmitView(b)
    OBVIOUS
  <2>4. d = b
    <3>1. b.view = b.session.connection
      BY <1>8 DEF Shown
    <3>2. d = [b EXCEPT !.view = b.session.connection]
      BY <1>8, <2>3 DEF SubmitView
    <3>. QED BY <1>7, <3>1, <3>2 DEF Buttons
  <2>5. button' = b
    BY <2>2, <2>3, <2>4
  <2>. QED BY <1>11, <2>1, <2>5
<1>16. CASE ~ok /\ ~(~r.live \/ r.aborted) /\ ~b.session.quoted
  <2>1. button' = SubmitView([b EXCEPT !.session.connection = "BROKEN"])
    BY <1>6, <1>16 DEF RestSettled
  <2>2. PICK d : d = Broken(b)
    OBVIOUS
  <2>3. button' = d
    BY <2>1, <2>2 DEF Broken
  <2>4. PICK s : s = [b.session EXCEPT !.connection = "BROKEN"]
    OBVIOUS
  <2>5. PICK c : c = [b EXCEPT !.session = s]
    OBVIOUS
  <2>6. d = SubmitView(c)
    BY <2>2, <2>4, <2>5 DEF Broken
  <2>7. /\ s \in Sessions /\ SameButShown(b.session, s) /\ s.connection = "BROKEN"
    BY <1>7, <2>4, Typing DEF Sessions, SameButShown, Connections
  <2>8. /\ c \in Buttons /\ SameOuter(b, c) /\ c.session = s
        /\ c.requests = b.requests /\ c.handles = b.handles
    BY <1>7, <2>5, <2>7 DEF Buttons, SameOuter
  <2>9. /\ d \in Buttons /\ SameOuter(c, d) /\ d.session = c.session
        /\ d.requests = c.requests /\ d.handles = c.handles
        /\ d.view = IF Up(c) THEN c.session.connection ELSE c.view
    BY <2>6, <2>8, SubmitFacts
  <2>10. SameOuter(button, d) /\ Up(c)
    BY <1>7, <1>8, <2>8, <2>9 DEF SameOuter, Up
  <2>11. Shown(d)
    BY <2>7, <2>8, <2>9, <2>10 DEF Shown
  <2>12. SameButShown(button.session, d.session) /\ d.session.connection # "waiting"
    BY <1>7, <2>7, <2>8, <2>9
  <2>13. Good(d)
    BY <1>4, <1>7, <1>9, <2>8, <2>9, <2>10, <2>11, <2>12, GoodAnswered
  <2>. QED BY <2>3, <2>13
<1>17. QED BY <1>12, <1>13, <1>14, <1>15, <1>16

(* stopFallback: no backup request stands after a frame. *)
LEMMA StopFacts ==
  ASSUME NEW b \in Buttons,
         \A r \in b.requests :
           /\ r.own /\ (r.live \/ r.aborted) /\ ~r.fresh
           /\ r.aborted => r.kind \in {"initial", "manual"}
           /\ r.kind = "fallback" => r.held
  PROVE  LET c == StopFallback(b) IN
         /\ c \in Buttons /\ SameOuter(b, c) /\ c.handles = b.handles /\ c.view = b.view
         /\ Accounted(c.requests)
         /\ c.session = [b.session EXCEPT !.fallback = FALSE, !.grace = "off", !.poll = "off"]
<1>1. PICK c : c = StopFallback(b)
  OBVIOUS
<1>2. PICK s : s = [b.session EXCEPT !.fallback = FALSE, !.grace = "off", !.poll = "off"]
  OBVIOUS
<1>3. PICK R : R = {IF r.own /\ r.kind = "fallback" /\ r.held THEN Abort(r) ELSE r
                      : r \in b.requests}
  OBVIOUS
<1>4. c = [b EXCEPT !.session = s, !.requests = R]
  BY <1>1, <1>2, <1>3 DEF StopFallback
<1>5. s \in Sessions
  BY <1>2, Typing, ZenonT(40) DEF Sessions, Timers
<1>6. ASSUME NEW r \in R
      PROVE  /\ r \in Requests /\ r.own /\ (r.live \/ r.aborted) /\ r.kind # "fallback"
             /\ r.aborted => r.kind \in {"initial", "manual"}
             /\ ~(r.live /\ r.fresh /\ r.overtaken)
  <2>1. PICK q \in b.requests :
          r = IF q.own /\ q.kind = "fallback" /\ q.held THEN Abort(q) ELSE q
    BY <1>3
  <2>2. /\ q \in Requests /\ q.own /\ (q.live \/ q.aborted) /\ ~q.fresh
        /\ q.aborted => q.kind \in {"initial", "manual"}
        /\ q.kind = "fallback" => q.held
    BY Typing
  <2>3. CASE q.kind = "fallback"
    <3>1. r = Abort(q)
      BY <2>1, <2>2, <2>3
    <3>2. r.fresh = q.fresh
      BY <2>2, <3>1 DEF Abort, Requests
    <3>. QED BY <2>2, <3>1, <3>2, AbortFacts
  <2>4. CASE q.kind # "fallback"
    BY <2>1, <2>2, <2>4
  <2>. QED BY <2>3, <2>4
<1>7. Accounted(R)
  BY <1>6 DEF Accounted
<1>8. c \in Buttons /\ SameOuter(b, c) /\ c.handles = b.handles /\ c.view = b.view
      /\ c.requests = R /\ c.session = s
  <2>1. R \subseteq Requests
    BY <1>6
  <2>. QED BY <1>4, <1>5, <2>1 DEF Buttons, SameOuter
<1>9. QED BY <1>1, <1>2, <1>7, <1>8

(* A parsed frame is taken up. *)
Fresher(o) ==
  StopFallback(BumpRevision(Overtake(
    [o EXCEPT !.session.quoted = TRUE, !.session.connection = "LIVE",
              !.session.valid = TRUE])))

LEMMA FresherFacts ==
  ASSUME NEW o \in Buttons, Accounted(o.requests)
  PROVE  LET d == Fresher(o) IN
         /\ d \in Buttons /\ SameOuter(o, d) /\ d.handles = o.handles
         /\ Accounted(d.requests)
         /\ d.session.quoted /\ d.session.valid /\ d.session.connection = "LIVE"
         /\ ~d.session.fallback /\ d.session.grace = "off" /\ d.session.poll = "off"
         /\ d.session.applied = o.session.applied /\ d.session.snapshot = o.session.snapshot
         /\ d.session.attached = o.session.attached /\ d.session.tick = o.session.tick
         /\ d.session.closedKey = o.session.closedKey /\ d.session.opened = o.session.opened
         /\ d.session.sub = o.session.sub
         /\ d.session.recovering = o.session.recovering
         /\ d.session.recovery = o.session.recovery
<1>1. PICK s : s = [o.session EXCEPT !.quoted = TRUE, !.connection = "LIVE", !.valid = TRUE]
  OBVIOUS
<1>2. PICK c : c = [o EXCEPT !.session = s]
  OBVIOUS
<1>3. c = [o EXCEPT !.session.quoted = TRUE, !.session.connection = "LIVE",
                    !.session.valid = TRUE]
  BY <1>1, <1>2
<1>4. /\ s \in Sessions /\ s.quoted /\ s.valid /\ s.connection = "LIVE"
      /\ s.applied = o.session.applied /\ s.snapshot = o.session.snapshot
      /\ s.attached = o.session.attached /\ s.tick = o.session.tick
      /\ s.closedKey = o.session.closedKey /\ s.opened = o.session.opened
      /\ s.sub = o.session.sub
      /\ s.recovering = o.session.recovering /\ s.recovery = o.session.recovery
  BY <1>1, Typing, ZenonT(40) DEF Sessions, Connections
<1>5. /\ c \in Buttons /\ SameOuter(o, c) /\ c.session = s
      /\ c.requests = o.requests /\ c.handles = o.handles
  BY <1>2, <1>4 DEF Buttons, SameOuter
<1>6. PICK e : e = Overtake(c)
  OBVIOUS
<1>7. PICK f : f = BumpRevision(e)
  OBVIOUS
<1>8. PICK d : d = StopFallback(f)
  OBVIOUS
<1>9. d = Fresher(o)
  BY <1>3, <1>6, <1>7, <1>8 DEF Fresher
<1>10. /\ e \in Buttons /\ SameOuter(c, e) /\ e.session = c.session
       /\ e.handles = c.handles
       /\ \A r \in e.requests : \E q \in c.requests :
            /\ r.own = q.own /\ r.live = q.live /\ r.fresh = q.fresh
            /\ r.aborted = q.aborted /\ r.kind = q.kind /\ r.held = q.held
  BY <1>5, <1>6, OvertakeFacts
<1>11. /\ f \in Buttons /\ SameOuter(e, f) /\ f.session = e.session
       /\ f.handles = e.handles
       /\ \A r \in f.requests : ~r.fresh /\ \E q \in e.requests :
            /\ r.own = q.own /\ r.live = q.live
            /\ r.aborted = q.aborted /\ r.kind = q.kind /\ r.held = q.held
  BY <1>7, <1>10, RevisionFacts
<1>12. ASSUME NEW r \in f.requests
       PROVE  /\ r.own /\ (r.live \/ r.aborted) /\ ~r.fresh
              /\ r.aborted => r.kind \in {"initial", "manual"}
              /\ r.kind = "fallback" => r.held
  <2>1. PICK q \in e.requests :
            /\ r.own = q.own /\ r.live = q.live
            /\ r.aborted = q.aborted /\ r.kind = q.kind /\ r.held = q.held
    BY <1>11
  <2>2. PICK p \in c.requests :
            /\ q.own = p.own /\ q.live = p.live
            /\ q.aborted = p.aborted /\ q.kind = p.kind /\ q.held = p.held
    BY <1>10
  <2>3. /\ p.own /\ (p.live \/ p.aborted) /\ (p.aborted => p.kind \in {"initial", "manual"})
        /\ (p.kind = "fallback" => p.held)
    BY <1>5 DEF Accounted
  <2>4. ~r.fresh
    BY <1>11
  <2>. QED BY <2>1, <2>2, <2>3, <2>4
<1>13. /\ d \in Buttons /\ SameOuter(f, d) /\ d.handles = f.handles
       /\ Accounted(d.requests)
       /\ d.session = [f.session EXCEPT !.fallback = FALSE, !.grace = "off", !.poll = "off"]
  BY <1>8, <1>11, <1>12, StopFacts
<1>14. f.session = s
  BY <1>5, <1>10, <1>11
<1>15. /\ d.session.quoted /\ d.session.valid /\ d.session.connection = "LIVE"
       /\ ~d.session.fallback /\ d.session.grace = "off" /\ d.session.poll = "off"
       /\ d.session.applied = s.applied /\ d.session.snapshot = s.snapshot
       /\ d.session.attached = s.attached /\ d.session.tick = s.tick
       /\ d.session.closedKey = s.closedKey /\ d.session.opened = s.opened
       /\ d.session.sub = s.sub
       /\ d.session.recovering = s.recovering /\ d.session.recovery = s.recovery
  BY <1>4, <1>13, <1>14 DEF Sessions
<1>16. SameOuter(o, d) /\ d.handles = o.handles
  BY <1>5, <1>10, <1>11, <1>13 DEF SameOuter
<1>17. QED BY <1>4, <1>9, <1>13, <1>15, <1>16

LEMMA GoodFed ==
  ASSUME NEW o, Good(o), On(o),
         (o.session.sub.held /\ o.session.sub.phys = "live") \/ ~o.session.snapshot.open,
         NEW e \in Buttons, SameOuter(o, e), e.handles = o.handles,
         Accounted(e.requests),
         e.session.quoted, e.session.valid, e.session.connection = "LIVE", e.view = "LIVE",
         ~e.session.fallback, e.session.grace = "off", e.session.poll = "off",
         e.session.applied = o.session.applied, e.session.snapshot = o.session.snapshot,
         e.session.attached = o.session.attached, e.session.tick = o.session.tick,
         e.session.closedKey = o.session.closedKey, e.session.opened = o.session.opened,
         e.session.sub = o.session.sub,
         ~o.unheard => Recovers(e.session)
  PROVE  Good(e)
<1>1. Sound(o) /\ (~o.unheard => Ticking(o))
  BY DEF Good
<1>2. On(e) /\ Up(e) /\ Up(o) /\ e.reentered = o.reentered /\ e.unheard = o.unheard
  BY DEF On, Up, SameOuter
<1>3. Life(e) /\ ~e.lapsed
  BY <1>1, <1>2 DEF Sound, Life, SameOuter, Up
<1>4. Counts(e)
  BY <1>1 DEF Sound, Counts, SameOuter
<1>5. Subscribed(e.session)
  BY <1>1 DEF Sound, Subscribed
<1>6. Polled(e.session)
  BY DEF Polled
<1>7. Sighted(e.session)
  BY DEF Sighted
<1>8. Told(e.session)
  BY <1>5 DEF Told, Subscribed
<1>9. Shown(e)
  BY DEF Shown
<1>10. Closed(e)
  <2>1. ClosedKey(e) = ClosedKey(o)
    BY DEF ClosedKey, SameOuter
  <2>. QED BY <1>1, <2>1 DEF Sound, Closed
<1>11. Sound(e)
  BY <1>2, <1>3, <1>4, <1>5, <1>6, <1>7, <1>9, <1>10 DEF Sound
<1>12. ~e.unheard => Ticking(e)
  BY <1>1, <1>2 DEF Ticking
<1>13. QED BY <1>8, <1>11, <1>12 DEF Good

LEMMA DataFacts ==
  ASSUME wall \in Walls, NEW b, Good(b), b.session.sub.held, b.session.sub.phys = "live",
         NEW parsed \in BOOLEAN, NEW outcome \in Outcomes
  PROVE  Good(HandleSubscriptionData(b, TRUE, parsed, outcome))
<1>1. Sound(b) /\ On(b) /\ Up(b) /\ b.session.applied.mode = "automatic" /\ b \in Buttons
  BY HeldIsOn DEF Good, Sound
<1>2. Steady(b) /\ b.settings.creds
  BY <1>1, SoundSteady DEF Sound, Life, On
<1>3. PICK o : o = Observe(b, outcome)
  OBVIOUS
<1>4. /\ Good(o) /\ On(o)
      /\ (o.session.sub.held /\ o.session.sub.phys = "live") \/ ~o.session.snapshot.open
      /\ Moves(b) => o.unheard
  <2>1. CASE Moves(b)
    <3>1. Moved(b, o)
      BY <1>2, <1>3, <2>1, ObserveFacts
    <3>2. On(o)
      BY <3>1 DEF Moved, Good, Sound, Idle
    <3>. QED BY <1>1, <3>1, <3>2 DEF Moved
  <2>2. CASE ~Moves(b)
    <3>1. o = Aware(b)
      BY <1>2, <1>3, <2>2, ObserveFacts
    <3>2. /\ o \in Buttons /\ o.session = b.session
          /\ o.requests = b.requests /\ o.handles = b.handles /\ o.listeners = b.listeners
          /\ o.view = b.view /\ o.phase = b.phase /\ o.settings = b.settings
          /\ o.destroyed = b.destroyed /\ o.lapsed = b.lapsed /\ o.reentered = b.reentered
          /\ o.unheard = b.unheard
      BY <1>1, <3>1, AwareFacts
    <3>3. Sound(o) /\ (On(o) <=> On(b)) /\ (Ticking(b) <=> Ticking(o))
      BY <1>1, <3>2, SoundSame
    <3>. QED BY <1>1, <2>2, <3>2, <3>3 DEF Good
  <2>. QED BY <2>1, <2>2
<1>5. o \in Buttons /\ Accounted(o.requests) /\ Up(o)
  BY <1>4 DEF Good, Sound, On
<1>6. CASE ~parsed
  <2>1. PICK e : e = IF o.session.quoted THEN o ELSE Broken(o)
    OBVIOUS
  <2>2. Further(o, e)
    BY <1>5, <2>1, FurtherSelf, FurtherBroken
  <2>3. Good(e) /\ On(e)
    BY <1>4, <2>2, GoodFurther
  <2>4. HandleSubscriptionData(b, TRUE, parsed, outcome) = StartFallback(e, ~Moves(b))
    BY <1>3, <1>6, <2>1 DEF HandleSubscriptionData, Broken
  <2>5. CASE Moves(b)
    <3>1. StartFallback(e, ~Moves(b)) = e
      BY <2>5 DEF StartFallback
    <3>. QED BY <2>3, <2>4, <3>1
  <2>6. CASE ~Moves(b)
    <3>1. PICK f : f = StartFallback(e, TRUE)
      OBVIOUS
    <3>2. e \in Buttons /\ Accounted(e.requests)
      BY <2>3 DEF Good, Sound
    <3>3. Further(e, f)
      BY <3>1, <3>2, FurtherFallback
    <3>4. Good(f)
      BY <2>3, <3>3, GoodFurther
    <3>5. (~Moves(b)) = TRUE
      BY <2>6
    <3>6. HandleSubscriptionData(b, TRUE, parsed, outcome) = f
      BY <2>4, <3>1, <3>5
    <3>. QED BY <3>4, <3>6
  <2>. QED BY <2>5, <2>6
<1>7. CASE parsed
  <2>1. PICK d : d = Fresher(o)
    OBVIOUS
  <2>2. /\ d \in Buttons /\ SameOuter(o, d) /\ d.handles = o.handles
        /\ Accounted(d.requests)
        /\ d.session.quoted /\ d.session.valid /\ d.session.connection = "LIVE"
        /\ ~d.session.fallback /\ d.session.grace = "off" /\ d.session.poll = "off"
        /\ d.session.applied = o.session.applied /\ d.session.snapshot = o.session.snapshot
        /\ d.session.attached = o.session.attached /\ d.session.tick = o.session.tick
        /\ d.session.closedKey = o.session.closedKey /\ d.session.opened = o.session.opened
        /\ d.session.sub = o.session.sub
        /\ d.session.recovering = o.session.recovering
        /\ d.session.recovery = o.session.recovery
    BY <1>5, <2>1, FresherFacts
  <2>3. \/ HandleSubscriptionData(b, TRUE, parsed, outcome) = SubmitView(d)
        \/ HandleSubscriptionData(b, TRUE, parsed, outcome) = ShowRecovery(d, ~Moves(b))
    BY <1>3, <1>7, <2>1 DEF HandleSubscriptionData, Fresher
  <2>4. Up(d)
    BY <1>5, <2>2 DEF Up, SameOuter
  <2>5. Good(SubmitView(d))
    <3>1. PICK e : e = SubmitView(d)
      OBVIOUS
    <3>2. /\ e \in Buttons /\ SameOuter(d, e) /\ e.session = d.session
          /\ e.requests = d.requests /\ e.handles = d.handles
          /\ e.view = d.session.connection
      BY <2>2, <2>4, <3>1, SubmitFacts
    <3>3. SameOuter(o, e)
      BY <2>2, <3>2 DEF SameOuter
    <3>4. ~o.unheard => Recovers(e.session)
      BY <1>4, <2>2, <3>2 DEF Good, Sound, Recovers
    <3>5. Good(e)
      BY <1>4, <2>2, <3>2, <3>3, <3>4, GoodFed
    <3>. QED BY <3>1, <3>5
  <2>6. Good(ShowRecovery(d, ~Moves(b)))
    <3>1. PICK t \in Timers : t = Armed(~Moves(b))
      BY DEF Armed, Timers
    <3>2. PICK s : s = [d.session EXCEPT !.recovering = TRUE, !.recovery = t]
      OBVIOUS
    <3>3. PICK c : c = [d EXCEPT !.session = s]
      OBVIOUS
    <3>4. PICK e : e = SubmitView(c)
      OBVIOUS
    <3>5. e = ShowRecovery(d, ~Moves(b))
      <4>1. c = [d EXCEPT !.session.recovering = TRUE, !.session.recovery = Armed(~Moves(b))]
        BY <3>1, <3>2, <3>3
      <4>. QED BY <3>4, <4>1 DEF ShowRecovery
    <3>6. /\ s \in Sessions /\ s.recovering /\ s.recovery = t
          /\ s.quoted = d.session.quoted /\ s.valid = d.session.valid
          /\ s.connection = d.session.connection
          /\ s.fallback = d.session.fallback /\ s.grace = d.session.grace
          /\ s.poll = d.session.poll
          /\ s.applied = d.session.applied /\ s.snapshot = d.session.snapshot
          /\ s.attached = d.session.attached /\ s.tick = d.session.tick
          /\ s.closedKey = d.session.closedKey /\ s.opened = d.session.opened
          /\ s.sub = d.session.sub
      BY <2>2, <3>2, Typing, ZenonT(40) DEF Sessions
    <3>7. /\ c \in Buttons /\ SameOuter(d, c) /\ c.session = s
          /\ c.requests = d.requests /\ c.handles = d.handles
      BY <2>2, <3>3, <3>6 DEF Buttons, SameOuter
    <3>8. Up(c)
      BY <2>4, <3>7 DEF Up, SameOuter
    <3>9. /\ e \in Buttons /\ SameOuter(c, e) /\ e.session = c.session
          /\ e.requests = c.requests /\ e.handles = c.handles
          /\ e.view = c.session.connection
      BY <3>4, <3>7, <3>8, SubmitFacts
    <3>10. SameOuter(o, e)
      BY <2>2, <3>7, <3>9 DEF SameOuter
    <3>11. ~o.unheard => t = "live"
      BY <1>4, <3>1 DEF Armed
    <3>12. ~o.unheard => Recovers(e.session)
      BY <3>6, <3>7, <3>9, <3>11 DEF Recovers
    <3>13. /\ e.session.quoted /\ e.session.valid /\ e.session.connection = "LIVE"
           /\ e.view = "LIVE" /\ ~e.session.fallback /\ e.session.grace = "off"
           /\ e.session.poll = "off" /\ e.session.sub = o.session.sub
           /\ e.handles = o.handles /\ Accounted(e.requests)
      BY <2>2, <3>6, <3>7, <3>9, ZenonT(40)
    <3>14. /\ e.session.applied = o.session.applied
           /\ e.session.snapshot = o.session.snapshot
           /\ e.session.attached = o.session.attached /\ e.session.tick = o.session.tick
           /\ e.session.closedKey = o.session.closedKey
           /\ e.session.opened = o.session.opened
      BY <2>2, <3>6, <3>7, <3>9
    <3>15. Good(e)
      BY <1>4, <3>9, <3>10, <3>12, <3>13, <3>14, GoodFed
    <3>. QED BY <3>5, <3>15
  <2>. QED BY <2>3, <2>5, <2>6
<1>8. QED BY <1>6, <1>7

LEMMA FrameStep ==
  ASSUME wall \in Walls, Good(button), Frame
  PROVE  Good(button')
<1>1. PICK parsed \in BOOLEAN, outcome \in Possible(Moves(button)) :
        LET s == button.session.sub
            b == [button EXCEPT !.session.sub.phys = "live"]
            c == IF s.phys = "live" THEN b ELSE HandleSubscriptionState(b, s.bound, "live")
        IN  button' = HandleSubscriptionData(c, s.bound, parsed, outcome)
  BY DEF Frame
<1>2. outcome \in Outcomes
  BY DEF Possible, Outcomes, Phys
<1>3. button.session.sub.held /\ button \in Buttons
  BY DEF Frame, Good, Sound
<1>4. button.session.sub.bound = TRUE
  BY <1>3, Typing, HeldIsOn DEF Good, Subs
<1>5. PICK b : b = [button EXCEPT !.session.sub.phys = "live"]
  OBVIOUS
<1>6. PICK c : c = IF button.session.sub.phys = "live" THEN b
                   ELSE HandleSubscriptionState(b, TRUE, "live")
  OBVIOUS
<1>7. button' = HandleSubscriptionData(c, TRUE, parsed, outcome)
  BY <1>1, <1>4, <1>5, <1>6
<1>8. Good(c) /\ c.session.sub.held /\ c.session.sub.phys = "live"
  <2>1. CASE button.session.sub.phys = "live"
    <3>1. b = button
      BY <1>3, <1>5, <2>1, Typing DEF Buttons, Sessions, Subs
    <3>. QED BY <1>3, <1>6, <2>1, <3>1
  <2>2. CASE button.session.sub.phys # "live"
    <3>1. "live" \in Phys
      BY DEF Phys
    <3>2. c = HandleSubscriptionState([button EXCEPT !.session.sub.phys = "live"], TRUE, "live")
      BY <1>5, <1>6, <2>2
    <3>. QED BY <1>3, <3>1, <3>2, StateTold
  <2>. QED BY <2>1, <2>2
<1>9. Good(HandleSubscriptionData(c, TRUE, parsed, outcome))
  BY <1>2, <1>8, DataFacts
<1>10. QED BY <1>7, <1>9

-----------------------------------------------------------------------------
(* The minute tick.                                                         *)

TickAs(b, t) == [b EXCEPT !.session.tick = t]

LEMMA TickSound ==
  ASSUME NEW b, Sound(b), On(b), NEW t \in Timers, NEW c, c = TickAs(b, t)
  PROVE  /\ Sound(c) /\ On(c) /\ c.session.tick = t
         /\ Told(b.session) => Told(c.session)
         /\ c.session.sub = b.session.sub /\ c.session.applied = b.session.applied
         /\ SameOuter(b, c)
<1>1. PICK s : s = [b.session EXCEPT !.tick = t]
  OBVIOUS
<1>2. b \in Buttons
  BY DEF Sound
<1>3. /\ s \in Sessions /\ s.tick = t /\ s.sub = b.session.sub
      /\ s.applied = b.session.applied /\ s.snapshot = b.session.snapshot
      /\ s.attached = b.session.attached /\ s.valid = b.session.valid
      /\ s.quoted = b.session.quoted /\ s.closedKey = b.session.closedKey
      /\ s.opened = b.session.opened /\ s.connection = b.session.connection
      /\ s.fallback = b.session.fallback /\ s.grace = b.session.grace
      /\ s.poll = b.session.poll
      /\ s.recovering = b.session.recovering /\ s.recovery = b.session.recovery
  BY <1>1, <1>2, Typing DEF Sessions
<1>4. /\ c \in Buttons /\ SameOuter(b, c) /\ c.session = s
      /\ c.requests = b.requests /\ c.handles = b.handles /\ c.view = b.view
  BY <1>1, <1>2, <1>3 DEF Buttons, SameOuter, TickAs
<1>5. On(c) /\ Up(c)
  BY <1>3, <1>4 DEF On, Up, SameOuter
<1>6. Life(c) /\ ~c.lapsed
  BY <1>3, <1>4, <1>5 DEF Sound, Life, SameOuter, Up, On
<1>7. Counts(c)
  BY <1>3, <1>4 DEF Sound, Counts, SameOuter
<1>8. Subscribed(c.session) /\ Polled(c.session)
  BY <1>3, <1>4 DEF Sound, Subscribed, Polled
<1>9. Sighted(c.session)
  BY <1>3, <1>4 DEF Sound, Sighted
<1>10. ~c.unheard => Recovers(c.session)
  BY <1>3, <1>4 DEF Sound, Recovers, SameOuter
<1>11. Shown(c)
  BY <1>3, <1>4, <1>5 DEF Sound, Shown, On
<1>12. Closed(c)
  <2>1. ClosedKey(c) = ClosedKey(b)
    BY <1>3, <1>4 DEF ClosedKey, SameOuter
  <2>2. WillBeAnswered(b) => WillBeAnswered(c)
    BY <1>4 DEF WillBeAnswered
  <2>. QED BY <1>3, <1>4, <2>1, <2>2 DEF Sound, Closed, SameOuter
<1>13. Sound(c)
  BY <1>4, <1>5, <1>6, <1>7, <1>8, <1>9, <1>10, <1>11, <1>12 DEF Sound
<1>14. Told(b.session) => Told(c.session)
  BY <1>3, <1>4 DEF Told
<1>15. QED BY <1>3, <1>4, <1>5, <1>13, <1>14

LEMMA ArmedTick ==
  ASSUME NEW b, Sound(b), On(b), Told(b.session), NEW live \in BOOLEAN,
         ~live => b.unheard
  PROVE  Good(ArmPolicyTick(b, live))
<1>1. PICK t \in Timers : t = Armed(live)
  BY DEF Armed, Timers
<1>2. live => t = "live"
  BY <1>1 DEF Armed
<1>3. PICK c : c = TickAs(b, t)
  OBVIOUS
<1>4. c = ArmPolicyTick(b, live)
  BY <1>1, <1>3 DEF ArmPolicyTick, TickAs
<1>5. /\ Sound(c) /\ On(c) /\ c.session.tick = t
      /\ Told(b.session) => Told(c.session)
      /\ SameOuter(b, c)
  BY <1>3, TickSound
<1>6. Told(c.session)
  BY <1>5
<1>7. ~c.unheard => Ticking(c)
  BY <1>2, <1>5 DEF Ticking, SameOuter
<1>8. QED BY <1>4, <1>5, <1>6, <1>7 DEF Good

(* A retarget begun for a policy that has moved on, or the present one.     *)
LEMMA RetargetLate ==
  ASSUME NEW b \in Buttons, Accounted(b.requests), b.session.sub.held,
         NEW next \in {"day", "night"}, NEW outcome \in Outcomes
  PROVE  Further(b, BeginRetarget(b, FALSE, next, outcome))
<1>1. PICK c : c = BeginRetarget(b, FALSE, next, outcome)
  OBVIOUS
<1>2. PICK u : u = [b.session.sub EXCEPT !.retarget = next, !.retargetLive = FALSE]
  OBVIOUS
<1>3. PICK s : s = [b.session EXCEPT !.sub = u]
  OBVIOUS
<1>4. c = b \/ c = [b EXCEPT !.session = s]
  <2>1. CASE b.session.sub.retarget # "none" \/ outcome = "refused"
    BY <1>1, <2>1 DEF BeginRetarget, HandleRetargetFailure
  <2>2. CASE ~(b.session.sub.retarget # "none" \/ outcome = "refused")
    <3>1. c = [b EXCEPT !.session.sub.retarget = next, !.session.sub.retargetLive = FALSE]
      BY <1>1, <2>2 DEF BeginRetarget
    <3>. QED BY <1>2, <1>3, <3>1
  <2>. QED BY <2>1, <2>2
<1>5. CASE c = b
  BY <1>1, <1>5, FurtherSelf
<1>6. CASE c = [b EXCEPT !.session = s]
  <2>1. /\ u \in Subs /\ u.held = b.session.sub.held /\ u.bound = b.session.sub.bound
        /\ u.phys = b.session.sub.phys
    BY <1>2, Typing DEF Subs
  <2>2. /\ s \in Sessions /\ SameCourse(b.session, s) /\ s.sub = u
        /\ s.connection = b.session.connection /\ s.fallback = b.session.fallback
        /\ s.grace = b.session.grace /\ s.poll = b.session.poll
        /\ s.recovering = b.session.recovering /\ s.recovery = b.session.recovery
    BY <1>3, <2>1, Typing DEF Sessions, SameCourse
  <2>3. /\ c \in Buttons /\ SameOuter(b, c) /\ c.session = s
        /\ c.requests = b.requests /\ c.handles = b.handles /\ c.view = b.view
    BY <1>6, <2>2 DEF Buttons, SameOuter
  <2>4. Backed(b.session, c.session) /\ (Recovers(b.session) => Recovers(c.session))
    BY <2>2, <2>3 DEF Backed, Recovers
  <2>5. Shows(b) => Shows(c)
    BY <2>2, <2>3 DEF Shows, Up, SameOuter
  <2>6. Further(b, c)
    BY <2>1, <2>2, <2>3, <2>4, <2>5 DEF Further, Kept
  <2>. QED BY <1>1, <2>6
<1>7. QED BY <1>4, <1>5, <1>6

LEMMA TickFired ==
  ASSUME wall \in Walls, NEW b, Sound(b), On(b), Told(b.session), NEW outcome \in Outcomes
  PROVE  Good(HandlePolicyTick(b, outcome))
<1>1. Steady(b) /\ Rests(b.session) /\ b.settings.creds /\ Up(b) /\ b \in Buttons
  BY SoundSteady DEF Sound, Life, On
<1>2. PICK o : o = Observe(b, outcome)
  OBVIOUS
<1>3. PICK d : d = Take(o, Effective(o))
  OBVIOUS
<1>4. PICK e : e = IF d.session.sub.held /\ d.session.sub.retarget = "none"
                      /\ d.session.sub.desc # Descriptor
                   THEN BeginRetarget(d, ~Moves(b), Descriptor, outcome) ELSE d
  OBVIOUS
<1>5. HandlePolicyTick(b, outcome) =
        IF Effective(o) # o.session.snapshot THEN ReconfigurePolicy(d, outcome)
        ELSE ArmPolicyTick(e, ~Moves(b))
  BY <1>2, <1>3, <1>4 DEF HandlePolicyTick
<1>6. Descriptor \in {"day", "night"}
  BY DescriptorType
<1>7. CASE Moves(b)
  <2>1. Moved(b, o)
    BY <1>1, <1>2, <1>7, ObserveFacts
  <2>2. Good(o) /\ o.unheard /\ o.session.snapshot = Effective(o) /\ o.session.attached
    BY <2>1 DEF Moved
  <2>3. On(o) /\ Sound(o) /\ o \in Buttons /\ Accounted(o.requests)
    BY <2>2 DEF Good, Sound, Idle
  <2>4. d = o
    BY <1>3, <2>2, <2>3, TakeSame
  <2>5. (~Moves(b)) = FALSE
    BY <1>7
  <2>6. Further(o, e)
    <3>1. CASE o.session.sub.held /\ o.session.sub.retarget = "none"
               /\ o.session.sub.desc # Descriptor
      <4>1. e = BeginRetarget(o, FALSE, Descriptor, outcome)
        BY <1>4, <2>4, <2>5, <3>1
      <4>. QED BY <1>6, <2>3, <3>1, <4>1, RetargetLate
    <3>2. CASE ~(o.session.sub.held /\ o.session.sub.retarget = "none"
                 /\ o.session.sub.desc # Descriptor)
      <4>1. e = o
        BY <1>4, <2>4, <3>2
      <4>. QED BY <2>3, <4>1, FurtherSelf
    <3>. QED BY <3>1, <3>2
  <2>7. Good(e) /\ On(e) /\ e.unheard
    BY <2>2, <2>3, <2>6, GoodFurther
  <2>8. Good(ArmPolicyTick(e, FALSE))
    BY <2>7, ArmedTick DEF Good
  <2>. QED BY <1>5, <2>2, <2>5, <2>8
<1>8. CASE ~Moves(b)
  <2>1. o = Aware(b)
    BY <1>1, <1>2, <1>8, ObserveFacts
  <2>2. /\ o \in Buttons /\ o.session = b.session
        /\ o.requests = b.requests /\ o.handles = b.handles /\ o.listeners = b.listeners
        /\ o.view = b.view /\ o.phase = b.phase /\ o.settings = b.settings
        /\ o.destroyed = b.destroyed /\ o.lapsed = b.lapsed /\ o.reentered = b.reentered
        /\ o.unheard = b.unheard
    BY <1>1, <2>1, AwareFacts
  <2>3. Sound(o) /\ On(o) /\ Told(o.session) /\ Accounted(o.requests)
    <3>1. Sound(o) /\ (On(o) <=> On(b))
      BY <2>2, SoundSame
    <3>. QED BY <2>2, <3>1 DEF Sound
  <2>4. CASE Effective(o) # o.session.snapshot
    <3>1. Steady(o)
      BY <1>1, <2>1, AwareSteady
    <3>2. Effective(o) \in Snapshots
      BY <2>2, EffectiveFacts
    <3>3. Good(ReconfigurePolicy(Take(o, Effective(o)), outcome))
      BY <1>1, <2>2, <2>4, <3>1, <3>2, FollowFacts
    <3>. QED BY <1>3, <1>5, <2>4, <3>3
  <2>5. CASE Effective(o) = o.session.snapshot
    <3>1. d = o
      BY <1>3, <2>2, <2>5, TakeSame
    <3>2. (~Moves(b)) = TRUE
      BY <1>8
    <3>3. Further(o, e)
      <4>1. CASE o.session.sub.held /\ o.session.sub.retarget = "none"
                 /\ o.session.sub.desc # Descriptor
        <5>1. e = BeginRetarget(o, TRUE, Descriptor, outcome)
          BY <1>4, <3>1, <3>2, <4>1
        <5>. QED BY <1>6, <2>2, <2>3, <4>1, <5>1, RetargetFacts
      <4>2. CASE ~(o.session.sub.held /\ o.session.sub.retarget = "none"
                   /\ o.session.sub.desc # Descriptor)
        <5>1. e = o
          BY <1>4, <3>1, <4>2
        <5>. QED BY <2>2, <2>3, <5>1, FurtherSelf
      <4>. QED BY <4>1, <4>2
    <3>4. Sound(e) /\ On(e) /\ Told(e.session)
      BY <2>3, <3>3, SoundFurther
    <3>5. Good(ArmPolicyTick(e, TRUE))
      BY <3>4, ArmedTick
    <3>. QED BY <1>5, <2>5, <3>2, <3>5
  <2>. QED BY <2>4, <2>5
<1>9. QED BY <1>7, <1>8

LEMMA PolicyTickFiresStep ==
  ASSUME wall \in Walls, Good(button), PolicyTickFires
  PROVE  Good(button')
<1>1. PICK outcome \in Possible(Late(button) \/ Effective(button) # button.session.snapshot
                                \/ button.session.sub.held) :
        LET b == [button EXCEPT !.session.tick = "off"] IN
        button' = IF button.session.tick = "dead" THEN b ELSE HandlePolicyTick(b, outcome)
  BY DEF PolicyTickFires
<1>2. outcome \in Outcomes
  BY DEF Possible, Outcomes, Phys
<1>3. button \in Buttons /\ Sound(button) /\ Told(button.session)
      /\ button.session.tick # "off"
  BY DEF Good, Sound, PolicyTickFires
<1>4. On(button)
  BY <1>3 DEF Sound, Idle
<1>5. PICK b : b = TickAs(button, "off")
  OBVIOUS
<1>6. button' = IF button.session.tick = "dead" THEN b ELSE HandlePolicyTick(b, outcome)
  BY <1>1, <1>5 DEF TickAs
<1>7. /\ Sound(b) /\ On(b) /\ Told(b.session) /\ SameOuter(button, b)
  BY <1>3, <1>4, <1>5, TickSound DEF Timers
<1>8. CASE button.session.tick = "dead"
  <2>1. button.unheard
    BY <1>4, <1>8 DEF Good, Ticking
  <2>2. b.unheard
    BY <1>7, <2>1 DEF SameOuter
  <2>. QED BY <1>6, <1>7, <1>8, <2>2 DEF Good
<1>9. CASE button.session.tick # "dead"
  <2>1. Good(HandlePolicyTick(b, outcome))
    BY <1>2, <1>7, TickFired
  <2>. QED BY <1>6, <1>9, <2>1
<1>10. QED BY <1>8, <1>9

-----------------------------------------------------------------------------
(* The clock and the settings.                                              *)

LEMMA GoodSame ==
  ASSUME NEW b, Good(b), NEW c \in Buttons,
         c.session = b.session, c.requests = b.requests, c.handles = b.handles,
         c.listeners = b.listeners, c.view = b.view, c.phase = b.phase,
         c.settings = b.settings, c.destroyed = b.destroyed, c.lapsed = b.lapsed,
         b.reentered => c.reentered, b.unheard => c.unheard
  PROVE  Good(c) /\ (On(c) <=> On(b))
<1>1. Sound(c) /\ (On(c) <=> On(b)) /\ (Ticking(b) <=> Ticking(c))
  BY SoundSame DEF Good
<1>2. QED BY <1>1 DEF Good

LEMMA ClockFiresStep ==
  ASSUME wall \in Walls, Good(button), ClockFires
  PROVE  Good(button')
<1>1. PICK outcome \in Possible(Hears(button)) : button' = Listen(Aware(button), outcome)
  BY DEF ClockFires, Aware
<1>2. outcome \in Outcomes
  BY DEF Possible, Outcomes, Phys
<1>3. PICK c : c = Aware(button)
  OBVIOUS
<1>4. button \in Buttons /\ Sound(button)
  BY DEF Good, Sound
<1>5. /\ c \in Buttons /\ c.seen = ClockView /\ c.session = button.session
      /\ c.requests = button.requests /\ c.handles = button.handles
      /\ c.listeners = button.listeners
      /\ c.view = button.view /\ c.phase = button.phase /\ c.settings = button.settings
      /\ c.destroyed = button.destroyed /\ c.lapsed = button.lapsed
      /\ c.reentered = button.reentered /\ c.unheard = button.unheard
  BY <1>3, <1>4, AwareFacts
<1>6. Good(c)
  BY <1>5, GoodSame
<1>7. CASE ~Up(button)
  <2>1. Listen(c, outcome) = c
    BY <1>5, <1>7 DEF Listen, Up
  <2>. QED BY <1>1, <1>3, <1>6, <2>1
<1>8. CASE Up(button)
  <2>1. Steady(c)
    BY <1>3, <1>4, <1>8, SoundSteady, AwareSteady
  <2>2. c.session.attached => c.settings.creds
    BY <1>6 DEF Good, Sound, Idle, On, Life
  <2>3. Good(Listen(c, outcome))
    BY <1>2, <1>5, <1>6, <2>1, <2>2, ListenFacts
  <2>. QED BY <1>1, <1>3, <2>3
<1>9. QED BY <1>7, <1>8

LEMMA NoSessionFacts ==
  /\ NoSession \in Sessions /\ Idle(NoSession) /\ ~NoSession.quoted
  /\ Subscribed(NoSession) /\ Polled(NoSession) /\ Told(NoSession) /\ Recovers(NoSession)
<1>1. InitialSettings \in AllSettings /\ [open |-> FALSE, epoch |-> 0] \in Snapshots
  BY DEF InitialSettings, AllSettings, Snapshots
<1>2. NoSession \in Sessions
  BY <1>1, NoSubType DEF NoSession, NewSession, Sessions, Timers, Connections
<1>3. QED
  BY <1>2, NoSubType
  DEF NoSession, NewSession, Idle, Subscribed, Polled, Told, Recovers

(* A button that is not up. *)
LEMMA GoodDown ==
  ASSUME NEW b \in Buttons, ~Up(b), b.session = NoSession, b.requests = {},
         b.handles = 0, b.listeners = 0, ~b.lapsed,
         b.destroyed => b.phase = "none", b.phase = "waiting" => b.view = "waiting"
  PROVE  Good(b)
<1>1. ~On(b) /\ Accounted(b.requests)
  BY DEF On, Accounted
<1>2. Life(b)
  BY DEF Life
<1>3. Counts(b)
  BY NoSessionFacts, NoSubType DEF Counts, Idle
<1>4. Shown(b)
  BY NoSessionFacts DEF Shown
<1>5. Sound(b)
  BY <1>1, <1>2, <1>3, <1>4, NoSessionFacts DEF Sound
<1>6. QED BY <1>1, <1>5, NoSessionFacts DEF Good, Ticking

LEMMA DownFacts ==
  ASSUME NEW b, Good(b), ~Up(b)
  PROVE  /\ b \in Buttons /\ b.session = NoSession /\ b.requests = {}
         /\ b.handles = 0 /\ b.listeners = 0 /\ ~b.lapsed
<1>1. Sound(b)
  BY DEF Good
<1>2. b.session = NoSession
  BY <1>1 DEF Sound, Life
<1>3. Counts(b)
  BY <1>1 DEF Sound
<1>4. b.handles = 0 /\ b.listeners = 0
  BY <1>2, <1>3, NoSessionFacts, NoSubType DEF Counts, Idle
<1>5. QED BY <1>1, <1>2, <1>4 DEF Sound, Life

(* The subscription is given up with the rest of the policy.                *)
LEMMA OutFacts ==
  ASSUME NEW b \in Buttons, \A r \in b.requests : r.own,
         b.handles = IF b.session.sub.held THEN 1 ELSE 0
  PROVE  LET d == ClearPolicyWork(BumpPolicy(b), TRUE) IN
         /\ d \in Buttons /\ SameOuter(b, d) /\ d.handles = 0 /\ d.view = b.view
         /\ Quiet(d.requests) /\ Over(b.session, d.session) /\ d.session.sub = NoSub
<1>1. PICK c : c = ClearPolicyWork(BumpPolicy(b), FALSE)
  OBVIOUS
<1>2. PICK d : d = ReleaseSubscription(c)
  OBVIOUS
<1>3. d = ClearPolicyWork(BumpPolicy(b), TRUE)
  BY <1>1, <1>2 DEF ClearPolicyWork
<1>4. /\ c \in Buttons /\ SameOuter(b, c) /\ c.handles = b.handles /\ c.view = b.view
      /\ Quiet(c.requests) /\ Over(b.session, c.session)
      /\ c.session.sub.held = b.session.sub.held
  BY <1>1, OverFacts
<1>5. /\ d \in Buttons /\ Kept(c, d) /\ d.requests = c.requests /\ d.view = c.view
      /\ d.handles = 0 /\ d.session = [c.session EXCEPT !.sub = NoSub]
  BY <1>2, <1>4, ReleaseFacts
<1>6. c.session \in Sessions
  BY <1>4, Typing
<1>7. d.session.sub = NoSub
  BY <1>5, <1>6 DEF Sessions
<1>8. Over(c.session, d.session)
  BY <1>4, <1>5, <1>6 DEF Over, Sessions
<1>9. SameOuter(b, d) /\ Over(b.session, d.session)
  BY <1>4, <1>5, <1>8 DEF Kept, SameOuter, Over
<1>10. QED BY <1>3, <1>4, <1>5, <1>7, <1>9

LEMMA DetachFacts ==
  ASSUME NEW b \in Buttons, b.listeners = IF b.session.attached THEN 1 ELSE 0
  PROVE  LET c == DetachClock(b) IN
         /\ c \in Buttons /\ c.listeners = 0
         /\ c.session = [b.session EXCEPT !.attached = FALSE]
         /\ c.phase = b.phase /\ c.settings = b.settings /\ c.seen = b.seen
         /\ c.requests = b.requests /\ c.handles = b.handles /\ c.view = b.view
         /\ c.destroyed = b.destroyed /\ c.lapsed = b.lapsed /\ c.reentered = b.reentered
         /\ c.unheard = b.unheard
<1>1. PICK s : s = [b.session EXCEPT !.attached = FALSE]
  OBVIOUS
<1>2. PICK c : c = [b EXCEPT !.session = s, !.listeners = 0]
  OBVIOUS
<1>3. s \in Sessions
  BY <1>1, Typing, ZenonT(40) DEF Sessions
<1>4. b.session.attached \in BOOLEAN
  BY Typing DEF Sessions
<1>5. (IF b.session.attached THEN b.listeners - 1 ELSE b.listeners) = 0
  BY <1>4
<1>6. c = DetachClock(b)
  BY <1>1, <1>2, <1>5 DEF DetachClock
<1>7. /\ c \in Buttons /\ c.listeners = 0 /\ c.session = s
      /\ c.phase = b.phase /\ c.settings = b.settings /\ c.seen = b.seen
      /\ c.requests = b.requests /\ c.handles = b.handles /\ c.view = b.view
      /\ c.destroyed = b.destroyed /\ c.lapsed = b.lapsed /\ c.reentered = b.reentered
      /\ c.unheard = b.unheard
  BY <1>2, <1>3 DEF Buttons
<1>8. QED BY <1>1, <1>6, <1>7

LEMMA AttachReady ==
  ASSUME wall \in Walls, NEW b, Ready(b)
  PROVE  Ready(AttachClock(b))
<1>1. PICK c : c = AttachClock(b)
  OBVIOUS
<1>2. b \in Buttons /\ Up(b) /\ Counts(b)
  BY DEF Ready
<1>3. CASE b.session.attached
  BY <1>1, <1>3 DEF AttachClock
<1>4. CASE ~b.session.attached
  <2>1. PICK d : d = Take(b, ClockView)
    OBVIOUS
  <2>2. ClockView \in Snapshots
    BY ClockViewType
  <2>3. /\ d \in Buttons /\ SameOuter(b, d) /\ SameButSnapshot(b.session, d.session)
        /\ d.handles = b.handles /\ d.view = b.view
        /\ \A r \in d.requests : \E q \in b.requests :
             /\ r.own = q.own /\ r.live = q.live /\ r.fresh = q.fresh
             /\ r.aborted = q.aborted /\ r.kind = q.kind /\ r.held = q.held
    BY <1>2, <2>1, <2>2, TakeFacts
  <2>4. PICK s : s = [d.session EXCEPT !.attached = TRUE]
    OBVIOUS
  <2>5. d.listeners = 0
    BY <1>2, <1>4, <2>3 DEF Counts, SameOuter
  <2>6. c = [d EXCEPT !.session = s, !.listeners = 1]
    <3>1. c = [d EXCEPT !.session.attached = TRUE, !.listeners = @ + 1]
      BY <1>1, <1>2, <1>4, <2>1 DEF AttachClock
    <3>2. d.listeners + 1 = 1
      BY <2>5
    <3>. QED BY <2>4, <3>1, <3>2
  <2>7. /\ s \in Sessions /\ s.attached /\ s.sub = d.session.sub
        /\ s.applied = d.session.applied /\ s.closedKey = d.session.closedKey
        /\ s.opened = d.session.opened /\ s.quoted = d.session.quoted
        /\ s.connection = d.session.connection
    BY <2>3, <2>4, Typing DEF Sessions
  <2>8. /\ c \in Buttons /\ c.session = s /\ c.listeners = 1
        /\ c.phase = d.phase /\ c.settings = d.settings /\ c.seen = d.seen
        /\ c.requests = d.requests /\ c.handles = d.handles /\ c.view = d.view
        /\ c.destroyed = d.destroyed /\ c.lapsed = d.lapsed /\ c.reentered = d.reentered
        /\ c.unheard = d.unheard
    BY <2>3, <2>6, <2>7 DEF Buttons
  <2>9. /\ s.sub = b.session.sub /\ s.applied = b.session.applied
        /\ s.closedKey = b.session.closedKey /\ s.opened = b.session.opened
        /\ s.quoted = b.session.quoted /\ s.connection = b.session.connection
    BY <2>3, <2>7 DEF SameButSnapshot
  <2>10. /\ c.phase = b.phase /\ c.settings = b.settings /\ c.seen = b.seen
         /\ c.handles = b.handles /\ c.view = b.view
         /\ c.destroyed = b.destroyed /\ c.lapsed = b.lapsed /\ c.reentered = b.reentered
         /\ c.unheard = b.unheard
    BY <2>3, <2>8 DEF SameOuter
  <2>11. \A r \in c.requests : r.own
    BY <2>3, <2>8 DEF Ready
  <2>12. Up(c) /\ Counts(c) /\ Shown(c)
    BY <1>2, <2>7, <2>8, <2>9, <2>10 DEF Ready, Up, Counts, Shown
  <2>13. Effective(c) = Effective(b)
    BY <2>10 DEF Effective
  <2>14. Ready(c)
    BY <2>8, <2>9, <2>10, <2>11, <2>12, <2>13 DEF Ready
  <2>. QED BY <1>1, <2>14
<1>5. QED BY <1>3, <1>4

(* A button without credentials. *)
LEMMA GoodIdle ==
  ASSUME NEW b \in Buttons, Up(b), ~b.settings.creds, b.session.applied = b.settings,
         ~b.lapsed, ~b.destroyed, b.handles = 0, b.listeners = 0,
         Accounted(b.requests), Idle(b.session), Shown(b)
  PROVE  Good(b)
<1>1. ~On(b)
  BY DEF On
<1>2. Life(b)
  BY DEF Life, Up
<1>3. Counts(b)
  BY NoSubType DEF Counts, Idle
<1>4. Subscribed(b.session) /\ Polled(b.session) /\ Told(b.session) /\ Recovers(b.session)
  BY NoSubType DEF Idle, Subscribed, Polled, Told, Recovers
<1>5. Sound(b)
  BY <1>1, <1>2, <1>3, <1>4 DEF Sound
<1>6. QED BY <1>1, <1>4, <1>5 DEF Good, Ticking

LEMMA NoCredentials ==
  ASSUME NEW c \in Buttons, Up(c), ~c.lapsed, ~c.destroyed, ~c.settings.creds,
         c.session.applied = c.settings, \A r \in c.requests : r.own, Counts(c)
  PROVE  LET d == ClearPolicyWork(BumpPolicy(c), TRUE) IN
         Good(SubmitView([DetachClock(d) EXCEPT !.session.closedKey = NoKey,
                                                !.session.connection = "BROKEN"]))
<1>1. PICK d : d = ClearPolicyWork(BumpPolicy(c), TRUE)
  OBVIOUS
<1>2. /\ d \in Buttons /\ SameOuter(c, d) /\ d.handles = 0 /\ d.view = c.view
      /\ Quiet(d.requests) /\ Over(c.session, d.session) /\ d.session.sub = NoSub
  BY <1>1, OutFacts DEF Counts
<1>3. d.listeners = IF d.session.attached THEN 1 ELSE 0
  BY <1>2 DEF Counts, SameOuter, Over
<1>4. PICK e : e = DetachClock(d)
  OBVIOUS
<1>5. /\ e \in Buttons /\ e.listeners = 0
      /\ e.session = [d.session EXCEPT !.attached = FALSE]
      /\ e.phase = d.phase /\ e.settings = d.settings /\ e.seen = d.seen
      /\ e.requests = d.requests /\ e.handles = d.handles /\ e.view = d.view
      /\ e.destroyed = d.destroyed /\ e.lapsed = d.lapsed /\ e.reentered = d.reentered
      /\ e.unheard = d.unheard
  BY <1>2, <1>3, <1>4, DetachFacts
<1>6. PICK s : s = [e.session EXCEPT !.closedKey = NoKey, !.connection = "BROKEN"]
  OBVIOUS
<1>7. PICK f : f = [e EXCEPT !.session = s]
  OBVIOUS
<1>8. PICK g : g = SubmitView(f)
  OBVIOUS
<1>9. f = [DetachClock(d) EXCEPT !.session.closedKey = NoKey, !.session.connection = "BROKEN"]
  BY <1>4, <1>6, <1>7
<1>10. /\ e.session \in Sessions /\ ~e.session.attached
       /\ e.session.sub = NoSub /\ e.session.applied = c.settings
       /\ ~e.session.fallback /\ ~e.session.recovering
       /\ e.session.grace = "off" /\ e.session.poll = "off" /\ e.session.tick = "off"
       /\ e.session.recovery = "off"
  BY <1>2, <1>5, Typing DEF Sessions, Over
<1>11. /\ s \in Sessions /\ s.closedKey = NoKey /\ s.connection = "BROKEN" /\ ~s.attached
       /\ s.sub = NoSub /\ s.applied = c.settings
       /\ ~s.fallback /\ ~s.recovering
       /\ s.grace = "off" /\ s.poll = "off" /\ s.tick = "off" /\ s.recovery = "off"
  BY <1>6, <1>10 DEF Sessions, Connections
<1>12. /\ f \in Buttons /\ SameOuter(e, f) /\ f.session = s
       /\ f.requests = e.requests /\ f.handles = e.handles
  BY <1>5, <1>7, <1>11 DEF Buttons, SameOuter
<1>13. Up(f) /\ f.phase = c.phase /\ f.settings = c.settings /\ ~f.destroyed /\ ~f.lapsed
       /\ f.listeners = 0 /\ f.handles = 0 /\ f.requests = d.requests
  BY <1>2, <1>5, <1>12 DEF SameOuter, Up
<1>14. /\ g \in Buttons /\ SameOuter(f, g) /\ g.session = f.session
       /\ g.requests = f.requests /\ g.handles = f.handles
       /\ g.view = f.session.connection
  BY <1>8, <1>12, <1>13, SubmitFacts
<1>15. Accounted(g.requests)
  BY <1>2, <1>13, <1>14, QuietAccounted
<1>16. /\ Up(g) /\ ~g.settings.creds /\ g.session.applied = g.settings
       /\ ~g.lapsed /\ ~g.destroyed /\ g.handles = 0 /\ g.listeners = 0
  BY <1>11, <1>12, <1>13, <1>14 DEF Up, SameOuter
<1>17. Idle(g.session)
  BY <1>11, <1>12, <1>14 DEF Idle
<1>18. Shown(g)
  BY <1>11, <1>12, <1>14 DEF Shown
<1>19. Good(g)
  BY <1>14, <1>15, <1>16, <1>17, <1>18, GoodIdle
<1>20. QED BY <1>1, <1>8, <1>9, <1>19

LEMMA WithCredentials ==
  ASSUME wall \in Walls, NEW c \in Buttons, Up(c), ~c.lapsed, ~c.destroyed,
         c.settings.creds, c.session.applied = c.settings,
         \A r \in c.requests : r.own, Counts(c), Shown(c),
         ~Effective(c).open /\ c.session.closedKey = <<Effective(c).epoch, c.settings.gen>> =>
           c.session.opened \/ c.reentered,
         NEW outcome \in Outcomes
  PROVE  LET d == ClearPolicyWork(BumpPolicy(c), TRUE) IN
         Good(ReconfigurePolicy(AttachClock(d), outcome))
<1>1. PICK d : d = ClearPolicyWork(BumpPolicy(c), TRUE)
  OBVIOUS
<1>2. /\ d \in Buttons /\ SameOuter(c, d) /\ d.handles = 0 /\ d.view = c.view
      /\ Quiet(d.requests) /\ Over(c.session, d.session) /\ d.session.sub = NoSub
  BY <1>1, OutFacts DEF Counts
<1>3. Effective(d) = Effective(c)
  BY <1>2 DEF Effective, SameOuter
<1>4. Up(d) /\ Shown(d)
  BY <1>2 DEF Up, Shown, SameOuter, Over
<1>5. Counts(d)
  BY <1>2, NoSubType DEF Counts, SameOuter, Over
<1>6. \A r \in d.requests : r.own
  BY <1>2 DEF Quiet
<1>7. Ready(d)
  BY <1>2, <1>3, <1>4, <1>5, <1>6 DEF Ready, SameOuter, Over
<1>8. Ready(AttachClock(d))
  BY <1>7, AttachReady
<1>9. Good(ReconfigurePolicy(AttachClock(d), outcome))
  BY <1>8, ReconfigureFacts
<1>10. QED BY <1>1, <1>9

(* New preferences in a closed market whose one request stands.             *)
LEMMA PreservedFacts ==
  ASSUME NEW b, Good(b), On(b), ~b.session.snapshot.open,
         NEW c \in Buttons, NEW settings, settings.creds, settings.gen = b.settings.gen,
         c.session = [b.session EXCEPT !.applied = settings], c.settings = settings,
         c.requests = b.requests, c.handles = b.handles, c.listeners = b.listeners,
         c.view = b.view, c.phase = b.phase, c.destroyed = b.destroyed,
         c.lapsed = b.lapsed, c.reentered = b.reentered /\ c.unheard = b.unheard
  PROVE  Good(c)
<1>1. PICK s : s = b.session
  OBVIOUS
<1>2. PICK t : t = c.session
  OBVIOUS
<1>3. Sound(b) /\ Told(s) /\ (~b.unheard => Ticking(b)) /\ b \in Buttons
  BY <1>1 DEF Good, Sound
<1>4. s \in Sessions
  BY <1>1, <1>3, Typing
<1>5. /\ t.applied = settings /\ t.sub = s.sub /\ t.tick = s.tick
      /\ t.snapshot = s.snapshot /\ t.attached = s.attached /\ t.valid = s.valid
      /\ t.quoted = s.quoted /\ t.closedKey = s.closedKey
      /\ t.opened = s.opened /\ t.connection = s.connection
      /\ t.fallback = s.fallback /\ t.grace = s.grace /\ t.poll = s.poll
      /\ t.recovering = s.recovering /\ t.recovery = s.recovery
  BY <1>1, <1>2, <1>4 DEF Sessions
<1>6. Up(c) /\ On(c) /\ Up(b)
  BY <1>2, <1>5 DEF On, Up
<1>7. Life(c) /\ ~c.lapsed
  BY <1>2, <1>3, <1>5, <1>6 DEF Sound, Life, Up
<1>8. Counts(c)
  BY <1>1, <1>2, <1>3, <1>5 DEF Sound, Counts
<1>9. ~s.sub.held
  BY <1>1, <1>3 DEF Sound, Subscribed
<1>10. Subscribed(t) /\ Told(t)
  BY <1>1, <1>3, <1>5, <1>9, NoSubType DEF Sound, Subscribed, Told
<1>11. Polled(t)
  BY <1>1, <1>3, <1>5 DEF Sound, Polled
<1>12. Sighted(t)
  BY <1>1, <1>5 DEF Sighted
<1>13. ~c.unheard => Recovers(t)
  BY <1>1, <1>3, <1>5 DEF Sound, Recovers
<1>14. Shown(c)
  BY <1>1, <1>2, <1>3, <1>5, <1>6 DEF Sound, Shown
<1>15. Closed(c)
  <2>1. ClosedKey(c) = ClosedKey(b)
    BY <1>1, <1>2, <1>5 DEF ClosedKey
  <2>2. WillBeAnswered(b) => WillBeAnswered(c)
    BY DEF WillBeAnswered
  <2>. QED BY <1>1, <1>2, <1>3, <1>5, <2>1, <2>2 DEF Sound, Closed
<1>16. Accounted(c.requests)
  BY <1>3 DEF Sound
<1>17. Sound(c)
  BY <1>2, <1>6, <1>7, <1>8, <1>10, <1>11, <1>12, <1>13, <1>14, <1>15, <1>16 DEF Sound
<1>18. ~c.unheard => Ticking(c)
  BY <1>1, <1>2, <1>3, <1>5 DEF Ticking, On, Up
<1>19. QED BY <1>2, <1>10, <1>17, <1>18 DEF Good

(* The settings have been replaced under a session that is up; the clock is *)
(* asked before anything is done about them.                                *)
LEMMA NoticedFacts ==
  ASSUME wall \in Walls, NEW b, Good(b), Up(b), NEW settings \in AllSettings,
         NEW e \in Buttons,
         e.session = [b.session EXCEPT !.applied = settings], e.settings = settings,
         e.requests = b.requests, e.handles = b.handles, e.listeners = b.listeners,
         e.view = b.view, e.phase = b.phase, e.seen = b.seen,
         e.destroyed = b.destroyed, e.lapsed = b.lapsed, e.reentered = b.reentered,
         e.unheard = b.unheard,
         NEW outcome \in Outcomes, NEW c, c = Observe(e, outcome)
  PROVE  /\ c \in Buttons /\ Up(c) /\ ~c.lapsed /\ ~c.destroyed
         /\ c.settings = settings /\ c.session.applied = settings
         /\ (\A r \in c.requests : r.own) /\ Counts(c) /\ Shown(c)
         /\ Moves(e) => Good(c) /\ c.reentered
         /\ ~Moves(e) /\ settings.creds => c = Aware(e)
<1>1. Sound(b) /\ b \in Buttons
  BY DEF Good, Sound
<1>2. b.session \in Sessions
  BY <1>1, Typing
<1>3. /\ e.session.applied = settings /\ e.session.sub = b.session.sub
      /\ e.session.snapshot = b.session.snapshot /\ e.session.attached = b.session.attached
      /\ e.session.quoted = b.session.quoted /\ e.session.closedKey = b.session.closedKey
      /\ e.session.opened = b.session.opened
      /\ e.session.connection = b.session.connection
  BY <1>2 DEF Sessions
<1>4. Up(e) /\ ~e.destroyed /\ ~e.lapsed
  BY <1>1 DEF Sound, Life, Up
<1>5. Counts(e) /\ Shown(e)
  BY <1>1, <1>3, <1>4 DEF Sound, Counts, Shown, Up
<1>6. \A r \in e.requests : r.own
  BY <1>1 DEF Sound, Accounted
<1>7. ~e.session.sub.held => e.session.sub = NoSub
  BY <1>1, <1>3 DEF Sound, Subscribed
<1>8. e.session.attached => Rests(e.session)
  <2>1. b.session.attached => On(b)
    BY <1>1 DEF Sound, Idle
  <2>2. b.session.attached => Rests(b.session)
    BY <1>1, <2>1, SoundSteady
  <2>. QED BY <1>3, <2>2 DEF Rests
<1>9. Steady(e)
  BY <1>3, <1>4, <1>5, <1>6, <1>7, <1>8 DEF Steady
<1>10. CASE Moves(e)
  <2>1. Moved(e, c)
    BY <1>9, <1>10, ObserveFacts
  <2>2. Good(c) /\ c.reentered /\ Sound(c) /\ c \in Buttons
    BY <2>1 DEF Moved, Good, Sound
  <2>3. Up(c) /\ c.settings = settings /\ c.session.applied = settings /\ ~c.destroyed
    BY <1>3, <1>4, <2>1 DEF Moved, Up
  <2>4. \A r \in c.requests : r.own
    BY <2>2 DEF Sound, Accounted
  <2>. QED BY <1>10, <2>2, <2>3, <2>4 DEF Sound
<1>11. CASE ~Moves(e)
  <2>1. PICK a : a = Aware(e)
    OBVIOUS
  <2>2. c = a \/ c = Take(a, ClockView)
    BY <1>9, <1>11, <2>1, ObserveFacts
  <2>3. settings.creds => c = a
    BY <1>9, <1>11, <2>1, ObserveFacts
  <2>4. Steady(a)
    BY <1>9, <2>1, AwareSteady
  <2>5. a.settings = settings
    BY <2>1, AwareFacts
  <2>6. CASE c = a
    BY <1>11, <2>1, <2>3, <2>4, <2>5, <2>6 DEF Steady
  <2>7. CASE c = Take(a, ClockView)
    <3>1. ClockView \in Snapshots /\ a \in Buttons
      BY <2>4, ClockViewType DEF Steady
    <3>2. /\ c \in Buttons /\ SameOuter(a, c) /\ SameButSnapshot(a.session, c.session)
          /\ c.handles = a.handles /\ c.view = a.view
          /\ \A r \in c.requests : \E q \in a.requests :
              /\ r.own = q.own /\ r.live = q.live /\ r.fresh = q.fresh
              /\ r.aborted = q.aborted /\ r.kind = q.kind /\ r.held = q.held
      BY <2>7, <3>1, TakeFacts
    <3>3. \A r \in c.requests : r.own
      BY <2>4, <3>2 DEF Steady
    <3>4. Up(c) /\ Counts(c) /\ Shown(c)
      BY <2>4, <3>2 DEF Steady, Up, Counts, Shown, SameOuter, SameButSnapshot
    <3>5. /\ ~c.lapsed /\ ~c.destroyed /\ c.settings = settings
          /\ c.session.applied = settings
      BY <2>4, <2>5, <3>2 DEF Steady, SameOuter, SameButSnapshot
    <3>. QED BY <1>11, <2>1, <2>3, <3>2, <3>3, <3>4, <3>5
  <2>. QED BY <2>2, <2>6, <2>7
<1>12. QED BY <1>10, <1>11

LEMMA NoKeyFacts == ASSUME NEW x, NEW y
  PROVE  NoKey # <<x, y>>
BY DEF NoKey

LEMMA GlobalSettings ==
  ASSUME wall \in Walls, NEW b, Good(b), Up(b), NEW settings \in AllSettings,
         NEW outcome \in Outcomes
  PROVE  Good(ReconfigureForGlobalSettings([b EXCEPT !.settings = settings], outcome))
<1>1. PICK a : a = [b EXCEPT !.settings = settings]
  OBVIOUS
<1>2. b \in Buttons /\ Sound(b) /\ b.session.applied = b.settings
  BY DEF Good, Sound, Life
<1>3. /\ a \in Buttons /\ a.settings = settings /\ a.session = b.session
      /\ a.requests = b.requests /\ a.handles = b.handles /\ a.listeners = b.listeners
      /\ a.view = b.view /\ a.phase = b.phase /\ a.seen = b.seen
      /\ a.destroyed = b.destroyed /\ a.lapsed = b.lapsed /\ a.reentered = b.reentered
      /\ a.unheard = b.unheard
  BY <1>1, <1>2 DEF Buttons
<1>4. CASE a.session.applied = a.settings
  <2>1. ReconfigureForGlobalSettings(a, outcome) = a
    BY <1>4 DEF ReconfigureForGlobalSettings
  <2>2. a.settings = b.settings
    BY <1>2, <1>3, <1>4
  <2>3. Good(a)
    BY <1>3, <2>2, GoodSame
  <2>. QED BY <1>1, <2>1, <2>3
<1>5. CASE a.session.applied # a.settings
  <2>1. PICK s : s = [b.session EXCEPT !.applied = settings]
    OBVIOUS
  <2>2. PICK e : e = [a EXCEPT !.session = s]
    OBVIOUS
  <2>3. PICK c : c = Observe(e, outcome)
    OBVIOUS
  <2>4. PICK d : d = ClearPolicyWork(BumpPolicy(c), TRUE)
    OBVIOUS
  <2>5. Up(a)
    BY <1>3 DEF Up
  <2>6. e = [a EXCEPT !.session.applied = a.settings]
    BY <1>3, <2>1, <2>2
  <2>7. ReconfigureForGlobalSettings(a, outcome) =
          IF Preserves(c, a.session.applied) THEN c
          ELSE IF ~a.settings.creds
               THEN SubmitView([DetachClock(d) EXCEPT !.session.closedKey = NoKey,
                                                      !.session.connection = "BROKEN"])
               ELSE ReconfigurePolicy(AttachClock(d), outcome)
    BY <1>5, <2>3, <2>4, <2>5, <2>6 DEF ReconfigureForGlobalSettings
  <2>8. s \in Sessions
    BY <1>2, <2>1, Typing DEF Sessions
  <2>9. /\ e \in Buttons /\ e.settings = settings /\ e.session = s
        /\ e.requests = b.requests /\ e.handles = b.handles /\ e.listeners = b.listeners
        /\ e.view = b.view /\ e.phase = b.phase /\ e.seen = b.seen
        /\ e.destroyed = b.destroyed /\ e.lapsed = b.lapsed /\ e.reentered = b.reentered
        /\ e.unheard = b.unheard
    BY <1>3, <2>2, <2>8 DEF Buttons
  <2>10. /\ c \in Buttons /\ Up(c) /\ ~c.lapsed /\ ~c.destroyed
         /\ c.settings = settings /\ c.session.applied = settings
         /\ (\A r \in c.requests : r.own) /\ Counts(c) /\ Shown(c)
         /\ Moves(e) => Good(c) /\ c.reentered
         /\ ~Moves(e) /\ settings.creds => c = Aware(e)
    BY <2>1, <2>3, <2>9, NoticedFacts
  <2>11. c = Aware(e) =>
           /\ c.session = s /\ c.requests = e.requests /\ c.handles = e.handles
           /\ c.listeners = e.listeners /\ c.view = e.view /\ c.phase = e.phase
           /\ c.destroyed = e.destroyed /\ c.lapsed = e.lapsed
           /\ c.reentered = e.reentered /\ c.unheard = e.unheard
    BY <2>9, AwareFacts
  <2>12. /\ s.snapshot = b.session.snapshot /\ s.closedKey = b.session.closedKey
         /\ s.opened = b.session.opened
    BY <1>2, <2>1, Typing DEF Sessions
  <2>13. CASE Preserves(c, a.session.applied)
    <3>1. settings.creds /\ b.settings.creds /\ settings.gen = b.settings.gen
          /\ ~c.session.snapshot.open
      BY <1>2, <1>3, <2>10, <2>13 DEF Preserves
    <3>2. Good(c)
      <4>1. CASE Moves(e)
        BY <2>10, <4>1
      <4>2. CASE ~Moves(e)
        <5>1. c = Aware(e)
          BY <2>10, <3>1, <4>2
        <5>2. On(b) /\ ~b.session.snapshot.open
          BY <1>2, <2>11, <2>12, <3>1, <5>1 DEF On
        <5>. QED BY <2>1, <2>9, <2>10, <2>11, <3>1, <5>1, <5>2, PreservedFacts
      <4>. QED BY <4>1, <4>2
    <3>. QED BY <1>1, <2>7, <2>13, <3>2
  <2>14. CASE ~Preserves(c, a.session.applied) /\ ~settings.creds
    <3>1. Good(SubmitView([DetachClock(d) EXCEPT !.session.closedKey = NoKey,
                                                 !.session.connection = "BROKEN"]))
      BY <2>4, <2>10, <2>14, NoCredentials
    <3>. QED BY <1>1, <1>3, <2>7, <2>14, <3>1
  <2>15. CASE ~Preserves(c, a.session.applied) /\ settings.creds
    <3>1. ~Effective(c).open /\ c.session.closedKey = <<Effective(c).epoch, c.settings.gen>> =>
            c.session.opened \/ c.reentered
      <4>1. SUFFICES ASSUME ~Effective(c).open, ~c.session.opened, ~c.reentered,
                            c.session.closedKey = <<Effective(c).epoch, settings.gen>>
                     PROVE  FALSE
        BY <2>10
      <4>2. c = Aware(e)
        BY <2>10, <2>15, <4>1
      <4>3. /\ c.session.snapshot = b.session.snapshot
            /\ c.session.closedKey = b.session.closedKey
            /\ c.session.opened = b.session.opened
        BY <2>11, <2>12, <4>2
      <4>4. On(b)
        BY <1>2, <4>1, <4>3, NoKeyFacts DEF Sound, Idle
      <4>5. ~b.session.snapshot.open
            /\ b.session.closedKey = <<b.session.snapshot.epoch, b.settings.gen>>
        BY <1>2, <4>1, <4>3, <4>4 DEF Sound, Closed, ClosedKey
      <4>6. b.session.snapshot.epoch = Effective(c).epoch /\ b.settings.gen = settings.gen
        BY <4>1, <4>3, <4>5
      <4>7. Preserves(c, a.session.applied)
        BY <1>2, <1>3, <2>10, <2>15, <4>1, <4>3, <4>4, <4>5, <4>6 DEF Preserves, On
      <4>. QED BY <2>15, <4>7
    <3>2. Good(ReconfigurePolicy(AttachClock(d), outcome))
      BY <2>4, <2>10, <2>15, <3>1, WithCredentials
    <3>. QED BY <1>1, <1>3, <2>7, <2>15, <3>2
  <2>. QED BY <2>13, <2>14, <2>15
<1>6. QED BY <1>4, <1>5

LEMMA SettingsChangeStep ==
  ASSUME BoundsAssumption, wall \in Walls, Good(button), SettingsChange
  PROVE  Good(button')
<1>1. PICK s \in Settings, outcome \in Possible(Up(button)) :
        button' = LET b == [button EXCEPT !.settings = s] IN
                  IF b.destroyed THEN b ELSE ReconfigureForGlobalSettings(b, outcome)
  BY DEF SettingsChange
<1>2. outcome \in Outcomes
  BY DEF Possible, Outcomes, Phys
<1>3. s \in AllSettings
  BY DEF Settings, AllSettings, BoundsAssumption
<1>4. PICK b : b = [button EXCEPT !.settings = s]
  OBVIOUS
<1>5. button' = IF b.destroyed THEN b ELSE ReconfigureForGlobalSettings(b, outcome)
  BY <1>1, <1>4
<1>6. button \in Buttons /\ Sound(button)
  BY DEF Good, Sound
<1>7. CASE Up(button)
  <2>1. ~b.destroyed
    BY <1>4, <1>6, <1>7 DEF Sound, Life, Up, Buttons
  <2>2. Good(ReconfigureForGlobalSettings(b, outcome))
    BY <1>2, <1>3, <1>4, <1>7, GlobalSettings
  <2>. QED BY <1>5, <2>1, <2>2
<1>8. CASE ~Up(button)
  <2>1. /\ b \in Buttons /\ b.session = button.session
        /\ b.requests = button.requests /\ b.handles = button.handles
        /\ b.listeners = button.listeners /\ b.view = button.view
        /\ b.phase = button.phase /\ b.destroyed = button.destroyed
        /\ b.lapsed = button.lapsed
    BY <1>3, <1>4, <1>6 DEF Buttons
  <2>2. ~Up(b)
    BY <1>8, <2>1 DEF Up
  <2>3. button' = b
    BY <1>5, <2>2 DEF ReconfigureForGlobalSettings
  <2>4. /\ button.session = NoSession /\ button.requests = {}
        /\ button.handles = 0 /\ button.listeners = 0 /\ ~button.lapsed
    BY <1>8, DownFacts
  <2>5. /\ b.destroyed => b.phase = "none"
        /\ b.phase = "waiting" => b.view = "waiting"
    BY <1>6, <2>1 DEF Sound, Life
  <2>6. Good(b)
    BY <2>1, <2>2, <2>4, <2>5, GoodDown
  <2>. QED BY <2>3, <2>6
<1>9. QED BY <1>7, <1>8

-----------------------------------------------------------------------------
(* The life of the button.                                                  *)

LEMMA GoneFacts ==
  ASSUME NEW b, Good(b)
  PROVE  LET c == Gone(b) IN
         /\ c \in Buttons /\ c.session = NoSession /\ c.requests = {}
         /\ c.handles = 0 /\ c.listeners = 0 /\ ~c.lapsed
         /\ c.phase = "none" /\ c.view = "waiting"
         /\ c.settings = b.settings /\ c.destroyed = b.destroyed
<1>1. b \in Buttons /\ Sound(b)
  BY DEF Good, Sound
<1>2. PICK t : t = TeardownSession(b)
  OBVIOUS
<1>3. /\ t \in Buttons /\ t.session = NoSession /\ t.requests = {}
      /\ t.handles = 0 /\ t.listeners = 0 /\ ~t.lapsed
      /\ t.settings = b.settings /\ t.destroyed = b.destroyed
  <2>1. CASE ~Up(b)
    BY <1>2, <2>1, DownFacts DEF TeardownSession
  <2>2. CASE Up(b)
    <3>1. PICK d : d = ClearPolicyWork(BumpPolicy(b), TRUE)
      OBVIOUS
    <3>2. PICK c : c = DetachClock(d)
      OBVIOUS
    <3>3. \A r \in b.requests : r.own
      BY <1>1 DEF Sound, Accounted
    <3>4. Counts(b)
      BY <1>1 DEF Sound
    <3>5. /\ d \in Buttons /\ SameOuter(b, d) /\ d.handles = 0
          /\ Quiet(d.requests) /\ Over(b.session, d.session)
      BY <1>1, <3>1, <3>3, <3>4, OutFacts DEF Counts
    <3>6. d.listeners = IF d.session.attached THEN 1 ELSE 0
      BY <3>4, <3>5 DEF Counts, SameOuter, Over
    <3>7. /\ c \in Buttons /\ c.listeners = 0 /\ c.settings = d.settings
          /\ c.requests = d.requests /\ c.handles = d.handles
          /\ c.destroyed = d.destroyed /\ c.lapsed = d.lapsed
      BY <3>2, <3>5, <3>6, DetachFacts
    <3>8. {[r EXCEPT !.own = FALSE] : r \in {q \in c.requests : ~q.aborted}} = {}
      BY <3>5, <3>7 DEF Quiet
    <3>9. t = [c EXCEPT !.requests = {}, !.session = NoSession, !.view = NoView,
                        !.reentered = FALSE, !.unheard = FALSE]
      BY <1>2, <2>2, <3>1, <3>2, <3>8 DEF TeardownSession
    <3>10. /\ t \in Buttons /\ t.session = NoSession /\ t.requests = {}
           /\ t.handles = c.handles /\ t.listeners = c.listeners /\ t.lapsed = c.lapsed
           /\ t.settings = c.settings /\ t.destroyed = c.destroyed
      BY <3>7, <3>9, NoSessionFacts DEF Buttons, NoView, Connections
    <3>. QED BY <1>1, <3>5, <3>7, <3>10 DEF SameOuter, Sound
  <2>. QED BY <2>1, <2>2
<1>4. PICK c : c = [t EXCEPT !.phase = "none", !.view = "waiting"]
  OBVIOUS
<1>5. c = Gone(b)
  BY <1>2, <1>4 DEF Gone, NoView
<1>6. /\ c \in Buttons /\ c.session = t.session /\ c.requests = t.requests
      /\ c.handles = t.handles /\ c.listeners = t.listeners /\ c.lapsed = t.lapsed
      /\ c.phase = "none" /\ c.view = "waiting"
      /\ c.settings = t.settings /\ c.destroyed = t.destroyed
  BY <1>3, <1>4 DEF Buttons, Connections
<1>7. QED BY <1>3, <1>5, <1>6

LEMMA GoneStep ==
  ASSUME Good(button), Appear \/ Disappear \/ Destroy
  PROVE  Good(button')
<1>1. PICK c : c = Gone(button)
  OBVIOUS
<1>2. /\ c \in Buttons /\ c.session = NoSession /\ c.requests = {}
      /\ c.handles = 0 /\ c.listeners = 0 /\ ~c.lapsed
      /\ c.phase = "none" /\ c.view = "waiting" /\ c.destroyed = button.destroyed
  BY <1>1, GoneFacts
<1>3. CASE Appear
  <2>1. PICK d : d = [c EXCEPT !.phase = "waiting"]
    OBVIOUS
  <2>2. button' = d /\ ~button.destroyed
    BY <1>1, <1>3, <2>1 DEF Appear
  <2>3. /\ d \in Buttons /\ d.session = NoSession /\ d.requests = {}
        /\ d.handles = 0 /\ d.listeners = 0 /\ ~d.lapsed
        /\ d.phase = "waiting" /\ d.view = "waiting" /\ ~d.destroyed
    BY <1>2, <2>1, <2>2 DEF Buttons
  <2>4. Good(d)
    BY <2>3, GoodDown DEF Up
  <2>. QED BY <2>2, <2>4
<1>4. CASE Disappear
  <2>1. Good(c)
    BY <1>2, GoodDown DEF Up
  <2>. QED BY <1>1, <1>4, <2>1 DEF Disappear
<1>5. CASE Destroy
  <2>1. PICK d : d = [c EXCEPT !.destroyed = TRUE]
    OBVIOUS
  <2>2. button' = d
    BY <1>1, <1>5, <2>1 DEF Destroy
  <2>3. /\ d \in Buttons /\ d.session = NoSession /\ d.requests = {}
        /\ d.handles = 0 /\ d.listeners = 0 /\ ~d.lapsed /\ d.phase = "none"
    BY <1>2, <2>1 DEF Buttons
  <2>4. Good(d)
    BY <2>3, GoodDown DEF Up
  <2>. QED BY <2>2, <2>4
<1>6. QED BY <1>3, <1>4, <1>5

LEMMA CreateStep ==
  ASSUME wall \in Walls, Good(button), Create
  PROVE  Good(button')
<1>1. PICK valid \in BOOLEAN, outcome \in Outcomes :
        button' = CreateSession(button, valid, outcome)
  BY DEF Create
<1>2. button \in Buttons /\ Sound(button) /\ button.phase = "waiting"
  BY DEF Good, Sound, Create
<1>3. ~Up(button) /\ ~button.destroyed
  BY <1>2 DEF Sound, Life, Up
<1>4. /\ button.session = NoSession /\ button.requests = {}
      /\ button.handles = 0 /\ button.listeners = 0 /\ ~button.lapsed
  BY <1>3, DownFacts
<1>5. CASE ~valid
  <2>1. PICK d : d = [button EXCEPT !.phase = "fatal", !.view = "BROKEN"]
    OBVIOUS
  <2>2. button' = d
    BY <1>1, <1>5, <2>1 DEF CreateSession
  <2>3. /\ d \in Buttons /\ d.session = NoSession /\ d.requests = {}
        /\ d.handles = 0 /\ d.listeners = 0 /\ ~d.lapsed
        /\ d.phase = "fatal" /\ ~d.destroyed
    BY <1>2, <1>3, <1>4, <2>1 DEF Buttons, Connections
  <2>4. Good(d)
    BY <2>3, GoodDown DEF Up
  <2>. QED BY <2>2, <2>4
<1>6. CASE valid
  <2>1. PICK s : s = NewSession(button.settings, ClockView)
    OBVIOUS
  <2>2. PICK c : c = [button EXCEPT !.phase = "up", !.seen = ClockView, !.session = s]
    OBVIOUS
  <2>3. button' = IF ~button.settings.creds
                  THEN SubmitView([c EXCEPT !.session.connection = "BROKEN"])
                  ELSE ReconfigurePolicy(AttachClock(c), outcome)
    BY <1>1, <1>6, <2>1, <2>2 DEF CreateSession
  <2>4. button.settings \in AllSettings
    BY <1>2 DEF Buttons
  <2>5. /\ s \in Sessions /\ Idle(s) /\ ~s.quoted /\ s.applied = button.settings
        /\ s.connection = "waiting"
    BY <2>1, <2>4, NoSubType, ClockViewType
    DEF NewSession, Sessions, Timers, Connections, Idle
  <2>6. /\ c \in Buttons /\ c.session = s /\ c.phase = "up" /\ c.requests = {}
        /\ c.handles = 0 /\ c.listeners = 0 /\ ~c.lapsed /\ ~c.destroyed
        /\ c.settings = button.settings /\ c.view = button.view
    BY <1>2, <1>3, <1>4, <2>2, <2>5, ClockViewType DEF Buttons
  <2>7. c.view = "waiting"
    BY <1>2, <2>6 DEF Sound, Life
  <2>8. Shown(c) /\ Up(c)
    BY <2>5, <2>6, <2>7 DEF Shown, Up
  <2>9. CASE ~button.settings.creds
    <3>1. PICK d : d = Broken(c)
      OBVIOUS
    <3>2. Accounted(c.requests)
      BY <2>6 DEF Accounted
    <3>3. Further(c, d) /\ Shows(d) /\ d.session = [c.session EXCEPT !.connection = "BROKEN"]
      BY <2>6, <3>1, <3>2, FurtherBroken
    <3>4. d.session = [s EXCEPT !.connection = "BROKEN"]
      BY <2>6, <3>3
    <3>5. /\ Idle(d.session) /\ d.session.connection = "BROKEN"
          /\ d.session.applied = button.settings
      BY <2>5, <3>4 DEF Idle, Sessions
    <3>6. /\ d \in Buttons /\ Up(d) /\ ~d.settings.creds /\ d.session.applied = d.settings
          /\ ~d.lapsed /\ ~d.destroyed /\ d.handles = 0 /\ d.listeners = 0
          /\ Accounted(d.requests)
      BY <2>6, <2>8, <2>9, <3>3, <3>5 DEF Further, Kept, SameOuter, Up
    <3>7. Shown(d)
      BY <3>3, <3>5 DEF Shown, Shows
    <3>8. Good(d)
      BY <3>5, <3>6, <3>7, GoodIdle
    <3>. QED BY <2>3, <2>9, <3>1, <3>8 DEF Broken
  <2>10. CASE button.settings.creds
    <3>1. s.closedKey = NoKey /\ s.sub = NoSub /\ ~s.attached
      BY <2>5 DEF Idle
    <3>2. Counts(c)
      BY <2>6, <3>1, NoSubType DEF Counts
    <3>3. Ready(c)
      BY <2>5, <2>6, <2>8, <2>10, <3>1, <3>2, NoKeyFacts DEF Ready
    <3>4. Good(ReconfigurePolicy(AttachClock(c), outcome))
      BY <3>3, AttachReady, ReconfigureFacts
    <3>. QED BY <2>3, <2>10, <3>4
  <2>. QED BY <2>9, <2>10
<1>7. QED BY <1>5, <1>6

LEMMA ManualRefreshStep ==
  ASSUME Good(button), ManualRefresh
  PROVE  Good(button')
<1>1. PICK q : q = Request("manual", TRUE)
  OBVIOUS
<1>2. PICK c : c = [button EXCEPT !.requests = @ \cup {q}]
  OBVIOUS
<1>3. PICK d : d = SubmitView(c)
  OBVIOUS
<1>4. button' = d /\ Up(button)
  BY <1>1, <1>2, <1>3 DEF ManualRefresh
<1>5. button \in Buttons /\ Sound(button)
  BY DEF Good, Sound
<1>6. /\ q \in Requests /\ q.kind = "manual" /\ q.held /\ q.live /\ q.fresh /\ q.own
      /\ ~q.aborted /\ ~q.overtaken
  BY <1>1, RequestType
<1>7. /\ c \in Buttons /\ SameOuter(button, c) /\ c.session = button.session
      /\ c.requests = button.requests \cup {q} /\ c.handles = button.handles
      /\ c.view = button.view
  BY <1>2, <1>5, <1>6 DEF Buttons, SameOuter
<1>8. Accounted(c.requests)
  <2>1. Accounted(button.requests)
    BY <1>5 DEF Sound
  <2>. QED BY <1>6, <1>7, <2>1 DEF Accounted
<1>9. Further(c, d) /\ Shows(d) /\ d.session = c.session
  BY <1>3, <1>7, <1>8, FurtherSubmit
<1>10. /\ d \in Buttons /\ SameOuter(c, d) /\ Accounted(d.requests)
       /\ c.requests \subseteq d.requests /\ d.handles = c.handles
  BY <1>9 DEF Further, Kept
<1>11. SameOuter(button, d)
  BY <1>7, <1>10 DEF SameOuter
<1>12. Shown(d)
  BY <1>5, <1>7, <1>9 DEF Sound, Shown, Shows
<1>13. SameButShown(button.session, d.session)
  BY <1>7, <1>9 DEF SameButShown
<1>14. WillBeAnswered(button) => WillBeAnswered(d)
  BY <1>7, <1>10 DEF WillBeAnswered
<1>15. d.session.connection = button.session.connection /\ d.handles = button.handles
  BY <1>7, <1>9, <1>10
<1>16. Good(d)
  BY <1>4, <1>10, <1>11, <1>12, <1>13, <1>14, <1>15, GoodAnswered
<1>17. QED BY <1>4, <1>16

LEMMA MarketMovesStep ==
  ASSUME BoundsAssumption, wall \in Walls, MarketMoves
  PROVE  wall' \in Walls /\ button' = button
BY DEF MarketMoves, Walls, BoundsAssumption

-----------------------------------------------------------------------------
(* The theorems.                                                            *)

(* The inductive invariant.                                                 *)
IInv == wall \in Walls /\ Good(button)

LEMMA InitIInv == ASSUME BoundsAssumption, Init PROVE IInv
<1>1. wall \in Walls
  BY DEF Init, Walls
<1>2. InitialSettings \in AllSettings
  BY DEF InitialSettings, AllSettings
<1>3. /\ button \in Buttons /\ button.session = NoSession /\ button.requests = {}
      /\ button.handles = 0 /\ button.listeners = 0 /\ ~button.lapsed
      /\ button.phase = "none"
  BY <1>1, <1>2, ClockViewType, NoSessionFacts DEF Init, Buttons, Connections, NoView
<1>4. Good(button)
  BY <1>3, GoodDown DEF Up
<1>5. QED BY <1>1, <1>4 DEF IInv

LEMMA NextIInv == ASSUME BoundsAssumption, IInv, [Next]_vars PROVE IInv'
<1>1. wall \in Walls /\ Good(button)
  BY DEF IInv
<1>2. wall' \in Walls
  <2>1. CASE MarketMoves
    BY <1>1, <2>1, MarketMovesStep
  <2>2. CASE wall' = wall
    BY <1>1, <2>2
  <2>3. MarketMoves \/ wall' = wall
    BY DEF Next, vars, Appear, UpdateSettings, Create, Disappear, Destroy, ManualRefresh,
      ClockFires, SettingsChange, SubscriptionState, Frame, RetargetEnds, RestAnswers,
      GraceFires, PollFires, RecoveryFires, PolicyTickFires
  <2>. QED BY <2>1, <2>2, <2>3
<1>3. Good(button')
  <2>1. CASE Appear \/ UpdateSettings \/ Disappear \/ Destroy
    BY <1>1, <2>1, GoneStep DEF UpdateSettings
  <2>2. CASE Create
    BY <1>1, <2>2, CreateStep
  <2>3. CASE ManualRefresh
    BY <1>1, <2>3, ManualRefreshStep
  <2>4. CASE MarketMoves
    BY <1>1, <2>4, MarketMovesStep
  <2>5. CASE ClockFires
    BY <1>1, <2>5, ClockFiresStep
  <2>6. CASE SettingsChange
    BY <1>1, <2>6, SettingsChangeStep
  <2>7. CASE SubscriptionState
    BY <1>1, <2>7, SubscriptionStateStep
  <2>8. CASE Frame
    BY <1>1, <2>8, FrameStep
  <2>9. CASE RetargetEnds
    BY <1>1, <2>9, RetargetEndsStep
  <2>10. CASE RestAnswers
    BY <1>1, <2>10, RestAnswersStep
  <2>11. CASE GraceFires
    BY <1>1, <2>11, GraceFiresStep
  <2>12. CASE PollFires
    BY <1>1, <2>12, PollFiresStep
  <2>13. CASE RecoveryFires
    BY <1>1, <2>13, RecoveryFiresStep
  <2>14. CASE PolicyTickFires
    BY <1>1, <2>14, PolicyTickFiresStep
  <2>15. CASE UNCHANGED vars
    BY <1>1, <2>15 DEF vars
  <2>16. QED
    BY <2>1, <2>2, <2>3, <2>4, <2>5, <2>6, <2>7, <2>8, <2>9, <2>10, <2>11, <2>12,
       <2>13, <2>14, <2>15 DEF Next
<1>4. QED BY <1>2, <1>3 DEF IInv

(* The invariant the other theorems follow from holds throughout.           *)
THEOREM InvariantHolds == Spec => []IInv
<1>1. Init => IInv
  BY BoundsAssumption, InitIInv
<1>2. IInv /\ [Next]_vars => IInv'
  BY BoundsAssumption, NextIInv
<1>3. QED BY <1>1, <1>2, PTL DEF Spec

(* performRest, performManual: an answer is never adopted once something    *)
(* newer than what it was asked for is known.                               *)
THEOREM AnswersAreFresh == Spec => []NoStaleAnswer
<1>1. IInv => NoStaleAnswer
  BY DEF IInv, Good, Sound, NoStaleAnswer
<1>2. QED BY <1>1, InvariantHolds, PTL

LEMMA OneFallback == ASSUME NEW R, Accounted(R)
  PROVE  Cardinality({r \in R : r.held /\ r.kind = "fallback"}) <= 1
<1>1. PICK F : F = {r \in R : r.held /\ r.kind = "fallback"}
  OBVIOUS
<1>2. CASE F = {}
  <2>1. Cardinality(F) = 0
    BY <1>2, FS_EmptySet
  <2>. QED BY <1>1, <2>1
<1>3. CASE F # {}
  <2>1. PICK r : r \in F
    BY <1>3
  <2>2. F = {r}
    BY <1>1, <2>1 DEF Accounted
  <2>3. Cardinality(F) = 1
    BY <2>2, FS_Singleton
  <2>. QED BY <1>1, <2>3
<1>4. QED BY <1>2, <1>3

(* teardownSession, clearPolicyWork, releaseSubscription, stopFallback:     *)
(* nothing of a past session or policy is left, and one backup request goes *)
(* on at a time.                                                            *)
THEOREM NothingIsLeft == Spec => []NothingLeftBehind
<1>1. IInv => NothingLeftBehind
  <2>1. SUFFICES ASSUME IInv PROVE NothingLeftBehind
    OBVIOUS
  <2>2. button \in Buttons /\ Sound(button)
    BY <2>1 DEF IInv, Good, Sound
  <2>3. Accounted(button.requests) /\ button.requests \subseteq Requests
    BY <2>2, Typing DEF Sound
  <2>4. SingleFallback
    BY <2>3, OneFallback DEF SingleFallback, Accounted
  <2>5. ~Working => ~Session.sub.held /\ ~Session.attached
    BY <2>2, NoSubType DEF Sound, Idle, Working, On, Session
  <2>. QED BY <2>2, <2>3, <2>4, <2>5
    DEF NothingLeftBehind, Accounted, Sound, Counts, Session
<1>2. QED BY <1>1, InvariantHolds, PTL

(* reconfigureForGlobalSettings, reconfigurePolicy: a subscription is held  *)
(* only while the settings, and the market as last taken, call for one, and *)
(* the button takes its news.                                               *)
THEOREM HeldByPolicy == Spec => []SubscribedByPolicy
<1>1. IInv => SubscribedByPolicy
  BY HeldIsOn DEF IInv, Good, Sound, Life, Subscribed, SubscribedByPolicy, Session
<1>2. QED BY <1>1, InvariantHolds, PTL

(* startAutomaticRealtime, handleSubscriptionState, startFallback: in an    *)
(* open market a button is fed, or waits no longer than grace, or polls.    *)
THEOREM NeverLeftBlind == Spec => []NeverBlind
<1>1. IInv => NeverBlind
  <2>1. SUFFICES ASSUME IInv, Working, Session.snapshot.open
                 PROVE  \/ Session.valid /\ Session.sub.bound /\ Session.sub.phys = "live"
                        \/ Session.sub.bound /\ Session.grace = "live"
                        \/ Session.fallback /\ Session.poll = "live"
    BY DEF NeverBlind
  <2>2. Sound(button) /\ Told(Session) /\ On(button)
    BY <2>1 DEF IInv, Good, Working, On, Session
  <2>3. Session.fallback => Session.poll = "live"
    BY <2>2 DEF Sound, Polled, Session
  <2>4. Session.sub.held => Session.sub.bound
    BY <2>2 DEF Sound, Subscribed, Session
  <2>5. Session.fallback \/ (Session.sub.held /\ (Session.grace = "live" \/ Session.valid))
    BY <2>1, <2>2 DEF Sound, Sighted, Session
  <2>. QED BY <2>2, <2>3, <2>4, <2>5 DEF Told
<1>2. QED BY <1>1, InvariantHolds, PTL

(* armPolicyTick, showRecovery: the minute tick goes on, and the recovery   *)
(* screen is up just as long as the timer that takes it down, unless a      *)
(* policy moved on within a handler since it was last set up.               *)
THEOREM TimersGoOn == Spec => []TimersRun
<1>1. IInv => TimersRun
  BY DEF IInv, Good, Sound, Ticking, Recovers, On, TimersRun, PolicyTicks, Working, Session
<1>2. QED BY <1>1, InvariantHolds, PTL

(* startClosedRest, submitView: the button says how its session is          *)
(* connected, and in a closed market that is known once its request ends.   *)
THEOREM ConnectionIsShown == Spec => []ConnectionShown
<1>1. IInv => ConnectionShown
  BY DEF IInv, Good, Sound, Closed, Shown, WillBeAnswered, On, ConnectionShown,
    ClosedAnswered, ViewUpToDate, Working, Session
<1>2. QED BY <1>1, InvariantHolds, PTL

-----------------------------------------------------------------------------
(* The clock the controllers ask, MarketClock.  First what holds of its     *)
(* local times: conversion to them keeps the order of time at weekdays.     *)

Clock == INSTANCE MarketClock

(* A local time by its day and the time of that day. *)
LEMMA DayAndTime ==
  ASSUME NEW t \in Int
  PROVE  /\ t \div Day \in Int /\ t % Day \in 0 .. Day - 1
         /\ t = (t \div Day) * Day + (t % Day)
BY DEF Day, Hour

(* The day and the time of day of a local time put together from them. *)
LEMMA TimeOfDay ==
  ASSUME NEW day \in Int, NEW at \in 0 .. Day - 1
  PROVE  (day * Day + at) \div Day = day /\ (day * Day + at) % Day = at
BY DEF Day, Hour

(* Three days in a row are not all of a weekend. *)
LEMMA WeekdayNear ==
  ASSUME NEW day \in Int
  PROVE  /\ \E d \in day - 3 .. day - 1 : ~Weekend(d)
         /\ \E d \in day + 1 .. day + 3 : ~Weekend(d)
<1>1. ~Weekend(day - 3) \/ ~Weekend(day - 2) \/ ~Weekend(day - 1)
  BY DEF Weekend
<1>2. ~Weekend(day + 3) \/ ~Weekend(day + 2) \/ ~Weekend(day + 1)
  BY DEF Weekend
<1> QED BY <1>1, <1>2

(* The lesser and the greater of two numbers. *)
LEMMA LeastAndGreatest ==
  ASSUME NEW x \in Int, NEW y \in Int
  PROVE  /\ Min({x, y}) = IF x <= y THEN x ELSE y
         /\ Max({x, y}) = IF x >= y THEN x ELSE y
BY DEF Min, Max

(* The parts of a time zone are numbers. *)
LEMMA Offsets ==
  ASSUME NEW m \in Markets
  PROVE  m.zone.before \in Int /\ m.zone.after \in Int /\ m.zone.shift \in Int
BY MarketsAssumption

(* A local time of a weekday is well before the change of the clocks, or     *)
(* well after it, by the old and by the new offset alike.                    *)
LEMMA Unambiguous ==
  ASSUME NEW m \in Markets, NEW t \in Int, ~Weekend(t \div Day), m.zone.before # m.zone.after
  PROVE  \/ t < m.zone.shift + m.zone.before - 1 /\ t < m.zone.shift + m.zone.after - 1
         \/ t > m.zone.shift + m.zone.before /\ t > m.zone.shift + m.zone.after
<1> DEFINE lo == Min({m.zone.before, m.zone.after})
           hi == Max({m.zone.before, m.zone.after})
<1>1. t \notin m.zone.shift + lo - 1 .. m.zone.shift + hi
  BY MarketsAssumption DEF ChangesAtWeekend
<1>2. /\ lo \in Int /\ lo <= m.zone.before /\ lo <= m.zone.after
      /\ hi \in Int /\ hi >= m.zone.before /\ hi >= m.zone.after
  <2>1. /\ lo = IF m.zone.before <= m.zone.after THEN m.zone.before ELSE m.zone.after
        /\ hi = IF m.zone.before >= m.zone.after THEN m.zone.before ELSE m.zone.after
    BY Offsets, LeastAndGreatest
  <2> HIDE DEF lo, hi
  <2> QED BY <2>1, Offsets
<1> HIDE DEF lo, hi
<1> QED BY <1>1, <1>2, Offsets

(* Local time by either offset. *)
LEMMA LocalIs ==
  ASSUME NEW m \in Markets, NEW u \in Int
  PROVE  /\ Local(m, u) \in Int /\ LocalDay(m, u) \in Int
         /\ u < m.zone.shift => Local(m, u) = u + m.zone.before
         /\ u >= m.zone.shift => Local(m, u) = u + m.zone.after
<1>1. Local(m, u) \in Int
  BY Offsets DEF Local
<1> QED BY <1>1, Offsets, DayAndTime DEF Local, LocalDay

(* localBoundaryToEpoch: three corrections find the one moment whose local   *)
(* time is the boundary.                                                     *)
LEMMA Located ==
  ASSUME NEW m \in Markets, NEW day \in Int, ~Weekend(day), NEW at \in 0 .. Day - 1, NEW u
  PROVE  LET e == BoundaryToEpoch(m, day, at, u) IN
         /\ e \in Int /\ Local(m, e) = day * Day + at
         /\ \A v \in Int : Local(m, v) = day * Day + at => v = e
<1> DEFINE t == day * Day + at
           Correct(c) == c + t - Local(m, c)
<1>1. t \in Int /\ ~Weekend(t \div Day)
  BY TimeOfDay DEF Day, Hour
<1>2. BoundaryToEpoch(m, day, at, u) = Correct(Correct(Correct(t)))
  BY DEF BoundaryToEpoch
<1> HIDE DEF t
<1>3. \A c \in Int : Correct(c) \in {t - m.zone.before, t - m.zone.after} /\ Correct(c) \in Int
  BY <1>1, LocalIs, Offsets
<1>4. CASE m.zone.before = m.zone.after
  <2>1. \A c \in Int : Local(m, c) = c + m.zone.before
    BY <1>4, LocalIs, Offsets
  <2>2. \A c \in Int : Correct(c) = t - m.zone.before
    BY <2>1, <1>1, Offsets
  <2>3. Correct(Correct(Correct(t))) = t - m.zone.before
    BY <2>2, <1>1, <1>3
  <2> QED BY <2>1, <2>3, <1>1, <1>2, Offsets DEF t
<1>5. CASE m.zone.before # m.zone.after /\ t < m.zone.shift + m.zone.before /\ t < m.zone.shift + m.zone.after
  <2>1. \A c \in {t - m.zone.before, t - m.zone.after} : c \in Int /\ c < m.zone.shift
    BY <1>5, <1>1, Offsets
  <2>2. \A c \in {t - m.zone.before, t - m.zone.after} : Correct(c) = t - m.zone.before
    BY <2>1, <1>1, LocalIs, Offsets
  <2>3. Correct(Correct(Correct(t))) = t - m.zone.before
    BY <2>2, <1>1, <1>3
  <2>4. Local(m, t - m.zone.before) = t
    BY <2>1, <1>1, LocalIs, Offsets
  <2>5. \A v \in Int : Local(m, v) = t => v = t - m.zone.before
    BY <2>1, <1>1, LocalIs, Offsets
  <2> QED BY <2>1, <2>3, <2>4, <2>5, <1>2 DEF t
<1>6. CASE m.zone.before # m.zone.after /\ t > m.zone.shift + m.zone.before /\ t > m.zone.shift + m.zone.after
  <2>1. \A c \in {t - m.zone.before, t - m.zone.after} : c \in Int /\ c >= m.zone.shift
    BY <1>6, <1>1, Offsets
  <2>2. \A c \in {t - m.zone.before, t - m.zone.after} : Correct(c) = t - m.zone.after
    BY <2>1, <1>1, LocalIs, Offsets
  <2>3. Correct(Correct(Correct(t))) = t - m.zone.after
    BY <2>2, <1>1, <1>3
  <2>4. Local(m, t - m.zone.after) = t
    BY <2>1, <1>1, LocalIs, Offsets
  <2>5. \A v \in Int : Local(m, v) = t => v = t - m.zone.after
    BY <2>1, <1>1, LocalIs, Offsets
  <2> QED BY <2>1, <2>3, <2>4, <2>5, <1>2 DEF t
<1> QED BY <1>1, <1>4, <1>5, <1>6, Unambiguous, Offsets

(* Local times are in the order of time, where one of them is of a weekday. *)
LEMMA Order ==
  ASSUME NEW m \in Markets, NEW v \in Int, ~Weekend(LocalDay(m, v)), NEW u \in Int
  PROVE  (v <= u <=> Local(m, v) <= Local(m, u)) /\ (u <= v <=> Local(m, u) <= Local(m, v))
<1>1. ~Weekend(Local(m, v) \div Day) /\ Local(m, v) \in Int
  BY LocalIs DEF LocalDay
<1>2. CASE m.zone.before = m.zone.after
  BY <1>2, LocalIs, Offsets
<1>3. CASE m.zone.before # m.zone.after /\ v < m.zone.shift
  BY <1>1, <1>3, Unambiguous, LocalIs, Offsets
<1>4. CASE m.zone.before # m.zone.after /\ v >= m.zone.shift
  <2>1. Local(m, v) = v + m.zone.after
    BY <1>4, LocalIs
  <2>2. Local(m, v) > m.zone.shift + m.zone.before /\ Local(m, v) > m.zone.shift + m.zone.after
    BY <1>1, <1>4, <2>1, Unambiguous, Offsets
  <2>3. CASE u < m.zone.shift
    BY <1>4, <2>1, <2>2, <2>3, LocalIs, Offsets
  <2>4. CASE u >= m.zone.shift
    BY <1>4, <2>1, <2>4, LocalIs, Offsets
  <2> QED BY <2>3, <2>4, Offsets
<1> QED BY <1>2, <1>3, <1>4, Offsets

-----------------------------------------------------------------------------
(* Boundaries, and the two of a snapshot.                                   *)

(* A non-empty set of natural numbers has a least element.                   *)
LEMMA LeastExists ==
  ASSUME NEW T \in SUBSET Nat, T # {}
  PROVE  \E m \in T : \A n \in T : m <= n
<1>1. IsWellFoundedOn(OpToRel(<, Nat), Nat)
  BY NatLessThanWellFounded
<1>2. PICK m \in T : \A n \in T : ~(<<n, m>> \in OpToRel(<, Nat))
  BY <1>1, WFMin
<1>3. ASSUME NEW n \in T PROVE m <= n
  <2>1. ASSUME n < m PROVE FALSE
    <3>1. <<n, m>> \in Nat \X Nat /\ <<n, m>>[1] < <<n, m>>[2]
      BY <2>1
    <3>2. <<n, m>> \in OpToRel(<, Nat)
      BY <3>1, Zenon DEF OpToRel
    <3> QED BY <3>2, <1>2
  <2> QED BY <2>1
<1> QED BY <1>3

(* A later time is of no earlier day. *)
LEMMA DaysInOrder ==
  ASSUME NEW s \in Int, NEW t \in Int
  PROVE  /\ s <= t => s \div Day <= t \div Day
         /\ s \div Day < t \div Day => s < t
BY DEF Day, Hour

(* The times before and after one, by day and time of the day. *)
LEMMA MinutesOfDay ==
  ASSUME NEW t \in Int
  PROVE  /\ t % Day # Day - 1 => (t + 1) \div Day = t \div Day /\ (t + 1) % Day = (t % Day) + 1
         /\ t % Day = Day - 1 => (t + 1) % Day = 0
         /\ t % Day # 0 => (t - 1) \div Day = t \div Day /\ (t - 1) % Day = (t % Day) - 1
         /\ t % Day = 0 => (t - 1) % Day = Day - 1
BY DEF Day, Hour

(* What is assumed of a schedule. *)
LEMMA ScheduleIs ==
  ASSUME NEW m \in Markets
  PROVE  /\ \E b : b \in m.schedule
         /\ \A b \in m.schedule : b.at \in 0 .. Day - 1 /\ b.at \in Int
         /\ \A b, c \in m.schedule : b.at = c.at => b = c
         /\ SessionAfter(m.schedule) = "CLOSED"
         /\ \A b \in m.schedule : b.session # SessionAfter({c \in m.schedule : c.at < b.at})
<1>1. Alternates(m.schedule) /\ m.schedule # {}
  BY MarketsAssumption
<1>2. \A b \in m.schedule : b.at \in 0 .. Day - 1
  BY MarketsAssumption
<1>3. \A b, c \in m.schedule : b.at = c.at => b = c
  BY MarketsAssumption
<1>4. \A b \in m.schedule : b.at \in Int
  BY <1>2 DEF Day, Hour
<1> QED BY <1>1, <1>2, <1>3, <1>4, Zenon DEF Alternates

(* A boundary of the schedule, wherever it is. *)
IsBoundary(m, v) ==
  /\ v \in Int /\ ~Weekend(LocalDay(m, v))
  /\ \E b \in m.schedule : b.at = Local(m, v) % Day

(* surroundingBoundaries: exactly the boundaries within SearchDays. *)
LEMMA BoundariesAre ==
  ASSUME NEW m \in Markets, NEW u \in Int
  PROVE  \A v : v \in Boundaries(m, u) <=>
           /\ IsBoundary(m, v)
           /\ LocalDay(m, v) \in LocalDay(m, u) - SearchDays .. LocalDay(m, u) + SearchDays
<1> DEFINE window == LocalDay(m, u) - SearchDays .. LocalDay(m, u) + SearchDays
<1>0. window \subseteq Int
  BY LocalIs DEF SearchDays
<1>1. ASSUME NEW day \in window, ~Weekend(day), NEW b \in m.schedule
      PROVE  LET e == BoundaryToEpoch(m, day, b.at, u) IN IsBoundary(m, e) /\ LocalDay(m, e) = day
  <2> DEFINE e == BoundaryToEpoch(m, day, b.at, u)
  <2>1. b.at \in 0 .. Day - 1 /\ day \in Int
    BY <1>0, ScheduleIs
  <2>2. e \in Int /\ Local(m, e) = day * Day + b.at
    BY <1>1, <2>1, Located
  <2> HIDE DEF e
  <2>3. LocalDay(m, e) = day /\ Local(m, e) % Day = b.at
    BY <2>1, <2>2, TimeOfDay DEF LocalDay
  <2> QED BY <1>1, <2>2, <2>3 DEF IsBoundary, e
<1>2. ASSUME NEW v, IsBoundary(m, v), LocalDay(m, v) \in window
      PROVE  \E day \in {d \in window : ~Weekend(d)}, b \in m.schedule :
               v = BoundaryToEpoch(m, day, b.at, u)
  <2>1. v \in Int /\ ~Weekend(LocalDay(m, v)) /\ LocalDay(m, v) \in Int /\ Local(m, v) \in Int
    BY <1>2, LocalIs DEF IsBoundary
  <2>2. PICK b \in m.schedule : b.at = Local(m, v) % Day
    BY <1>2 DEF IsBoundary
  <2>3. b.at \in 0 .. Day - 1 /\ Local(m, v) = LocalDay(m, v) * Day + b.at
    BY <2>1, <2>2, ScheduleIs, DayAndTime DEF LocalDay
  <2>4. v = BoundaryToEpoch(m, LocalDay(m, v), b.at, u)
    BY <2>1, <2>3, Located
  <2> QED BY <1>2, <2>1, <2>4
<1> DEFINE D == {d \in window : ~Weekend(d)}
<1>3. Boundaries(m, u) = {BoundaryToEpoch(m, day, b.at, u) : day \in D, b \in m.schedule}
  BY DEF Boundaries
<1>1b. \A day : day \in D <=> day \in window /\ ~Weekend(day)
  OBVIOUS
<1>2b. ASSUME NEW v, IsBoundary(m, v), LocalDay(m, v) \in window
      PROVE  \E day \in D, b \in m.schedule : v = BoundaryToEpoch(m, day, b.at, u)
  BY <1>2, <1>2b
<1> HIDE DEF window, D
<1>4. ASSUME NEW v \in Boundaries(m, u) PROVE IsBoundary(m, v) /\ LocalDay(m, v) \in window
  <2>1. \E day \in D, b \in m.schedule : v = BoundaryToEpoch(m, day, b.at, u)
    BY <1>3, <1>4
  <2>2. PICK day \in D, b \in m.schedule : v = BoundaryToEpoch(m, day, b.at, u)
    BY <2>1
  <2>3. day \in window /\ ~Weekend(day)
    BY <1>1b
  <2> QED BY <1>1, <2>2, <2>3
<1>5. ASSUME NEW v, IsBoundary(m, v), LocalDay(m, v) \in window PROVE v \in Boundaries(m, u)
  <2>1. \E day \in D, b \in m.schedule : v = BoundaryToEpoch(m, day, b.at, u)
    BY <1>2b, <1>5
  <2> QED BY <1>3, <2>1
<1> QED BY <1>4, <1>5 DEF window

(* A set of integers with one up to u has a greatest up to u. *)
LEMMA GreatestExists ==
  ASSUME NEW S \in SUBSET Int, NEW u \in Int, NEW p \in S, p <= u
  PROVE  \E x \in S : x <= u /\ \A y \in S : y <= u => y <= x
<1> DEFINE T == {n \in Nat : u - n \in S}
<1>1. T \in SUBSET Nat /\ u - p \in T
  <2>1. u - p \in Nat /\ u - (u - p) = p
    OBVIOUS
  <2> QED BY <2>1
<1>2. PICK n \in T : \A k \in T : n <= k
  <2> HIDE DEF T
  <2> QED BY <1>1, LeastExists
<1>3. u - n \in S /\ u - n <= u /\ n \in Nat
  BY <1>2
<1>4. ASSUME NEW y \in S, y <= u PROVE y <= u - n
  <2>1. u - y \in Nat /\ u - (u - y) = y
    BY <1>4
  <2>2. n <= u - y
    BY <1>2, <2>1
  <2> QED BY <1>3, <2>1, <2>2
<1> QED BY <1>3, <1>4

(* A set of integers with one beyond u has a least beyond u. *)
LEMMA SmallestExists ==
  ASSUME NEW S \in SUBSET Int, NEW u \in Int, NEW p \in S, p > u
  PROVE  \E x \in S : x > u /\ \A y \in S : y > u => x <= y
<1> DEFINE T == {n \in Nat : u + 1 + n \in S}
<1>1. T \in SUBSET Nat /\ p - u - 1 \in T
  <2>1. p - u - 1 \in Nat /\ u + 1 + (p - u - 1) = p
    OBVIOUS
  <2> QED BY <2>1
<1>2. PICK n \in T : \A k \in T : n <= k
  <2> HIDE DEF T
  <2> QED BY <1>1, LeastExists
<1>3. u + 1 + n \in S /\ u + 1 + n > u /\ n \in Nat
  BY <1>2
<1>4. ASSUME NEW y \in S, y > u PROVE u + 1 + n <= y
  <2>1. y - u - 1 \in Nat /\ u + 1 + (y - u - 1) = y
    BY <1>4
  <2>2. n <= y - u - 1
    BY <1>2, <2>1
  <2> QED BY <1>3, <2>1, <2>2
<1> QED BY <1>3, <1>4

(* The boundaries next to u. *)
LastBefore(m, u, p) ==
  /\ IsBoundary(m, p) /\ p <= u
  /\ \A v : IsBoundary(m, v) /\ v <= u => v <= p
FirstAfter(m, u, n) ==
  /\ IsBoundary(m, n) /\ n > u
  /\ \A v : IsBoundary(m, v) /\ v > u => n <= v

(* Each weekday within SearchDays has a boundary. *)
LEMMA NearBoundary ==
  ASSUME NEW m \in Markets, NEW u \in Int, NEW day \in Int, ~Weekend(day),
         day \in LocalDay(m, u) - SearchDays .. LocalDay(m, u) + SearchDays
  PROVE  \E e \in Boundaries(m, u) : IsBoundary(m, e) /\ LocalDay(m, e) = day
<1>1. PICK b : b \in m.schedule /\ b.at \in 0 .. Day - 1
  BY ScheduleIs
<1> DEFINE e == BoundaryToEpoch(m, day, b.at, u)
<1>2. e \in Int /\ Local(m, e) = day * Day + b.at
  BY <1>1, Located
<1> HIDE DEF e
<1>3. LocalDay(m, e) = day /\ Local(m, e) % Day = b.at
  BY <1>1, <1>2, TimeOfDay DEF LocalDay
<1>4. IsBoundary(m, e)
  BY <1>1, <1>2, <1>3 DEF IsBoundary
<1> QED BY <1>3, <1>4, BoundariesAre

(* A moment of a weekday and another are in the order of their days. *)
LEMMA InOrderOfDays ==
  ASSUME NEW m \in Markets, NEW v \in Int, ~Weekend(LocalDay(m, v)), NEW u \in Int
  PROVE  /\ v <= u => LocalDay(m, v) <= LocalDay(m, u)
         /\ v >= u => LocalDay(m, v) >= LocalDay(m, u)
         /\ LocalDay(m, v) < LocalDay(m, u) => v < u
         /\ LocalDay(m, v) > LocalDay(m, u) => v > u
<1>1. Local(m, v) \in Int /\ Local(m, u) \in Int /\ LocalDay(m, v) \in Int /\ LocalDay(m, u) \in Int
  BY LocalIs
<1>2. (v <= u <=> Local(m, v) <= Local(m, u)) /\ (u <= v <=> Local(m, u) <= Local(m, v))
  BY Order
<1>3. /\ Local(m, v) <= Local(m, u) => LocalDay(m, v) <= LocalDay(m, u)
      /\ Local(m, u) <= Local(m, v) => LocalDay(m, u) <= LocalDay(m, v)
  BY <1>1, DaysInOrder DEF LocalDay
<1> QED BY <1>1, <1>2, <1>3

(* getMarketSnapshot: the last boundary up to u and the first beyond, of all *)
(* there are and not only of those searched.                                 *)
LEMMA SnapshotIs ==
  ASSUME NEW m \in Markets, NEW u \in Int
  PROVE  /\ Snapshot(m, u).session = SessionAt(m, u)
         /\ LastBefore(m, u, Snapshot(m, u).sessionEpoch)
         /\ FirstAfter(m, u, Snapshot(m, u).nextTransitionAt)
<1> DEFINE S == Boundaries(m, u)
           L == LocalDay(m, u)
<1>1. L \in Int /\ S \in SUBSET Int
  BY BoundariesAre, LocalIs DEF IsBoundary
<1>2. \A v : v \in S <=> IsBoundary(m, v) /\ LocalDay(m, v) \in L - 8 .. L + 8
  BY BoundariesAre DEF SearchDays
<1>3. \A v : IsBoundary(m, v) => v \in Int /\ ~Weekend(LocalDay(m, v)) /\ LocalDay(m, v) \in Int
  BY LocalIs DEF IsBoundary
<1>4. PICK e \in S : IsBoundary(m, e) /\ LocalDay(m, e) \in L - 3 .. L - 1
  <2>1. PICK day \in L - 3 .. L - 1 : ~Weekend(day)
    BY <1>1, WeekdayNear
  <2>2. day \in Int /\ day \in L - SearchDays .. L + SearchDays
    BY <1>1, <2>1 DEF SearchDays
  <2> QED BY <2>1, <2>2, NearBoundary
<1>5. PICK f \in S : IsBoundary(m, f) /\ LocalDay(m, f) \in L + 1 .. L + 3
  <2>1. PICK day \in L + 1 .. L + 3 : ~Weekend(day)
    BY <1>1, WeekdayNear
  <2>2. day \in Int /\ day \in L - SearchDays .. L + SearchDays
    BY <1>1, <2>1 DEF SearchDays
  <2> QED BY <2>1, <2>2, NearBoundary
<1>6. e <= u /\ f > u
  BY <1>1, <1>3, <1>4, <1>5, InOrderOfDays
<1> HIDE DEF S, L
<1>7. PICK p \in S : p <= u /\ \A y \in S : y <= u => y <= p
  BY <1>1, <1>4, <1>6, GreatestExists
<1>8. PICK n \in S : n > u /\ \A y \in S : y > u => n <= y
  BY <1>1, <1>5, <1>6, SmallestExists
<1>9. Max({b \in S : b <= u}) = p
  <2>1. \A x \in {b \in S : b <= u} : (\A y \in {b \in S : b <= u} : x >= y) => x = p
    BY <1>1, <1>7
  <2>2. p \in {b \in S : b <= u} /\ \A y \in {b \in S : b <= u} : p >= y
    BY <1>1, <1>7
  <2> QED BY <2>1, <2>2, Zenon DEF Max
<1>10. Min({b \in S : b > u}) = n
  <2>1. \A x \in {b \in S : b > u} : (\A y \in {b \in S : b > u} : x <= y) => x = n
    BY <1>1, <1>8
  <2>2. n \in {b \in S : b > u} /\ \A y \in {b \in S : b > u} : n <= y
    BY <1>1, <1>8
  <2> QED BY <2>1, <2>2, Zenon DEF Min
<1>11. /\ Snapshot(m, u).session = SessionAt(m, u)
       /\ Snapshot(m, u).sessionEpoch = p /\ Snapshot(m, u).nextTransitionAt = n
  BY <1>9, <1>10 DEF Snapshot, S
<1>12. ASSUME NEW v, IsBoundary(m, v), v <= u PROVE v <= p
  <2>1. v \in Int /\ LocalDay(m, v) \in Int /\ LocalDay(m, v) <= L
    BY <1>3, <1>12, InOrderOfDays DEF L
  <2>2. CASE LocalDay(m, v) >= L - 8
    BY <1>1, <1>2, <1>7, <1>12, <2>1, <2>2
  <2>3. CASE LocalDay(m, v) < L - 8
    <3>1. e \in Int /\ LocalDay(m, v) < LocalDay(m, e)
      BY <1>1, <1>4, <2>1, <2>3
    <3>2. v < e
      BY <1>3, <1>12, <2>1, <3>1, InOrderOfDays
    <3> QED BY <1>1, <1>4, <1>6, <1>7, <2>1, <3>1, <3>2
  <2> QED BY <1>1, <2>1, <2>2, <2>3
<1>13. ASSUME NEW v, IsBoundary(m, v), v > u PROVE n <= v
  <2>1. v \in Int /\ LocalDay(m, v) \in Int /\ LocalDay(m, v) >= L
    BY <1>3, <1>13, InOrderOfDays DEF L
  <2>2. CASE LocalDay(m, v) <= L + 8
    BY <1>1, <1>2, <1>8, <1>13, <2>1, <2>2
  <2>3. CASE LocalDay(m, v) > L + 8
    <3>1. f \in Int /\ LocalDay(m, v) > LocalDay(m, f)
      BY <1>1, <1>5, <2>1, <2>3
    <3>2. v > f
      BY <1>3, <1>13, <2>1, <3>1, InOrderOfDays
    <3> QED BY <1>1, <1>5, <1>6, <1>8, <2>1, <3>1, <3>2
  <2> QED BY <1>1, <2>1, <2>2, <2>3
<1>14. IsBoundary(m, p) /\ IsBoundary(m, n)
  BY <1>2, <1>7, <1>8
<1> QED BY <1>7, <1>8, <1>11, <1>12, <1>13, <1>14 DEF LastBefore, FirstAfter

-----------------------------------------------------------------------------
(* Sessions last from boundary to boundary.                                 *)

(* The session of the greatest of the boundaries passed. *)
LEMMA LatestIs ==
  ASSUME NEW S, NEW b \in S, \A c \in S : c.at \in Int, \A c \in S : c.at <= b.at,
         \A c, d \in S : c.at = d.at => c = d
  PROVE  SessionAfter(S) = b.session
<1>1. \A x \in S : (\A c \in S : c.at <= x.at) => x = b
  <2> SUFFICES ASSUME NEW x \in S, \A c \in S : c.at <= x.at PROVE x = b
    OBVIOUS
  <2>1. x.at <= b.at /\ b.at <= x.at /\ x.at \in Int /\ b.at \in Int
    OBVIOUS
  <2>2. x.at = b.at
    BY <2>1
  <2> QED BY <2>2
<1>2. (CHOOSE x \in S : \A c \in S : c.at <= x.at) = b
  BY <1>1, Zenon
<1> QED BY <1>2, Zenon DEF SessionAfter

(* sessionAt, by the day. *)
LEMMA SessionIs ==
  ASSUME NEW m \in Markets, NEW u \in Int
  PROVE  /\ Weekend(LocalDay(m, u)) => SessionAt(m, u) = "CLOSED"
         /\ ~Weekend(LocalDay(m, u)) =>
              SessionAt(m, u) = SessionAfter({b \in m.schedule : b.at <= Local(m, u) % Day})
BY DEF SessionAt

(* Local time goes on as time does, except at the change of the clocks. *)
LocalSteps(m, n) ==
  /\ n # m.zone.shift \/ m.zone.before = m.zone.after => Local(m, n - 1) = Local(m, n) - 1
  /\ n = m.zone.shift =>
       Local(m, n - 1) = m.zone.shift + m.zone.before - 1 /\ Local(m, n) = m.zone.shift + m.zone.after

LEMMA LocalStep ==
  ASSUME NEW m \in Markets, NEW n \in Int
  PROVE  LocalSteps(m, n)
<1> DEFINE k == m.zone.shift
           before == m.zone.before
           after == m.zone.after
           j == n - 1
<1>1. k \in Int /\ before \in Int /\ after \in Int /\ j \in Int
  BY Offsets
<1>2. /\ n < k => Local(m, n) = n + before
      /\ n >= k => Local(m, n) = n + after
      /\ j < k => Local(m, j) = j + before
      /\ j >= k => Local(m, j) = j + after
  <2> HIDE DEF j
  <2> QED BY <1>1, LocalIs
<1> HIDE DEF k, before, after
<1>3. /\ n # k \/ before = after => Local(m, j) = Local(m, n) - 1
      /\ n = k => Local(m, j) = k + before - 1 /\ Local(m, n) = k + after
  BY <1>1, <1>2
<1> QED BY <1>3 DEF LocalSteps, k, before, after

(* A weekday's times are one after the other. *)
LEMMA LocalBefore ==
  ASSUME NEW m \in Markets, NEW n \in Int, ~Weekend(LocalDay(m, n))
  PROVE  Local(m, n - 1) = Local(m, n) - 1
<1>0. LocalSteps(m, n)
  BY LocalStep
<1>1. CASE m.zone.before = m.zone.after
  BY <1>0, <1>1 DEF LocalSteps
<1>2. CASE m.zone.before # m.zone.after
  <2>1. Local(m, n) \in Int /\ ~Weekend(Local(m, n) \div Day)
    BY LocalIs DEF LocalDay
  <2>2. Local(m, n) # m.zone.shift + m.zone.after
    BY <1>2, <2>1, Unambiguous, Offsets
  <2>3. n # m.zone.shift
    BY <1>0, <2>2 DEF LocalSteps
  <2> QED BY <1>0, <2>3 DEF LocalSteps
<1> QED BY <1>1, <1>2

(* The session goes on, where there is no boundary: within a day, over       *)
(* midnight, over a weekend and over the change of the clocks.               *)
LEMMA NextMinute ==
  ASSUME NEW m \in Markets, NEW u \in Int, ~IsBoundary(m, u + 1)
  PROVE  SessionAt(m, u + 1) = SessionAt(m, u)
<1> DEFINE t == Local(m, u)
<1>0. t \in Int /\ t % Day \in 0 .. Day - 1 /\ u + 1 \in Int
  BY LocalIs, DayAndTime
<1>1. CASE Local(m, u + 1) = t + 1
  <2>1. CASE t % Day # Day - 1
    <3>1. LocalDay(m, u + 1) = LocalDay(m, u) /\ Local(m, u + 1) % Day = (t % Day) + 1
      BY <1>0, <1>1, <2>1, MinutesOfDay DEF LocalDay
    <3>2. CASE Weekend(LocalDay(m, u))
      BY <1>0, <3>1, <3>2, SessionIs
    <3>3. CASE ~Weekend(LocalDay(m, u))
      <4>1. \A b \in m.schedule : b.at # (t % Day) + 1
        BY <1>0, <3>1, <3>3 DEF IsBoundary
      <4>2. \A b \in m.schedule : b.at <= (t % Day) + 1 <=> b.at <= t % Day
        BY <1>0, <4>1, ScheduleIs
      <4>3. {b \in m.schedule : b.at <= Local(m, u + 1) % Day} = {b \in m.schedule : b.at <= t % Day}
        BY <3>1, <4>2
      <4> QED BY <1>0, <3>1, <3>3, <4>3, SessionIs
    <3> QED BY <3>2, <3>3
  <2>2. CASE t % Day = Day - 1
    <3>1. SessionAt(m, u) = "CLOSED"
      <4>1. CASE Weekend(LocalDay(m, u))
        BY <4>1, SessionIs
      <4>2. CASE ~Weekend(LocalDay(m, u))
        <5>1. \A b \in m.schedule : b.at <= t % Day
          BY <1>0, <2>2, ScheduleIs
        <5>2. {b \in m.schedule : b.at <= t % Day} = m.schedule
          BY <5>1
        <5> QED BY <4>2, <5>2, SessionIs, ScheduleIs
      <4> QED BY <4>1, <4>2
    <3>2. SessionAt(m, u + 1) = "CLOSED"
      <4>1. CASE Weekend(LocalDay(m, u + 1))
        BY <1>0, <4>1, SessionIs
      <4>2. CASE ~Weekend(LocalDay(m, u + 1))
        <5>1. Local(m, u + 1) % Day = 0
          BY <1>0, <1>1, <2>2, MinutesOfDay
        <5>2. \A b \in m.schedule : ~(b.at <= 0)
          BY <1>0, <4>2, <5>1, ScheduleIs DEF IsBoundary
        <5>3. {b \in m.schedule : b.at <= Local(m, u + 1) % Day} = {}
          BY <5>1, <5>2
        <5> QED BY <1>0, <4>2, <5>3, SessionIs DEF SessionAfter
      <4> QED BY <4>1, <4>2
    <3> QED BY <3>1, <3>2
  <2> QED BY <2>1, <2>2
<1>2. CASE Local(m, u + 1) # t + 1
  <2>0. LocalSteps(m, u + 1) /\ (u + 1) - 1 = u /\ Local(m, u + 1) \in Int
    BY <1>0, LocalIs, LocalStep
  <2>1. u + 1 = m.zone.shift /\ m.zone.before # m.zone.after
    BY <1>0, <1>2, <2>0 DEF LocalSteps
  <2>2. t = m.zone.shift + m.zone.before - 1 /\ Local(m, u + 1) = m.zone.shift + m.zone.after
    BY <1>0, <2>0, <2>1 DEF LocalSteps
  <2>3. Local(m, u + 1) \in Int
    BY <1>0, LocalIs
  <2>4. Weekend(LocalDay(m, u))
    <3>1. SUFFICES ASSUME ~Weekend(t \div Day) PROVE FALSE
      BY DEF LocalDay
    <3> QED BY <1>0, <2>1, <2>2, <3>1, Unambiguous, Offsets
  <2>5. Weekend(LocalDay(m, u + 1))
    <3>1. SUFFICES ASSUME ~Weekend(Local(m, u + 1) \div Day) PROVE FALSE
      BY DEF LocalDay
    <3> QED BY <1>0, <2>1, <2>2, <2>3, <3>1, Unambiguous, Offsets
  <2> QED BY <1>0, <2>4, <2>5, SessionIs
<1> QED BY <1>1, <1>2

(* The session changes with every boundary. *)
LEMMA ChangesAt ==
  ASSUME NEW m \in Markets, NEW n, IsBoundary(m, n)
  PROVE  SessionAt(m, n) # SessionAt(m, n - 1)
<1> DEFINE t == Local(m, n)
<1>0. /\ n \in Int /\ n - 1 \in Int /\ ~Weekend(LocalDay(m, n))
      /\ t \in Int /\ t % Day \in 0 .. Day - 1 /\ Local(m, n - 1) = t - 1
  BY LocalIs, LocalBefore, DayAndTime DEF IsBoundary
<1>1. PICK b \in m.schedule : b.at = t % Day
  BY DEF IsBoundary
<1>2. SessionAt(m, n) = b.session
  <2> DEFINE S == {c \in m.schedule : c.at <= t % Day}
  <2>1. /\ b \in S /\ \A c \in S : c.at \in Int /\ c.at <= b.at
        /\ \A c, d \in S : c.at = d.at => c = d
    BY <1>0, <1>1, ScheduleIs
  <2> HIDE DEF S
  <2>2. SessionAfter(S) = b.session
    BY <2>1, LatestIs
  <2> QED BY <1>0, <2>2, SessionIs DEF S
<1>3. b.session # SessionAfter({c \in m.schedule : c.at < b.at})
  BY ScheduleIs
<1>4. CASE t % Day # 0
  <2>1. LocalDay(m, n - 1) = LocalDay(m, n) /\ Local(m, n - 1) % Day = (t % Day) - 1
    BY <1>0, <1>4, MinutesOfDay DEF LocalDay
  <2>2. \A c \in m.schedule : c.at <= (t % Day) - 1 <=> c.at < b.at
    BY <1>0, <1>1, ScheduleIs
  <2>3. {c \in m.schedule : c.at <= Local(m, n - 1) % Day} = {c \in m.schedule : c.at < b.at}
    BY <2>1, <2>2
  <2> QED BY <1>0, <1>2, <1>3, <2>1, <2>3, SessionIs
<1>5. CASE t % Day = 0
  <2>1. {c \in m.schedule : c.at < b.at} = {}
    BY <1>1, <1>5, ScheduleIs
  <2>2. b.session # "CLOSED"
    BY <1>3, <2>1 DEF SessionAfter
  <2>3. SessionAt(m, n - 1) = "CLOSED"
    <3>1. CASE Weekend(LocalDay(m, n - 1))
      BY <1>0, <3>1, SessionIs
    <3>2. CASE ~Weekend(LocalDay(m, n - 1))
      <4>1. Local(m, n - 1) % Day = Day - 1
        BY <1>0, <1>5, MinutesOfDay
      <4>2. \A c \in m.schedule : c.at <= Day - 1
        BY ScheduleIs DEF Day, Hour
      <4>3. {c \in m.schedule : c.at <= Local(m, n - 1) % Day} = m.schedule
        BY <4>1, <4>2
      <4> QED BY <1>0, <3>2, <4>3, SessionIs, ScheduleIs
    <3> QED BY <3>1, <3>2
  <2> QED BY <1>2, <2>2, <2>3
<1> QED BY <1>4, <1>5

(* The session goes on as long as there is no boundary: else there were a    *)
(* first time of another session.                                            *)
LEMMA SameUntilBoundary ==
  ASSUME NEW m \in Markets, NEW v \in Int, NEW w \in Int, v <= w,
         \A u \in v + 1 .. w : ~IsBoundary(m, u)
  PROVE  SessionAt(m, w) = SessionAt(m, v)
<1> DEFINE T == {k \in Nat : v + k <= w /\ SessionAt(m, v + k) # SessionAt(m, v)}
<1>1. SUFFICES ASSUME SessionAt(m, w) # SessionAt(m, v) PROVE FALSE
  OBVIOUS
<1>1b. T # {}
  <2>1. w - v \in Nat /\ v + (w - v) = w
    OBVIOUS
  <2>2. w - v \in T
    BY <1>1, <2>1
  <2> QED BY <2>2
<1>2. PICK k \in T : \A j \in T : k <= j
  <2> T \in SUBSET Nat
    OBVIOUS
  <2> HIDE DEF T
  <2> QED BY <1>1b, LeastExists
<1>3. k \in Nat /\ v + k <= w /\ SessionAt(m, v + k) # SessionAt(m, v)
  BY <1>2
<1>4. k # 0
  <2>1. v + 0 = v
    OBVIOUS
  <2> QED BY <1>3, <2>1
<1>5. k - 1 \in Nat /\ k - 1 \notin T
  <2>1. k - 1 \in Nat /\ ~(k <= k - 1)
    BY <1>3, <1>4
  <2> QED BY <1>2, <2>1
<1>6. SessionAt(m, v + (k - 1)) = SessionAt(m, v)
  BY <1>3, <1>5
<1>7. v + (k - 1) \in Int /\ (v + (k - 1)) + 1 = v + k /\ v + k \in v + 1 .. w
  BY <1>3, <1>4
<1>8. SessionAt(m, v + k) = SessionAt(m, v + (k - 1))
  <2>1. ~IsBoundary(m, (v + (k - 1)) + 1)
    BY <1>7
  <2> HIDE DEF T
  <2> QED BY <1>7, <2>1, NextMinute
<1> QED BY <1>3, <1>6, <1>8

(* SessionsLast, of any snapshot. *)
Lasts(m, s) ==
  /\ s.sessionEpoch \in Int /\ s.nextTransitionAt \in Int
  /\ s.sessionEpoch < s.nextTransitionAt
  /\ \A u \in s.sessionEpoch .. s.nextTransitionAt - 1 : SessionAt(m, u) = s.session
  /\ SessionAt(m, s.sessionEpoch - 1) # s.session
  /\ SessionAt(m, s.nextTransitionAt) # s.session

(* Every snapshot keeps its word. *)
LEMMA SnapshotLasts ==
  ASSUME NEW m \in Markets, NEW u \in Int
  PROVE  Lasts(m, Snapshot(m, u))
<1> DEFINE s == Snapshot(m, u)
           p == s.sessionEpoch
           n == s.nextTransitionAt
<1>1. s.session = SessionAt(m, u) /\ LastBefore(m, u, p) /\ FirstAfter(m, u, n)
  BY SnapshotIs
<1> HIDE DEF s
<1>2. /\ p \in Int /\ n \in Int /\ p <= u /\ u < n
      /\ \A v \in Int : p < v /\ v < n => ~IsBoundary(m, v)
  <2>1. p \in Int /\ n \in Int /\ p <= u /\ u < n
    BY <1>1 DEF LastBefore, FirstAfter, IsBoundary
  <2> SUFFICES ASSUME NEW v \in Int, p < v, v < n, IsBoundary(m, v) PROVE FALSE
    BY <2>1
  <2>2. (v <= u => v <= p) /\ (v > u => n <= v)
    BY <1>1 DEF LastBefore, FirstAfter
  <2> QED BY <2>1, <2>2
<1>3. \A v \in p .. n - 1 : SessionAt(m, v) = s.session
  <2> SUFFICES ASSUME NEW v \in p .. n - 1 PROVE SessionAt(m, v) = SessionAt(m, u)
    BY <1>1
  <2>0. v \in Int
    BY <1>2
  <2>1. CASE v <= u
    <3>1. \A x \in v + 1 .. u : ~IsBoundary(m, x)
      BY <1>2, <2>1
    <3> QED BY <2>0, <2>1, <3>1, SameUntilBoundary
  <2>2. CASE u < v
    <3>1. \A x \in u + 1 .. v : ~IsBoundary(m, x)
      BY <1>2, <2>2
    <3> QED BY <2>0, <2>2, <3>1, SameUntilBoundary
  <2> QED BY <1>2, <2>0, <2>1, <2>2
<1>4. SessionAt(m, p - 1) # s.session
  <2>1. SessionAt(m, p) = s.session
    BY <1>2, <1>3
  <2>2. IsBoundary(m, p)
    BY <1>1 DEF LastBefore
  <2> QED BY <2>1, <2>2, ChangesAt
<1>5. SessionAt(m, n) # s.session
  <2>1. SessionAt(m, n - 1) = s.session
    BY <1>2, <1>3
  <2>2. IsBoundary(m, n)
    BY <1>1 DEF FirstAfter
  <2> QED BY <2>1, <2>2, ChangesAt
<1>6. p < n
  BY <1>2
<1> QED BY <1>2, <1>3, <1>4, <1>5, <1>6 DEF Lasts, s

(* Between two boundaries the snapshot stays the same. *)
LEMMA SnapshotStays ==
  ASSUME NEW m \in Markets, NEW u \in Int, NEW v \in Int, u <= v,
         v < Snapshot(m, u).nextTransitionAt
  PROVE  Snapshot(m, v) = Snapshot(m, u)
<1> DEFINE s == Snapshot(m, u)
           z == Snapshot(m, v)
<1>1. /\ s.session = SessionAt(m, u)
      /\ LastBefore(m, u, s.sessionEpoch) /\ FirstAfter(m, u, s.nextTransitionAt)
  BY SnapshotIs
<1>2. /\ z.session = SessionAt(m, v)
      /\ LastBefore(m, v, z.sessionEpoch) /\ FirstAfter(m, v, z.nextTransitionAt)
  BY SnapshotIs
<1>3. v < s.nextTransitionAt
  OBVIOUS
<1>4. /\ s = [session |-> s.session, sessionEpoch |-> s.sessionEpoch, nextTransitionAt |-> s.nextTransitionAt]
      /\ z = [session |-> z.session, sessionEpoch |-> z.sessionEpoch, nextTransitionAt |-> z.nextTransitionAt]
  BY DEF Snapshot
<1> HIDE DEF s, z
<1>5. \A b : IsBoundary(m, b) => b \in Int
  BY DEF IsBoundary
<1>6. /\ s.sessionEpoch \in Int /\ s.nextTransitionAt \in Int
      /\ z.sessionEpoch \in Int /\ z.nextTransitionAt \in Int
  BY <1>1, <1>2, <1>5 DEF LastBefore, FirstAfter
<1>7. \A b : IsBoundary(m, b) => (b <= u <=> b <= v) /\ (b > u <=> b > v)
  BY <1>1, <1>3, <1>5, <1>6 DEF FirstAfter
<1>8. s.sessionEpoch = z.sessionEpoch
  <2>1. s.sessionEpoch <= z.sessionEpoch /\ z.sessionEpoch <= s.sessionEpoch
    BY <1>1, <1>2, <1>7, Zenon DEF LastBefore
  <2> QED BY <1>6, <2>1
<1>9. s.nextTransitionAt = z.nextTransitionAt
  <2>1. s.nextTransitionAt <= z.nextTransitionAt /\ z.nextTransitionAt <= s.nextTransitionAt
    BY <1>1, <1>2, <1>7, Zenon DEF FirstAfter
  <2> QED BY <1>6, <2>1
<1>10. s.session = z.session
  <2>1. \A b \in u + 1 .. v : ~IsBoundary(m, b)
    BY <1>7
  <2>2. SessionAt(m, v) = SessionAt(m, u)
    BY <2>1, SameUntilBoundary
  <2> QED BY <1>1, <1>2, <2>2
<1> QED BY <1>4, <1>8, <1>9, <1>10 DEF s, z

-----------------------------------------------------------------------------
(* The clock.  Its definitions read the same in this module.                *)

LEMMA ClockTimes ==
  /\ Clock!Hour = Hour /\ Clock!Day = Day /\ Clock!SearchDays = SearchDays /\ Clock!Times = Times
BY DEF Clock!Hour, Hour, Clock!Day, Day, Clock!SearchDays, SearchDays, Clock!Times, Times

LEMMA ClockDays ==
  ASSUME NEW m, NEW u
  PROVE  /\ Clock!Local(m, u) = Local(m, u) /\ Clock!LocalDay(m, u) = LocalDay(m, u)
         /\ Clock!Weekend(u) = Weekend(u)
BY ClockTimes DEF Clock!Local, Local, Clock!LocalDay, LocalDay, Clock!Weekend, Weekend

LEMMA ClockSessionAfter ==
  ASSUME NEW S
  PROVE  Clock!SessionAfter(S) = SessionAfter(S)
BY Zenon DEF Clock!SessionAfter, SessionAfter

LEMMA ClockLeast ==
  ASSUME NEW S
  PROVE  Clock!Min(S) = Min(S) /\ Clock!Max(S) = Max(S)
BY Zenon DEF Clock!Min, Min, Clock!Max, Max

LEMMA ClockSessionAt ==
  ASSUME NEW m, NEW u
  PROVE  Clock!SessionAt(m, u) = SessionAt(m, u)
<1>1. {b \in m.schedule : b.at <= Clock!Local(m, u) % Clock!Day} = {b \in m.schedule : b.at <= Local(m, u) % Day}
  BY ClockDays, ClockTimes, Zenon
<1> QED BY <1>1, ClockDays, ClockSessionAfter, Zenon DEF Clock!SessionAt, SessionAt

LEMMA ClockBoundary ==
  ASSUME NEW m, NEW u, NEW day, NEW at
  PROVE  Clock!BoundaryToEpoch(m, day, at, u) = BoundaryToEpoch(m, day, at, u)
BY ClockDays, ClockTimes, Zenon DEF Clock!BoundaryToEpoch, BoundaryToEpoch

LEMMA ClockBoundaries ==
  ASSUME NEW m, NEW u
  PROVE  Clock!Boundaries(m, u) = Boundaries(m, u)
<1> DEFINE CD == {d \in Clock!LocalDay(m, u) - Clock!SearchDays .. Clock!LocalDay(m, u) + Clock!SearchDays : ~Clock!Weekend(d)}
           D == {d \in LocalDay(m, u) - SearchDays .. LocalDay(m, u) + SearchDays : ~Weekend(d)}
<1>1. CD = D
  BY ClockDays, ClockTimes, Zenon
<1>2. Clock!Boundaries(m, u) = {Clock!BoundaryToEpoch(m, day, b.at, u) : day \in CD, b \in m.schedule}
  BY DEF Clock!Boundaries
<1>3. Boundaries(m, u) = {BoundaryToEpoch(m, day, b.at, u) : day \in D, b \in m.schedule}
  BY DEF Boundaries
<1> HIDE DEF CD, D
<1> QED BY <1>1, <1>2, <1>3, ClockBoundary

LEMMA ClockSnapshot ==
  ASSUME NEW m, NEW u
  PROVE  Clock!Snapshot(m, u) = Snapshot(m, u)
BY ClockSessionAt, ClockBoundaries, ClockLeast, Zenon DEF Clock!Snapshot, Snapshot

LEMMA ClockPresent == Clock!Present = Present
<1>1. Clock!SnapshotAt = SnapshotAt
  BY ClockSnapshot, ClockTimes DEF Clock!SnapshotAt, SnapshotAt
<1> QED BY <1>1 DEF Clock!Present, Present


(* current was computed, at whatever time. *)
Computed == \E u \in Times : current = Snapshot(market, u)

(* The transition timer will be due no later than the session ends, or is    *)
(* due already.                                                             *)
Synced ==
  \/ transitionTimer = 0
  \/ current = Present /\ transitionTimer <= current.nextTransitionAt - now

(* Or else, after a jump, the resync timer will be due before the clock has  *)
(* been awake for Resync.                                                   *)
Punctual == running => Synced \/ resyncTimer <= Resync - awake

(* The inductive invariant. *)
ClockInv ==
  /\ market \in Markets /\ now \in Times /\ running \in BOOLEAN
  /\ resyncTimer \in 0 .. Resync /\ transitionTimer \in Nat /\ awake \in 0 .. Resync
  /\ Computed /\ Punctual

(* The snapshot of the present ends later than now. *)
LEMMA PresentIs ==
  ASSUME market \in Markets, now \in Times
  PROVE  /\ Present = Snapshot(market, now)
         /\ Present.nextTransitionAt \in Int /\ now < Present.nextTransitionAt
<1>1. now \in Int
  BY DEF Times
<1>2. Present = Snapshot(market, now)
  BY DEF Present, SnapshotAt
<1>3. FirstAfter(market, now, Present.nextTransitionAt)
  BY <1>1, <1>2, SnapshotIs
<1> QED BY <1>2, <1>3 DEF FirstAfter, IsBoundary

(* evaluate: whether told or kept, current is the snapshot of the present. *)
LEMMA ClockEvaluated ==
  Clock!Evaluated = Present
BY ClockPresent, Zenon DEF Clock!Evaluated, Clock!SameSnapshot

(* What is left of a timer. *)
LEMMA Remains ==
  ASSUME NEW t \in Nat, NEW passed \in Nat
  PROVE  /\ Clock!Left(t, passed) = IF t >= passed THEN t - passed ELSE 0
         /\ Clock!Left(t, passed) \in Nat /\ Clock!Left(t, passed) <= t
<1>1. Clock!Left(t, passed) = Max({0, t - passed})
  BY ClockLeast DEF Clock!Left
<1>2. Max({0, t - passed}) = IF 0 >= t - passed THEN 0 ELSE t - passed
  <2>1. 0 \in Int /\ t - passed \in Int
    OBVIOUS
  <2> QED BY <2>1, LeastAndGreatest
<1> QED BY <1>1, <1>2

(* armTimers: the transition timer ends with the session. *)
LEMMA TimersArmed ==
  ASSUME market \in Markets, now \in Times, Clock!ArmTimers(Present)
  PROVE  /\ resyncTimer' = Resync /\ transitionTimer' \in Nat
         /\ transitionTimer' = Present.nextTransitionAt - now
<1>1. Present.nextTransitionAt \in Int /\ now < Present.nextTransitionAt /\ now \in Int
  BY PresentIs DEF Times
<1>2. resyncTimer' = Resync /\ transitionTimer' = Max({0, Present.nextTransitionAt - now})
  BY ClockLeast, Zenon DEF Clock!ArmTimers
<1>3. Max({0, Present.nextTransitionAt - now}) =
        IF 0 >= Present.nextTransitionAt - now THEN 0 ELSE Present.nextTransitionAt - now
  <2>1. 0 \in Int /\ Present.nextTransitionAt - now \in Int
    BY <1>1
  <2> QED BY <2>1, LeastAndGreatest
<1> QED BY <1>1, <1>2, <1>3

(* The first states. *)
LEMMA ClockInit ==
  ASSUME Clock!Init
  PROVE  ClockInv
<1>1. /\ market \in Markets /\ now \in Times /\ current = Present
      /\ running = FALSE /\ resyncTimer = 0 /\ transitionTimer = 0 /\ awake = Resync
  BY ClockPresent, JumpsAssumption, Zenon DEF Clock!Init, Clock!Present
<1>2. Computed
  BY <1>1, PresentIs DEF Computed
<1>3. resyncTimer \in 0 .. Resync /\ transitionTimer \in Nat /\ awake \in 0 .. Resync
  BY <1>1, ResyncAssumption
<1>4. running \in BOOLEAN /\ Punctual
  BY <1>1, Zenon DEF Punctual
<1> QED BY <1>1, <1>2, <1>3, <1>4, Zenon DEF ClockInv

(* Start and OnTimer alike. *)
LEMMA EvaluateAndArm ==
  ASSUME ClockInv, current' = Present, Clock!ArmTimers(Present), running' \in BOOLEAN,
         UNCHANGED <<market, now, awake>>
  PROVE  ClockInv'
<1>1. /\ market' = market /\ market \in Markets /\ now' = now /\ now \in Times
      /\ awake' = awake /\ awake \in 0 .. Resync
  BY DEF ClockInv
<1>2. /\ resyncTimer' = Resync /\ transitionTimer' \in Nat
      /\ transitionTimer' = Present.nextTransitionAt - now /\ Present.nextTransitionAt - now \in Int
  <2>1. now \in Int
    BY <1>1 DEF Times
  <2> QED BY <1>1, <2>1, TimersArmed, PresentIs
<1>3. Present' = Present
  BY <1>1 DEF Present
<1>4. Computed'
  BY <1>1, PresentIs DEF Computed
<1>5. Synced'
  BY <1>1, <1>2, <1>3 DEF Synced
<1> QED BY <1>1, <1>2, <1>4, <1>5, ResyncAssumption DEF ClockInv, Punctual

(* Every step of the clock keeps its invariant. *)
LEMMA ClockStep ==
  ASSUME ClockInv, [Clock!Next]_Clock!vars
  PROVE  ClockInv'
<1>0. /\ market \in Markets /\ now \in Times /\ now \in Int /\ running \in BOOLEAN
      /\ resyncTimer \in 0 .. Resync /\ transitionTimer \in Nat /\ awake \in 0 .. Resync
      /\ Computed /\ Punctual /\ Resync \in Nat
  BY ResyncAssumption DEF ClockInv, Times
<1>1. CASE Clock!Ask
  <2>1. /\ current' = Present
        /\ UNCHANGED <<market, now, running, resyncTimer, transitionTimer, awake>>
    BY <1>1, ClockEvaluated, Zenon DEF Clock!Ask
  <2>2. Present' = Present
    BY <2>1 DEF Present
  <2>3. Computed'
    BY <1>0, <2>1, PresentIs DEF Computed
  <2>4. Synced => Synced'
    BY <2>1, <2>2 DEF Synced
  <2>5. Punctual'
    BY <1>0, <2>1, <2>4 DEF Punctual
  <2> QED BY <1>0, <2>1, <2>3, <2>5 DEF ClockInv
<1>2. CASE Clock!Start
  <2>1. /\ running' = TRUE /\ current' = Present /\ Clock!ArmTimers(Present)
        /\ UNCHANGED <<market, now, awake>>
    BY <1>2, ClockEvaluated, Zenon DEF Clock!Start
  <2> QED BY <2>1, EvaluateAndArm
<1>3. CASE Clock!Stop
  <2>1. /\ running' = FALSE /\ resyncTimer' = 0 /\ transitionTimer' = 0
        /\ UNCHANGED <<market, now, current, awake>>
    BY <1>3, Zenon DEF Clock!Stop
  <2>2. Computed'
    BY <1>0, <2>1 DEF Computed
  <2>3. resyncTimer' \in 0 .. Resync /\ transitionTimer' \in Nat
    BY <1>0, <2>1
  <2>4. running' \in BOOLEAN /\ Punctual'
    BY <2>1, Zenon DEF Punctual
  <2>5. market' \in Markets /\ now' \in Times /\ awake' \in 0 .. Resync
    BY <1>0, <2>1
  <2> QED BY <2>2, <2>3, <2>4, <2>5, Zenon DEF ClockInv
<1>4. CASE Clock!OnTimer
  <2>1. /\ current' = Present /\ Clock!ArmTimers(Present)
        /\ UNCHANGED <<market, now, running, awake>>
    BY <1>4, ClockEvaluated, Zenon DEF Clock!OnTimer
  <2> QED BY <1>0, <2>1, EvaluateAndArm
<1>5. CASE Clock!Tick
  <2>1. /\ ~Due /\ now < LastTime /\ now' = now + 1
        /\ resyncTimer' = Clock!Left(resyncTimer, 1)
        /\ transitionTimer' = Clock!Left(transitionTimer, 1)
        /\ awake' = Min({Resync, awake + 1})
        /\ UNCHANGED <<market, running, current>>
    BY <1>5, ClockLeast, Zenon DEF Clock!Tick, Clock!Due, Due
  <2>2. now' \in Times
    BY <1>0, <2>1, JumpsAssumption DEF Times
  <2>3. /\ resyncTimer' \in 0 .. Resync /\ transitionTimer' \in Nat
        /\ (resyncTimer # 0 => resyncTimer' = resyncTimer - 1)
        /\ (transitionTimer # 0 => transitionTimer' = transitionTimer - 1)
    <3>1. resyncTimer \in Nat /\ transitionTimer \in Nat /\ 1 \in Nat
      BY <1>0
    <3>2. /\ Clock!Left(resyncTimer, 1) = IF resyncTimer >= 1 THEN resyncTimer - 1 ELSE 0
          /\ Clock!Left(transitionTimer, 1) = IF transitionTimer >= 1 THEN transitionTimer - 1 ELSE 0
      BY <3>1, Remains
    <3> QED BY <1>0, <2>1, <3>1, <3>2
  <2>4. awake' \in 0 .. Resync /\ awake' <= awake + 1
    <3>1. awake' = IF Resync <= awake + 1 THEN Resync ELSE awake + 1
      BY <1>0, <2>1, LeastAndGreatest
    <3> QED BY <1>0, <3>1
  <2>5. Computed'
    BY <1>0, <2>1 DEF Computed
  <2>6. ASSUME running PROVE Synced' \/ resyncTimer' <= Resync - awake'
    <3>1. resyncTimer # 0 /\ transitionTimer # 0
      BY <2>1, <2>6 DEF Due
    <3>2. CASE resyncTimer <= Resync - awake
      <4>1. resyncTimer' = resyncTimer - 1
        BY <2>3, <3>1
      <4>2. awake \in Int /\ awake' \in Int /\ resyncTimer \in Int /\ Resync \in Int
        BY <1>0, <2>4
      <4> DEFINE left == resyncTimer'
                 wake == awake'
      <4>3. /\ left \in Int /\ wake \in Int /\ wake <= awake + 1
            /\ left = resyncTimer - 1 /\ resyncTimer <= Resync - awake
        BY <2>3, <2>4, <3>2, <4>1, <4>2
      <4> HIDE DEF left, wake
      <4>4. left <= Resync - wake
        BY <4>2, <4>3
      <4> QED BY <4>4 DEF left, wake
    <3>3. CASE Synced
      <4>1. current = Present /\ transitionTimer <= current.nextTransitionAt - now
        BY <3>1, <3>3 DEF Synced
      <4>2. /\ Present = Snapshot(market, now) /\ Present.nextTransitionAt \in Int
        BY <1>0, PresentIs
      <4>3. transitionTimer' <= current'.nextTransitionAt - now'
        BY <1>0, <2>1, <2>3, <3>1, <4>1, <4>2
      <4>4. CASE transitionTimer' = 0
        BY <4>4 DEF Synced
      <4>5. CASE transitionTimer' # 0
        <5>1. now' < current.nextTransitionAt /\ now' \in Int /\ now <= now'
          BY <1>0, <2>1, <2>3, <4>1, <4>2, <4>3, <4>5
        <5>2. Snapshot(market, now') = Snapshot(market, now)
          BY <1>0, <4>1, <4>2, <5>1, SnapshotStays
        <5>3. Present' = Snapshot(market', now')
          BY <1>0, <2>1, <2>2 DEF Present, SnapshotAt
        <5>4. Present' = current'
          BY <2>1, <4>1, <4>2, <5>2, <5>3
        <5> QED BY <4>3, <5>4 DEF Synced
      <4> QED BY <4>4, <4>5
    <3> QED BY <1>0, <2>6, <3>2, <3>3 DEF Punctual
  <2>7. Punctual'
    BY <2>1, <2>6 DEF Punctual
  <2> QED BY <1>0, <2>1, <2>2, <2>3, <2>4, <2>5, <2>7 DEF ClockInv
<1>6. CASE Clock!Jump
  <2>1. PICK to \in Jumps, counted \in BOOLEAN :
          LET passed == IF counted /\ to > now THEN to - now ELSE 0 IN
          /\ now' = to
          /\ resyncTimer' = Clock!Left(resyncTimer, passed)
          /\ transitionTimer' = Clock!Left(transitionTimer, passed)
    BY <1>6 DEF Clock!Jump
  <2>2. awake' = 0 /\ UNCHANGED <<market, running, current>>
    BY <1>6 DEF Clock!Jump
  <2> DEFINE passed == IF counted /\ to > now THEN to - now ELSE 0
  <2>3. to \in Times /\ passed \in Nat
    BY <1>0, JumpsAssumption DEF Times
  <2>4. /\ now' \in Times /\ resyncTimer' = Clock!Left(resyncTimer, passed)
        /\ transitionTimer' = Clock!Left(transitionTimer, passed)
    BY <2>1, <2>3
  <2> HIDE DEF passed
  <2>5. resyncTimer' \in 0 .. Resync /\ transitionTimer' \in Nat
    <3>1. resyncTimer \in Nat /\ transitionTimer \in Nat
      BY <1>0
    <3>2. /\ Clock!Left(resyncTimer, passed) \in Nat /\ Clock!Left(resyncTimer, passed) <= resyncTimer
          /\ Clock!Left(transitionTimer, passed) \in Nat
      BY <2>3, <3>1, Remains
    <3> QED BY <1>0, <2>4, <3>2
  <2>6. Computed'
    BY <1>0, <2>2 DEF Computed
  <2>7. Punctual'
    <3>1. resyncTimer' <= Resync - awake'
      BY <1>0, <2>2, <2>5
    <3> QED BY <3>1 DEF Punctual
  <2> QED BY <1>0, <2>2, <2>4, <2>5, <2>6, <2>7 DEF ClockInv
<1>7. CASE UNCHANGED Clock!vars
  <2>1. UNCHANGED <<market, now, running, current, resyncTimer, transitionTimer, awake>>
    BY <1>7 DEF Clock!vars
  <2>2. Computed'
    BY <1>0, <2>1 DEF Computed
  <2>3. Present' = Present
    BY <2>1 DEF Present
  <2>4. Punctual'
    BY <1>0, <2>1, <2>3 DEF Punctual, Synced
  <2> QED BY <1>0, <2>1, <2>2, <2>4 DEF ClockInv
<1> QED BY <1>1, <1>2, <1>3, <1>4, <1>5, <1>6, <1>7, Zenon DEF Clock!Next

(* evaluate, armTimers, onTimer: what current and the timers are worth. *)
THEOREM ClockAlways == Clock!Spec => []ClockInv
<1>1. Clock!Init => ClockInv
  BY ClockInit
<1>2. ClockInv /\ [Clock!Next]_Clock!vars => ClockInv'
  BY ClockStep
<1> QED BY <1>1, <1>2, PTL DEF Clock!Spec

(* getMarketSnapshot, localBoundaryToEpoch: a session the listeners are told  *)
(* of lasts from its sessionEpoch up to nextTransitionAt and no longer, for *)
(* every schedule that alternates and every change of the clocks at a       *)
(* weekend.                                                                 *)
THEOREM SessionsKeepTheirWord == Clock!Spec => []SessionsLast
<1>1. ClockInv => SessionsLast
  <2> SUFFICES ASSUME ClockInv PROVE SessionsLast
    OBVIOUS
  <2>1. PICK u \in Times : current = Snapshot(market, u)
    BY DEF ClockInv, Computed
  <2>2. market \in Markets /\ u \in Int
    BY <2>1 DEF ClockInv, Times
  <2>3. Lasts(market, current)
    BY <2>1, <2>2, SnapshotLasts
  <2> QED BY <2>3 DEF Lasts, SessionsLast
<1> QED BY <1>1, ClockAlways, PTL

(* armTimers, onTimer: a running clock is at the present session, and after *)
(* a jump of time once it has been awake for Resync.                        *)
THEOREM ClockIsAtPresent == Clock!Spec => []AtPresent
<1>1. ClockInv => AtPresent
  <2> SUFFICES ASSUME ClockInv, running, ~Due, awake = Resync PROVE current = Present
    BY DEF AtPresent
  <2>1. resyncTimer # 0 /\ transitionTimer # 0
    BY DEF Due
  <2>2. resyncTimer \in 0 .. Resync /\ Resync \in Nat
    BY ResyncAssumption DEF ClockInv
  <2>3. ~(resyncTimer <= Resync - awake)
    BY <2>1, <2>2
  <2> QED BY <2>1, <2>3 DEF ClockInv, Punctual, Synced
<1> QED BY <1>1, ClockAlways, PTL
================================================================================
