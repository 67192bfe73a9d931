---------------------------- MODULE MarketSessions ----------------------------
(***************************************************************************)
(* The sessions of a market, as computed by getMarketSnapshot              *)
(* (src/src/core/market-clock.ts), and what MarketClock promises of them:  *)
(* the snapshot listeners have been told, and the timers that keep it at   *)
(* the present session.                                                    *)
(*                                                                         *)
(* Time counts tens of minutes of UTC, from the midnight a Friday begins   *)
(* with; every boundary of the schedules falls on one.  Intl's time zones  *)
(* are an offset that may change once, as it does with daylight saving.    *)
(***************************************************************************)
EXTENDS Integers, FiniteSetsExt

CONSTANTS
  Markets,       \* [schedule, zone] of the markets
  LastTime,      \* bound on time
  Jumps,         \* times to which a jump may lead
  Resync         \* RESYNC_INTERVAL_MS, in tens of minutes (a minute in the code)

Hour == 6
Day == 24 * Hour
SearchDays == 8

Times == 0..LastTime

ASSUME ResyncAssumption == Resync \in Nat \ {0}
ASSUME JumpsAssumption == LastTime \in Nat /\ Jumps \subseteq Times

VARIABLES
  market,        \* the market of the clock
  now,           \* the time
  running,       \* between start and stop
  current,       \* the snapshot the listeners have been told
  resyncTimer,   \* time left of the timers while running
  transitionTimer,
  awake          \* time since the last jump, up to Resync

-----------------------------------------------------------------------------
(* getMarketSnapshot.                                                       *)

Local(m, u) == u + IF u < m.zone.shift THEN m.zone.before ELSE m.zone.after
LocalDay(m, u) == Local(m, u) \div Day
Weekend(day) == (day + 5) % 7 \in {0, 6}

(* The session after the last of the boundaries passed on a day.            *)
SessionAfter(passed) ==
  IF passed = {} THEN "CLOSED"
  ELSE (CHOOSE b \in passed : \A c \in passed : c.at <= b.at).session

SessionAt(m, u) ==
  IF Weekend(LocalDay(m, u)) THEN "CLOSED"
  ELSE SessionAfter({b \in m.schedule : b.at <= Local(m, u) % Day})

(* A schedule (MARKET_SCHEDULES) changes the session with each of its       *)
(* boundaries, and ends the day closed.                                     *)
Alternates(schedule) ==
  /\ SessionAfter(schedule) = "CLOSED"
  /\ \A b \in schedule : b.session # SessionAfter({c \in schedule : c.at < b.at})

(* Clocks change at a weekend, away from its ends: no local time of a day   *)
(* with sessions is skipped or comes twice.                                 *)
ChangesAtWeekend(zone) ==
  zone.before # zone.after =>
    \A local \in zone.shift + Min({zone.before, zone.after}) - 1
                 .. zone.shift + Max({zone.before, zone.after}) :
      Weekend(local \div Day)

ASSUME MarketsAssumption ==
  \A m \in Markets :
    /\ m.schedule # {} /\ IsFiniteSet(m.schedule) /\ Alternates(m.schedule)
    /\ \A b \in m.schedule : b.at \in 0 .. Day - 1
    /\ \A b, c \in m.schedule : b.at = c.at => b = c
    /\ {m.zone.before, m.zone.after, m.zone.shift} \subseteq Int
    /\ ChangesAtWeekend(m.zone)

(* Mutant: the offset is taken where the question is asked, not where the   *)
(* boundary is.                                                             *)
BoundaryFromHere(m, day, at, u) == day * Day + at - (Local(m, u) - u)

(* localBoundaryToEpoch: three corrections by the offset observed at the    *)
(* candidate.  The time of the question (u) plays no part.                  *)
BoundaryToEpoch(m, day, at, u) ==
  LET target == day * Day + at
      Correct(candidate) == candidate + target - Local(m, candidate)
  IN  Correct(Correct(Correct(target)))

Boundaries(m, u) ==
  {BoundaryToEpoch(m, day, b.at, u) :
     day \in {d \in LocalDay(m, u) - SearchDays .. LocalDay(m, u) + SearchDays : ~Weekend(d)},
     b \in m.schedule}

Snapshot(m, u) ==
  [session |-> SessionAt(m, u),
   sessionEpoch |-> Max({b \in Boundaries(m, u) : b <= u}),
   nextTransitionAt |-> Min({b \in Boundaries(m, u) : b > u})]

SnapshotAt == [m \in Markets |-> [u \in Times |-> Snapshot(m, u)]]

-----------------------------------------------------------------------------
(* The clock at its present moment.                                         *)

Present == SnapshotAt[market][now]

(* A timer of the clock has run out. *)
Due == running /\ (resyncTimer = 0 \/ transitionTimer = 0)

-----------------------------------------------------------------------------
(* Properties.                                                              *)

(* getMarketSnapshot, localBoundaryToEpoch: a session lasts from its        *)
(* sessionEpoch up to nextTransitionAt and no longer, over weekends and     *)
(* changes of daylight saving.  This says so without the conversion of      *)
(* boundaries: only the session at each time counts.                        *)
SessionsLast ==
  /\ current.sessionEpoch < current.nextTransitionAt
  /\ \A u \in current.sessionEpoch .. current.nextTransitionAt - 1 :
       SessionAt(market, u) = current.session
  /\ SessionAt(market, current.sessionEpoch - 1) # current.session
  /\ SessionAt(market, current.nextTransitionAt) # current.session

(* armTimers, onTimer: a running clock is at the present session to the     *)
(* moment, and after a jump of time once it has been awake for Resync.      *)
AtPresent == running /\ ~Due /\ awake = Resync => current = Present
=============================================================================
