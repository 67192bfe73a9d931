--------------------------- MODULE RestCoordinator ---------------------------
(***************************************************************************)
(* The quote requests over HTTP, as coordinated by class RestCoordinator   *)
(* (src/src/kis/rest-coordinator.ts): requests of one key share a flight,  *)
(* flights pass a gate that bounds how many transports run and how many    *)
(* start per second, and results are cached.                               *)
(*                                                                         *)
(* A flight is numbered in order of creation.  A key stands for adapter,   *)
(* instrument, session epoch and credential generation.  The code's queue  *)
(* is emptied by pump in the turn that fills it, and is not kept.          *)
(*                                                                         *)
(* An action is one stretch between two awaits.  What follows a resolved   *)
(* promise runs before any timer: time does not pass for a flight that was *)
(* let through the gate and has not gone on yet.  The clock and the timer  *)
(* functions of the host are taken not to throw.                           *)
(***************************************************************************)
EXTENDS Naturals, FiniteSets

CONSTANTS
  Keys,            \* cache keys
  ClosedKeys,      \* those of a market session that is closed
  MaxConcurrent,   \* MAX_CONCURRENT_REQUESTS
  MaxStarts,       \* MAX_STARTS_PER_SECOND
  Window,          \* RATE_WINDOW_MS, in ticks
  Ranks,           \* PRIORITY_RANK: manual (0), initial (1), fallback (2)
  MaxCache,        \* MAX_CACHE_ENTRIES
  MaxFlights,      \* bound on flights
  MaxWaiters       \* bound on the callers that share a flight

ASSUME KeysAssumption == Keys # {} /\ ClosedKeys \subseteq Keys
ASSUME LimitsAssumption ==
  /\ MaxConcurrent \in Nat \ {0} /\ MaxStarts \in Nat \ {0} /\ Window \in Nat \ {0}
  /\ Ranks \subseteq 0..2 /\ MaxCache \in Nat \ {0} /\ MaxFlights \in Nat
  /\ MaxWaiters \in Nat \ {0}

VARIABLES
  flight,      \* all flights made
  current,     \* flights: the flight that requests of a key join, 0 for none
  active,      \* activeTransportCount
  startTimes,  \* flights with an entry in startTimes
  age,         \* ticks since that entry was made; Window when there is none
  fetched,     \* history: flights that called fetch less than a window ago
  rateTimer,   \* rateTimerScheduled
  cache        \* cache entries: "none", "success" or "failure"

vars == <<flight, current, active, startTimes, age, fetched, rateTimer, cache>>

FlightIds == 1..MaxFlights
Manual == 0
Phases == {"none", "authorizing", "gate_wait", "granted", "running", "checking", "ending",
           "settled"}
Outcomes == {"none", "success", "failure"}   \* what the result leaves in the cache

NoFlight == [key |-> CHOOSE k \in Keys : TRUE, rank |-> Manual, phase |-> "none", waiters |-> 0,
             abandoned |-> FALSE, cacheAllowed |-> FALSE, holds |-> FALSE, outcome |-> "none"]
Flights == [key : Keys, rank : 0..2, phase : Phases, waiters : 0..MaxWaiters,
            abandoned : BOOLEAN, cacheAllowed : BOOLEAN, holds : BOOLEAN, outcome : Outcomes]

Made == {f \in FlightIds : flight[f].phase # "none"}
Waiting(fl) == {f \in FlightIds : fl[f].phase = "gate_wait"}

Init ==
  /\ flight = [f \in FlightIds |-> NoFlight] /\ current = [k \in Keys |-> 0]
  /\ active = 0 /\ startTimes = {} /\ age = [f \in FlightIds |-> Window] /\ fetched = {}
  /\ rateTimer = FALSE /\ cache = [k \in Keys |-> "none"]

-----------------------------------------------------------------------------
(* The transport gate.                                                      *)

Before(fl, g, f) == fl[g].rank < fl[f].rank \/ (fl[g].rank = fl[f].rank /\ g < f)

(* Mutant: the starts of the last second are not counted. *)
ThroughAtOnce(fl, n, starts) ==
  {f \in Waiting(fl) :
    n + Cardinality({g \in Waiting(fl) : Before(fl, g, f)}) < MaxConcurrent}

(* pumpTransportGate lets waiters through, the best first, while there is a *)
(* free transport and a start left in the window.                           *)
Through(fl, n, starts) ==
  {f \in Waiting(fl) :
    LET place == Cardinality({g \in Waiting(fl) : Before(fl, g, f)})
    IN  n + place < MaxConcurrent /\ Cardinality(starts) + place < MaxStarts}

(* Mutant: the comparison is turned round. *)
TimedWhenFull(left, n) == rateTimer' = (rateTimer \/ (left /\ n >= MaxConcurrent))

(* scheduleRatePump: with a transport free only the window is in the way.   *)
Timed(left, n) == rateTimer' = (rateTimer \/ (left /\ n < MaxConcurrent))

(* The gate is pumped with flights fl, n transports and the starts given.   *)
PumpGate(fl, n, starts) ==
  LET through == Through(fl, n, starts)
      total   == n + Cardinality(through)
  IN  /\ flight' = [f \in FlightIds |->
                     IF f \in through THEN [fl[f] EXCEPT !.phase = "granted", !.holds = TRUE]
                                      ELSE fl[f]]
      /\ active' = total
      /\ startTimes' = starts \cup through
      /\ age' = [f \in FlightIds |-> IF f \in through THEN 0
                                      ELSE IF f \in starts \cup fetched THEN age[f] ELSE Window]
      /\ Timed(Waiting(fl) # through, total)

(* Mutant: the count goes down with every call. *)
ReleaseAlways(f, t, unused) ==
  LET fl == [flight EXCEPT ![f] = [t EXCEPT !.holds = FALSE]] IN
  PumpGate(fl, IF active > 0 THEN active - 1 ELSE 0, IF unused THEN startTimes \ {f} ELSE startTimes)

(* The release function of f, which becomes t: once, and with the start     *)
(* taken back when it was not used.                                         *)
Release(f, t, unused) ==
  LET fl == [flight EXCEPT ![f] = [t EXCEPT !.holds = FALSE]] IN
  IF t.holds
  THEN PumpGate(fl, IF active > 0 THEN active - 1 ELSE 0,
                IF unused THEN startTimes \ {f} ELSE startTimes)
  ELSE flight' = fl /\ UNCHANGED <<active, startTimes, age, rateTimer>>

(* execute() of f ends, after its finally block.  Quotes are kept for a     *)
(* closed session only, and of the errors those not due to authorization,   *)
(* credentials or aborts; nothing of a flight that a manual request made.   *)
End(f, outcome) ==
  [flight[f] EXCEPT !.phase = "ending", !.rank = Manual, !.cacheAllowed = FALSE,
                    !.outcome = IF flight[f].cacheAllowed /\ ~flight[f].abandoned THEN outcome ELSE "none"]

Quote(f) == IF flight[f].key \in ClosedKeys THEN "success" ELSE "none"
Errors == {"none", "failure"}

-----------------------------------------------------------------------------
(* Callers.                                                                 *)

(* requestQuote, after the identity is known: a cached result is returned,  *)
(* or the flight of the key joined, or a new one made.                      *)
Request(key, rank) ==
  /\ rank = Manual \/ cache[key] = "none"
  /\ LET f == current[key]
         new == Cardinality(Made) + 1
     IN  IF f # 0
         THEN /\ flight[f].waiters < MaxWaiters
              /\ flight' = [flight EXCEPT ![f].waiters = @ + 1,
                                          ![f].rank = IF rank < @ THEN rank ELSE @]
              /\ UNCHANGED current
         ELSE /\ new \in FlightIds
              /\ flight' = [flight EXCEPT ![new] =
                   [NoFlight EXCEPT !.key = key, !.rank = rank, !.phase = "authorizing",
                                    !.waiters = 1, !.cacheAllowed = (rank # Manual)]]
              /\ current' = [current EXCEPT ![key] = new]
  /\ UNCHANGED <<active, startTimes, age, fetched, rateTimer, cache>>

(* Mutant: the key is freed, whoever has it. *)
ForgetKey(f) == current' = [current EXCEPT ![flight[f].key] = 0]

(* deleteFlightIdentity *)
Forget(f) ==
  current' = [current EXCEPT ![flight[f].key] = IF @ = f THEN 0 ELSE @]

(* A caller aborts.  The last one abandons the flight, which leaves the     *)
(* gate or gives its transport back at once, and goes on to notice.         *)
CancelWaiter(f) ==
  /\ flight[f].waiters > 0
  /\ LET t == [flight[f] EXCEPT !.waiters = @ - 1]
         abandoned == [t EXCEPT !.abandoned = TRUE]
         left == Waiting(flight) \ {f}
     IN  IF t.waiters > 0
         THEN /\ flight' = [flight EXCEPT ![f] = t]
              /\ UNCHANGED <<current, active, startTimes, age, rateTimer>>
         ELSE /\ Forget(f)
              /\ IF t.phase = "gate_wait"
                 THEN /\ flight' = [flight EXCEPT ![f] =
                           [abandoned EXCEPT !.phase = "ending"]]
                      /\ rateTimer' = (rateTimer /\ left # {})
                      /\ UNCHANGED <<active, startTimes, age>>
                 ELSE Release(f, abandoned, t.phase = "granted")
  /\ UNCHANGED <<fetched, cache>>

-----------------------------------------------------------------------------
(* The stretches of execute().                                              *)

(* prepareRestAuthorization gives a prepared authorization.                 *)
Authorized(f) ==
  /\ flight[f].phase = "authorizing"
  /\ IF flight[f].abandoned
     THEN /\ flight' = [flight EXCEPT ![f] = End(f, "none")]
          /\ UNCHANGED <<active, startTimes, age, rateTimer>>
     ELSE PumpGate([flight EXCEPT ![f].phase = "gate_wait"], active, startTimes)
  /\ UNCHANGED <<current, fetched, cache>>

(* It fails, or gives that of other credentials. *)
NotAuthorized(f) ==
  /\ flight[f].phase = "authorizing"
  /\ \E outcome \in Errors : flight' = [flight EXCEPT ![f] = End(f, outcome)]
  /\ UNCHANGED <<current, active, startTimes, age, fetched, rateTimer, cache>>

(* The gate let f through.  A token that is current is used; with another   *)
(* one the transport is given back and a new authorization prepared.  (The  *)
(* rank of a flight that runs is of no more use.)                           *)
GatePassed(f) ==
  /\ flight[f].phase = "granted"
  /\ \/ /\ flight[f].abandoned
        /\ Release(f, End(f, "none"), TRUE)
        /\ UNCHANGED fetched
     \/ /\ ~flight[f].abandoned
        /\ flight' = [flight EXCEPT ![f].phase = "running", ![f].rank = Manual]
        /\ fetched' = fetched \cup {f}
        /\ UNCHANGED <<active, startTimes, age, rateTimer>>
     \/ /\ ~flight[f].abandoned
        /\ Release(f, [flight[f] EXCEPT !.phase = "authorizing"], TRUE)
        /\ UNCHANGED fetched
  /\ UNCHANGED <<current, cache>>

(* The response is there, decoded and parsed; the identity is asked again.  *)
Responded(f) ==
  /\ flight[f].phase = "running" /\ ~flight[f].abandoned
  /\ flight' = [flight EXCEPT ![f].phase = "checking"]
  /\ UNCHANGED <<current, active, startTimes, age, fetched, rateTimer, cache>>

(* The transport fails or is aborted, the response is no good, or the       *)
(* credentials or the session have changed meanwhile.                       *)
Fails(f) ==
  /\ flight[f].phase \in {"running", "checking"}
  /\ \E outcome \in Errors : Release(f, End(f, outcome), FALSE)
  /\ UNCHANGED <<current, fetched, cache>>

Checked(f) ==
  /\ flight[f].phase = "checking" /\ ~flight[f].abandoned
  /\ Release(f, End(f, Quote(f)), FALSE)
  /\ UNCHANGED <<current, fetched, cache>>

(* Mutant: one entry too many stays. *)
ExcessLate(n) == IF n <= MaxCache THEN 0 ELSE n - MaxCache

(* How many of n other entries writeCache drops. *)
Excess(n) == IF n < MaxCache THEN 0 ELSE n + 1 - MaxCache

(* settleFlight and failFlight.  A full cache loses another entry (the code *)
(* drops the one longest unused).                                           *)
Settle(f) ==
  /\ flight[f].phase = "ending"
  /\ flight' = [flight EXCEPT ![f] = [NoFlight EXCEPT !.phase = "settled"]]
  /\ Forget(f)
  /\ LET key == flight[f].key
         kept == {k \in Keys : cache[k] # "none"} \ {key}
     IN  IF flight[f].outcome = "none" \/ flight[f].abandoned THEN UNCHANGED cache
         ELSE \E lost \in SUBSET kept :
                /\ Cardinality(lost) = Excess(Cardinality(kept))
                /\ cache' = [k \in Keys |-> IF k = key THEN flight[f].outcome
                                            ELSE IF k \in lost THEN "none" ELSE cache[k]]
  /\ UNCHANGED <<active, startTimes, age, fetched, rateTimer>>

-----------------------------------------------------------------------------
(* Time.                                                                    *)

(* The timer may be early; then it is set again. *)
RateTimer ==
  /\ rateTimer
  /\ LET through == Through(flight, active, startTimes)
         total   == active + Cardinality(through)
     IN  /\ flight' = [f \in FlightIds |->
                        IF f \in through
                        THEN [flight[f] EXCEPT !.phase = "granted", !.holds = TRUE] ELSE flight[f]]
         /\ active' = total
         /\ startTimes' = startTimes \cup through
         /\ age' = [f \in FlightIds |-> IF f \in through THEN 0 ELSE age[f]]
         /\ rateTimer' = (Waiting(flight) # through /\ total < MaxConcurrent)
  /\ UNCHANGED <<current, fetched, cache>>

(* An entry of startTimes that is a window old is dropped by the next pump. *)
Tick ==
  /\ startTimes \cup fetched # {}
  /\ \A f \in FlightIds : flight[f].phase # "granted"
  /\ age' = [f \in FlightIds |-> IF age[f] < Window THEN age[f] + 1 ELSE age[f]]
  /\ startTimes' = {f \in startTimes : age'[f] < Window}
  /\ fetched' = {f \in fetched : age'[f] < Window}
  /\ UNCHANGED <<flight, current, active, rateTimer, cache>>

(* A failure is cached for 30 s. *)
FailureExpires(key) ==
  /\ cache[key] = "failure"
  /\ cache' = [cache EXCEPT ![key] = "none"]
  /\ UNCHANGED <<flight, current, active, startTimes, age, fetched, rateTimer>>

(* The next stretch of f, the promise it awaits being settled. *)
Proceed(f) ==
  \/ Authorized(f) \/ NotAuthorized(f) \/ GatePassed(f)
  \/ Responded(f) \/ Fails(f) \/ Checked(f) \/ Settle(f)

Next ==
  \/ \E key \in Keys : FailureExpires(key) \/ \E rank \in Ranks : Request(key, rank)
  \/ \E f \in FlightIds : CancelWaiter(f) \/ Proceed(f)
  \/ RateTimer \/ Tick

Spec == Init /\ [][Next]_vars
-----------------------------------------------------------------------------
(* Properties.                                                              *)

(* Every variable keeps its type.                                           *)
TypeOK ==
  /\ flight \in [FlightIds -> Flights]
  /\ current \in [Keys -> FlightIds \cup {0}]
  /\ active \in Nat
  /\ startTimes \in SUBSET FlightIds /\ fetched \in SUBSET FlightIds
  /\ age \in [FlightIds -> 0..Window]
  /\ rateTimer \in BOOLEAN
  /\ cache \in [Keys -> {"none", "success", "failure"}]

(* No transport is counted twice or given back twice, and no more than      *)
(* MaxConcurrent run: whoever fetches and was not aborted holds one.        *)
TransportsBounded ==
  /\ active = Cardinality({f \in FlightIds : flight[f].holds})
  /\ active <= MaxConcurrent
  /\ \A f \in FlightIds :
       flight[f].phase \in {"granted", "running", "checking"} /\ ~flight[f].abandoned =>
         flight[f].holds

(* No more than MaxStarts requests are sent in any window of a second, the  *)
(* aborted ones included.                                                   *)
RateRespected == Cardinality(fetched) <= MaxStarts

(* The cache keeps to its size, whatever is written again or evicted.       *)
CacheBounded == Cardinality({k \in Keys : cache[k] # "none"}) <= MaxCache

(* pumpTransportGate, execute, writeCache: transports, starts and cached    *)
(* answers keep to their limits, whatever is aborted, fails or comes late.  *)
LimitsKept == TransportsBounded /\ RateRespected /\ CacheBounded

(* A flight that waits at the gate is let through by the next release, all  *)
(* transports being in use, or by the timer.                                *)
GateDriven == Waiting(flight) # {} => active = MaxConcurrent \/ rateTimer

(* At most one flight per key goes on for its callers, and it is the one    *)
(* that further requests join: a superseded flight never ends its successor.*)
SingleFlight ==
  \A f \in Made :
    flight[f].waiters > 0 /\ flight[f].phase # "settled" =>
      current[flight[f].key] = f /\ ~flight[f].abandoned
=============================================================================
