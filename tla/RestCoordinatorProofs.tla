------------------------ MODULE RestCoordinatorProofs ------------------------
(* The limits of RestCoordinator, the way through its gate and the one       *)
(* flight of a key, for any number of keys, flights and callers, any limits  *)
(* and any length of the window.                                             *)
EXTENDS RestCoordinator, FiniteSetTheorems, TLAPS

Using == {"granted", "running", "checking"}
Unsent == {"none", "authorizing", "gate_wait", "granted"}

(* A flight has a transport while it uses one for its callers; without      *)
(* callers it is abandoned, over or not there.                              *)
Sound(t) ==
  /\ t.holds <=> (t.phase \in Using /\ ~t.abandoned)
  /\ t.abandoned => t.waiters = 0 /\ t.phase # "gate_wait"
  /\ t.phase \in {"none", "settled"} => t.waiters = 0

Holders(fl) == {f \in FlightIds : fl[f].holds}

(* The flight goes on for somebody. *)
Joinable(t, key) == t.key = key /\ t.waiters > 0

(* Flights are made in the order of their numbers. *)
Numbered(fl) ==
  \E m \in 0..MaxFlights : \A f \in FlightIds : fl[f].phase # "none" <=> f <= m

(* What of the flights a key joins.                                         *)
Joined(fl, cur) ==
  /\ \A k \in Keys : cur[k] # 0 => Joinable(fl[cur[k]], k)
  /\ \A f \in FlightIds : fl[f].waiters > 0 => cur[fl[f].key] = f

(* Transports are counted once. *)
Counted(fl, n) == n = Cardinality(Holders(fl)) /\ n <= MaxConcurrent

(* A request sent has an entry in starts, as has one let through to be      *)
(* sent; one that has not been sent is not among those that were.           *)
Entered(fl, starts, sent) ==
  /\ sent \subseteq starts
  /\ \A f \in FlightIds :
       /\ fl[f].phase = "granted" /\ fl[f].holds => f \in starts
       /\ fl[f].phase \in Unsent => f \notin sent

Started(starts) == starts \in SUBSET FlightIds /\ Cardinality(starts) <= MaxStarts

Flown(fl) == fl \in [FlightIds -> Flights] /\ \A f \in FlightIds : Sound(fl[f])

(* The flights and all that is kept about them.                             *)
Good(fl, cur, n, starts, sent) ==
  /\ Flown(fl) /\ Numbered(fl)
  /\ cur \in [Keys -> FlightIds \cup {0}] /\ Joined(fl, cur)
  /\ Counted(fl, n)
  /\ Started(starts) /\ Entered(fl, starts, sent)

Cached == {k \in Keys : cache[k] # "none"}

CacheKept ==
  /\ cache \in [Keys -> {"none", "success", "failure"}]
  /\ IsFiniteSet(Cached) /\ CacheBounded

Timing == age \in [FlightIds -> 0..Window] /\ rateTimer \in BOOLEAN

Inv ==
  /\ Good(flight, current, active, startTimes, fetched)
  /\ Timing /\ CacheKept /\ GateDriven

-----------------------------------------------------------------------------
(* Flights and sets of them.                                                *)

LEMMA Fields ==
  ASSUME NEW t \in Flights
  PROVE  /\ t.key \in Keys /\ t.rank \in 0..2 /\ t.phase \in Phases
         /\ t.waiters \in 0..MaxWaiters /\ t.waiters \in Nat /\ t.abandoned \in BOOLEAN
         /\ t.cacheAllowed \in BOOLEAN /\ t.holds \in BOOLEAN /\ t.outcome \in Outcomes
BY LimitsAssumption DEF Flights

LEMMA Finite ==
  ASSUME NEW S \in SUBSET FlightIds
  PROVE  IsFiniteSet(S) /\ Cardinality(S) \in Nat
<1>1. IsFiniteSet(FlightIds)
  BY FS_Interval, LimitsAssumption DEF FlightIds
<1> QED BY <1>1, FS_Subset, FS_CardinalityType

LEMMA FlownType ==
  ASSUME NEW fl, Flown(fl), NEW f \in FlightIds
  PROVE  fl[f] \in Flights /\ Sound(fl[f])
BY DEF Flown

-----------------------------------------------------------------------------
(* The gate.                                                                *)

Ahead(fl, f) == {g \in Waiting(fl) : Before(fl, g, f)}

(* Flights wait in one line, the rank before the number.                    *)
LEMMA OneLine ==
  ASSUME NEW fl, Flown(fl), NEW f \in FlightIds, NEW g \in FlightIds, NEW h \in FlightIds
  PROVE  /\ ~Before(fl, f, f)
         /\ Before(fl, f, g) /\ Before(fl, g, h) => Before(fl, f, h)
         /\ f # g => Before(fl, f, g) \/ Before(fl, g, f)
<1>1. fl[f].rank \in 0..2 /\ fl[g].rank \in 0..2 /\ fl[h].rank \in 0..2
  BY FlownType, Fields
<1> QED BY <1>1, LimitsAssumption DEF Before, FlightIds

LEMMA PlaceGrows ==
  ASSUME NEW fl, Flown(fl), NEW f \in Waiting(fl), NEW g \in Waiting(fl), Before(fl, g, f)
  PROVE  Cardinality(Ahead(fl, g)) < Cardinality(Ahead(fl, f))
<1>1. Ahead(fl, g) \in SUBSET Ahead(fl, f)
  BY OneLine DEF Ahead, Waiting
<1>2. g \in Ahead(fl, f) /\ g \notin Ahead(fl, g)
  BY OneLine DEF Ahead, Waiting
<1>3. Ahead(fl, f) \in SUBSET FlightIds /\ Ahead(fl, g) \in SUBSET FlightIds
  BY DEF Ahead, Waiting
<1>4. /\ IsFiniteSet(Ahead(fl, f)) /\ Cardinality(Ahead(fl, f)) \in Nat
      /\ Cardinality(Ahead(fl, g)) \in Nat
  BY <1>3, Finite
<1>5. /\ Cardinality(Ahead(fl, g)) <= Cardinality(Ahead(fl, f))
      /\ Cardinality(Ahead(fl, f)) # Cardinality(Ahead(fl, g))
  BY <1>1, <1>2, <1>4, FS_Subset
<1> QED BY <1>4, <1>5

(* So no more than k of those that wait have fewer than k before them.      *)
LEMMA FewerThan ==
  ASSUME NEW fl, Flown(fl), NEW S \in SUBSET Waiting(fl), NEW k \in Nat,
         \A f \in S : Cardinality(Ahead(fl, f)) < k
  PROVE  Cardinality(S) <= k
<1>1. S \in SUBSET FlightIds
  BY DEF Waiting
<1>2. IsFiniteSet(S) /\ Cardinality(S) \in Nat
  BY <1>1, Finite
<1> DEFINE places == 0..(k - 1)
<1>3. IsFiniteSet(places) /\ Cardinality(places) = k
  BY FS_Interval
<1> DEFINE place == [f \in S |-> Cardinality(Ahead(fl, f))]
<1>4. place \in [S -> places]
  <2>1. ASSUME NEW f \in S PROVE Cardinality(Ahead(fl, f)) \in places
    <3>1. Ahead(fl, f) \in SUBSET FlightIds
      BY DEF Ahead, Waiting
    <3>2. Cardinality(Ahead(fl, f)) \in Nat
      BY <3>1, Finite
    <3> QED BY <3>2
  <2> QED BY <2>1
<1>5. \A f, g \in S : f # g => place[f] # place[g]
  <2> SUFFICES ASSUME NEW f \in S, NEW g \in S, f # g PROVE place[f] # place[g]
    OBVIOUS
  <2>1. Before(fl, f, g) \/ Before(fl, g, f)
    BY <1>1, OneLine
  <2>2. \/ Cardinality(Ahead(fl, f)) < Cardinality(Ahead(fl, g))
        \/ Cardinality(Ahead(fl, g)) < Cardinality(Ahead(fl, f))
    BY <2>1, PlaceGrows
  <2>3. place[f] \in places /\ place[g] \in places
    BY <1>4
  <2> QED BY <2>2, <2>3
<1> HIDE DEF place, places
<1>6. ~(Cardinality(places) < Cardinality(S))
  BY <1>2, <1>3, <1>4, <1>5, FS_PigeonHole
<1> QED BY <1>2, <1>3, <1>6

LEMMA ThroughBounds ==
  ASSUME NEW fl, Flown(fl), NEW n \in Nat, n <= MaxConcurrent, NEW starts, Started(starts)
  PROVE  /\ Through(fl, n, starts) \in SUBSET Waiting(fl)
         /\ Cardinality(Through(fl, n, starts)) \in Nat
         /\ n + Cardinality(Through(fl, n, starts)) <= MaxConcurrent
         /\ Cardinality(starts) + Cardinality(Through(fl, n, starts)) <= MaxStarts
<1> DEFINE S == Through(fl, n, starts)
<1>1. S \in SUBSET Waiting(fl) /\ S \in SUBSET FlightIds
  BY DEF Through, Waiting
<1>2. Cardinality(S) \in Nat
  BY <1>1, Finite
<1>3. Cardinality(starts) \in Nat /\ Cardinality(starts) <= MaxStarts
  BY Finite DEF Started
<1>4. \A f \in S : /\ n + Cardinality(Ahead(fl, f)) < MaxConcurrent
                   /\ Cardinality(starts) + Cardinality(Ahead(fl, f)) < MaxStarts
  BY DEF Through, Ahead
<1>5. \A f \in S : Cardinality(Ahead(fl, f)) \in Nat
  <2>1. \A f \in S : Ahead(fl, f) \in SUBSET FlightIds
    BY DEF Ahead, Waiting
  <2> QED BY <2>1, Finite
<1> HIDE DEF S
<1>6. Cardinality(S) <= MaxConcurrent - n
  <2>1. MaxConcurrent - n \in Nat
    BY LimitsAssumption
  <2>2. \A f \in S : Cardinality(Ahead(fl, f)) < MaxConcurrent - n
    BY <1>4, <1>5, LimitsAssumption
  <2> QED BY <1>1, <2>1, <2>2, FewerThan
<1>7. Cardinality(S) <= MaxStarts - Cardinality(starts)
  <2>1. MaxStarts - Cardinality(starts) \in Nat
    BY <1>3, LimitsAssumption
  <2>2. \A f \in S : Cardinality(Ahead(fl, f)) < MaxStarts - Cardinality(starts)
    BY <1>3, <1>4, <1>5, LimitsAssumption
  <2> QED BY <1>1, <2>1, <2>2, FewerThan
<1>8. n + Cardinality(S) <= MaxConcurrent
  BY <1>2, <1>6, LimitsAssumption
<1>9. Cardinality(starts) + Cardinality(S) <= MaxStarts
  BY <1>2, <1>3, <1>7, LimitsAssumption
<1> QED BY <1>1, <1>2, <1>8, <1>9 DEF S

(* The flights of S are let through.                                        *)
Passed(t) == [t EXCEPT !.phase = "granted", !.holds = TRUE]
Let(fl, S) == [f \in FlightIds |-> IF f \in S THEN Passed(fl[f]) ELSE fl[f]]

LEMMA PassedType ==
  ASSUME NEW t \in Flights, Sound(t), t.phase = "gate_wait"
  PROVE  /\ Passed(t) \in Flights /\ Sound(Passed(t))
         /\ Passed(t).phase = "granted" /\ Passed(t).holds
         /\ Passed(t).key = t.key /\ Passed(t).waiters = t.waiters
BY DEF Flights, Passed, Sound, Phases, Using

(* Those let through do not wait any more.                                  *)
LEMMA LetWaiting ==
  ASSUME NEW fl, NEW S, NEW f \in Waiting(Let(fl, S))
  PROVE  f \in Waiting(fl) /\ f \notin S
BY DEF Waiting, Let, Passed

LEMMA LetGood ==
  ASSUME NEW fl, NEW cur, NEW n \in Nat, NEW starts, NEW sent,
         Good(fl, cur, n, starts, sent),
         NEW S \in SUBSET Waiting(fl), Cardinality(S) \in Nat,
         n + Cardinality(S) <= MaxConcurrent,
         Cardinality(starts) + Cardinality(S) <= MaxStarts
  PROVE  Good(Let(fl, S), cur, n + Cardinality(S), starts \cup S, sent)
<1>1. S \in SUBSET FlightIds /\ Flown(fl)
  BY DEF Waiting, Good
<1>2. ASSUME NEW f \in FlightIds
      PROVE  /\ f \notin S => Let(fl, S)[f] = fl[f]
             /\ f \in S => /\ fl[f].phase = "gate_wait" /\ ~fl[f].holds
                           /\ Let(fl, S)[f] = Passed(fl[f])
                           /\ Let(fl, S)[f].phase = "granted" /\ Let(fl, S)[f].holds
             /\ Let(fl, S)[f] \in Flights /\ Sound(Let(fl, S)[f])
             /\ Let(fl, S)[f].key = fl[f].key /\ Let(fl, S)[f].waiters = fl[f].waiters
  <2>1. Let(fl, S)[f] = IF f \in S THEN Passed(fl[f]) ELSE fl[f]
    BY DEF Let
  <2>2. fl[f] \in Flights /\ Sound(fl[f])
    BY <1>1, FlownType
  <2>3. CASE f \in S
    <3>1. fl[f].phase = "gate_wait"
      BY <2>3 DEF Waiting
    <3>2. ~fl[f].holds
      BY <2>2, <3>1 DEF Sound, Using
    <3>3. /\ Passed(fl[f]) \in Flights /\ Sound(Passed(fl[f]))
          /\ Passed(fl[f]).phase = "granted" /\ Passed(fl[f]).holds
          /\ Passed(fl[f]).key = fl[f].key /\ Passed(fl[f]).waiters = fl[f].waiters
      BY <2>2, <3>1, PassedType
    <3>4. Let(fl, S)[f] = Passed(fl[f])
      BY <2>1, <2>3
    <3> QED BY <2>3, <3>1, <3>2, <3>3, <3>4
  <2>4. CASE f \notin S
    BY <2>1, <2>2, <2>4
  <2> QED BY <2>3, <2>4
<1>3. Flown(Let(fl, S))
  <2>1. Let(fl, S) = [f \in FlightIds |-> Let(fl, S)[f]]
    BY DEF Let
  <2>2. \A f \in FlightIds : Let(fl, S)[f] \in Flights /\ Sound(Let(fl, S)[f])
    BY <1>2
  <2>3. Let(fl, S) \in [FlightIds -> Flights]
    BY <2>1, <2>2
  <2> QED BY <2>2, <2>3 DEF Flown
<1>4. Numbered(Let(fl, S))
  <2>1. \A f \in FlightIds : Let(fl, S)[f].phase # "none" <=> fl[f].phase # "none"
    BY <1>2
  <2> QED BY <2>1 DEF Good, Numbered
<1>5. Joined(Let(fl, S), cur)
  <2>1. cur \in [Keys -> FlightIds \cup {0}] /\ Joined(fl, cur)
    BY DEF Good
  <2>2. \A f \in FlightIds : /\ Let(fl, S)[f].key = fl[f].key
                             /\ Let(fl, S)[f].waiters = fl[f].waiters
    BY <1>2
  <2> QED BY <2>1, <2>2 DEF Joined, Joinable
<1>6. Counted(Let(fl, S), n + Cardinality(S))
  <2>1. Holders(Let(fl, S)) = Holders(fl) \cup S /\ Holders(fl) \cap S = {}
    BY <1>1, <1>2 DEF Holders
  <2>2. Holders(fl) \in SUBSET FlightIds
    BY DEF Holders
  <2>3. IsFiniteSet(Holders(fl)) /\ IsFiniteSet(S)
    BY <1>1, <2>2, Finite
  <2>4. n = Cardinality(Holders(fl))
    BY DEF Good, Counted
  <2>5. /\ Cardinality(Holders(fl) \cup S) =
             Cardinality(Holders(fl)) + Cardinality(S) - Cardinality(Holders(fl) \cap S)
        /\ Cardinality(Holders(fl) \cap S) = 0
    BY <2>1, <2>3, FS_Union, FS_EmptySet
  <2>6. Cardinality(Holders(Let(fl, S))) = n + Cardinality(S)
    BY <2>1, <2>4, <2>5
  <2> QED BY <2>6 DEF Counted
<1>7. Started(starts \cup S)
  <2>1. starts \in SUBSET FlightIds
    BY DEF Good, Started
  <2>2. IsFiniteSet(starts) /\ IsFiniteSet(S) /\ Cardinality(starts) \in Nat
    BY <1>1, <2>1, Finite
  <2>3. starts \cap S \in SUBSET FlightIds /\ starts \cup S \in SUBSET FlightIds
    BY <1>1, <2>1
  <2>4. Cardinality(starts \cap S) \in Nat /\ Cardinality(starts \cup S) \in Nat
    BY <2>3, Finite
  <2>5. Cardinality(starts \cup S) =
          Cardinality(starts) + Cardinality(S) - Cardinality(starts \cap S)
    BY <2>2, FS_Union
  <2>6. Cardinality(starts \cup S) <= MaxStarts
    BY <2>2, <2>4, <2>5, LimitsAssumption
  <2> QED BY <2>3, <2>6 DEF Started
<1>8. Entered(Let(fl, S), starts \cup S, sent)
  <2>1. Entered(fl, starts, sent)
    BY DEF Good
  <2> QED BY <1>2, <2>1 DEF Entered, Unsent
<1>9. cur \in [Keys -> FlightIds \cup {0}]
  BY DEF Good
<1> QED BY <1>3, <1>4, <1>5, <1>6, <1>7, <1>8, <1>9, Zenon DEF Good

(* The gate, with whatever flights it is pumped, keeps the limits, and      *)
(* those that are left wait for a transport or for the timer.               *)
LEMMA PumpGood ==
  ASSUME NEW fl, NEW cur, NEW n \in Nat, NEW starts, NEW sent,
         Good(fl, cur, n, starts, sent), Timing, PumpGate(fl, n, starts)
  PROVE  Good(flight', cur, active', startTimes', sent) /\ Timing' /\ GateDriven'
<1> PICK S : S = Through(fl, n, starts)
  OBVIOUS
<1>1. Flown(fl) /\ n <= MaxConcurrent /\ Started(starts)
  BY DEF Good, Counted
<1>2. /\ S \in SUBSET Waiting(fl) /\ Cardinality(S) \in Nat
      /\ n + Cardinality(S) <= MaxConcurrent
      /\ Cardinality(starts) + Cardinality(S) <= MaxStarts
  BY <1>1, ThroughBounds
<1>3. /\ flight' = Let(fl, S) /\ active' = n + Cardinality(S) /\ startTimes' = starts \cup S
      /\ Timed(Waiting(fl) # S, n + Cardinality(S))
  BY DEF PumpGate, Let, Passed
<1>4. age' \in [FlightIds -> 0..Window]
  <2>1. age' = [f \in FlightIds |-> IF f \in S THEN 0
                                     ELSE IF f \in starts \cup fetched THEN age[f] ELSE Window]
    BY DEF PumpGate
  <2> QED BY <2>1, LimitsAssumption DEF Timing
<1>5. Good(Let(fl, S), cur, n + Cardinality(S), starts \cup S, sent)
  BY <1>2, LetGood
<1>6. rateTimer' \in BOOLEAN
  BY <1>3 DEF Timing, Timed
<1>7. GateDriven'
  <2> SUFFICES ASSUME Waiting(flight') # {} PROVE active' = MaxConcurrent \/ rateTimer'
    BY DEF GateDriven
  <2>1. Waiting(fl) # S
    BY <1>3, LetWaiting
  <2>2. n + Cardinality(S) < MaxConcurrent \/ n + Cardinality(S) = MaxConcurrent
    BY <1>2, LimitsAssumption
  <2>3. CASE n + Cardinality(S) < MaxConcurrent
    BY <1>3, <2>1, <2>3 DEF Timed
  <2>4. CASE n + Cardinality(S) = MaxConcurrent
    BY <1>3, <2>4
  <2> QED BY <2>2, <2>3, <2>4
<1> QED BY <1>3, <1>4, <1>5, <1>6, <1>7 DEF Timing

-----------------------------------------------------------------------------
(* One flight changes: fl[f] becomes t.                                     *)

LEMMA PutFlown ==
  ASSUME NEW fl, Flown(fl), NEW f \in FlightIds, NEW t \in Flights, Sound(t)
  PROVE  Flown([fl EXCEPT ![f] = t])
BY DEF Flown

LEMMA PutNumbered ==
  ASSUME NEW fl, Flown(fl), Numbered(fl), NEW f \in FlightIds, NEW t,
         fl[f].phase # "none" <=> t.phase # "none"
  PROVE  Numbered([fl EXCEPT ![f] = t])
<1>1. \A g \in FlightIds : [fl EXCEPT ![f] = t][g].phase # "none" <=> fl[g].phase # "none"
  BY DEF Flown
<1> QED BY <1>1 DEF Numbered

(* The transport is kept, or given back.                                    *)
LEMMA PutCounted ==
  ASSUME NEW fl, Flown(fl), NEW n \in Nat, Counted(fl, n), NEW f \in FlightIds,
         NEW t \in Flights
  PROVE  /\ t.holds = fl[f].holds => Counted([fl EXCEPT ![f] = t], n)
         /\ fl[f].holds /\ ~t.holds =>
              n > 0 /\ n - 1 \in Nat /\ Counted([fl EXCEPT ![f] = t], n - 1)
<1>1. Holders(fl) \in SUBSET FlightIds
  BY DEF Holders
<1>2. IsFiniteSet(Holders(fl)) /\ Cardinality(Holders(fl)) = n
  BY <1>1, Finite DEF Counted
<1>3. CASE t.holds = fl[f].holds
  <2>1. Holders([fl EXCEPT ![f] = t]) = Holders(fl)
    BY <1>3 DEF Holders, Flown
  <2>2. n = Cardinality(Holders([fl EXCEPT ![f] = t])) /\ n <= MaxConcurrent
    BY <1>2, <2>1 DEF Counted
  <2>3. Counted([fl EXCEPT ![f] = t], n)
    BY <2>2 DEF Counted
  <2> QED BY <1>3, <2>3
<1>4. CASE fl[f].holds /\ ~t.holds
  <2>1. Holders([fl EXCEPT ![f] = t]) = Holders(fl) \ {f} /\ f \in Holders(fl)
    BY <1>4 DEF Holders, Flown
  <2>2. Cardinality(Holders(fl) \ {f}) = n - 1
    BY <1>2, <2>1, FS_RemoveElement
  <2>3. Holders(fl) \ {f} \in SUBSET FlightIds
    BY <1>1
  <2>4. n - 1 \in Nat /\ n > 0
    BY <2>2, <2>3, Finite
  <2>5. Counted([fl EXCEPT ![f] = t], n - 1)
    <3>1. n - 1 = Cardinality(Holders([fl EXCEPT ![f] = t]))
      BY <2>1, <2>2
    <3>2. n - 1 <= MaxConcurrent
      BY LimitsAssumption DEF Counted
    <3> QED BY <3>1, <3>2, Zenon DEF Counted
  <2> QED BY <1>4, <2>4, <2>5
<1> QED BY <1>3, <1>4

(* Its callers stay as they are, at least one of them.                      *)
LEMMA PutJoined ==
  ASSUME NEW fl, Flown(fl), NEW cur \in [Keys -> FlightIds \cup {0}], Joined(fl, cur),
         NEW f \in FlightIds, NEW t \in Flights, t.key = fl[f].key,
         fl[f].waiters > 0 <=> t.waiters > 0
  PROVE  Joined([fl EXCEPT ![f] = t], cur)
BY DEF Joined, Joinable, Flown

(* There are no callers, and the key is free of it.                         *)
LEMMA PutForgotten ==
  ASSUME NEW fl, Flown(fl), NEW cur \in [Keys -> FlightIds \cup {0}], Joined(fl, cur),
         NEW f \in FlightIds, NEW t \in Flights, t.waiters = 0
  PROVE  LET c == [cur EXCEPT ![fl[f].key] = IF @ = f THEN 0 ELSE @]
         IN  c \in [Keys -> FlightIds \cup {0}] /\ Joined([fl EXCEPT ![f] = t], c)
<1> DEFINE c == [cur EXCEPT ![fl[f].key] = IF @ = f THEN 0 ELSE @]
           fl2 == [fl EXCEPT ![f] = t]
<1>1. c \in [Keys -> FlightIds \cup {0}]
  OBVIOUS
<1>2. fl[f].key \in Keys
  BY FlownType, Fields
<1>3. ASSUME NEW k \in Keys, c[k] # 0 PROVE Joinable(fl2[c[k]], k)
  <2>1. Joinable(fl[cur[k]], k) /\ cur[k] \in FlightIds /\ c[k] = cur[k]
    BY <1>3 DEF Joined
  <2>2. cur[k] # f
    BY <1>2, <1>3, <2>1 DEF Joinable
  <2> QED BY <2>1, <2>2 DEF Flown
<1>4. ASSUME NEW g \in FlightIds, fl2[g].waiters > 0 PROVE c[fl2[g].key] = g
  <2>1. g # f /\ fl2[g] = fl[g]
    BY <1>4 DEF Flown
  <2>2. cur[fl[g].key] = g /\ fl[g].key \in Keys
    BY <1>4, <2>1, FlownType, Fields DEF Joined
  <2> QED BY <2>1, <2>2
<1> QED BY <1>1, <1>3, <1>4 DEF Joined

LEMMA PutEntered ==
  ASSUME NEW fl, Flown(fl), NEW starts, NEW sent, Entered(fl, starts, sent),
         NEW f \in FlightIds, NEW t \in Flights,
         NEW e \in SUBSET (sent \cup {f}), NEW s, starts \ {f} \subseteq s, e \subseteq s,
         t.phase = "granted" /\ t.holds => f \in s,
         t.phase \in Unsent => f \notin e
  PROVE  Entered([fl EXCEPT ![f] = t], s, e)
<1> SUFFICES ASSUME NEW g \in FlightIds
             PROVE  LET u == [fl EXCEPT ![f] = t][g]
                    IN  /\ u.phase = "granted" /\ u.holds => g \in s
                        /\ u.phase \in Unsent => g \notin e
  BY DEF Entered
<1>1. CASE g = f
  BY <1>1 DEF Flown
<1>2. CASE g # f
  BY <1>2 DEF Flown, Entered
<1> QED BY <1>1, <1>2

LEMMA StartedLess ==
  ASSUME NEW starts, Started(starts), NEW s \in SUBSET starts
  PROVE  Started(s)
<1>1. starts \in SUBSET FlightIds /\ s \in SUBSET FlightIds
  BY DEF Started
<1>2. /\ IsFiniteSet(starts) /\ Cardinality(starts) \in Nat /\ Cardinality(s) \in Nat
      /\ Cardinality(s) <= Cardinality(starts)
  BY <1>1, Finite, FS_Subset
<1> QED BY <1>1, <1>2, LimitsAssumption DEF Started

(* The key c of the flight: it keeps its callers, or is forgotten.          *)
Keys2(f, t, c) ==
  \/ c = current /\ t.key = flight[f].key /\ (flight[f].waiters > 0 <=> t.waiters > 0)
  \/ t.waiters = 0 /\ c = [current EXCEPT ![flight[f].key] = IF @ = f THEN 0 ELSE @]

LEMMA PutGood ==
  ASSUME Inv, NEW f \in FlightIds, NEW t \in Flights, Sound(t),
         flight[f].phase # "none" /\ t.phase # "none", NEW c, Keys2(f, t, c),
         NEW n, \/ t.holds = flight[f].holds /\ n = active
                \/ flight[f].holds /\ ~t.holds /\ n = active - 1,
         NEW s \in SUBSET startTimes, startTimes \ {f} \subseteq s,
         NEW e \in SUBSET (fetched \cup {f}), e \subseteq s,
         t.phase = "granted" /\ t.holds => f \in s,
         t.phase \in Unsent => f \notin e
  PROVE  Good([flight EXCEPT ![f] = t], c, n, s, e) /\ n \in Nat
<1>1. /\ Flown(flight) /\ Numbered(flight) /\ current \in [Keys -> FlightIds \cup {0}]
      /\ Joined(flight, current) /\ Counted(flight, active)
      /\ Started(startTimes) /\ Entered(flight, startTimes, fetched)
  BY DEF Inv, Good
<1>2. Flown([flight EXCEPT ![f] = t])
  BY <1>1, PutFlown
<1>3. Numbered([flight EXCEPT ![f] = t])
  BY <1>1, PutNumbered
<1>4. c \in [Keys -> FlightIds \cup {0}] /\ Joined([flight EXCEPT ![f] = t], c)
  <2>1. CASE c = current /\ t.key = flight[f].key /\ (flight[f].waiters > 0 <=> t.waiters > 0)
    BY <1>1, <2>1, PutJoined
  <2>2. CASE t.waiters = 0 /\ c = [current EXCEPT ![flight[f].key] = IF @ = f THEN 0 ELSE @]
    BY <1>1, <2>2, PutForgotten
  <2> QED BY <2>1, <2>2 DEF Keys2
<1>5. active \in Nat
  <2>1. Holders(flight) \in SUBSET FlightIds
    BY DEF Holders
  <2> QED BY <1>1, <2>1, Finite DEF Counted
<1>6. n \in Nat /\ Counted([flight EXCEPT ![f] = t], n)
  <2>1. CASE t.holds = flight[f].holds /\ n = active
    BY <1>1, <1>5, <2>1, PutCounted
  <2>2. CASE flight[f].holds /\ ~t.holds /\ n = active - 1
    BY <1>1, <1>5, <2>2, PutCounted
  <2> QED BY <2>1, <2>2
<1>7. Started(s)
  BY <1>1, StartedLess
<1>8. Entered([flight EXCEPT ![f] = t], s, e)
  BY <1>1, PutEntered
<1> QED BY <1>2, <1>3, <1>4, <1>6, <1>7, <1>8, Zenon DEF Good

LEMMA PutWaiting ==
  ASSUME NEW f \in FlightIds, NEW t, t.phase # "gate_wait", Flown(flight),
         NEW g \in Waiting([flight EXCEPT ![f] = t])
  PROVE  g \in Waiting(flight) \ {f}
BY DEF Waiting, Flown

(* A flight changes and nothing else does; the gate is not pumped.          *)
LEMMA QuietStep ==
  ASSUME Inv, NEW f \in FlightIds, NEW t \in Flights, Sound(t),
         flight[f].phase # "none" /\ t.phase \notin {"none", "gate_wait"},
         t.holds = flight[f].holds, Keys2(f, t, current'),
         t.phase = "granted" => flight[f].phase = "granted",
         t.phase \in Unsent => f \notin fetched',
         fetched' \in SUBSET (fetched \cup {f}), fetched' \subseteq startTimes,
         flight' = [flight EXCEPT ![f] = t], UNCHANGED <<active, startTimes, age, rateTimer>>
  PROVE  Good(flight', current', active', startTimes', fetched') /\ Timing' /\ GateDriven'
<1>1. t.phase = "granted" /\ t.holds => f \in startTimes
  BY DEF Inv, Good, Entered
<1>2. Good([flight EXCEPT ![f] = t], current', active, startTimes, fetched')
  BY <1>1, PutGood
<1>3. Waiting(flight') # {} => Waiting(flight) # {}
  BY PutWaiting DEF Inv, Good
<1> QED BY <1>2, <1>3 DEF Inv, Timing, GateDriven

Freed(t) == [t EXCEPT !.holds = FALSE]

LEMMA FreedType ==
  ASSUME NEW t \in Flights
  PROVE  /\ Freed(t) \in Flights /\ ~Freed(t).holds /\ Freed(t).phase = t.phase
         /\ Freed(t).key = t.key /\ Freed(t).waiters = t.waiters
         /\ Freed(t).abandoned = t.abandoned
         /\ ~t.holds => Freed(t) = t
BY DEF Freed, Flights

(* A transport is given back once, and the flights that waited go through.  *)
LEMMA ReleaseStep ==
  ASSUME Inv, NEW f \in FlightIds, NEW t \in Flights, Sound(Freed(t)),
         flight[f].phase # "none" /\ t.phase \notin {"none", "gate_wait"},
         t.holds = flight[f].holds, Keys2(f, Freed(t), current'),
         NEW unused \in BOOLEAN, unused => f \notin fetched,
         t.phase \in Unsent => f \notin fetched, fetched' = fetched,
         Release(f, t, unused)
  PROVE  Good(flight', current', active', startTimes', fetched') /\ Timing' /\ GateDriven'
<1>1. /\ Freed(t) \in Flights /\ ~Freed(t).holds /\ Freed(t).phase = t.phase
  BY FreedType
<1>2. fetched \subseteq startTimes
  BY DEF Inv, Good, Entered
<1>3. CASE t.holds
  <2> DEFINE s == IF unused THEN startTimes \ {f} ELSE startTimes
             n == active - 1
  <2>1. s \in SUBSET startTimes /\ startTimes \ {f} \subseteq s /\ fetched \subseteq s
    BY <1>2
  <2> HIDE DEF s
  <2>2. Good([flight EXCEPT ![f] = Freed(t)], current', n, s, fetched) /\ n \in Nat
    <3>1. PICK u \in Flights : u = Freed(t)
      BY <1>1
    <3>2. Sound(u) /\ u.phase # "none" /\ Keys2(f, u, current') /\ flight[f].holds /\ ~u.holds
      BY <1>1, <1>3, <3>1
    <3>3. ~(u.phase = "granted" /\ u.holds) /\ (u.phase \in Unsent => f \notin fetched)
      BY <1>1, <3>1
    <3>4. PICK m : m = active - 1
      OBVIOUS
    <3>5. fetched \in SUBSET (fetched \cup {f})
      OBVIOUS
    <3>6. Good([flight EXCEPT ![f] = u], current', m, s, fetched) /\ m \in Nat
      BY <2>1, <3>2, <3>3, <3>4, <3>5, PutGood
    <3> QED BY <3>1, <3>4, <3>6
  <2>3. active > 0
    <3>1. active = Cardinality(Holders(flight)) /\ Holders(flight) \in SUBSET FlightIds
      BY DEF Inv, Good, Counted, Holders
    <3>2. active \in Nat
      BY <3>1, Finite
    <3> QED BY <2>2, <3>2
  <2>4. PumpGate([flight EXCEPT ![f] = Freed(t)], n, s)
    BY <1>3, <2>3 DEF Release, Freed, s
  <2> HIDE DEF n
  <2>5. Good(flight', current', active', startTimes', fetched) /\ Timing' /\ GateDriven'
    BY <2>2, <2>4, PumpGood DEF Inv
  <2> QED BY <2>5
<1>4. CASE ~t.holds
  <2>1. flight' = [flight EXCEPT ![f] = Freed(t)] /\ UNCHANGED <<active, startTimes, age, rateTimer>>
    BY <1>4 DEF Release, Freed
  <2>2. Freed(t).holds = flight[f].holds
    BY <1>1, <1>4, FlownType, Fields DEF Inv, Good
  <2>3. t.phase = "granted" /\ Freed(t).holds => f \in startTimes
    BY <1>1
  <2>4. Good([flight EXCEPT ![f] = Freed(t)], current', active, startTimes, fetched)
    <3>1. PICK u \in Flights : u = Freed(t)
      BY <1>1
    <3>2. Sound(u) /\ u.phase # "none" /\ Keys2(f, u, current') /\ u.holds = flight[f].holds
      BY <1>1, <2>2, <3>1
    <3>3. ~(u.phase = "granted" /\ u.holds) /\ (u.phase \in Unsent => f \notin fetched)
      BY <1>1, <3>1
    <3>4. Good([flight EXCEPT ![f] = u], current', active, startTimes, fetched)
      BY <1>2, <3>2, <3>3, PutGood
    <3> QED BY <3>1, <3>4
  <2>5. Waiting(flight') # {} => Waiting(flight) # {}
    BY <1>1, <2>1, PutWaiting DEF Inv, Good
  <2> QED BY <2>1, <2>4, <2>5 DEF Inv, Timing, GateDriven
<1> QED BY <1>3, <1>4

-----------------------------------------------------------------------------
(* The steps.  GoodStep is what a step that leaves the cache alone owes.    *)

GoodStep ==
  Good(flight', current', active', startTimes', fetched') /\ Timing' /\ GateDriven'

LEMMA NoFlightType ==
  /\ NoFlight \in Flights
  /\ NoFlight.phase = "none" /\ ~NoFlight.holds /\ ~NoFlight.abandoned /\ NoFlight.waiters = 0
BY KeysAssumption, LimitsAssumption DEF NoFlight, Flights, Phases, Outcomes, Manual

Moved(t, p) == [t EXCEPT !.phase = p]

LEMMA MovedType ==
  ASSUME NEW t \in Flights, NEW p \in Phases
  PROVE  /\ Moved(t, p) \in Flights /\ Moved(t, p).phase = p /\ Moved(t, p).key = t.key
         /\ Moved(t, p).waiters = t.waiters /\ Moved(t, p).abandoned = t.abandoned
         /\ Moved(t, p).holds = t.holds
BY DEF Moved, Flights

(* The fields a flight leaves behind when it is let go. *)
Plain(t) == [t EXCEPT !.rank = Manual]
NotCached(t) == [t EXCEPT !.cacheAllowed = FALSE]
With(t, outcome) == [t EXCEPT !.outcome = outcome]

Alike(t, u) ==
  /\ u \in Flights /\ u.phase = t.phase /\ u.key = t.key /\ u.waiters = t.waiters
  /\ u.abandoned = t.abandoned /\ u.holds = t.holds

LEMMA PlainAlike ==
  ASSUME NEW t \in Flights PROVE Alike(t, Plain(t))
BY DEF Alike, Plain, Flights, Manual

LEMMA NotCachedAlike ==
  ASSUME NEW t \in Flights PROVE Alike(t, NotCached(t))
BY DEF Alike, NotCached, Flights

LEMMA WithAlike ==
  ASSUME NEW t \in Flights, NEW outcome \in Outcomes PROVE Alike(t, With(t, outcome))
BY DEF Alike, With, Flights

(* How execute() ends. *)
LEMMA EndType ==
  ASSUME NEW f \in FlightIds, flight[f] \in Flights, Sound(flight[f]), NEW outcome \in Outcomes
  PROVE  /\ End(f, outcome) \in Flights /\ End(f, outcome).phase = "ending"
         /\ End(f, outcome).key = flight[f].key /\ End(f, outcome).waiters = flight[f].waiters
         /\ End(f, outcome).abandoned = flight[f].abandoned
         /\ End(f, outcome).holds = flight[f].holds
<1>1. PICK o \in Outcomes :
        o = IF flight[f].cacheAllowed /\ ~flight[f].abandoned THEN outcome ELSE "none"
  BY DEF Outcomes
<1>2. "ending" \in Phases
  BY DEF Phases
<1>3. PICK a \in Flights : a = Moved(flight[f], "ending")
  BY <1>2, MovedType
<1>4. PICK b \in Flights : b = Plain(a)
  BY PlainAlike DEF Alike
<1>5. PICK c \in Flights : c = NotCached(b)
  BY NotCachedAlike DEF Alike
<1>6. PICK d \in Flights : d = With(c, o)
  BY WithAlike DEF Alike
<1>7. End(f, outcome) = d
  <2>1. End(f, outcome) = [flight[f] EXCEPT !.phase = "ending", !.rank = Manual,
                             !.cacheAllowed = FALSE, !.outcome = o]
    BY <1>1 DEF End
  <2> QED BY <1>3, <1>4, <1>5, <1>6, <2>1 DEF Moved, Plain, NotCached, With, Flights
<1>8. Alike(a, b) /\ Alike(b, c) /\ Alike(c, d)
  BY <1>4, <1>5, <1>6, PlainAlike, NotCachedAlike, WithAlike
<1>9. a.phase = "ending" /\ a.key = flight[f].key /\ a.waiters = flight[f].waiters
      /\ a.abandoned = flight[f].abandoned /\ a.holds = flight[f].holds
  BY <1>2, <1>3, MovedType
<1> QED BY <1>7, <1>8, <1>9 DEF Alike

LEMMA EndStep ==
  ASSUME Inv, NEW f \in FlightIds, NEW outcome \in Outcomes, NEW unused \in BOOLEAN,
         flight[f].phase \in {"granted", "running", "checking"},
         unused => flight[f].phase = "granted",
         Release(f, End(f, outcome), unused), UNCHANGED <<current, fetched>>
  PROVE  GoodStep
<1>1. flight[f] \in Flights /\ Sound(flight[f])
  BY FlownType DEF Inv, Good
<1>2. PICK t \in Flights : t = End(f, outcome)
  BY <1>1, EndType
<1>3. /\ t.phase = "ending" /\ t.key = flight[f].key /\ t.waiters = flight[f].waiters
      /\ t.abandoned = flight[f].abandoned /\ t.holds = flight[f].holds
  BY <1>1, <1>2, EndType
<1>4. Sound(Freed(t)) /\ Keys2(f, Freed(t), current')
  BY <1>1, <1>3, FreedType DEF Sound, Keys2, Using
<1>5. unused => f \notin fetched
  BY DEF Inv, Good, Entered, Unsent
<1>6. Release(f, t, unused) /\ t.phase \notin {"none", "gate_wait"} /\ t.phase \notin Unsent
  BY <1>2, <1>3 DEF Unsent
<1>7. flight[f].phase # "none"
  OBVIOUS
<1>8. Good(flight', current', active', startTimes', fetched') /\ Timing' /\ GateDriven'
  BY <1>3, <1>4, <1>5, <1>6, <1>7, ReleaseStep
<1> QED BY <1>8 DEF GoodStep

(* It ends without a transport. *)
LEMMA QuietEnd ==
  ASSUME Inv, NEW f \in FlightIds, NEW outcome \in Outcomes,
         flight[f].phase = "authorizing", flight' = [flight EXCEPT ![f] = End(f, outcome)],
         UNCHANGED <<current, active, startTimes, age, rateTimer, fetched>>
  PROVE  GoodStep
<1>1. flight[f] \in Flights /\ Sound(flight[f])
  BY FlownType DEF Inv, Good
<1>2. PICK t \in Flights : t = End(f, outcome)
  BY <1>1, EndType
<1>3. /\ t.phase = "ending" /\ t.key = flight[f].key /\ t.waiters = flight[f].waiters
      /\ t.abandoned = flight[f].abandoned /\ t.holds = flight[f].holds
  BY <1>1, <1>2, EndType
<1>4. Sound(t) /\ Keys2(f, t, current') /\ t.phase \notin Unsent
  BY <1>1, <1>3 DEF Sound, Keys2, Using, Unsent
<1>5. fetched' \in SUBSET (fetched \cup {f}) /\ fetched' \subseteq startTimes
  BY DEF Inv, Good, Entered
<1>6. flight[f].phase # "none" /\ t.phase \notin {"none", "gate_wait", "granted"}
  BY <1>3
<1>7. flight' = [flight EXCEPT ![f] = t]
  BY <1>2
<1>8. Good(flight', current', active', startTimes', fetched') /\ Timing' /\ GateDriven'
  BY <1>3, <1>4, <1>5, <1>6, <1>7, QuietStep
<1> QED BY <1>8 DEF GoodStep

LEMMA AuthorizedStep ==
  ASSUME Inv, NEW f \in FlightIds, Authorized(f)
  PROVE  GoodStep
<1>1. /\ flight[f] \in Flights /\ Sound(flight[f]) /\ flight[f].phase = "authorizing"
      /\ UNCHANGED <<current, fetched>>
  BY FlownType DEF Inv, Good, Authorized
<1>2. CASE flight[f].abandoned
  <2>1. flight' = [flight EXCEPT ![f] = End(f, "none")] /\ UNCHANGED <<active, startTimes, age, rateTimer>>
    BY <1>2 DEF Authorized
  <2>2. "none" \in Outcomes
    BY DEF Outcomes
  <2> QED BY <1>1, <2>1, <2>2, QuietEnd
<1>3. CASE ~flight[f].abandoned
  <2>1. "gate_wait" \in Phases
    BY DEF Phases
  <2>2. PICK t \in Flights : t = Moved(flight[f], "gate_wait")
    BY <1>1, <2>1, MovedType
  <2>3. /\ t.phase = "gate_wait" /\ t.key = flight[f].key /\ t.waiters = flight[f].waiters
        /\ t.abandoned = flight[f].abandoned /\ t.holds = flight[f].holds
    BY <1>1, <2>1, <2>2, MovedType
  <2>4. Sound(t) /\ Keys2(f, t, current)
    BY <1>1, <1>3, <2>3 DEF Sound, Keys2, Using
  <2>5. f \notin fetched /\ fetched \subseteq startTimes
    BY <1>1 DEF Inv, Good, Entered, Unsent
  <2>6. fetched \in SUBSET (fetched \cup {f}) /\ startTimes \in SUBSET startTimes
        /\ startTimes \ {f} \subseteq startTimes
    OBVIOUS
  <2>7. Good([flight EXCEPT ![f] = t], current, active, startTimes, fetched) /\ active \in Nat
    BY <1>1, <2>3, <2>4, <2>5, <2>6, PutGood
  <2>8. PumpGate([flight EXCEPT ![f] = t], active, startTimes)
    BY <1>3, <2>2 DEF Authorized, Moved
  <2>9. Good(flight', current, active', startTimes', fetched) /\ Timing' /\ GateDriven'
    BY <2>7, <2>8, PumpGood DEF Inv
  <2> QED BY <1>1, <2>9 DEF GoodStep
<1> QED BY <1>2, <1>3

LEMMA GatePassedStep ==
  ASSUME Inv, NEW f \in FlightIds, GatePassed(f)
  PROVE  GoodStep
<1>1. /\ flight[f] \in Flights /\ Sound(flight[f]) /\ flight[f].phase = "granted"
      /\ UNCHANGED current
  BY FlownType DEF Inv, Good, GatePassed
<1>2. f \notin fetched /\ fetched \subseteq startTimes /\ (flight[f].holds => f \in startTimes)
  BY <1>1 DEF Inv, Good, Entered, Unsent
<1>3. CASE Release(f, End(f, "none"), TRUE) /\ UNCHANGED fetched
  <2>1. "none" \in Outcomes
    BY DEF Outcomes
  <2> QED BY <1>1, <1>3, <2>1, EndStep
<1>4. CASE /\ ~flight[f].abandoned
           /\ flight' = [flight EXCEPT ![f].phase = "running", ![f].rank = Manual]
           /\ fetched' = fetched \cup {f}
           /\ UNCHANGED <<active, startTimes, age, rateTimer>>
  <2>0. "running" \in Phases
    BY DEF Phases
  <2>1. PICK t : t = Plain(Moved(flight[f], "running"))
    OBVIOUS
  <2>2. /\ t \in Flights /\ t.phase = "running" /\ t.key = flight[f].key
        /\ t.waiters = flight[f].waiters
        /\ t.abandoned = flight[f].abandoned /\ t.holds = flight[f].holds
    BY <1>1, <2>0, <2>1, MovedType, PlainAlike DEF Alike
  <2>3. Sound(t) /\ Keys2(f, t, current') /\ t.phase \notin Unsent
    BY <1>1, <2>2 DEF Sound, Keys2, Using, Unsent
  <2>4. flight' = [flight EXCEPT ![f] = t]
    BY <1>4, <2>1 DEF Inv, Good, Flown, Plain, Moved, Flights
  <2>5. fetched' \in SUBSET (fetched \cup {f}) /\ fetched' \subseteq startTimes
    BY <1>1, <1>2, <1>4 DEF Sound, Using
  <2>6. flight[f].phase # "none" /\ t.phase \notin {"none", "gate_wait", "granted"}
    BY <1>1, <2>2
  <2>7. Good(flight', current', active', startTimes', fetched') /\ Timing' /\ GateDriven'
    BY <1>4, <2>2, <2>3, <2>4, <2>5, <2>6, QuietStep
  <2> QED BY <2>7 DEF GoodStep
<1>5. CASE /\ ~flight[f].abandoned
           /\ Release(f, [flight[f] EXCEPT !.phase = "authorizing"], TRUE)
           /\ UNCHANGED fetched
  <2>1. "authorizing" \in Phases
    BY DEF Phases
  <2>2. PICK t \in Flights : t = Moved(flight[f], "authorizing")
    BY <1>1, <2>1, MovedType
  <2>3. /\ t.phase = "authorizing" /\ t.key = flight[f].key /\ t.waiters = flight[f].waiters
        /\ t.abandoned = flight[f].abandoned /\ t.holds = flight[f].holds
    BY <1>1, <2>1, <2>2, MovedType
  <2>4. Sound(Freed(t)) /\ Keys2(f, Freed(t), current')
    BY <1>1, <2>3, FreedType DEF Sound, Keys2, Using
  <2>5. Release(f, t, TRUE)
    BY <1>5, <2>2 DEF Moved
  <2>6. flight[f].phase # "none" /\ t.phase \notin {"none", "gate_wait"} /\ TRUE \in BOOLEAN
    BY <1>1, <2>3
  <2>7. Good(flight', current', active', startTimes', fetched') /\ Timing' /\ GateDriven'
    BY <1>2, <1>5, <2>3, <2>4, <2>5, <2>6, ReleaseStep
  <2> QED BY <2>7 DEF GoodStep
<1> QED BY <1>3, <1>4, <1>5 DEF GatePassed

LEMMA RespondedStep ==
  ASSUME Inv, NEW f \in FlightIds, Responded(f)
  PROVE  GoodStep
<1>1. flight[f] \in Flights /\ Sound(flight[f]) /\ flight[f].phase = "running"
  BY FlownType DEF Inv, Good, Responded
<1>2. "checking" \in Phases
  BY DEF Phases
<1>3. PICK t \in Flights : t = Moved(flight[f], "checking")
  BY <1>1, <1>2, MovedType
<1>4. /\ t.phase = "checking" /\ t.key = flight[f].key /\ t.waiters = flight[f].waiters
      /\ t.abandoned = flight[f].abandoned /\ t.holds = flight[f].holds
  BY <1>1, <1>2, <1>3, MovedType
<1>5. Sound(t) /\ Keys2(f, t, current') /\ t.phase \notin Unsent
  BY <1>1, <1>4 DEF Sound, Keys2, Using, Unsent, Responded
<1>6. flight' = [flight EXCEPT ![f] = t] /\ UNCHANGED <<active, startTimes, age, rateTimer>>
  BY <1>3 DEF Responded, Moved
<1>7. fetched' \in SUBSET (fetched \cup {f}) /\ fetched' \subseteq startTimes
  BY DEF Inv, Good, Entered, Responded
<1>8. flight[f].phase # "none" /\ t.phase \notin {"none", "gate_wait", "granted"}
  BY <1>1, <1>4
<1>9. Good(flight', current', active', startTimes', fetched') /\ Timing' /\ GateDriven'
  BY <1>4, <1>5, <1>6, <1>7, <1>8, QuietStep
<1> QED BY <1>9 DEF GoodStep

LEMMA OverStep ==
  ASSUME Inv, NEW f \in FlightIds, NotAuthorized(f) \/ Fails(f) \/ Checked(f)
  PROVE  GoodStep
<1>1. Errors \subseteq Outcomes /\ Quote(f) \in Outcomes
  BY DEF Errors, Outcomes, Quote
<1>2. CASE NotAuthorized(f)
  <2>1. PICK outcome \in Outcomes : flight' = [flight EXCEPT ![f] = End(f, outcome)]
    BY <1>1, <1>2 DEF NotAuthorized
  <2> QED BY <1>2, <2>1, QuietEnd DEF NotAuthorized
<1>3. CASE Fails(f)
  <2>1. PICK outcome \in Outcomes : Release(f, End(f, outcome), FALSE)
    BY <1>1, <1>3 DEF Fails
  <2>2. flight[f].phase \in {"granted", "running", "checking"} /\ UNCHANGED <<current, fetched>>
    BY <1>3 DEF Fails
  <2> QED BY <2>1, <2>2, EndStep
<1>4. CASE Checked(f)
  <2>1. Release(f, End(f, Quote(f)), FALSE)
    BY <1>4 DEF Checked
  <2>2. flight[f].phase \in {"granted", "running", "checking"} /\ UNCHANGED <<current, fetched>>
    BY <1>4 DEF Checked
  <2> QED BY <1>1, <2>1, <2>2, EndStep
<1> QED BY <1>2, <1>3, <1>4

(* A caller of t less, the last of them leaving it abandoned. *)
Less(t) == [t EXCEPT !.waiters = @ - 1]
Abandoned(t) == [t EXCEPT !.abandoned = TRUE]

LEMMA LessType ==
  ASSUME NEW t \in Flights, t.waiters > 0
  PROVE  /\ Less(t) \in Flights /\ Less(t).phase = t.phase /\ Less(t).key = t.key
         /\ Less(t).waiters = t.waiters - 1 /\ Less(t).abandoned = t.abandoned
         /\ Less(t).holds = t.holds /\ Less(t).waiters \in Nat
BY LimitsAssumption DEF Less, Flights

LEMMA AbandonedType ==
  ASSUME NEW t \in Flights
  PROVE  /\ Abandoned(t) \in Flights /\ Abandoned(t).phase = t.phase /\ Abandoned(t).key = t.key
         /\ Abandoned(t).waiters = t.waiters /\ Abandoned(t).abandoned
         /\ Abandoned(t).holds = t.holds
BY DEF Abandoned, Flights

LEMMA CancelStep ==
  ASSUME Inv, NEW f \in FlightIds, CancelWaiter(f)
  PROVE  GoodStep
<1>1. /\ flight[f] \in Flights /\ Sound(flight[f]) /\ flight[f].waiters > 0
      /\ flight[f].waiters \in Nat /\ fetched' = fetched
  BY FlownType, Fields DEF Inv, Good, CancelWaiter
<1>2. /\ flight[f].phase \notin {"none", "settled"} /\ ~flight[f].abandoned
      /\ fetched \subseteq startTimes /\ (flight[f].phase \in Unsent => f \notin fetched)
  BY <1>1 DEF Sound, Inv, Good, Entered
<1>3. PICK t \in Flights : t = Less(flight[f])
  BY <1>1, LessType
<1>4. /\ t.phase = flight[f].phase /\ t.key = flight[f].key /\ t.waiters = flight[f].waiters - 1
      /\ t.abandoned = flight[f].abandoned /\ t.holds = flight[f].holds /\ t.waiters \in Nat
  BY <1>1, <1>3, LessType
<1>5. CASE t.waiters > 0
  <2>1. flight' = [flight EXCEPT ![f] = t] /\ UNCHANGED <<current, active, startTimes, age, rateTimer>>
    BY <1>3, <1>5 DEF CancelWaiter, Less
  <2>2. Sound(t) /\ Keys2(f, t, current')
    BY <1>1, <1>2, <1>4, <1>5, <2>1 DEF Sound, Keys2
  <2>3. t.phase = "granted" /\ t.holds => f \in startTimes
    BY <1>4 DEF Inv, Good, Entered
  <2>4. fetched \in SUBSET (fetched \cup {f}) /\ startTimes \in SUBSET startTimes
        /\ startTimes \ {f} \subseteq startTimes
    OBVIOUS
  <2>5. Good([flight EXCEPT ![f] = t], current', active, startTimes, fetched)
    BY <1>2, <1>4, <2>2, <2>3, <2>4, PutGood
  <2>6. Waiting(flight') # {} => Waiting(flight) # {}
    BY <1>1, <1>4, <2>1 DEF Waiting, Inv, Good, Flown
  <2> QED BY <1>1, <2>1, <2>5, <2>6 DEF Inv, Timing, GateDriven, GoodStep
<1>6. CASE t.waiters = 0
  <2>1. PICK u \in Flights : u = Abandoned(t)
    BY AbandonedType
  <2>2. /\ u.phase = flight[f].phase /\ u.key = flight[f].key /\ u.waiters = 0
        /\ u.abandoned /\ u.holds = flight[f].holds
    BY <1>4, <1>6, <2>1, AbandonedType
  <2>3. current' = [current EXCEPT ![flight[f].key] = IF @ = f THEN 0 ELSE @]
    BY <1>3, <1>6 DEF CancelWaiter, Forget, Less
  <2>4. CASE flight[f].phase = "gate_wait"
    <3>1. "ending" \in Phases
      BY DEF Phases
    <3>2. PICK v \in Flights : v = Moved(u, "ending")
      BY <3>1, MovedType
    <3>3. /\ v.phase = "ending" /\ v.key = flight[f].key /\ v.waiters = 0
          /\ v.abandoned /\ v.holds = flight[f].holds
      BY <2>2, <3>1, <3>2, MovedType
    <3>4. flight' = [flight EXCEPT ![f] = v] /\ UNCHANGED <<active, startTimes, age>>
          /\ rateTimer' = (rateTimer /\ Waiting(flight) \ {f} # {})
      BY <1>3, <1>4, <1>6, <2>1, <2>4, <3>2 DEF CancelWaiter, Less, Abandoned, Moved
    <3>5. Sound(v) /\ Keys2(f, v, current') /\ v.phase \notin Unsent
      BY <1>1, <2>3, <2>4, <3>3 DEF Sound, Keys2, Using, Unsent
    <3>6. fetched \in SUBSET (fetched \cup {f}) /\ startTimes \in SUBSET startTimes
          /\ startTimes \ {f} \subseteq startTimes
      OBVIOUS
    <3>7. Good([flight EXCEPT ![f] = v], current', active, startTimes, fetched)
      BY <1>2, <3>3, <3>5, <3>6, PutGood
    <3>8. ASSUME NEW g \in Waiting(flight') PROVE g \in Waiting(flight) \ {f}
      BY <3>3, <3>4, PutWaiting DEF Inv, Good
    <3>9. GateDriven'
      BY <3>4, <3>8 DEF Inv, GateDriven, Timing
    <3>10. Timing'
      BY <3>4 DEF Inv, Timing
    <3>11. Good(flight', current', active', startTimes', fetched')
      BY <1>1, <3>4, <3>7
    <3> QED BY <3>9, <3>10, <3>11 DEF GoodStep
  <2>5. CASE flight[f].phase # "gate_wait"
    <3>1. PICK unused \in BOOLEAN : unused = (flight[f].phase = "granted")
      OBVIOUS
    <3>2. Release(f, u, unused)
      BY <1>3, <1>4, <1>6, <2>1, <2>5, <3>1 DEF CancelWaiter, Less, Abandoned
    <3>3. Sound(Freed(u)) /\ Keys2(f, Freed(u), current')
      BY <1>1, <2>2, <2>3, <2>5, FreedType DEF Sound, Keys2
    <3>4. unused => f \notin fetched
      BY <1>2, <3>1 DEF Unsent
    <3>5. flight[f].phase # "none" /\ u.phase \notin {"none", "gate_wait"}
          /\ (u.phase \in Unsent => f \notin fetched)
      BY <1>2, <2>2, <2>5
    <3>6. Good(flight', current', active', startTimes', fetched') /\ Timing' /\ GateDriven'
      BY <1>1, <2>2, <3>2, <3>3, <3>4, <3>5, ReleaseStep
    <3> QED BY <3>6 DEF GoodStep
  <2> QED BY <2>4, <2>5
<1>7. t.waiters > 0 \/ t.waiters = 0
  <2>1. t.waiters \in Nat
    BY Fields
  <2> QED BY <2>1
<1> QED BY <1>5, <1>6, <1>7

LEMMA SettledType ==
  LET t == [NoFlight EXCEPT !.phase = "settled"]
  IN  t \in Flights /\ t.phase = "settled" /\ ~t.holds /\ ~t.abandoned /\ t.waiters = 0
<1>1. "settled" \in Phases
  BY DEF Phases
<1> QED BY <1>1, NoFlightType, MovedType DEF Moved

LEMMA SettleStep ==
  ASSUME Inv, NEW f \in FlightIds, Settle(f)
  PROVE  GoodStep
<1>1. flight[f] \in Flights /\ Sound(flight[f]) /\ flight[f].phase = "ending"
  BY FlownType DEF Inv, Good, Settle
<1>2. PICK t \in Flights : t = [NoFlight EXCEPT !.phase = "settled"]
  BY SettledType
<1>3. t.phase = "settled" /\ ~t.holds /\ ~t.abandoned /\ t.waiters = 0
  BY <1>2, SettledType
<1>4. /\ flight' = [flight EXCEPT ![f] = t]
      /\ UNCHANGED <<active, startTimes, age, fetched, rateTimer>>
      /\ current' = [current EXCEPT ![flight[f].key] = IF @ = f THEN 0 ELSE @]
  BY <1>2 DEF Settle, Forget
<1>5. t.holds = flight[f].holds
  BY <1>1, <1>3, Fields DEF Sound, Using
<1>6. Sound(t) /\ Keys2(f, t, current') /\ t.phase \notin Unsent
  BY <1>3, <1>4 DEF Sound, Keys2, Using, Unsent
<1>7. fetched' \in SUBSET (fetched \cup {f}) /\ fetched' \subseteq startTimes
  BY <1>4 DEF Inv, Good, Entered
<1>8. flight[f].phase # "none" /\ t.phase \notin {"none", "gate_wait", "granted"}
  BY <1>1, <1>3
<1>9. Good(flight', current', active', startTimes', fetched') /\ Timing' /\ GateDriven'
  BY <1>4, <1>5, <1>6, <1>7, <1>8, QuietStep
<1> QED BY <1>9 DEF GoodStep

(* The next flight to be made. *)
LEMMA NextFlight ==
  ASSUME Numbered(flight), Cardinality(Made) + 1 \in FlightIds
  PROVE  /\ flight[Cardinality(Made) + 1].phase = "none"
         /\ \A f \in FlightIds : flight[f].phase # "none" \/ f = Cardinality(Made) + 1
                                   <=> f <= Cardinality(Made) + 1
         /\ Cardinality(Made) + 1 \in 0..MaxFlights
<1>1. PICK m \in 0..MaxFlights : \A f \in FlightIds : flight[f].phase # "none" <=> f <= m
  BY DEF Numbered
<1>2. Made = 1..m
  BY <1>1, LimitsAssumption DEF Made, FlightIds
<1>3. Cardinality(Made) = m
  BY <1>2, FS_Interval, LimitsAssumption
<1> QED BY <1>1, <1>3, LimitsAssumption DEF FlightIds

LEMMA RequestStep ==
  ASSUME Inv, NEW key \in Keys, NEW rank \in Ranks, Request(key, rank)
  PROVE  GoodStep
<1>1. /\ Flown(flight) /\ Numbered(flight) /\ current \in [Keys -> FlightIds \cup {0}]
      /\ Joined(flight, current) /\ Counted(flight, active)
      /\ Started(startTimes) /\ Entered(flight, startTimes, fetched)
      /\ UNCHANGED <<active, startTimes, age, fetched, rateTimer>>
  BY DEF Inv, Good, Request
<1>2. active \in Nat /\ rank \in 0..2
  <2>1. Holders(flight) \in SUBSET FlightIds
    BY DEF Holders
  <2> QED BY <1>1, <2>1, Finite, LimitsAssumption DEF Counted
<1>3. CASE current[key] # 0
  <2>1. PICK f \in FlightIds : f = current[key]
    BY <1>1, <1>3
  <2>2. flight[f] \in Flights /\ Sound(flight[f]) /\ flight[f].waiters > 0
        /\ flight[f].waiters < MaxWaiters /\ flight[f].waiters \in Nat
    BY <1>1, <1>3, <2>1, FlownType, Fields DEF Joined, Joinable, Request
  <2>3. PICK r \in 0..2 : r = IF rank < flight[f].rank THEN rank ELSE flight[f].rank
    BY <1>2, <2>2, Fields
  <2>4. PICK u : u = [flight[f] EXCEPT !.waiters = @ + 1]
    OBVIOUS
  <2>5. /\ u \in Flights /\ u.phase = flight[f].phase /\ u.key = flight[f].key
        /\ u.waiters = flight[f].waiters + 1 /\ u.waiters > 0
        /\ u.abandoned = flight[f].abandoned /\ u.holds = flight[f].holds
    BY <2>2, <2>4, LimitsAssumption DEF Flights
  <2>6. PICK t : t = [u EXCEPT !.rank = r]
    OBVIOUS
  <2>7. /\ t \in Flights /\ t.phase = u.phase /\ t.key = u.key /\ t.waiters = u.waiters
        /\ t.abandoned = u.abandoned /\ t.holds = u.holds
    BY <2>5, <2>6 DEF Flights
  <2>8. flight' = [flight EXCEPT ![f] = t] /\ current' = current
    BY <1>1, <1>3, <2>1, <2>2, <2>3, <2>4, <2>6 DEF Request, Flown, Flights
  <2>9. Sound(t) /\ Keys2(f, t, current')
    BY <2>2, <2>5, <2>7, <2>8 DEF Sound, Keys2
  <2>10. flight[f].phase # "none" /\ t.phase # "none"
    BY <2>2, <2>5, <2>7 DEF Sound
  <2>11. /\ fetched \subseteq startTimes /\ (t.phase = "granted" /\ t.holds => f \in startTimes)
         /\ (t.phase \in Unsent => f \notin fetched)
    BY <1>1, <2>5, <2>7 DEF Entered
  <2>12. fetched \in SUBSET (fetched \cup {f}) /\ startTimes \in SUBSET startTimes
         /\ startTimes \ {f} \subseteq startTimes
    OBVIOUS
  <2>13. Good([flight EXCEPT ![f] = t], current', active, startTimes, fetched)
    BY <2>5, <2>7, <2>9, <2>10, <2>11, <2>12, PutGood
  <2>14. Waiting(flight') # {} => Waiting(flight) # {}
    BY <1>1, <2>5, <2>7, <2>8 DEF Waiting, Flown
  <2> QED BY <1>1, <2>8, <2>13, <2>14 DEF Inv, Timing, GateDriven, GoodStep
<1>4. CASE current[key] = 0
  <2>1. PICK f \in FlightIds : f = Cardinality(Made) + 1
    BY <1>4 DEF Request
  <2>2. /\ flight[f].phase = "none" /\ f \in 0..MaxFlights
        /\ \A g \in FlightIds : flight[g].phase # "none" \/ g = f <=> g <= f
    BY <1>1, <2>1, NextFlight
  <2>3. PICK t : t = [NoFlight EXCEPT !.key = key, !.rank = rank, !.phase = "authorizing",
                                      !.waiters = 1, !.cacheAllowed = (rank # Manual)]
    OBVIOUS
  <2>4. /\ flight' = [flight EXCEPT ![f] = t] /\ current' = [current EXCEPT ![key] = f]
    BY <1>4, <2>1, <2>3 DEF Request
  <2>5. t = [key |-> key, rank |-> rank, phase |-> "authorizing", waiters |-> 1,
             abandoned |-> FALSE, cacheAllowed |-> (rank # Manual), holds |-> FALSE,
             outcome |-> "none"]
    BY <2>3 DEF NoFlight
  <2>6. /\ t \in Flights /\ t.key = key /\ t.phase = "authorizing" /\ t.waiters = 1 /\ ~t.abandoned
        /\ ~t.holds
    BY <1>2, <2>5, LimitsAssumption DEF Flights, Phases, Outcomes
  <2>7. Sound(t) /\ flight[f] \in Flights /\ Sound(flight[f]) /\ t.holds = flight[f].holds
        /\ flight[f].waiters = 0
    BY <1>1, <2>2, <2>6, FlownType, Fields DEF Sound, Using
  <2>8. Flown([flight EXCEPT ![f] = t])
    BY <1>1, <2>6, <2>7, PutFlown
  <2>9. Numbered([flight EXCEPT ![f] = t])
    <3>1. \A g \in FlightIds : [flight EXCEPT ![f] = t][g].phase # "none" <=> g <= f
      BY <1>1, <2>2, <2>6 DEF Flown
    <3> QED BY <2>2, <3>1 DEF Numbered
  <2>10. Counted([flight EXCEPT ![f] = t], active)
    BY <1>1, <1>2, <2>6, <2>7, PutCounted
  <2>11. Entered([flight EXCEPT ![f] = t], startTimes, fetched)
    <3>1. f \notin fetched /\ fetched \subseteq startTimes
      BY <1>1, <2>2 DEF Entered, Unsent
    <3>2. fetched \in SUBSET (fetched \cup {f}) /\ startTimes \ {f} \subseteq startTimes
      OBVIOUS
    <3> QED BY <1>1, <2>6, <3>1, <3>2, PutEntered
  <2>12. Joined([flight EXCEPT ![f] = t], [current EXCEPT ![key] = f])
    <3> DEFINE fl == [flight EXCEPT ![f] = t]
               c == [current EXCEPT ![key] = f]
    <3>1. \A g \in FlightIds : fl[g] = IF g = f THEN t ELSE flight[g]
      BY <1>1 DEF Flown
    <3>2. \A k \in Keys : c[k] = IF k = key THEN f ELSE current[k]
      BY <1>1
    <3> HIDE DEF fl, c
    <3>3. ASSUME NEW k \in Keys, c[k] # 0 PROVE Joinable(fl[c[k]], k)
      <4>1. CASE k = key
        BY <2>6, <3>1, <3>2, <4>1 DEF Joinable
      <4>2. CASE k # key
        <5>1. c[k] = current[k] /\ current[k] \in FlightIds /\ Joinable(flight[current[k]], k)
          BY <1>1, <3>2, <3>3, <4>2 DEF Joined
        <5>2. current[k] # f
          BY <2>7, <5>1 DEF Joinable
        <5> QED BY <3>1, <5>1, <5>2
      <4> QED BY <4>1, <4>2
    <3>4. ASSUME NEW g \in FlightIds, fl[g].waiters > 0 PROVE c[fl[g].key] = g
      <4>1. CASE g = f
        BY <2>6, <3>1, <3>2, <4>1
      <4>2. CASE g # f
        <5>1. fl[g] = flight[g] /\ flight[g].key \in Keys /\ current[flight[g].key] = g
          BY <1>1, <3>1, <3>4, <4>2, FlownType, Fields DEF Joined
        <5>2. flight[g].key # key
          BY <1>4, <5>1 DEF FlightIds
        <5> QED BY <3>2, <5>1, <5>2
      <4> QED BY <4>1, <4>2
    <3>5. Joined(fl, c)
      BY <3>3, <3>4 DEF Joined
    <3> QED BY <3>5 DEF fl, c
  <2>13. [current EXCEPT ![key] = f] \in [Keys -> FlightIds \cup {0}]
    BY <1>1
  <2>14. Good([flight EXCEPT ![f] = t], [current EXCEPT ![key] = f], active, startTimes, fetched)
    BY <1>1, <2>8, <2>9, <2>10, <2>11, <2>12, <2>13, Zenon DEF Good
  <2>15. Waiting(flight') # {} => Waiting(flight) # {}
    BY <1>1, <2>4, <2>6, PutWaiting
  <2>16. Good(flight', current', active', startTimes', fetched')
    BY <1>1, <2>4, <2>14
  <2>17. Timing' /\ GateDriven'
    BY <1>1, <2>15 DEF Inv, Timing, GateDriven
  <2> QED BY <2>16, <2>17 DEF GoodStep
<1> QED BY <1>3, <1>4

LEMMA RateTimerStep ==
  ASSUME Inv, RateTimer
  PROVE  GoodStep
<1>1. PICK S : S = Through(flight, active, startTimes)
  OBVIOUS
<1>2. Flown(flight) /\ active <= MaxConcurrent /\ Started(startTimes) /\ active \in Nat
  <2>1. Counted(flight, active) /\ Holders(flight) \in SUBSET FlightIds
    BY DEF Inv, Good, Holders
  <2> QED BY <2>1, Finite DEF Inv, Good, Counted
<1>3. /\ S \in SUBSET Waiting(flight) /\ Cardinality(S) \in Nat
      /\ active + Cardinality(S) <= MaxConcurrent
      /\ Cardinality(startTimes) + Cardinality(S) <= MaxStarts
  BY <1>1, <1>2, ThroughBounds
<1>4. /\ flight' = Let(flight, S) /\ active' = active + Cardinality(S)
      /\ startTimes' = startTimes \cup S /\ UNCHANGED <<current, fetched>>
      /\ rateTimer' = (Waiting(flight) # S /\ active + Cardinality(S) < MaxConcurrent)
  BY <1>1 DEF RateTimer, Let, Passed
<1>5. age' \in [FlightIds -> 0..Window]
  <2>1. age' = [f \in FlightIds |-> IF f \in S THEN 0 ELSE age[f]]
    BY <1>1 DEF RateTimer
  <2> QED BY <2>1, LimitsAssumption DEF Inv, Timing
<1>6. Good(flight, current, active, startTimes, fetched)
  BY DEF Inv
<1>7. Good(Let(flight, S), current, active + Cardinality(S), startTimes \cup S, fetched)
  BY <1>2, <1>3, <1>6, LetGood
<1>8. Waiting(flight') # {} => Waiting(flight) # S
  BY <1>4, LetWaiting
<1>9. active + Cardinality(S) < MaxConcurrent \/ active + Cardinality(S) = MaxConcurrent
  BY <1>2, <1>3, LimitsAssumption
<1>10. Timing' /\ GateDriven'
  BY <1>4, <1>5, <1>8, <1>9 DEF Timing, GateDriven
<1> QED BY <1>4, <1>7, <1>10 DEF GoodStep

LEMMA TickStep ==
  ASSUME Inv, Tick
  PROVE  GoodStep
<1>1. /\ Flown(flight) /\ Numbered(flight) /\ current \in [Keys -> FlightIds \cup {0}]
      /\ Joined(flight, current) /\ Counted(flight, active)
      /\ Started(startTimes) /\ Entered(flight, startTimes, fetched)
  BY DEF Inv, Good
<1>2. /\ UNCHANGED <<flight, current, active, rateTimer>>
      /\ startTimes' \in SUBSET startTimes /\ fetched' \in SUBSET fetched
      /\ fetched' \subseteq startTimes' /\ \A f \in FlightIds : flight[f].phase # "granted"
  BY <1>1 DEF Tick, Entered
<1>3. age' \in [FlightIds -> 0..Window]
  <2>1. age' = [f \in FlightIds |-> IF age[f] < Window THEN age[f] + 1 ELSE age[f]]
    BY DEF Tick
  <2> QED BY <2>1, LimitsAssumption DEF Inv, Timing
<1>4. Started(startTimes')
  BY <1>1, <1>2, StartedLess
<1>5. Entered(flight, startTimes', fetched')
  BY <1>1, <1>2 DEF Entered
<1>6. Good(flight, current, active, startTimes', fetched')
  BY <1>1, <1>4, <1>5, Zenon DEF Good
<1>7. Good(flight', current', active', startTimes', fetched')
  BY <1>2, <1>6
<1>8. Timing' /\ GateDriven'
  BY <1>2, <1>3 DEF Inv, Timing, GateDriven, Waiting
<1> QED BY <1>7, <1>8 DEF GoodStep

-----------------------------------------------------------------------------
(* The cache.                                                               *)

LEMMA CacheSame ==
  ASSUME CacheKept, cache' = cache
  PROVE  CacheKept'
BY DEF CacheKept, Cached, CacheBounded

LEMMA CacheExpires ==
  ASSUME CacheKept, NEW key \in Keys, FailureExpires(key)
  PROVE  CacheKept'
<1>1. cache' \in [Keys -> {"none", "success", "failure"}] /\ Cached' \in SUBSET Cached
  BY DEF CacheKept, Cached, FailureExpires
<1>2. PICK c : c = Cached'
  OBVIOUS
<1>3. IsFiniteSet(c) /\ Cardinality(c) <= Cardinality(Cached) /\ Cardinality(c) \in Nat
      /\ Cardinality(Cached) \in Nat /\ Cardinality(Cached) <= MaxCache
  BY <1>1, <1>2, FS_Subset, FS_CardinalityType DEF CacheKept, CacheBounded, Cached
<1>4. Cardinality(c) <= MaxCache
  BY <1>3, LimitsAssumption
<1> QED BY <1>1, <1>2, <1>3, <1>4 DEF CacheKept, CacheBounded, Cached

(* Room is made before the new entry comes in. *)
LEMMA RoomMade ==
  ASSUME NEW kept, IsFiniteSet(kept), NEW lost \in SUBSET kept,
         Cardinality(lost) = Excess(Cardinality(kept)), NEW c, NEW key,
         c = (kept \ lost) \cup {key}
  PROVE  IsFiniteSet(c) /\ Cardinality(c) <= MaxCache
<1>1. IsFiniteSet(lost) /\ Cardinality(lost) \in Nat /\ Cardinality(kept) \in Nat
  BY FS_Subset, FS_CardinalityType
<1>2. kept \cap lost = lost
  OBVIOUS
<1>3. IsFiniteSet(kept \ lost) /\ Cardinality(kept \ lost) = Cardinality(kept) - Cardinality(lost)
  BY <1>2, FS_Difference
<1>4. Cardinality(kept) - Cardinality(lost) < MaxCache
  BY <1>1, LimitsAssumption DEF Excess
<1>5. /\ IsFiniteSet((kept \ lost) \cup {key})
      /\ Cardinality((kept \ lost) \cup {key}) <= Cardinality(kept \ lost) + 1
  <2>1. Cardinality(kept \ lost) \in Nat
    BY <1>3, FS_CardinalityType
  <2>2. /\ IsFiniteSet((kept \ lost) \cup {key})
        /\ Cardinality((kept \ lost) \cup {key}) \in
             {Cardinality(kept \ lost), Cardinality(kept \ lost) + 1}
    BY <1>3, FS_AddElement
  <2> QED BY <2>1, <2>2
<1>6. Cardinality(kept) - Cardinality(lost) + 1 <= MaxCache
  BY <1>1, <1>4, LimitsAssumption
<1>7. IsFiniteSet(c)
  BY <1>5
<1>8. Cardinality(c) \in Nat /\ Cardinality(c) <= Cardinality(kept) - Cardinality(lost) + 1
  BY <1>3, <1>5, <1>7, FS_CardinalityType
<1> QED BY <1>1, <1>6, <1>7, <1>8, LimitsAssumption

LEMMA CacheWritten ==
  ASSUME Inv, NEW f \in FlightIds, Settle(f)
  PROVE  CacheKept'
<1>1. CacheKept /\ flight[f].key \in Keys /\ flight[f].outcome \in Outcomes
  BY FlownType, Fields DEF Inv, Good
<1>2. CASE flight[f].outcome = "none" \/ flight[f].abandoned
  BY <1>1, <1>2, CacheSame DEF Settle
<1>3. CASE ~(flight[f].outcome = "none" \/ flight[f].abandoned)
  <2>1. PICK key \in Keys : key = flight[f].key
    BY <1>1
  <2>2. PICK kept : kept = {k \in Keys : cache[k] # "none"} \ {key}
    OBVIOUS
  <2>3. PICK lost \in SUBSET kept :
          /\ Cardinality(lost) = Excess(Cardinality(kept))
          /\ cache' = [k \in Keys |-> IF k = key THEN flight[f].outcome
                                      ELSE IF k \in lost THEN "none" ELSE cache[k]]
    BY <1>3, <2>1, <2>2 DEF Settle
  <2>4. cache' \in [Keys -> {"none", "success", "failure"}]
    BY <1>1, <2>3 DEF CacheKept, Outcomes
  <2>5. Cached' = (kept \ lost) \cup {key}
    BY <1>1, <1>3, <2>1, <2>2, <2>3 DEF Cached, CacheKept
  <2>6. IsFiniteSet(kept)
    BY <1>1, <2>2, FS_RemoveElement DEF CacheKept, Cached
  <2>7. PICK c : c = Cached'
    OBVIOUS
  <2>8. IsFiniteSet(c) /\ Cardinality(c) <= MaxCache
    BY <2>3, <2>5, <2>6, <2>7, RoomMade
  <2> QED BY <2>4, <2>7, <2>8 DEF CacheKept, CacheBounded, Cached
<1> QED BY <1>2, <1>3

-----------------------------------------------------------------------------
(* What always holds.                                                       *)

LEMMA InvInit == Init => Inv
<1> SUFFICES ASSUME Init PROVE Inv
  OBVIOUS
<1>1. flight = [f \in FlightIds |-> NoFlight] /\ NoFlight \in Flights /\ Sound(NoFlight)
      /\ NoFlight.phase = "none" /\ ~NoFlight.holds /\ NoFlight.waiters = 0
  BY NoFlightType DEF Init, Sound, Using
<1>2. Flown(flight)
  BY <1>1 DEF Flown
<1>3. Numbered(flight)
  <2>1. \A f \in FlightIds : flight[f].phase # "none" <=> f <= 0
    BY <1>1 DEF FlightIds
  <2>2. 0 \in 0..MaxFlights
    BY LimitsAssumption
  <2> QED BY <2>1, <2>2 DEF Numbered
<1>4. current \in [Keys -> FlightIds \cup {0}] /\ Joined(flight, current)
  BY <1>1 DEF Init, Joined
<1>5. Counted(flight, active)
  <2>1. Holders(flight) = {}
    BY <1>1 DEF Holders
  <2>2. Cardinality(Holders(flight)) = 0
    BY <2>1, FS_EmptySet
  <2> QED BY <2>2, LimitsAssumption DEF Init, Counted
<1>6. Started(startTimes) /\ Entered(flight, startTimes, fetched)
  <2>1. Cardinality({}) = 0
    BY FS_EmptySet
  <2> QED BY <1>1, <2>1, LimitsAssumption DEF Init, Started, Entered
<1>7. Good(flight, current, active, startTimes, fetched)
  BY <1>2, <1>3, <1>4, <1>5, <1>6, Zenon DEF Good
<1>8. Timing
  <2>1. Window \in 0..Window
    BY LimitsAssumption
  <2> QED BY <2>1 DEF Init, Timing
<1>9. CacheKept
  <2>1. Cached = {} /\ cache \in [Keys -> {"none", "success", "failure"}]
    BY DEF Init, Cached
  <2>2. IsFiniteSet({}) /\ Cardinality({}) = 0
    BY FS_EmptySet
  <2> QED BY <2>1, <2>2, LimitsAssumption DEF CacheKept, CacheBounded, Cached
<1>10. GateDriven
  BY <1>1 DEF GateDriven, Waiting
<1> QED BY <1>7, <1>8, <1>9, <1>10 DEF Inv

LEMMA InvStep == Inv /\ [Next]_vars => Inv'
<1> SUFFICES ASSUME Inv, [Next]_vars PROVE Inv'
  OBVIOUS
<1>1. GoodStep /\ CacheKept' => Inv'
  BY DEF GoodStep, Inv
<1>2. CASE UNCHANGED vars
  BY <1>2 DEF vars, Inv, Timing, GateDriven, Waiting, CacheKept, Cached, CacheBounded
<1>3. CASE RateTimer
  BY <1>1, <1>3, RateTimerStep, CacheSame DEF RateTimer, Inv
<1>4. CASE Tick
  BY <1>1, <1>4, TickStep, CacheSame DEF Tick, Inv
<1>5. ASSUME NEW key \in Keys, FailureExpires(key) PROVE Inv'
  <2>1. CacheKept'
    BY <1>5, CacheExpires DEF Inv
  <2>2. UNCHANGED <<flight, current, active, startTimes, age, fetched, rateTimer>>
    BY <1>5 DEF FailureExpires
  <2>3. GoodStep
    BY <2>2 DEF GoodStep, Inv, Timing, GateDriven, Waiting
  <2> QED BY <1>1, <2>1, <2>3
<1>6. ASSUME NEW key \in Keys, NEW rank \in Ranks, Request(key, rank) PROVE Inv'
  BY <1>1, <1>6, RequestStep, CacheSame DEF Request, Inv
<1>7. ASSUME NEW f \in FlightIds, CancelWaiter(f) PROVE Inv'
  BY <1>1, <1>7, CancelStep, CacheSame DEF CancelWaiter, Inv
<1>8. ASSUME NEW f \in FlightIds, Authorized(f) PROVE Inv'
  BY <1>1, <1>8, AuthorizedStep, CacheSame DEF Authorized, Inv
<1>9. ASSUME NEW f \in FlightIds, NotAuthorized(f) \/ Fails(f) \/ Checked(f) PROVE Inv'
  BY <1>1, <1>9, OverStep, CacheSame DEF NotAuthorized, Fails, Checked, Inv
<1>10. ASSUME NEW f \in FlightIds, GatePassed(f) PROVE Inv'
  BY <1>1, <1>10, GatePassedStep, CacheSame DEF GatePassed, Inv
<1>11. ASSUME NEW f \in FlightIds, Responded(f) PROVE Inv'
  BY <1>1, <1>11, RespondedStep, CacheSame DEF Responded, Inv
<1>12. ASSUME NEW f \in FlightIds, Settle(f) PROVE Inv'
  BY <1>1, <1>12, SettleStep, CacheWritten
<1> QED BY <1>2, <1>3, <1>4, <1>5, <1>6, <1>7, <1>8, <1>9, <1>10, <1>11, <1>12
        DEF Next, Proceed

(* The invariant from which the others follow: every flight made is either  *)
(* on its way, with the transport and the start that belong to that, or     *)
(* over, and has nothing (execute, abort, settleFlight).                    *)
THEOREM Invariance == Spec => []Inv
BY InvInit, InvStep, PTL DEF Spec

(* Every variable keeps its type. *)
THEOREM TypesKept == Spec => []TypeOK
<1>1. Inv => TypeOK
  <2> SUFFICES ASSUME Inv PROVE TypeOK
    OBVIOUS
  <2>1. Holders(flight) \in SUBSET FlightIds /\ active = Cardinality(Holders(flight))
    BY DEF Inv, Good, Counted, Holders
  <2>2. active \in Nat
    BY <2>1, Finite
  <2>3. startTimes \in SUBSET FlightIds /\ fetched \in SUBSET FlightIds
    BY DEF Inv, Good, Started, Entered
  <2> QED BY <2>2, <2>3 DEF Inv, Good, Flown, Timing, CacheKept, TypeOK
<1> QED BY <1>1, Invariance, PTL

(* Transports, starts and cached answers keep to their limits: a transport  *)
(* is given back once, a start that was not used is taken back, and a full  *)
(* cache makes room (pumpTransportGate, release, writeCache).               *)
THEOREM WithinLimits == Spec => []LimitsKept
<1>1. Inv => LimitsKept
  <2> SUFFICES ASSUME Inv PROVE LimitsKept
    OBVIOUS
  <2>1. TransportsBounded
    <3>1. active = Cardinality({f \in FlightIds : flight[f].holds}) /\ active <= MaxConcurrent
      BY DEF Inv, Good, Counted, Holders
    <3>2. \A f \in FlightIds : Sound(flight[f])
      BY DEF Inv, Good, Flown
    <3> QED BY <3>1, <3>2 DEF TransportsBounded, Sound, Using
  <2>2. RateRespected
    <3>1. fetched \in SUBSET startTimes /\ Started(startTimes)
      BY DEF Inv, Good, Entered
    <3> QED BY <3>1, StartedLess DEF Started, RateRespected
  <2> QED BY <2>1, <2>2 DEF LimitsKept, Inv, CacheKept
<1> QED BY <1>1, Invariance, PTL

(* Whoever waits at the gate is let through by a transport that comes back, *)
(* or by the timer (scheduleRatePump).                                      *)
THEOREM NobodyStuckAtGate == Spec => []GateDriven
<1>1. Inv => GateDriven
  BY DEF Inv
<1> QED BY <1>1, Invariance, PTL

(* The flight with callers is the one that the next request of its key      *)
(* joins, whatever was abandoned or superseded (deleteFlightIdentity).      *)
THEOREM OneFlightPerKey == Spec => []SingleFlight
<1>1. Inv => SingleFlight
  <2> SUFFICES ASSUME Inv, NEW f \in Made, flight[f].waiters > 0
               PROVE  current[flight[f].key] = f /\ ~flight[f].abandoned
    BY DEF SingleFlight
  <2>1. f \in FlightIds /\ Flown(flight) /\ Joined(flight, current)
    BY DEF Made, Inv, Good
  <2> QED BY <2>1, FlownType DEF Joined, Sound
<1> QED BY <1>1, Invariance, PTL

=============================================================================
