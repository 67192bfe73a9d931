----------------------- MODULE StockActionWrapperProofs -----------------------
(* For any settings and any way of migrating them, writing migrated settings *)
(* back never sets off another write: the types of what is on its way, and  *)
(* the account of what the user's events entitle the wrapper to.  And a key *)
(* at rest shows the settings the host keeps for it: what is on its way is  *)
(* of the latest change, or an event that tells of the latest still waits.  *)
EXTENDS StockActionWrapper, FiniteSetTheorems, TLAPS

(* Settings that migration leaves as they are. *)
Migrated == {s \in Settings : Migrate[s] = s}

(* An event of the host's own tells of a write, and so of migrated settings.*)
Heralds == [kind : {"appear", "disappear", "settings"}, settings : Settings,
            own : BOOLEAN, version : Nat]
Events == {e \in Heralds : e.own => e.kind = "settings" /\ e.settings \in Migrated}

Readable == {s \in Settings : Migrate[s] # None}

Calls == [epoch : Nat, raw : Readable, version : Nat]

Writes == [epoch : Nat, version : Nat, settings : Migrated]

(* The calls that end in a write.                                           *)
ToWrite(c) == {d \in c : d.raw \notin Migrated}

(* What the host, the wrapper and their messages are made of: settings the  *)
(* plugin sends, or hears of as its own, have been migrated.                *)
TypeInv ==
  /\ host \in Settings
  /\ changes \in Nat /\ epoch \in Nat
  /\ events \in Seq(Events)
  /\ calls \in SUBSET Calls /\ IsFiniteSet(calls)
  /\ tail \in Seq(Writes) /\ toHost \in Seq(Writes)
  /\ writes \in Nat /\ heard \in Nat

(* An event of the user pays for one write, which is asked for by a call,   *)
(* waits in the queue or has begun.                                         *)
Account == Cardinality(ToWrite(calls)) + Len(tail) + writes <= heard

Inv == TypeInv /\ Account

-----------------------------------------------------------------------------
(* Sequences and sets.                                                      *)

LEMMA AppendType ==
  ASSUME NEW S, NEW s \in Seq(S), NEW e \in S
  PROVE  Append(s, e) \in Seq(S) /\ Len(Append(s, e)) = Len(s) + 1
OBVIOUS

LEMMA TailType ==
  ASSUME NEW S, NEW s \in Seq(S), s # << >>
  PROVE  /\ Head(s) \in S /\ Tail(s) \in Seq(S)
         /\ Len(s) \in Nat /\ Len(s) >= 1 /\ Len(Tail(s)) = Len(s) - 1
OBVIOUS

LEMMA FrontType ==
  ASSUME NEW S, NEW s \in Seq(S), s # << >>
  PROVE  Front(s) \in Seq(S)
BY DEF Front

(* A new call adds at most itself, and nothing if what it was given has     *)
(* been migrated; a call that returns takes itself away.                    *)
LEMMA CallAdded ==
  ASSUME NEW c, IsFiniteSet(c), NEW d
  PROVE  /\ IsFiniteSet(c \cup {d})
         /\ Cardinality(ToWrite(c)) \in Nat
         /\ Cardinality(ToWrite(c \cup {d})) \in Nat
         /\ Cardinality(ToWrite(c \cup {d})) <= Cardinality(ToWrite(c)) + 1
         /\ d.raw \in Migrated =>
              Cardinality(ToWrite(c \cup {d})) = Cardinality(ToWrite(c))
<1>1. IsFiniteSet(ToWrite(c)) /\ Cardinality(ToWrite(c)) \in Nat
  BY FS_Subset, FS_CardinalityType DEF ToWrite
<1>2. IsFiniteSet(c \cup {d})
  BY FS_AddElement
<1>3. CASE d.raw \in Migrated
  <2>1. ToWrite(c \cup {d}) = ToWrite(c)
    BY <1>3 DEF ToWrite
  <2>2. Cardinality(ToWrite(c \cup {d})) = Cardinality(ToWrite(c))
    BY <2>1
  <2>3. Cardinality(ToWrite(c \cup {d})) <= Cardinality(ToWrite(c)) + 1
    BY <1>1, <2>2
  <2>4. Cardinality(ToWrite(c \cup {d})) \in Nat
    BY <1>1, <2>2
  <2> QED BY <1>1, <1>2, <2>2, <2>3, <2>4, Zenon
<1>4. CASE d.raw \notin Migrated
  <2>1. ToWrite(c \cup {d}) = ToWrite(c) \cup {d}
    BY <1>4 DEF ToWrite
  <2>2. Cardinality(ToWrite(c) \cup {d}) \in
          {Cardinality(ToWrite(c)), Cardinality(ToWrite(c)) + 1}
    BY <1>1, FS_AddElement
  <2>3. /\ Cardinality(ToWrite(c \cup {d})) \in Nat
        /\ Cardinality(ToWrite(c \cup {d})) <= Cardinality(ToWrite(c)) + 1
    <3>1. Cardinality(ToWrite(c \cup {d})) = Cardinality(ToWrite(c) \cup {d})
      BY <2>1
    <3> QED BY <1>1, <2>2, <3>1
  <2> QED BY <1>1, <1>2, <1>4, <2>3, Zenon
<1> QED BY <1>3, <1>4

LEMMA CallTaken ==
  ASSUME NEW c, IsFiniteSet(c), NEW d \in c
  PROVE  /\ IsFiniteSet(c \ {d})
         /\ Cardinality(ToWrite(c)) \in Nat
         /\ Cardinality(ToWrite(c \ {d})) \in Nat
         /\ Cardinality(ToWrite(c \ {d})) <= Cardinality(ToWrite(c))
         /\ d.raw \notin Migrated =>
              Cardinality(ToWrite(c \ {d})) + 1 = Cardinality(ToWrite(c))
<1>1. IsFiniteSet(ToWrite(c)) /\ Cardinality(ToWrite(c)) \in Nat
  BY FS_Subset, FS_CardinalityType DEF ToWrite
<1>2. IsFiniteSet(c \ {d})
  BY FS_RemoveElement
<1>3. CASE d.raw \in Migrated
  <2>1. ToWrite(c \ {d}) = ToWrite(c)
    BY <1>3 DEF ToWrite
  <2>2. Cardinality(ToWrite(c \ {d})) = Cardinality(ToWrite(c))
    BY <2>1
  <2>3. Cardinality(ToWrite(c \ {d})) <= Cardinality(ToWrite(c))
    BY <1>1, <2>2
  <2>4. Cardinality(ToWrite(c \ {d})) \in Nat
    BY <1>1, <2>2
  <2> QED BY <1>1, <1>2, <1>3, <2>3, <2>4, Zenon
<1>4. CASE d.raw \notin Migrated
  <2>1. ToWrite(c \ {d}) = ToWrite(c) \ {d} /\ d \in ToWrite(c)
    BY <1>4 DEF ToWrite
  <2>2. /\ IsFiniteSet(ToWrite(c) \ {d})
        /\ Cardinality(ToWrite(c) \ {d}) = Cardinality(ToWrite(c)) - 1
    BY <1>1, <2>1, FS_RemoveElement
  <2>3. Cardinality(ToWrite(c) \ {d}) \in Nat
    BY <2>2, FS_CardinalityType
  <2>4. Cardinality(ToWrite(c \ {d})) = Cardinality(ToWrite(c) \ {d})
    BY <2>1
  <2>5. /\ Cardinality(ToWrite(c \ {d})) \in Nat
        /\ Cardinality(ToWrite(c \ {d})) <= Cardinality(ToWrite(c))
        /\ Cardinality(ToWrite(c \ {d})) + 1 = Cardinality(ToWrite(c))
    BY <1>1, <2>2, <2>3, <2>4
  <2> QED BY <1>1, <1>2, <2>5, Zenon
<1> QED BY <1>3, <1>4

-----------------------------------------------------------------------------
(* Events.                                                                  *)

LEMMA HappensType ==
  ASSUME TypeInv, NEW kind \in {"appear", "disappear", "settings"},
         NEW settings \in Settings, NEW own \in BOOLEAN, NEW version \in Nat,
         own => kind = "settings" /\ settings \in Migrated,
         Happens(kind, settings, own, version)
  PROVE  events' \in Seq(Events)
<1>1. [kind |-> kind, settings |-> settings, own |-> own, version |-> version] \in Events
  BY DEF Events, Heralds
<1> QED BY <1>1, AppendType DEF TypeInv, Happens

LEMMA HearsType ==
  ASSUME TypeInv, NEW kind, Hears(kind)
  PROVE  events' \in Seq(Events) /\ Head(events) \in Events /\ Head(events).kind = kind
BY TailType DEF TypeInv, Hears

LEMMA HeardType ==
  ASSUME TypeInv, OfUser, Head(events) \in Events
  PROVE  /\ heard' \in Nat /\ heard' >= heard
         /\ ~Head(events).own => heard' = heard + 1
BY DEF TypeInv, OfUser, Events, Heralds

(* Whoever the event is of, the account is kept: only the user's ask for a  *)
(* write.                                                                   *)
LEMMA TakesStep ==
  ASSUME Inv, NEW kind, Hears(kind), Takes
  PROVE  Inv'
<1>1. /\ events' \in Seq(Events) /\ Head(events) \in Events
  BY HearsType DEF Inv
<1>2. /\ heard' \in Nat /\ heard' >= heard
      /\ ~Head(events).own => heard' = heard + 1
  BY <1>1, HeardType DEF Inv, Takes
<1>3. epoch' \in Nat
  BY DEF Inv, TypeInv, Takes, Advance
<1>4. UNCHANGED <<host, changes, tail, toHost, writes>>
  BY DEF Takes, user
<1>5. Len(tail) \in Nat
  BY DEF Inv, TypeInv
<1> DEFINE c == [epoch |-> epoch', raw |-> Head(events).settings,
                 version |-> Head(events).version]
<1>6. CASE Migrate[Head(events).settings] = None
  <2>1. calls' = calls
    BY <1>6 DEF Takes, Delegate
  <2>2. TypeInv'
    BY <1>1, <1>2, <1>3, <1>4, <2>1 DEF Inv, TypeInv
  <2>3. Cardinality(ToWrite(calls)) \in Nat
    BY CallAdded DEF Inv, TypeInv
  <2> QED
    BY <1>2, <1>4, <1>5, <2>1, <2>2, <2>3 DEF Inv, TypeInv, Account
<1>7. CASE Migrate[Head(events).settings] # None
  <2>1. calls' = calls \cup {c}
    BY <1>7 DEF Takes, Delegate
  <2>2. c \in Calls
    BY <1>1, <1>3, <1>7 DEF Calls, Readable, Events, Heralds
  <2> HIDE DEF c
  <2>3. /\ IsFiniteSet(calls \cup {c})
        /\ Cardinality(ToWrite(calls)) \in Nat
        /\ Cardinality(ToWrite(calls \cup {c})) \in Nat
        /\ Cardinality(ToWrite(calls \cup {c})) <= Cardinality(ToWrite(calls)) + 1
        /\ c.raw \in Migrated =>
             Cardinality(ToWrite(calls \cup {c})) = Cardinality(ToWrite(calls))
    BY CallAdded DEF Inv, TypeInv
  <2>4. Head(events).own => c.raw \in Migrated
    BY <1>1 DEF Events, c
  <2>5. TypeInv'
    BY <1>1, <1>2, <1>3, <1>4, <2>1, <2>2, <2>3 DEF Inv, TypeInv
  <2>6. Account'
    <3>1. Cardinality(ToWrite(calls)) + Len(tail) + writes <= heard
      BY DEF Inv, Account
    <3>2. Cardinality(ToWrite(calls')) = Cardinality(ToWrite(calls \cup {c}))
      BY <2>1
    <3>3. Len(tail') = Len(tail) /\ writes' = writes
      BY <1>4
    <3>4. writes \in Nat /\ heard \in Nat
      BY DEF Inv, TypeInv
    <3>5. CASE Head(events).own
      BY <1>2, <1>5, <2>3, <2>4, <3>1, <3>2, <3>3, <3>4, <3>5 DEF Account, ToWrite
    <3>6. CASE ~Head(events).own
      BY <1>2, <1>5, <2>3, <3>1, <3>2, <3>3, <3>4, <3>6 DEF Account, ToWrite
    <3> QED BY <3>5, <3>6
  <2> QED BY <2>5, <2>6 DEF Inv
<1> QED BY <1>6, <1>7

(* A step that touches neither calls nor queue nor writes.                  *)
LEMMA AccountKept ==
  ASSUME Inv, UNCHANGED <<calls, tail, writes>>, heard' \in Nat, heard' >= heard
  PROVE  Account'
<1>1. Cardinality(ToWrite(calls)) \in Nat
  BY CallAdded DEF Inv, TypeInv
<1> QED BY <1>1 DEF Inv, TypeInv, Account, ToWrite

-----------------------------------------------------------------------------
(* The steps.                                                               *)

LEMMA InvInit == Init => Inv
<1> SUFFICES ASSUME Init PROVE Inv
  OBVIOUS
<1>1. IsFiniteSet({}) /\ Cardinality({}) = 0
  BY FS_EmptySet
<1>2. ToWrite(calls) = {}
  BY DEF Init, ToWrite
<1>3. tail = << >> /\ Len(tail) = 0 /\ writes = 0 /\ heard = 0 /\ calls = {}
  BY DEF Init
<1>4. Account
  BY <1>1, <1>2, <1>3 DEF Account
<1>5. TypeInv
  BY <1>1 DEF Init, TypeInv
<1> QED BY <1>4, <1>5 DEF Inv

LEMMA UserStep ==
  ASSUME Inv, WillAppearOrDisappear \/ (\E s \in Settings : UserSets(s)) \/ HostStores
  PROVE  Inv'
<1>1. CASE WillAppearOrDisappear
  <2>1. events' \in Seq(Events)
    BY <1>1, HappensType DEF WillAppearOrDisappear, Inv, TypeInv
  <2> QED BY <1>1, <2>1, AccountKept
    DEF WillAppearOrDisappear, Inv, TypeInv, wrapper, history
<1>2. ASSUME NEW s \in Settings, UserSets(s) PROVE Inv'
  <2>1. changes' \in Nat /\ host' \in Settings
    BY <1>2 DEF UserSets, Inv, TypeInv
  <2>2. events' \in Seq(Events)
    <3>1. changes + 1 \in Nat /\ events \in Seq(Events)
      BY DEF Inv, TypeInv
    <3>2. [kind |-> "settings", settings |-> s, own |-> FALSE, version |-> changes + 1]
            \in Events
      BY <3>1 DEF Events, Heralds
    <3>3. events' = Append(events, [kind |-> "settings", settings |-> s, own |-> FALSE,
                                    version |-> changes + 1])
      BY <1>2 DEF UserSets, Happens
    <3> QED BY <3>1, <3>2, <3>3, AppendType
  <2> QED BY <1>2, <2>1, <2>2, AccountKept
    DEF UserSets, Inv, TypeInv, wrapper, history
<1>3. CASE HostStores
  <2>1. Head(toHost) \in Writes /\ toHost' \in Seq(Writes)
    BY <1>3, TailType DEF HostStores, Inv, TypeInv
  <2>2. Head(toHost).settings \in Migrated /\ Head(toHost).settings \in Settings
    BY <2>1 DEF Writes, Migrated
  <2>3. CASE UNCHANGED events
    BY <1>3, <2>1, <2>2, <2>3, AccountKept
      DEF HostStores, Inv, TypeInv, wrapper
  <2>4. CASE Happens("settings", Head(toHost).settings, TRUE, changes)
    <3> DEFINE s == Head(toHost).settings
    <3> HIDE DEF s
    <3>0. s \in Migrated /\ s \in Settings /\ Happens("settings", s, TRUE, changes)
      BY <2>2, <2>4 DEF s
    <3>1. events' \in Seq(Events)
      BY <3>0, HappensType DEF Inv, TypeInv
    <3> QED BY <1>3, <2>1, <2>2, <3>1, AccountKept
      DEF HostStores, Inv, TypeInv, wrapper
  <2> QED BY <1>3, <2>3, <2>4 DEF HostStores
<1> QED BY <1>1, <1>2, <1>3

LEMMA EventStep ==
  ASSUME Inv, Appear \/ Disappear \/ SettingsConsumed \/ SettingsIgnored \/ SettingsChanged
  PROVE  Inv'
<1>1. CASE Appear
  BY <1>1, TakesStep DEF Appear
<1>2. CASE SettingsChanged
  BY <1>2, TakesStep DEF SettingsChanged
<1>3. CASE Disappear
  <2>1. events' \in Seq(Events)
    BY <1>3, HearsType DEF Disappear, Inv
  <2>2. epoch' \in Nat
    BY <1>3 DEF Disappear, Advance, Inv, TypeInv
  <2> QED BY <1>3, <2>1, <2>2, AccountKept
    DEF Disappear, Inv, TypeInv, user, history
<1>4. CASE SettingsConsumed \/ SettingsIgnored
  <2>1. events' \in Seq(Events) /\ Head(events) \in Events
    BY <1>4, HearsType DEF SettingsConsumed, SettingsIgnored, Inv
  <2>2. heard' \in Nat /\ heard' >= heard
    BY <1>4, <2>1, HeardType DEF SettingsConsumed, SettingsIgnored, Inv
  <2> QED BY <1>4, <2>1, <2>2, AccountKept
    DEF SettingsConsumed, SettingsIgnored, Inv, TypeInv, user, wrapper
<1> QED BY <1>1, <1>2, <1>3, <1>4

(* What a call asked for moves to the queue.                                *)
LEMMA ReturnStep ==
  ASSUME Inv, NEW call \in calls, CallReturns(call)
  PROVE  Inv'
<1>1. /\ IsFiniteSet(calls \ {call})
      /\ Cardinality(ToWrite(calls)) \in Nat
      /\ Cardinality(ToWrite(calls \ {call})) \in Nat
      /\ Cardinality(ToWrite(calls \ {call})) <= Cardinality(ToWrite(calls))
      /\ call.raw \notin Migrated =>
           Cardinality(ToWrite(calls \ {call})) + 1 = Cardinality(ToWrite(calls))
  BY CallTaken DEF Inv, TypeInv
<1>2. call \in Calls /\ calls' = calls \ {call}
  BY DEF CallReturns, Inv, TypeInv
<1>3. UNCHANGED <<host, changes, events, epoch, toHost, writes, heard>>
  BY DEF CallReturns, user, history
<1>4. Migrate[call.raw] \in Migrated
  BY <1>2, MigrateAssumption DEF Calls, Readable, Migrated
<1>5. \/ tail' = tail
      \/ call.raw \notin Migrated /\ tail' = Append(tail, WriteOf(call))
  BY <1>2 DEF CallReturns, SchedulePersistence, Migrated, Calls, Readable
<1>6. WriteOf(call) \in Writes
  BY <1>2, <1>4 DEF WriteOf, Writes, Calls
<1>7. /\ tail' \in Seq(Writes) /\ Len(tail) \in Nat
      /\ \/ Len(tail') = Len(tail)
         \/ call.raw \notin Migrated /\ Len(tail') = Len(tail) + 1
  <2>1. tail \in Seq(Writes)
    BY DEF Inv, TypeInv
  <2>2. Len(tail) \in Nat
    BY <2>1
  <2>3. CASE tail' = tail
    BY <2>1, <2>2, <2>3
  <2>4. CASE call.raw \notin Migrated /\ tail' = Append(tail, WriteOf(call))
    BY <1>6, <2>1, <2>2, <2>4, AppendType
  <2> QED BY <1>5, <2>3, <2>4
<1>8. TypeInv'
  BY <1>1, <1>2, <1>3, <1>7 DEF Inv, TypeInv
<1>9. Account'
  <2>1. Cardinality(ToWrite(calls')) = Cardinality(ToWrite(calls \ {call}))
    BY <1>2
  <2>2. writes \in Nat /\ heard \in Nat
        /\ Cardinality(ToWrite(calls)) + Len(tail) + writes <= heard
    BY DEF Inv, TypeInv, Account
  <2>3. Cardinality(ToWrite(calls')) + Len(tail') + writes' <= heard'
    BY <1>1, <1>3, <1>7, <2>1, <2>2
  <2> QED BY <2>3 DEF Account, ToWrite
<1> QED BY <1>8, <1>9 DEF Inv

LEMMA WriteStep ==
  ASSUME Inv, BeginWrite \/ WriteSettles \/ WriteFails
  PROVE  Inv'
<1>1. CASE BeginWrite
  <2>1. /\ Head(tail) \in Writes /\ tail' \in Seq(Writes)
        /\ Len(tail) \in Nat /\ Len(tail) >= 1 /\ Len(tail') = Len(tail) - 1
    BY <1>1, TailType DEF BeginWrite, Inv, TypeInv
  <2>2. toHost' \in Seq(Writes)
    BY <1>1, <2>1, AppendType DEF BeginWrite, Inv, TypeInv
  <2>3. writes' \in Nat /\ writes' <= writes + 1
    BY <1>1 DEF BeginWrite, Inv, TypeInv
  <2>4. UNCHANGED <<host, changes, events, epoch, calls, heard>>
    BY <1>1 DEF BeginWrite, user
  <2>5. TypeInv'
    BY <2>1, <2>2, <2>3, <2>4 DEF Inv, TypeInv
  <2>6. Cardinality(ToWrite(calls)) \in Nat /\ writes \in Nat /\ heard \in Nat
        /\ Cardinality(ToWrite(calls)) + Len(tail) + writes <= heard
    BY CallAdded DEF Inv, TypeInv, Account
  <2>7. Cardinality(ToWrite(calls)) + Len(tail') + writes' <= heard'
    BY <2>1, <2>3, <2>4, <2>6
  <2> QED BY <2>4, <2>5, <2>7 DEF Inv, Account, ToWrite
<1>2. CASE WriteSettles
  BY <1>2, AccountKept DEF WriteSettles, Settle, Inv, TypeInv, user, history
<1>3. CASE WriteFails
  <2>1. toHost' \in Seq(Writes)
    BY <1>3, FrontType DEF WriteFails, Inv, TypeInv
  <2> QED BY <1>3, <2>1, AccountKept DEF WriteFails, Settle, Inv, TypeInv, user, history
<1> QED BY <1>1, <1>2, <1>3

LEMMA InvStep == Inv /\ [Next]_vars => Inv'
<1> SUFFICES ASSUME Inv, [Next]_vars PROVE Inv'
  OBVIOUS
<1>1. CASE UNCHANGED vars
  BY <1>1, AccountKept DEF vars, user, wrapper, history, Inv, TypeInv
<1>2. CASE Next
  BY <1>2, UserStep, EventStep, ReturnStep, WriteStep DEF Next
<1> QED BY <1>1, <1>2

(* Every event of the user is migrated once at most, and what the wrapper   *)
(* writes and hears of again is never migrated a second time                *)
(* (schedulePersistence, consumeInternalWrite).                             *)
THEOREM Accounted == Spec => []Inv
BY InvInit, InvStep, PTL DEF Spec

(* However many echoes of its writes the wrapper fails to recognise, it     *)
(* never writes more often than the user's events call for.                 *)
THEOREM WritesEnd == Spec => []NoWriteLoop
<1>1. Inv => NoWriteLoop
  <2> SUFFICES ASSUME Inv PROVE NoWriteLoop
    OBVIOUS
  <2>1. Cardinality(ToWrite(calls)) \in Nat
    BY CallAdded DEF Inv, TypeInv
  <2>2. Len(tail) \in Nat
    BY DEF Inv, TypeInv
  <2> QED BY <2>1, <2>2 DEF Inv, TypeInv, Account, NoWriteLoop
<1> QED BY <1>1, Accounted, PTL

-----------------------------------------------------------------------------
(* What the key shows.                                                      *)

(* What is of a change by the user is not of one to come, and what is of the*)
(* latest has the settings the host keeps, migrated or to be, unless a write*)
(* came between.                                                            *)
Fits(version, settings) ==
  /\ version <= changes
  /\ ~overtaken /\ version = changes => Migrate[settings] = Migrate[host]

FitEvents == {e \in Events : Fits(e.version, e.settings)}
FitCalls == {c \in Calls : Fits(c.version, c.raw)}
FitWrites == {w \in Writes : Fits(w.version, w.settings)}

(* In a queue, the user's event of version v comes after all older ones.    *)
Ahead(s, v) ==
  \A i \in 1..Len(s) : s[i].version < v =>
    \E j \in i+1..Len(s) : ~s[j].own /\ s[j].version = v
Waits(s, v) == \E i \in 1..Len(s) : ~s[i].own /\ s[i].version = v

(* The settings given are those the host keeps, or the event that tells of  *)
(* them waits.                                                              *)
UpToDate ==
  active /\ appeared /\ ~overtaken /\ ~swallowed /\ Migrate[host] # None =>
    given = Migrate[host] \/ Waits(events, changes)

(* A key whose appearance could be read has a record in the controller.     *)
Known == appeared => given # None

ShownInv ==
  /\ events \in Seq(FitEvents)
  /\ calls \subseteq FitCalls
  /\ tail \in Seq(FitWrites) /\ toHost \in Seq(FitWrites)
  /\ overtaken \in BOOLEAN /\ swallowed \in BOOLEAN
  /\ marker # << >> => marker = writing
  /\ Ahead(events, changes)
  /\ UpToDate
  /\ Known

LEMMA WiderSeq ==
  ASSUME NEW S, NEW T, S \subseteq T, NEW s \in Seq(S)
  PROVE  s \in Seq(T)
<1>1. /\ Len(s) \in Nat /\ s \in [1..Len(s) -> S]
  OBVIOUS
<1>2. s \in [1..Len(s) -> T]
  BY <1>1
<1> QED BY <1>1, <1>2

LEMMA AheadTail ==
  ASSUME NEW S, NEW s \in Seq(S), s # << >>, NEW v, Ahead(s, v)
  PROVE  /\ Ahead(Tail(s), v)
         /\ Waits(s, v) => Waits(Tail(s), v) \/ (~Head(s).own /\ Head(s).version = v)
         /\ Head(s).version < v => Waits(Tail(s), v)
<1>1. /\ Len(s) \in Nat /\ Len(s) >= 1 /\ Len(Tail(s)) = Len(s) - 1
      /\ Head(s) = s[1] /\ \A i \in 1..Len(s)-1 : Tail(s)[i] = s[i+1]
  OBVIOUS
<1>2. Ahead(Tail(s), v)
  <2>1. SUFFICES ASSUME NEW i \in 1..Len(Tail(s)), Tail(s)[i].version < v
                 PROVE  \E j \in i+1..Len(Tail(s)) :
                          ~Tail(s)[j].own /\ Tail(s)[j].version = v
    BY DEF Ahead
  <2>2. i + 1 \in 1..Len(s) /\ s[i+1].version < v
    BY <1>1, <2>1
  <2>3. PICK j \in (i+1)+1..Len(s) : ~s[j].own /\ s[j].version = v
    BY <2>2 DEF Ahead
  <2>4. j - 1 \in i+1..Len(Tail(s)) /\ Tail(s)[j-1] = s[j]
    BY <1>1, <2>1, <2>3
  <2> QED BY <2>3, <2>4
<1>3. ASSUME Waits(s, v), ~(~Head(s).own /\ Head(s).version = v)
      PROVE  Waits(Tail(s), v)
  <2>1. PICK i \in 1..Len(s) : ~s[i].own /\ s[i].version = v
    BY <1>3 DEF Waits
  <2>2. i # 1
    BY <1>1, <1>3, <2>1
  <2>3. i - 1 \in 1..Len(Tail(s)) /\ Tail(s)[i-1] = s[i]
    BY <1>1, <2>2
  <2> QED BY <2>1, <2>3 DEF Waits
<1>4. ASSUME Head(s).version < v PROVE Waits(Tail(s), v)
  <2>1. 1 \in 1..Len(s) /\ s[1].version < v
    BY <1>1, <1>4
  <2>2. PICK j \in 1+1..Len(s) : ~s[j].own /\ s[j].version = v
    BY <2>1 DEF Ahead
  <2>3. j - 1 \in 1..Len(Tail(s)) /\ Tail(s)[j-1] = s[j]
    BY <1>1, <2>2
  <2> QED BY <2>2, <2>3 DEF Waits
<1> QED BY <1>2, <1>3, <1>4

LEMMA AheadAppend ==
  ASSUME NEW S, NEW s \in Seq(S), NEW v \in Nat, NEW e \in S, e.version = v
  PROVE  /\ Ahead(s, v) => Ahead(Append(s, e), v)
         /\ Waits(s, v) => Waits(Append(s, e), v)
         /\ ~e.own => Ahead(Append(s, e), v) /\ Waits(Append(s, e), v)
<1> DEFINE t == Append(s, e)
<1>1. /\ Len(s) \in Nat /\ Len(t) = Len(s) + 1 /\ t[Len(s) + 1] = e
      /\ \A i \in 1..Len(s) : t[i] = s[i]
  OBVIOUS
<1> HIDE DEF t
<1>2. ~(v < v)
  OBVIOUS
<1>3. ASSUME Ahead(s, v) PROVE Ahead(t, v)
  <2>1. SUFFICES ASSUME NEW i \in 1..Len(t), t[i].version < v
                 PROVE  \E j \in i+1..Len(t) : ~t[j].own /\ t[j].version = v
    BY DEF Ahead
  <2>2. i \in 1..Len(s)
    BY <1>1, <1>2, <2>1
  <2>3. PICK j \in i+1..Len(s) : ~s[j].own /\ s[j].version = v
    BY <1>1, <1>3, <2>1, <2>2 DEF Ahead
  <2>4. j \in 1..Len(s) /\ j \in i+1..Len(t)
    BY <1>1, <2>2, <2>3
  <2> QED BY <1>1, <2>3, <2>4
<1>4. ASSUME Waits(s, v) PROVE Waits(t, v)
  <2>1. PICK i \in 1..Len(s) : ~s[i].own /\ s[i].version = v
    BY <1>4 DEF Waits
  <2>2. i \in 1..Len(t) /\ t[i] = s[i]
    BY <1>1
  <2> QED BY <2>1, <2>2 DEF Waits
<1>5. ASSUME ~e.own PROVE Ahead(t, v) /\ Waits(t, v)
  <2>1. Len(t) \in 1..Len(t) /\ t[Len(t)] = e
    BY <1>1
  <2>2. Waits(t, v)
    BY <1>5, <2>1 DEF Waits
  <2>3. SUFFICES ASSUME NEW i \in 1..Len(t), t[i].version < v
                 PROVE  \E j \in i+1..Len(t) : ~t[j].own /\ t[j].version = v
    BY <2>2 DEF Ahead
  <2>4. i # Len(t)
    BY <1>2, <2>1, <2>3
  <2>5. Len(t) \in i+1..Len(t)
    BY <1>1, <2>4
  <2> QED BY <1>5, <2>1, <2>5
<1> QED BY <1>3, <1>4, <1>5 DEF t

(* What fits now fits after the step. *)
Lasts == \A v \in Nat, s \in Settings : Fits(v, s) => Fits(v, s)'

LEMMA QueuesKept ==
  ASSUME TypeInv, ShownInv, Lasts
  PROVE  /\ FitEvents \subseteq FitEvents' /\ FitCalls \subseteq FitCalls'
         /\ FitWrites \subseteq FitWrites'
         /\ events \in Seq(FitEvents') /\ calls \subseteq FitCalls'
         /\ tail \in Seq(FitWrites') /\ toHost \in Seq(FitWrites')
<1>1. FitEvents \subseteq FitEvents'
  BY DEF Lasts, FitEvents, Events, Heralds
<1>2. FitCalls \subseteq FitCalls'
  BY DEF Lasts, FitCalls, Calls, Readable
<1>3. FitWrites \subseteq FitWrites'
  BY DEF Lasts, FitWrites, Writes, Migrated
<1>4. events \in Seq(FitEvents')
  BY <1>1, WiderSeq DEF ShownInv
<1>5. tail \in Seq(FitWrites') /\ toHost \in Seq(FitWrites')
  BY <1>3, WiderSeq DEF ShownInv
<1> QED BY <1>1, <1>2, <1>3, <1>4, <1>5 DEF ShownInv

LEMMA LastsSame ==
  ASSUME UNCHANGED <<changes, overtaken, host>>
  PROVE  Lasts
BY DEF Lasts, Fits

(* A step that does not touch what the button shows nor the events.         *)
LEMMA ShownKept ==
  ASSUME TypeInv, ShownInv, Lasts, UNCHANGED <<events, changes, host, active, given, appeared>>,
         overtaken' \in BOOLEAN, overtaken => overtaken', UNCHANGED swallowed,
         calls' \subseteq FitCalls', tail' \in Seq(FitWrites'), toHost' \in Seq(FitWrites'),
         marker' # << >> => marker' = writing'
  PROVE  ShownInv'
<1>1. events' \in Seq(FitEvents')
  BY QueuesKept
<1>2. Ahead(events', changes')
  BY DEF ShownInv
<1>3. UpToDate' /\ Known'
  BY DEF ShownInv, UpToDate, Known
<1> QED BY <1>1, <1>2, <1>3 DEF ShownInv

LEMMA ShownInit == Init => ShownInv
<1> SUFFICES ASSUME Init PROVE ShownInv
  OBVIOUS
<1>1. events = << >> /\ tail = << >> /\ toHost = << >> /\ calls = {} /\ marker = << >>
      /\ active = FALSE /\ appeared = FALSE /\ overtaken = FALSE /\ swallowed = FALSE
  BY DEF Init
<1>2. Ahead(events, changes)
  BY <1>1 DEF Ahead
<1>3. << >> \in Seq(FitEvents) /\ << >> \in Seq(FitWrites)
  OBVIOUS
<1>4. UpToDate /\ Known
  BY <1>1 DEF UpToDate, Known
<1>5. events \in Seq(FitEvents) /\ tail \in Seq(FitWrites) /\ toHost \in Seq(FitWrites)
  BY <1>1, <1>3
<1> QED BY <1>1, <1>2, <1>4, <1>5 DEF ShownInv

(* An event of the present version is added. *)
LEMMA HappensShown ==
  ASSUME TypeInv, ShownInv, Lasts, NEW kind \in {"appear", "disappear", "settings"},
         NEW settings \in Settings, NEW own \in BOOLEAN,
         own => kind = "settings" /\ settings \in Migrated,
         changes' \in Nat, Fits(changes, settings)',
         Happens(kind, settings, own, changes'),
         ~own \/ changes' = changes
  PROVE  /\ events' \in Seq(FitEvents') /\ Ahead(events', changes')
         /\ ~own \/ (Waits(events, changes) => Waits(events', changes'))
         /\ ~own => Waits(events', changes')
<1> DEFINE e == [kind |-> kind, settings |-> settings, own |-> own, version |-> changes']
<1>1. /\ e \in Events /\ e.version = changes' /\ e.settings = settings /\ e.own = own
  BY DEF Events, Heralds
<1>2. events' = Append(events, e)
  BY DEF Happens
<1> HIDE DEF e
<1>3. e \in FitEvents'
  BY <1>1 DEF FitEvents
<1>4. events \in Seq(FitEvents')
  BY QueuesKept
<1>5. /\ Ahead(events, changes') => Ahead(Append(events, e), changes')
      /\ Waits(events, changes') => Waits(Append(events, e), changes')
      /\ ~e.own => Ahead(Append(events, e), changes') /\ Waits(Append(events, e), changes')
  BY <1>1, <1>3, <1>4, AheadAppend
<1>6. events' \in Seq(FitEvents')
  BY <1>2, <1>3, <1>4, AppendType
<1> QED BY <1>1, <1>2, <1>5, <1>6 DEF ShownInv

LEMMA UserShown ==
  ASSUME TypeInv, ShownInv,
         WillAppearOrDisappear \/ (\E s \in Settings : UserSets(s)) \/ HostStores
  PROVE  ShownInv'
<1>1. CASE WillAppearOrDisappear
  <2>1. UNCHANGED <<host, changes, overtaken, active, given, appeared, swallowed, calls, tail, toHost,
                    marker, writing>>
    BY <1>1 DEF WillAppearOrDisappear, wrapper, history
  <2>2. Lasts
    BY <2>1, LastsSame
  <2>0. PICK s \in Settings : s = host
    BY DEF TypeInv
  <2>3. PICK kind \in {"appear", "disappear"} : Happens(kind, s, FALSE, changes')
    BY <1>1, <2>0, <2>1 DEF WillAppearOrDisappear
  <2>4. changes' \in Nat /\ Fits(changes, s)' /\ changes' = changes
    BY <2>0, <2>1 DEF TypeInv, Fits
  <2>5. /\ events' \in Seq(FitEvents') /\ Ahead(events', changes')
        /\ Waits(events', changes')
    BY <2>2, <2>3, <2>4, HappensShown
  <2>6. calls' \subseteq FitCalls' /\ tail' \in Seq(FitWrites') /\ toHost' \in Seq(FitWrites')
    BY <2>1, <2>2, QueuesKept
  <2> QED BY <2>1, <2>5, <2>6 DEF ShownInv, UpToDate, Known
<1>2. ASSUME NEW s \in Settings, UserSets(s) PROVE ShownInv'
  <2>1. /\ host' = s /\ changes' = changes + 1
        /\ UNCHANGED <<overtaken, active, given, appeared, swallowed, calls, tail, toHost,
                    marker, writing>>
    BY <1>2 DEF UserSets, wrapper, history
  <2>2. changes \in Nat /\ changes' \in Nat
    BY <2>1 DEF TypeInv
  <2>3. Lasts
    BY <2>1, <2>2 DEF Lasts, Fits
  <2>4. Happens("settings", s, FALSE, changes')
    BY <1>2, <2>1 DEF UserSets
  <2>5. Fits(changes, s)'
    BY <2>1, <2>2 DEF Fits
  <2>6. /\ events' \in Seq(FitEvents') /\ Ahead(events', changes')
        /\ Waits(events', changes')
    BY <2>2, <2>3, <2>4, <2>5, HappensShown
  <2>7. calls' \subseteq FitCalls' /\ tail' \in Seq(FitWrites') /\ toHost' \in Seq(FitWrites')
    BY <2>1, <2>3, QueuesKept
  <2> QED BY <2>1, <2>6, <2>7 DEF ShownInv, UpToDate, Known
<1>3. CASE HostStores
  <2>1. PICK w : w = Head(toHost)
    OBVIOUS
  <2>2. w \in FitWrites /\ toHost' \in Seq(FitWrites)
    BY <1>3, <2>1, TailType DEF HostStores, ShownInv
  <2>3. /\ host' = w.settings
        /\ UNCHANGED <<changes, active, given, appeared, swallowed, calls, tail, marker, writing>>
        /\ overtaken' = (overtaken \/ w.version # changes)
    BY <1>3, <2>1 DEF HostStores, wrapper
  <2>4. w \in Writes /\ Fits(w.version, w.settings)
    BY <2>2 DEF FitWrites
  <2>5. w.settings \in Migrated /\ w.settings \in Settings /\ w.version \in Nat
    BY <2>4 DEF Writes, Migrated
  <2>6. overtaken' \in BOOLEAN /\ (~overtaken' => ~overtaken /\ Migrate[host'] = Migrate[host])
    BY <2>3, <2>4 DEF ShownInv, Fits
  <2>7. Lasts
    BY <2>3, <2>6 DEF Lasts, Fits
  <2>8. FitWrites \subseteq FitWrites' /\ calls' \subseteq FitCalls' /\ tail' \in Seq(FitWrites')
    BY <2>3, <2>7, QueuesKept
  <2>9. toHost' \in Seq(FitWrites')
    BY <2>2, <2>8, WiderSeq
  <2>10. /\ events' \in Seq(FitEvents') /\ Ahead(events', changes')
         /\ Waits(events, changes) => Waits(events', changes')
    <3>1. CASE UNCHANGED events
      <4>1. events \in Seq(FitEvents')
        BY <2>7, QueuesKept
      <4> QED BY <2>3, <3>1, <4>1 DEF ShownInv
    <3>2. CASE Happens("settings", w.settings, TRUE, changes)
      <4>1. changes' \in Nat /\ changes' <= changes'
        BY <2>3 DEF TypeInv
      <4>2. Happens("settings", w.settings, TRUE, changes')
        BY <2>3, <3>2
      <4>3. PICK s \in Settings : s = w.settings
        BY <2>5
      <4>4. s \in Migrated /\ Fits(changes, s)' /\ Happens("settings", s, TRUE, changes')
        BY <2>3, <2>5, <4>1, <4>2, <4>3 DEF Fits
      <4> QED BY <2>3, <2>7, <4>1, <4>4, HappensShown
    <3> QED BY <1>3, <2>1, <3>1, <3>2 DEF HostStores
  <2>11. UpToDate' /\ Known'
    BY <2>3, <2>6, <2>10 DEF ShownInv, UpToDate, Known
  <2> QED BY <2>3, <2>6, <2>8, <2>9, <2>10, <2>11 DEF ShownInv
<1> QED BY <1>1, <1>2, <1>3

(* An event is heard of. *)
LEMMA HeardShown ==
  ASSUME TypeInv, ShownInv, NEW kind, Hears(kind), UNCHANGED <<changes, overtaken, host>>
  PROVE  /\ events' \in Seq(FitEvents') /\ Ahead(events', changes')
         /\ Head(events) \in FitEvents
         /\ Waits(events, changes) =>
              Waits(events', changes') \/ (~Head(events).own /\ Head(events).version = changes)
         /\ Head(events).version < changes => Waits(events', changes')
<1>1. events # << >> /\ events' = Tail(events) /\ events \in Seq(FitEvents)
      /\ Ahead(events, changes)
  BY DEF Hears, ShownInv
<1>2. Head(events) \in FitEvents /\ events' \in Seq(FitEvents)
  BY <1>1, TailType
<1>3. events' \in Seq(FitEvents')
  BY <1>2, LastsSame, QueuesKept, WiderSeq
<1>4. /\ Ahead(Tail(events), changes)
      /\ Waits(events, changes) =>
           Waits(Tail(events), changes) \/ (~Head(events).own /\ Head(events).version = changes)
      /\ Head(events).version < changes => Waits(Tail(events), changes)
  BY <1>1, AheadTail
<1> QED BY <1>1, <1>2, <1>3, <1>4

LEMMA TakesShown ==
  ASSUME TypeInv, ShownInv, NEW kind, Hears(kind), Takes,
         \/ kind = "appear" /\ appeared' = (Migrate[Head(events).settings] # None)
         \/ UNCHANGED appeared
  PROVE  ShownInv'
<1>1. UNCHANGED <<changes, overtaken, host, toHost, tail, writing, marker, swallowed>>
  BY DEF Takes, user
<1>2. /\ events' \in Seq(FitEvents') /\ Ahead(events', changes')
      /\ Head(events) \in FitEvents
      /\ Head(events).version < changes => Waits(events', changes')
  BY <1>1, HeardShown
<1>3. PICK e : e = Head(events)
  OBVIOUS
<1>4. /\ e \in Events /\ Fits(e.version, e.settings) /\ e.version \in Nat /\ changes \in Nat
      /\ e.settings \in Settings
  BY <1>2, <1>3 DEF FitEvents, Events, Heralds, TypeInv
<1>5. epoch' \in Nat
  BY DEF TypeInv, Takes, Advance
<1>6. /\ calls \subseteq FitCalls' /\ tail' \in Seq(FitWrites') /\ toHost' \in Seq(FitWrites')
  BY <1>1, LastsSame, QueuesKept
<1>9. \/ e.kind = "appear" /\ appeared' = (Migrate[e.settings] # None)
      \/ appeared' = appeared
  BY <1>3 DEF Hears
<1>7. e.version < changes \/ e.version = changes
  BY <1>4 DEF Fits
<1>8. calls' \subseteq FitCalls' /\ UpToDate' /\ Known'
  <2>1. CASE Migrate[e.settings] = None
    <3>1. calls' = calls /\ given' = given
      BY <1>3, <2>1 DEF Takes, Delegate
    <3>2. ~overtaken /\ Migrate[host] # None => e.version # changes
      BY <1>4, <2>1 DEF Fits
    <3>3. appeared' => appeared
      BY <1>9, <2>1
    <3>4. UpToDate'
      BY <1>1, <1>2, <1>3, <1>7, <3>2 DEF UpToDate
    <3>5. Known'
      BY <3>1, <3>3 DEF ShownInv, Known
    <3> QED BY <1>6, <3>1, <3>4, <3>5
  <2>2. CASE Migrate[e.settings] # None
    <3>1. PICK c : c = [epoch |-> epoch', raw |-> e.settings, version |-> e.version]
      OBVIOUS
    <3>2. calls' = calls \cup {c} /\ (appeared' => given' = Migrate[e.settings])
      <4>1. /\ calls' = calls \cup {c}
            /\ given' = IF e.kind = "appear" \/ given # None
                        THEN Migrate[e.settings] ELSE None
        BY <1>3, <2>2, <3>1 DEF Takes, Delegate, Record
      <4>2. appeared' => e.kind = "appear" \/ given # None
        BY <1>9 DEF ShownInv, Known
      <4> QED BY <4>1, <4>2
    <3>3. c \in Calls /\ c.version = e.version /\ c.raw = e.settings
      BY <1>4, <1>5, <2>2, <3>1 DEF Calls, Readable
    <3>4. c \in FitCalls'
      BY <1>1, <1>4, <3>3 DEF FitCalls, Fits
    <3>5. ~overtaken /\ e.version = changes => Migrate[e.settings] = Migrate[host]
      BY <1>4 DEF Fits
    <3>6. UpToDate'
      BY <1>1, <1>2, <1>3, <1>7, <3>2, <3>5 DEF UpToDate
    <3>7. Known'
      BY <2>2, <3>2 DEF Known
    <3> QED BY <1>6, <3>2, <3>4, <3>6, <3>7
  <2> QED BY <2>1, <2>2
<1> QED BY <1>1, <1>2, <1>6, <1>8 DEF ShownInv

LEMMA EventShown ==
  ASSUME TypeInv, ShownInv,
         Appear \/ Disappear \/ SettingsConsumed \/ SettingsIgnored \/ SettingsChanged
  PROVE  ShownInv'
<1>1. CASE Appear
  BY <1>1, TakesShown DEF Appear
<1>2. CASE SettingsChanged
  BY <1>2, TakesShown DEF SettingsChanged
<1>3. CASE Disappear
  <2>1. UNCHANGED <<changes, overtaken, host, toHost, tail, writing, marker, swallowed, calls>>
        /\ ~active' /\ ~appeared'
    BY <1>3 DEF Disappear, Advance, user
  <2>2. events' \in Seq(FitEvents') /\ Ahead(events', changes')
    BY <1>3, <2>1, HeardShown DEF Disappear
  <2>3. calls \subseteq FitCalls' /\ tail' \in Seq(FitWrites') /\ toHost' \in Seq(FitWrites')
    BY <2>1, LastsSame, QueuesKept
  <2> QED BY <2>1, <2>2, <2>3 DEF ShownInv, UpToDate, Known
<1>4. CASE SettingsConsumed
  <2>1. /\ UNCHANGED <<changes, overtaken, host, toHost, tail, writing, calls, active, given,
                       appeared>>
        /\ marker = <<Head(events).settings>> /\ marker' = << >>
        /\ swallowed' =
             (swallowed \/ (~Head(events).own /\ writing = <<Head(events).settings>>))
    BY <1>4 DEF SettingsConsumed, TakesMarker, user
  <2>2. /\ events' \in Seq(FitEvents') /\ Ahead(events', changes')
        /\ Waits(events, changes) => Waits(events', changes') \/ ~Head(events).own
    BY <1>4, <2>1, HeardShown DEF SettingsConsumed
  <2>3. calls \subseteq FitCalls' /\ tail' \in Seq(FitWrites') /\ toHost' \in Seq(FitWrites')
    BY <2>1, LastsSame, QueuesKept
  <2>4. writing = <<Head(events).settings>>
    BY <2>1 DEF ShownInv
  <2>5. swallowed' \in BOOLEAN /\ (~swallowed' => ~swallowed /\ Head(events).own)
    BY <2>1, <2>4
  <2>6. UpToDate' /\ Known'
    BY <2>1, <2>2, <2>5 DEF ShownInv, UpToDate, Known
  <2> QED BY <2>1, <2>2, <2>3, <2>5, <2>6 DEF ShownInv
<1>5. CASE SettingsIgnored
  <2>1. UNCHANGED <<changes, overtaken, host, toHost, tail, writing, marker, swallowed, calls,
                    active, given, appeared>>
        /\ ~active
    BY <1>5 DEF SettingsIgnored, user, wrapper
  <2>2. events' \in Seq(FitEvents') /\ Ahead(events', changes')
    BY <1>5, <2>1, HeardShown DEF SettingsIgnored
  <2>3. calls \subseteq FitCalls' /\ tail' \in Seq(FitWrites') /\ toHost' \in Seq(FitWrites')
    BY <2>1, LastsSame, QueuesKept
  <2> QED BY <2>1, <2>2, <2>3 DEF ShownInv, UpToDate, Known
<1> QED BY <1>1, <1>2, <1>3, <1>4, <1>5

LEMMA ReturnShown ==
  ASSUME TypeInv, ShownInv, NEW call \in calls, CallReturns(call)
  PROVE  ShownInv'
<1>1. /\ UNCHANGED <<changes, overtaken, host, events, toHost, writing, marker, swallowed,
                     active, given, appeared>>
      /\ calls' \subseteq calls
  BY DEF CallReturns, user, history
<1>2. Lasts
  BY <1>1, LastsSame
<1>3. call \in Calls /\ Fits(call.version, call.raw)
  BY DEF ShownInv, FitCalls
<1>4. PICK w : w = WriteOf(call)
  OBVIOUS
<1>5. /\ call.raw \in Settings /\ Migrate[call.raw] # None
      /\ Migrate[Migrate[call.raw]] = Migrate[call.raw] /\ Migrate[call.raw] \in Settings
      /\ call.version \in Nat /\ call.epoch \in Nat
  BY <1>3, MigrateAssumption DEF Calls, Readable
<1>6. w \in Writes /\ w.version = call.version /\ w.settings = Migrate[call.raw]
  BY <1>4, <1>5 DEF WriteOf, Writes, Migrated
<1>7. w \in FitWrites'
  BY <1>1, <1>3, <1>5, <1>6 DEF FitWrites, Fits
<1>8. tail' = tail \/ tail' = Append(tail, w)
  BY <1>4 DEF CallReturns, SchedulePersistence
<1>9. calls \subseteq FitCalls' /\ tail \in Seq(FitWrites') /\ toHost' \in Seq(FitWrites')
  BY <1>1, <1>2, QueuesKept
<1>10. tail' \in Seq(FitWrites')
  BY <1>7, <1>8, <1>9, AppendType
<1>11. overtaken' \in BOOLEAN /\ (overtaken => overtaken') /\ (marker' # << >> => marker' = writing')
  BY <1>1 DEF ShownInv
<1> QED BY <1>1, <1>2, <1>9, <1>10, <1>11, ShownKept

LEMMA WriteShown ==
  ASSUME TypeInv, ShownInv, BeginWrite \/ WriteSettles \/ WriteFails
  PROVE  ShownInv'
<1>1. /\ UNCHANGED <<changes, overtaken, host, events, swallowed, active, given, appeared, calls>>
      /\ marker' # << >> => marker' = writing'
  BY DEF BeginWrite, WriteSettles, WriteFails, Settle, user, history, ShownInv
<1>2. Lasts
  BY <1>1, LastsSame
<1>3. /\ calls' \subseteq FitCalls' /\ tail \in Seq(FitWrites') /\ toHost \in Seq(FitWrites')
  BY <1>1, <1>2, QueuesKept
<1>4. tail' \in Seq(FitWrites') /\ toHost' \in Seq(FitWrites')
  <2>1. CASE BeginWrite
    <3>1. tail # << >> /\ tail' = Tail(tail)
          /\ (toHost' = toHost \/ toHost' = Append(toHost, Head(tail)))
      BY <2>1 DEF BeginWrite
    <3>2. Head(tail) \in FitWrites' /\ tail' \in Seq(FitWrites')
      BY <1>3, <3>1, TailType
    <3> QED BY <1>3, <3>1, <3>2, AppendType
  <2>2. CASE WriteSettles
    BY <1>3, <2>2 DEF WriteSettles, Settle
  <2>3. CASE WriteFails
    BY <1>3, <2>3, FrontType DEF WriteFails, Settle
  <2> QED BY <2>1, <2>2, <2>3
<1>5. overtaken' \in BOOLEAN /\ (overtaken => overtaken')
  BY <1>1 DEF ShownInv
<1> QED BY <1>1, <1>2, <1>3, <1>4, <1>5, ShownKept

LEMMA ShownStep == TypeInv /\ ShownInv /\ [Next]_vars => ShownInv'
<1> SUFFICES ASSUME TypeInv, ShownInv, [Next]_vars PROVE ShownInv'
  OBVIOUS
<1>1. CASE UNCHANGED vars
  <2>1. UNCHANGED <<changes, overtaken, host, events, swallowed, active, given, appeared, calls, tail,
                    toHost, marker, writing>>
    BY <1>1 DEF vars, user, wrapper, history
  <2>2. Lasts
    BY <2>1, LastsSame
  <2>3. /\ calls' \subseteq FitCalls' /\ tail' \in Seq(FitWrites')
        /\ toHost' \in Seq(FitWrites')
    BY <2>1, <2>2, QueuesKept
  <2>4. overtaken' \in BOOLEAN /\ (overtaken => overtaken') /\ (marker' # << >> => marker' = writing')
    BY <2>1 DEF ShownInv
  <2> QED BY <2>1, <2>2, <2>3, <2>4, ShownKept
<1>2. CASE Next
  BY <1>2, UserShown, EventShown, ReturnShown, WriteShown DEF Next
<1> QED BY <1>1, <1>2

(* At rest a key shows the settings the host keeps for it, in whatever order*)
(* appearances, changes, slow calls, writes and echoes came, but for a key  *)
(* whose appearance could not be read and for the two races that are out of *)
(* the wrapper's hands (appear, settingsChanged, consumeInternalWrite).     *)
THEOREM ShowsWhatIsStored == Spec => []ShowsStored
<1>1. Init => ShownInv
  BY ShownInit
<1>2. Inv /\ ShownInv /\ [Next]_vars => ShownInv'
  BY ShownStep DEF Inv
<1>3. ShownInv => ShowsStored
  BY DEF ShownInv, UpToDate, Waits, ShowsStored, AtRest
<1> QED BY <1>1, <1>2, <1>3, Accounted, PTL DEF Spec
=============================================================================
