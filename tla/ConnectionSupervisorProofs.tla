--------------------- MODULE ConnectionSupervisorProofs ---------------------
(***************************************************************************)
(* Proofs about ConnectionSupervisor, for every value of its constants.    *)
(***************************************************************************)
EXTENDS ConnectionSupervisor, TLAPS

(* What the safety properties need besides themselves to be inductive: a    *)
(* running request belongs to the current identity, nothing runs after      *)
(* destroy(), an attempt that waits for its key has no socket yet, and the  *)
(* timers of a socket do not outlive it.                                    *)
Bookkeeping ==
  /\ request.running => request.identity = identity.epoch /\ request.gen = identity.gen
  /\ request.running => state # "stopped"
  /\ socket = 0 => timers \cap SocketTimers = {}
  /\ attempt = "approval" => socket = 0
  /\ identity.epoch = 0 => identity = Undefined

Inv ==
  /\ TypeOK
  /\ NeverStranded
  /\ NoWorkUnwanted
  /\ OneWayForward
  /\ CurrentIdentityOnly
  /\ WaitersServed
  /\ PingIsWatched
  /\ Bookkeeping

USE GenerationsAssumption, BoundsAssumption

-----------------------------------------------------------------------------
(* Parts of handlers.                                                       *)

(* What the parts of handlers are given: a key and a request of the current *)
(* identity, and a set of timers.                                           *)
Fit(key, req, armed) ==
  /\ key \in Keys
  /\ key.held => /\ key.identity = identity.epoch
                 /\ identity.epoch > 0 => key.gen = identity.gen
  /\ req \in Requests
  /\ req.running => req.identity = identity.epoch /\ req.gen = identity.gen
  /\ armed \in SUBSET Timers

(* Records have the type of their fields. *)
LEMMA RecordTypes ==
  /\ NoKey \in Keys /\ ~NoKey.held
  /\ NoRequest \in Requests /\ ~NoRequest.running
  /\ \A id \in Identities :
       /\ NewRequest(id) \in Requests
       /\ NewRequest(id).running
       /\ NewRequest(id).identity = id.epoch
       /\ NewRequest(id).gen = id.gen
  /\ \A gen \in Generations, i \in 0..MaxIdentity :
       /\ Key(gen, i) \in Keys
       /\ Key(gen, i).held /\ Key(gen, i).identity = i /\ Key(gen, i).gen = gen
BY DEF NoKey, Keys, NoRequest, Requests, NewRequest, Identities, Key

(* Everything given up leaves a state in which nothing is wanted.           *)
LEMMA GiveUpInv ==
  ASSUME Inv, NEW req \in Requests, NEW next \in {"idle", "stopped"},
         GiveUp(next, req), retain' \in 0..MaxDemand,
         identity' \in Identities, identity'.epoch = 0 => identity' = Undefined,
         next = "stopped" \/ retain' = 0 \/ ~identity'.configured,
         disturbances' \in Nat,
         heard' = heard, confirmed' \in BOOLEAN, aged' \in BOOLEAN
  PROVE  Inv'
<1>1. TypeOK'
  <2>1. abandoned' \in SUBSET Requests
    BY DEF Inv, TypeOK, GiveUp
  <2>2. approval' \in Keys /\ request' \in Requests
    BY RecordTypes DEF GiveUp
  <2>3. state' \in States /\ attempt' \in {"none", "approval", "socket"}
        /\ timers' \in SUBSET Timers /\ wait' \in BOOLEAN /\ awaitingPong' \in BOOLEAN
    BY DEF GiveUp, States
  <2>4. created' \in Nat /\ socket' \in 0..created' /\ socketIdentity' \in 0..MaxIdentity
    BY DEF Inv, TypeOK, GiveUp, NoSocket
  <2>6. mute' \in BOOLEAN
    BY DEF GiveUp, NoSocket
  <2>5. backoff' \in 0..MaxBackoff /\ heard' \in 0..created'
    BY DEF Inv, TypeOK, GiveUp, NoSocket
  <2> QED
    BY <2>1, <2>2, <2>3, <2>4, <2>5, <2>6 DEF TypeOK
<1>2. ~Wanted' /\ state' \in {"idle", "stopped"}
  BY DEF GiveUp, Wanted, WantedWith
<1>3. /\ timers' = {} /\ attempt' = "none" /\ ~wait' /\ ~awaitingPong' /\ socket' = 0
      /\ ~approval'.held /\ ~request'.running
  BY RecordTypes DEF GiveUp, NoSocket
<1> QED
  BY <1>1, <1>2, <1>3
     DEF Inv, NeverStranded, NoWorkUnwanted, OneWayForward, CurrentIdentityOnly,
         WaitersServed, PingIsWatched, Bookkeeping

(* scheduleReconnect keeps the invariant, wherever it is called from.       *)
LEMMA ScheduleReconnectInv ==
  ASSUME Inv, NEW n \in 0..MaxDemand, NEW drop \in 0..n, NEW key, NEW req, NEW armed,
         Fit(key, req, armed), WantedWith(n), "reconnect" \notin armed,
         ScheduleReconnect(n, key, req, armed, drop),
         UNCHANGED identity, disturbances' \in Nat,
         heard' = heard, confirmed' \in BOOLEAN, aged' \in BOOLEAN
  PROVE  Inv'
<1>1. CASE drop = n
  <2>1. GiveUp("idle", req) /\ retain' = 0
    BY <1>1 DEF ScheduleReconnect, StopForNoDemand, SocketTimers
  <2>2. retain' \in 0..MaxDemand /\ identity' \in Identities
    BY <2>1 DEF Inv, TypeOK
  <2>3. identity'.epoch = 0 => identity' = Undefined
    BY DEF Inv, Bookkeeping
  <2> QED
    BY <2>1, <2>2, <2>3, GiveUpInv DEF Fit
<1>2. CASE drop # n
  <2>1. /\ attempt' = "none" /\ ~awaitingPong' /\ awaitingPong' = FALSE
        /\ socket' = 0 /\ socketIdentity' = 0 /\ mute' = FALSE /\ created' = created
        /\ approval' = key /\ request' = req /\ abandoned' = abandoned
        /\ state' = "reconnect_wait" /\ retain' = n - drop
        /\ timers' = (armed \ SocketTimers) \cup {"reconnect"}
        /\ wait' = TRUE /\ backoff' = NextBackoff
    BY <1>2 DEF ScheduleReconnect, NoSocket, SocketTimers
  <2>2. retain' \in 0..MaxDemand /\ retain' > 0
    BY <1>2, <2>1
  <2>3. timers' \in SUBSET Timers /\ timers' \cap SocketTimers = {}
        /\ "reconnect" \in timers' /\ "pong" \notin timers'
    BY <2>1 DEF Fit, Timers, SocketTimers
  <2>4. TypeOK'
    <3>1. approval' \in Keys /\ request' \in Requests /\ abandoned' \in SUBSET Requests
      BY <2>1 DEF Fit, Inv, TypeOK
    <3>2. state' \in States /\ attempt' \in {"none", "approval", "socket"}
          /\ wait' \in BOOLEAN /\ awaitingPong' \in BOOLEAN /\ mute' \in BOOLEAN
          /\ identity' \in Identities
      BY <2>1 DEF States, Inv, TypeOK
    <3>3. /\ created' \in Nat /\ socket' \in 0..created' /\ socketIdentity' \in 0..MaxIdentity
          /\ backoff' \in 0..MaxBackoff /\ heard' \in 0..created'
      BY <2>1, BoundsAssumption DEF Inv, TypeOK, NextBackoff
    <3> QED
      BY <2>2, <2>3, <3>1, <3>2, <3>3 DEF TypeOK
  <2>5. CurrentIdentityOnly' /\ Bookkeeping'
    BY <2>1, <2>3 DEF Fit, CurrentIdentityOnly, Bookkeeping, Inv
  <2>6. NoWorkUnwanted'
    BY <2>1, <2>2 DEF NoWorkUnwanted, Wanted, WantedWith
  <2> QED
    BY <2>1, <2>3, <2>4, <2>5, <2>6
       DEF Inv, NeverStranded, OneWayForward, WaitersServed, PingIsWatched
<1> QED
  BY <1>1, <1>2

(* createSocket keeps the invariant, whether the factory throws or not.     *)
LEMMA CreateSocketInv ==
  ASSUME Inv, NEW n \in 0..MaxDemand, NEW drop \in 0..n, NEW throws \in BOOLEAN,
         NEW key, NEW req, NEW armed,
         Fit(key, req, armed), WantedWith(n), "reconnect" \notin armed,
         armed \cap SocketTimers = {}, ~awaitingPong,
         throws \/ drop < n,
         CreateSocket(n, key, req, armed, drop, throws),
         UNCHANGED <<identity, heardVars>>, disturbances' \in Nat
  PROVE  Inv'
<1>1. CASE throws
  <2>1. /\ heard' = heard /\ confirmed' \in BOOLEAN /\ aged' \in BOOLEAN
        /\ ScheduleReconnect(n, key, req, armed, drop) /\ UNCHANGED identity
    BY <1>1 DEF CreateSocket, heardVars, Inv, TypeOK
  <2> QED
    BY <2>1, ScheduleReconnectInv
<1>2. CASE ~throws
  <2>1. /\ state' = "connecting" /\ retain' = n - drop
        /\ timers' = armed \cup {"connect"}
        /\ attempt' = "socket"
        /\ socket' = created + 1 /\ created' = created + 1
        /\ socketIdentity' = identity.epoch /\ mute' = FALSE
        /\ approval' = key /\ request' = req /\ abandoned' = abandoned
        /\ UNCHANGED <<wait, backoff, awaitingPong>>
    BY <1>2 DEF CreateSocket
  <2>2. retain' \in 0..MaxDemand /\ retain' > 0
    BY <1>2, <2>1
  <2>3. /\ timers' \in SUBSET Timers /\ "connect" \in timers'
        /\ "reconnect" \notin timers' /\ "pong" \notin timers'
    BY <2>1 DEF Fit, Timers, SocketTimers
  <2>4. TypeOK'
    <3>1. approval' \in Keys /\ request' \in Requests /\ abandoned' \in SUBSET Requests
      BY <2>1 DEF Fit, Inv, TypeOK
    <3>2. state' \in States /\ attempt' \in {"none", "approval", "socket"}
          /\ wait' \in BOOLEAN /\ awaitingPong' \in BOOLEAN /\ mute' \in BOOLEAN
          /\ identity' \in Identities /\ confirmed' \in BOOLEAN /\ aged' \in BOOLEAN
      BY <2>1 DEF States, Inv, TypeOK, heardVars
    <3>3. identity.epoch \in 0..MaxIdentity
      BY DEF Inv, TypeOK, Identities
    <3>4. /\ created' \in Nat /\ socket' \in 0..created' /\ socketIdentity' \in 0..MaxIdentity
          /\ backoff' \in 0..MaxBackoff /\ heard' \in 0..created'
      BY <2>1, <3>3 DEF Inv, TypeOK, heardVars
    <3> QED
      BY <2>2, <2>3, <3>1, <3>2, <3>4 DEF TypeOK
  <2>5. socket' # 0
    BY <2>1 DEF Inv, TypeOK
  <2>6. CurrentIdentityOnly' /\ Bookkeeping'
    BY <2>1, <2>3, <2>5 DEF Fit, CurrentIdentityOnly, Bookkeeping, Inv
  <2>7. NoWorkUnwanted'
    BY <2>1, <2>2 DEF NoWorkUnwanted, Wanted, WantedWith
  <2>8. ~awaitingPong'
    BY <2>1
  <2> QED
    BY <2>1, <2>3, <2>4, <2>5, <2>6, <2>7, <2>8
       DEF Inv, NeverStranded, OneWayForward, WaitersServed, PingIsWatched
<1> QED
  BY <1>1, <1>2

(* beginConnect, entered from idle or reconnect_wait, keeps the invariant.  *)
LEMMA BeginConnectInv ==
  ASSUME Inv, NEW n \in 0..MaxDemand, NEW drop \in 0..n, NEW throws \in BOOLEAN,
         WantedWith(n), socket = 0, ~awaitingPong,
         BeginConnect(n, drop, throws),
         UNCHANGED <<identity, heardVars>>, disturbances' \in Nat
  PROVE  Inv'
<1> DEFINE armed == timers \ {"reconnect"}
<1>1. Fit(approval, request, armed) /\ armed \cap SocketTimers = {} /\ "reconnect" \notin armed
  BY DEF Fit, Inv, TypeOK, CurrentIdentityOnly, Bookkeeping
<1>2. CASE drop = n
  <2>1. GiveUp("idle", request) /\ retain' = 0 /\ retain' \in 0..MaxDemand
    BY <1>2 DEF BeginConnect, StopForNoDemand
  <2>2. /\ heard' = heard /\ confirmed' \in BOOLEAN /\ aged' \in BOOLEAN
        /\ identity' \in Identities /\ (identity'.epoch = 0 => identity' = Undefined)
    BY DEF heardVars, Inv, TypeOK, Bookkeeping
  <2> QED
    BY <2>1, <2>2, <1>1, GiveUpInv DEF Fit
<1>3. CASE drop # n /\ approval.held
  <2>1. CreateSocket(n, approval, request, armed, drop, throws) /\ drop < n
    BY <1>3 DEF BeginConnect
  <2> QED
    BY <2>1, <1>1, CreateSocketInv
<1>4. CASE drop # n /\ ~approval.held
  <2>1. /\ state' = "connecting" /\ retain' = n - drop
        /\ timers' = armed
        /\ attempt' = "approval"
        /\ request' = IF request.running THEN request ELSE NewRequest(identity)
        /\ socket' = 0 /\ socketIdentity' = 0 /\ mute' = FALSE /\ created' = created
        /\ UNCHANGED <<approval, abandoned, wait, backoff, awaitingPong>>
    BY <1>4 DEF BeginConnect, NoSocket
  <2>2. retain' \in 0..MaxDemand /\ retain' > 0
    BY <1>4, <2>1
  <2>3. /\ request' \in Requests /\ request'.running
        /\ request'.identity = identity.epoch /\ request'.gen = identity.gen
    BY <2>1, RecordTypes DEF Inv, TypeOK, Bookkeeping
  <2>4. timers' \in SUBSET Timers /\ "reconnect" \notin timers' /\ "pong" \notin timers'
        /\ timers' \cap SocketTimers = {}
    BY <2>1, <1>1 DEF Inv, TypeOK, SocketTimers
  <2>5. TypeOK'
    <3>1. approval' \in Keys /\ abandoned' \in SUBSET Requests /\ identity' \in Identities
      BY <2>1 DEF Inv, TypeOK
    <3>2. state' \in States /\ attempt' \in {"none", "approval", "socket"}
          /\ wait' \in BOOLEAN /\ awaitingPong' \in BOOLEAN /\ mute' \in BOOLEAN
          /\ confirmed' \in BOOLEAN /\ aged' \in BOOLEAN
      BY <2>1 DEF States, Inv, TypeOK, heardVars
    <3>3. /\ created' \in Nat /\ socket' \in 0..created' /\ socketIdentity' \in 0..MaxIdentity
          /\ backoff' \in 0..MaxBackoff /\ heard' \in 0..created'
      BY <2>1 DEF Inv, TypeOK, heardVars
    <3> QED
      BY <2>2, <2>3, <2>4, <3>1, <3>2, <3>3 DEF TypeOK
  <2>6. CurrentIdentityOnly' /\ Bookkeeping'
    BY <2>1, <2>3, <2>4 DEF CurrentIdentityOnly, Bookkeeping, Inv
  <2>7. NoWorkUnwanted'
    BY <2>1, <2>2 DEF NoWorkUnwanted, Wanted, WantedWith
  <2>8. ~awaitingPong'
    BY <2>1
  <2> QED
    BY <2>1, <2>3, <2>4, <2>5, <2>6, <2>7, <2>8
       DEF Inv, NeverStranded, OneWayForward, WaitersServed, PingIsWatched
<1> QED
  BY <1>2, <1>3, <1>4

(* A recovery from an existing socket or a running attempt.                 *)
LEMMA RecoverInv ==
  ASSUME Inv, NEW drop \in 0..retain, Wanted, state # "reconnect_wait",
         Recover(drop), disturbances' \in Nat
  PROVE  Inv'
<1>1. Fit(approval, request, timers) /\ "reconnect" \notin timers
  BY DEF Fit, Inv, TypeOK, CurrentIdentityOnly, Bookkeeping, OneWayForward
<1>2. /\ retain \in 0..MaxDemand /\ WantedWith(retain)
      /\ UNCHANGED identity
      /\ heard' = heard /\ confirmed' \in BOOLEAN /\ aged' \in BOOLEAN
      /\ ScheduleReconnect(retain, approval, request, timers, drop)
  BY DEF Recover, Wanted, heardVars, Inv, TypeOK
<1> QED
  BY <1>1, <1>2, ScheduleReconnectInv

(* A socket exists only while it is wanted, outside reconnect_wait.         *)
LEMMA SocketWanted ==
  ASSUME Inv, socket # 0
  PROVE  Wanted /\ state \in {"connecting", "open"}
BY DEF Inv, NoWorkUnwanted, NeverStranded, OneWayForward, Wanted, WantedWith

-----------------------------------------------------------------------------

(* The initial state satisfies the invariant. *)
LEMMA InitInv == Init => Inv
<1> SUFFICES ASSUME Init PROVE Inv
  OBVIOUS
<1>1. Undefined \in Identities
  BY DEF Undefined, Identities
<1>2. TypeOK
  <2>1. /\ identity \in Identities /\ approval \in Keys /\ request \in Requests
        /\ abandoned \in SUBSET Requests
    BY <1>1, RecordTypes DEF Init
  <2>2. /\ state \in States /\ attempt \in {"none", "approval", "socket"}
        /\ timers \in SUBSET Timers
    BY DEF Init, States
  <2>3. /\ wait \in BOOLEAN /\ awaitingPong \in BOOLEAN /\ confirmed \in BOOLEAN
        /\ aged \in BOOLEAN /\ mute \in BOOLEAN
    BY DEF Init
  <2>4. /\ retain \in 0..MaxDemand /\ created \in Nat /\ socket \in 0..created
        /\ socketIdentity \in 0..MaxIdentity /\ backoff \in 0..MaxBackoff
        /\ heard \in 0..created /\ disturbances \in Nat
    BY BoundsAssumption DEF Init
  <2> QED
    BY <2>1, <2>2, <2>3, <2>4 DEF TypeOK
<1> QED
  BY <1>2, RecordTypes
     DEF Init, Inv, NeverStranded, NoWorkUnwanted, OneWayForward, CurrentIdentityOnly,
         WaitersServed, PingIsWatched, Bookkeeping, Wanted, WantedWith, Undefined

(* disturbances only counts. *)
LEMMA Counting ==
  ASSUME TypeOK, Disturb \/ UNCHANGED disturbances
  PROVE  disturbances' \in Nat
BY DEF TypeOK, Disturb

(* The steps that only change demand, request or the peer.                  *)
LEMMA SmallSteps ==
  ASSUME Inv,
         \/ RefreshApprovalKey
         \/ PeerGone
         \/ \E r \in abandoned : AbandonedSettles(r)
  PROVE  Inv'
<1>1. CASE RefreshApprovalKey
  <2>1. disturbances' \in Nat
    BY <1>1, Counting DEF RefreshApprovalKey, Inv
  <2>2. /\ request' \in Requests /\ request'.identity = identity.epoch
        /\ request'.gen = identity.gen
    BY <1>1, RecordTypes DEF RefreshApprovalKey, Inv, TypeOK
  <2>3. TypeOK'
    BY <1>1, <2>1, <2>2 DEF RefreshApprovalKey, Inv, TypeOK, socketVars, heardVars
  <2>4. NeverStranded'
    BY <1>1 DEF RefreshApprovalKey, Inv, NeverStranded, Wanted, WantedWith, socketVars
  <2>5. NoWorkUnwanted' /\ OneWayForward'
    BY <1>1 DEF RefreshApprovalKey, Inv, NoWorkUnwanted, OneWayForward, Wanted, WantedWith,
                socketVars
  <2>6. CurrentIdentityOnly' /\ WaitersServed' /\ PingIsWatched'
    BY <1>1 DEF RefreshApprovalKey, Inv, CurrentIdentityOnly, WaitersServed, PingIsWatched,
                socketVars
  <2>7. Bookkeeping'
    BY <1>1, <2>2 DEF RefreshApprovalKey, Inv, Bookkeeping, socketVars
  <2> QED
    BY <2>3, <2>4, <2>5, <2>6, <2>7 DEF Inv
<1>2. CASE PeerGone
  <2>1. disturbances' \in Nat
    BY <1>2, Counting DEF PeerGone, Inv
  <2>2. TypeOK'
    BY <1>2, <2>1 DEF PeerGone, Inv, TypeOK, requestVars, heardVars
  <2> QED
    BY <1>2, <2>2
       DEF PeerGone, Inv, requestVars, NeverStranded, NoWorkUnwanted, OneWayForward,
           CurrentIdentityOnly, WaitersServed, PingIsWatched, Bookkeeping, Wanted, WantedWith
<1>3. CASE \E r \in abandoned : AbandonedSettles(r)
  <2>1. TypeOK'
    BY <1>3 DEF AbandonedSettles, Inv, TypeOK, socketVars, heardVars
  <2> QED
    BY <1>3, <2>1
       DEF AbandonedSettles, Inv, socketVars, NeverStranded, NoWorkUnwanted, OneWayForward,
           CurrentIdentityOnly, WaitersServed, PingIsWatched, Bookkeeping, Wanted, WantedWith
<1> QED
  BY <1>1, <1>2, <1>3

(* Demand that comes or goes without an effect on the connection.           *)
LEMMA DemandOnly ==
  ASSUME Inv, retain' \in 0..MaxDemand, disturbances' \in Nat,
         WantedWith(retain') => Wanted, Wanted => WantedWith(retain'),
         wait' = (wait \/ (state = "reconnect_wait" /\ identity.configured)),
         UNCHANGED <<state, requestVars, attempt, socketVars, timers, backoff, awaitingPong,
                     identity, heardVars>>
  PROVE  Inv'
<1>1. wait' \in BOOLEAN
  BY DEF Inv, TypeOK
<1>2. TypeOK'
  BY <1>1 DEF Inv, TypeOK, requestVars, socketVars, heardVars
<1>3. Wanted' <=> Wanted
  BY DEF Wanted, WantedWith
<1>4. NeverStranded' /\ NoWorkUnwanted' /\ OneWayForward'
  BY <1>3 DEF Inv, NeverStranded, NoWorkUnwanted, OneWayForward, requestVars, socketVars
<1>5. CurrentIdentityOnly' /\ WaitersServed' /\ PingIsWatched' /\ Bookkeeping'
  BY DEF Inv, CurrentIdentityOnly, WaitersServed, PingIsWatched, Bookkeeping, requestVars,
         socketVars
<1> QED
  BY <1>2, <1>4, <1>5 DEF Inv

(* retain() keeps the invariant. *)
LEMMA RetainInv == ASSUME Inv, Retain PROVE Inv'
<1>1. /\ retain + 1 \in 0..MaxDemand /\ disturbances' \in Nat
      /\ UNCHANGED <<identity, heardVars>> /\ state # "stopped"
  BY Counting DEF Retain, Inv, TypeOK
<1>2. CASE state = "idle" /\ identity.configured
  <2>1. PICK drop \in 0..(retain + 1), throws \in BOOLEAN :
           BeginConnect(retain + 1, drop, throws)
    BY <1>2 DEF Retain
  <2>2. ~Wanted
    BY <1>2 DEF Inv, NeverStranded
  <2>3. WantedWith(retain + 1) /\ socket = 0 /\ ~awaitingPong
    BY <1>1, <1>2, <2>2 DEF Inv, TypeOK, WantedWith, NoWorkUnwanted, PingIsWatched
  <2> QED
    BY <1>1, <2>1, <2>3, BeginConnectInv
<1>3. CASE ~(state = "idle" /\ identity.configured)
  <2>1. /\ retain' = retain + 1
        /\ wait' = (wait \/ (state = "reconnect_wait" /\ identity.configured))
        /\ UNCHANGED <<state, requestVars, attempt, socketVars, timers, backoff,
                       awaitingPong>>
    BY <1>3 DEF Retain
  <2>2. (WantedWith(retain') => Wanted) /\ (Wanted => WantedWith(retain'))
    BY <1>1, <1>3, <2>1 DEF Inv, TypeOK, NoWorkUnwanted, Wanted, WantedWith
  <2> QED
    BY <1>1, <2>1, <2>2, DemandOnly
<1> QED
  BY <1>2, <1>3

(* So does release(). *)
LEMMA ReleaseInv == ASSUME Inv, Release PROVE Inv'
<1>1. /\ retain \in 1..MaxDemand /\ retain - 1 \in 0..MaxDemand /\ disturbances' \in Nat
      /\ UNCHANGED <<identity, heardVars>> /\ state # "stopped"
  BY Counting DEF Release, Inv, TypeOK
<1>2. CASE retain = 1
  <2>1. GiveUp("idle", request) /\ retain' = 0 /\ retain' \in 0..MaxDemand
    BY <1>1, <1>2 DEF Release, StopForNoDemand
  <2>2. /\ heard' = heard /\ confirmed' \in BOOLEAN /\ aged' \in BOOLEAN
        /\ identity' \in Identities /\ (identity'.epoch = 0 => identity' = Undefined)
        /\ request \in Requests
    BY <1>1 DEF heardVars, Inv, TypeOK, Bookkeeping
  <2> QED
    BY <1>1, <2>1, <2>2, GiveUpInv
<1>3. CASE retain # 1
  <2>1. ~(state = "idle" /\ identity.configured)
    BY <1>1, <1>3 DEF Inv, TypeOK, NeverStranded, Wanted, WantedWith
  <2>2. /\ retain' = retain - 1
        /\ wait' = (wait \/ (state = "reconnect_wait" /\ identity.configured))
        /\ UNCHANGED <<state, requestVars, attempt, socketVars, timers, backoff,
                       awaitingPong>>
    BY <1>3, <2>1 DEF Release
  <2>3. (WantedWith(retain') => Wanted) /\ (Wanted => WantedWith(retain'))
    BY <1>1, <1>3, <2>2 DEF Inv, TypeOK, Wanted, WantedWith
  <2> QED
    BY <1>1, <2>2, <2>3, DemandOnly
<1> QED
  BY <1>2, <1>3

(* An identity of a later epoch keeps the invariant: what belonged to the   *)
(* earlier one is given up in the same step.                                *)
LEMMA ApplyInv ==
  ASSUME Inv, NEW id \in Identities, ApplyCredentialIdentity(id)
  PROVE  Inv'
<1>1. /\ identity' = id /\ id.epoch \in 0..MaxIdentity /\ id.epoch # 0
      /\ disturbances' \in Nat /\ UNCHANGED heardVars /\ state # "stopped"
      /\ identity.epoch \in 0..MaxIdentity
  BY Counting DEF ApplyCredentialIdentity, Inv, TypeOK, Identities
<1> DEFINE next == IF id.configured /\ retain > 0 THEN "connecting" ELSE "idle"
<1>2. PICK drop \in IF state = next THEN {0} ELSE 0..retain :
        IF next = "idle" \/ drop = retain
        THEN retain' = retain - drop /\ GiveUp("idle", request)
        ELSE /\ state' = "connecting" /\ retain' = retain - drop
             /\ timers' = {} /\ attempt' = "approval" /\ wait' = FALSE
             /\ awaitingPong' = FALSE
             /\ NoSocket
             /\ approval' = NoKey /\ request' = NewRequest(id)
             /\ abandoned' = abandoned \cup {r \in {request} : r.running}
             /\ UNCHANGED backoff
  BY DEF ApplyCredentialIdentity
<1>3. drop \in 0..retain /\ retain - drop \in 0..MaxDemand
  BY <1>2 DEF Inv, TypeOK
<1>4. /\ heard' = heard /\ confirmed' \in BOOLEAN /\ aged' \in BOOLEAN
      /\ identity' \in Identities /\ (identity'.epoch = 0 => identity' = Undefined)
      /\ request \in Requests
  BY <1>1 DEF heardVars, Inv, TypeOK
<1>5. CASE next = "idle" \/ drop = retain
  <2>1. retain' = retain - drop /\ GiveUp("idle", request)
    BY <1>2, <1>5
  <2>2. retain' = 0 \/ ~identity'.configured
    BY <1>1, <1>3, <1>5, <2>1 DEF Inv, TypeOK
  <2> QED
    BY <1>1, <1>3, <1>4, <2>1, <2>2, GiveUpInv
<1>6. CASE ~(next = "idle" \/ drop = retain)
  <2>1. /\ state' = "connecting" /\ retain' = retain - drop
        /\ timers' = {} /\ attempt' = "approval" /\ wait' = FALSE
        /\ awaitingPong' = FALSE
        /\ socket' = 0 /\ socketIdentity' = 0 /\ mute' = FALSE /\ created' = created
        /\ approval' = NoKey /\ request' = NewRequest(id)
        /\ abandoned' = abandoned \cup {r \in {request} : r.running}
        /\ UNCHANGED backoff
    BY <1>2, <1>6 DEF NoSocket
  <2>2. id.configured /\ retain' > 0 /\ retain' \in 0..MaxDemand
    BY <1>3, <1>6, <2>1 DEF Inv, TypeOK
  <2>3. /\ request' \in Requests /\ request'.running
        /\ request'.identity = id.epoch /\ request'.gen = id.gen
        /\ approval' \in Keys /\ ~approval'.held
    BY <2>1, RecordTypes
  <2>4. TypeOK'
    <3>1. abandoned' \in SUBSET Requests
      BY <1>4, <2>1 DEF Inv, TypeOK
    <3>2. /\ state' \in States /\ attempt' \in {"none", "approval", "socket"}
          /\ wait' \in BOOLEAN /\ awaitingPong' \in BOOLEAN /\ mute' \in BOOLEAN
          /\ timers' \in SUBSET Timers
      BY <2>1 DEF States
    <3>3. /\ created' \in Nat /\ socket' \in 0..created' /\ socketIdentity' \in 0..MaxIdentity
          /\ backoff' \in 0..MaxBackoff /\ heard' \in 0..created'
      BY <1>4, <2>1 DEF Inv, TypeOK
    <3> QED
      BY <1>1, <1>4, <2>2, <2>3, <3>1, <3>2, <3>3 DEF TypeOK
  <2>5. NeverStranded' /\ NoWorkUnwanted'
    BY <1>1, <2>1, <2>2, <2>3 DEF NeverStranded, NoWorkUnwanted, Wanted, WantedWith
  <2>6. OneWayForward' /\ CurrentIdentityOnly' /\ WaitersServed' /\ PingIsWatched'
    BY <2>1, <2>3 DEF OneWayForward, CurrentIdentityOnly, WaitersServed, PingIsWatched
  <2>7. Bookkeeping'
    BY <1>1, <2>1, <2>3 DEF Bookkeeping
  <2> QED
    BY <2>4, <2>5, <2>6, <2>7 DEF Inv
<1> QED
  BY <1>5, <1>6

(* forceReconnect() and destroy() keep the invariant.                       *)
LEMMA ForceDestroyInv ==
  ASSUME Inv, ForceReconnect \/ Destroy
  PROVE  Inv'
<1>1. disturbances' \in Nat
  BY Counting DEF ForceReconnect, Destroy, Inv
<1>2. CASE ForceReconnect
  <2>1. PICK drop \in 0..retain : Recover(drop)
    BY <1>2 DEF ForceReconnect
  <2> QED
    BY <1>1, <1>2, <2>1, RecoverInv DEF ForceReconnect
<1>3. CASE Destroy
  <2>1. GiveUp("stopped", request) /\ retain' = 0 /\ retain' \in 0..MaxDemand
    BY <1>3 DEF Destroy
  <2>2. /\ heard' = heard /\ confirmed' \in BOOLEAN /\ aged' \in BOOLEAN
        /\ identity' \in Identities /\ (identity'.epoch = 0 => identity' = Undefined)
        /\ request \in Requests
    BY <1>3 DEF Destroy, heardVars, Inv, TypeOK, Bookkeeping
  <2> QED
    BY <1>1, <2>1, <2>2, GiveUpInv
<1> QED
  BY <1>2, <1>3

-----------------------------------------------------------------------------
(* Answers of the credential session.                                       *)

(* A request that settles while its attempt is not waiting changes the key, *)
(* the request and the refresh timer only.                                  *)
LEMMA AnswerAside ==
  ASSUME Inv, NEW armed, Fit(approval', NoRequest, armed),
         timers \subseteq armed, armed \subseteq timers \cup {"refresh"},
         armed = timers \/ Wanted,
         ~(IsCurrentAttempt /\ attempt = "approval"),
         request' = NoRequest, timers' = armed,
         UNCHANGED <<state, retain, abandoned, attempt, socketVars, wait, backoff,
                     awaitingPong, identity, heardVars>>,
         disturbances' \in Nat
  PROVE  Inv'
<1>1. TypeOK'
  <2>1. approval' \in Keys /\ request' \in Requests /\ timers' \in SUBSET Timers
    BY RecordTypes DEF Fit
  <2> QED
    BY <2>1 DEF Inv, TypeOK, socketVars, heardVars
<1>2. Wanted' <=> Wanted
  BY DEF Wanted, WantedWith
<1>3. NeverStranded' /\ NoWorkUnwanted' /\ OneWayForward'
  BY <1>2 DEF Inv, NeverStranded, NoWorkUnwanted, OneWayForward, IsCurrentAttempt, socketVars
<1>4. CurrentIdentityOnly' /\ WaitersServed' /\ PingIsWatched'
  BY DEF Inv, CurrentIdentityOnly, WaitersServed, PingIsWatched, socketVars, Fit
<1>5. Bookkeeping'
  BY RecordTypes DEF Inv, Bookkeeping, socketVars, SocketTimers
<1> QED
  BY <1>1, <1>3, <1>4, <1>5 DEF Inv

(* An attempt that waits for its approval has neither a socket nor a timer  *)
(* of one.                                                                  *)
LEMMA WaitingAttempt ==
  ASSUME Inv, IsCurrentAttempt, attempt = "approval"
  PROVE  /\ socket = 0 /\ timers \cap SocketTimers = {} /\ ~awaitingPong
         /\ "reconnect" \notin timers /\ WantedWith(retain) /\ retain \in 1..MaxDemand
BY DEF Inv, TypeOK, IsCurrentAttempt, Wanted, WantedWith, OneWayForward, PingIsWatched,
       Bookkeeping, SocketTimers, NeverStranded

(* The request is answered with a lease: the attempt makes its socket with  *)
(* the new key, or fails.                                                   *)
LEMMA AnsweredInv ==
  ASSUME Inv, NEW gen \in Generations, ApprovalAnswered(gen)
  PROVE  Inv'
<1> DEFINE accept == Acceptable(gen)
           key    == IF accept THEN Key(gen, request.identity) ELSE approval
           armed  == IF accept /\ retain > 0 /\ identity.configured
                     THEN timers \cup {"refresh"} ELSE timers
<1>1. Fit(key, NoRequest, armed)
  <2>1. key \in Keys
    BY RecordTypes DEF Inv, TypeOK, Requests
  <2>2. key.held => /\ key.identity = identity.epoch
                    /\ identity.epoch > 0 => key.gen = identity.gen
    <3>1. CASE accept
      <4>1. key.identity = request.identity /\ key.gen = gen
        BY <3>1 DEF Key
      <4> QED
        BY <3>1, <4>1 DEF Acceptable, ApprovalAnswered, Inv, Bookkeeping
    <3>2. CASE ~accept
      BY <3>2 DEF Inv, CurrentIdentityOnly
    <3> QED
      BY <3>1, <3>2
  <2>3. armed \in SUBSET Timers
    BY DEF Inv, TypeOK, Timers
  <2> QED
    BY <2>1, <2>2, <2>3, RecordTypes DEF Fit
<1>2. UNCHANGED <<identity, heardVars>> /\ request.running
  BY DEF ApprovalAnswered
<1>3. CASE IsCurrentAttempt /\ attempt = "approval"
  <2>1. PICK throws \in BOOLEAN, drop \in 0..retain :
          /\ IF accept /\ ~throws THEN drop = 0 /\ UNCHANGED disturbances ELSE Disturb
          /\ IF accept THEN CreateSocket(retain, key, NoRequest, armed, drop, throws)
                       ELSE ScheduleReconnect(retain, key, NoRequest, armed, drop)
    BY <1>3 DEF ApprovalAnswered
  <2>2. disturbances' \in Nat
    BY <2>1, Counting DEF Inv
  <2>3. /\ "reconnect" \notin armed /\ armed \cap SocketTimers = {}
        /\ ~awaitingPong /\ WantedWith(retain) /\ retain \in 1..MaxDemand
    BY <1>3, WaitingAttempt DEF SocketTimers
  <2>4. CASE accept
    <3>1. throws \/ drop < retain
      BY <2>1, <2>3, <2>4
    <3>2. CreateSocket(retain, key, NoRequest, armed, drop, throws)
      BY <2>1, <2>4
    <3> HIDE DEF key, armed, accept
    <3> QED
      BY <1>1, <1>2, <2>2, <2>3, <3>1, <3>2, CreateSocketInv
  <2>5. CASE ~accept
    <3>1. ScheduleReconnect(retain, key, NoRequest, armed, drop)
      BY <2>1, <2>5
    <3>2. heard' = heard /\ confirmed' \in BOOLEAN /\ aged' \in BOOLEAN
      BY <1>2 DEF heardVars, Inv, TypeOK
    <3> HIDE DEF key, armed, accept
    <3> QED
      BY <1>1, <1>2, <2>2, <2>3, <3>1, <3>2, ScheduleReconnectInv
  <2> QED
    BY <2>4, <2>5
<1>4. CASE ~(IsCurrentAttempt /\ attempt = "approval")
  <2>1. /\ approval' = key /\ request' = NoRequest /\ timers' = armed
        /\ UNCHANGED <<state, retain, abandoned, attempt, socketVars, wait, backoff,
                       awaitingPong, disturbances>>
    BY <1>4 DEF ApprovalAnswered
  <2>2. timers \subseteq armed /\ armed \subseteq timers \cup {"refresh"}
    OBVIOUS
  <2>3. armed = timers \/ Wanted
    BY <1>2 DEF Wanted, WantedWith, Inv, Bookkeeping
  <2>4. disturbances' \in Nat /\ Fit(approval', NoRequest, armed)
    BY <1>1, <2>1 DEF Inv, TypeOK
  <2> HIDE DEF key, armed, accept
  <2> QED
    BY <1>2, <1>4, <2>1, <2>2, <2>3, <2>4, AnswerAside
<1> QED
  BY <1>3, <1>4

(* The request fails, and with it the attempt that waits for it.            *)
LEMMA FailsInv == ASSUME Inv, ApprovalFails PROVE Inv'
<1>1. /\ UNCHANGED <<identity, heardVars>> /\ disturbances' \in Nat
      /\ heard' = heard /\ confirmed' \in BOOLEAN /\ aged' \in BOOLEAN
  BY Counting DEF ApprovalFails, heardVars, Inv, TypeOK
<1>2. Fit(approval, NoRequest, timers)
  BY RecordTypes DEF Fit, Inv, TypeOK, CurrentIdentityOnly
<1>3. CASE IsCurrentAttempt /\ attempt = "approval"
  <2>1. PICK drop \in 0..retain :
           ScheduleReconnect(retain, approval, NoRequest, timers, drop)
    BY <1>3 DEF ApprovalFails
  <2>2. "reconnect" \notin timers /\ WantedWith(retain) /\ retain \in 1..MaxDemand
    BY <1>3, WaitingAttempt
  <2> QED
    BY <1>1, <1>2, <2>1, <2>2, ScheduleReconnectInv
<1>4. CASE ~(IsCurrentAttempt /\ attempt = "approval")
  <2>1. /\ request' = NoRequest
        /\ UNCHANGED <<state, retain, approval, abandoned, attempt, socketVars, timers,
                       wait, backoff, awaitingPong>>
    BY <1>4 DEF ApprovalFails
  <2> QED
    BY <1>1, <1>2, <1>4, <2>1, AnswerAside
<1> QED
  BY <1>3, <1>4

-----------------------------------------------------------------------------
(* Events of sockets and timers.                                            *)

(* A socket opens: its timers are armed, or the first send already fails.   *)
LEMMA OpensInv ==
  ASSUME Inv, NEW e \in 1..created, SocketOpens(e)
  PROVE  Inv'
<1>1. /\ socket = e /\ socket # 0 /\ state = "connecting" /\ Wanted
      /\ UNCHANGED identity /\ heard' = heard
      /\ confirmed' \in BOOLEAN /\ aged' \in BOOLEAN
  <2>1. socket = e /\ socket # 0 /\ state = "connecting" /\ Wanted
    BY DEF SocketOpens, IsCurrentSocket, IsCurrentAttempt, Inv, TypeOK
  <2>2. UNCHANGED identity /\ heard' = heard /\ confirmed' = FALSE /\ aged' = FALSE
    BY DEF SocketOpens
  <2> QED
    BY <2>1, <2>2
<1>2. CASE /\ state' = "open" /\ attempt' = "none" /\ wait' = FALSE
           /\ timers' = (timers \ SocketTimers) \cup {"heartbeat", "stable"}
           /\ awaitingPong' = FALSE
           /\ UNCHANGED <<retain, requestVars, socketVars, backoff, disturbances>>
  <2>1. /\ timers' \in SUBSET Timers /\ "heartbeat" \in timers' /\ "pong" \notin timers'
        /\ "reconnect" \notin timers'
    BY <1>1, <1>2 DEF Inv, TypeOK, OneWayForward, Timers, SocketTimers
  <2>2. TypeOK'
    <3>1. state' \in States /\ attempt' \in {"none", "approval", "socket"} /\ wait' \in BOOLEAN
          /\ awaitingPong' \in BOOLEAN /\ mute' \in BOOLEAN
      BY <1>2 DEF States, Inv, TypeOK, socketVars
    <3>2. retain' \in 0..MaxDemand /\ backoff' \in 0..MaxBackoff /\ disturbances' \in Nat
      BY <1>2 DEF Inv, TypeOK
    <3>3. /\ created' \in Nat /\ socket' \in 0..created' /\ socketIdentity' \in 0..MaxIdentity
          /\ heard' \in 0..created'
      BY <1>1, <1>2 DEF Inv, TypeOK, socketVars
    <3>4. /\ identity' \in Identities /\ approval' \in Keys /\ request' \in Requests
          /\ abandoned' \in SUBSET Requests
      BY <1>1, <1>2 DEF Inv, TypeOK, requestVars
    <3> QED
      BY <1>1, <2>1, <3>1, <3>2, <3>3, <3>4 DEF TypeOK
  <2>3. NeverStranded'
    BY <1>1, <1>2, <2>1 DEF NeverStranded, socketVars
  <2>4. NoWorkUnwanted'
    BY <1>1, <1>2 DEF NoWorkUnwanted, Wanted, WantedWith
  <2>5. CurrentIdentityOnly' /\ Bookkeeping'
    BY <1>1, <1>2 DEF CurrentIdentityOnly, Bookkeeping, Inv, requestVars, socketVars
  <2> QED
    BY <1>2, <2>1, <2>2, <2>3, <2>4, <2>5 DEF Inv, OneWayForward, WaitersServed, PingIsWatched
<1>3. CASE /\ Disturb
           /\ \E drop \in 0..retain :
                ScheduleReconnect(retain, approval, request, timers, drop)
  <2>1. PICK drop \in 0..retain : ScheduleReconnect(retain, approval, request, timers, drop)
    BY <1>3
  <2>2. Fit(approval, request, timers) /\ "reconnect" \notin timers
    BY <1>1 DEF Fit, Inv, TypeOK, CurrentIdentityOnly, Bookkeeping, OneWayForward
  <2>3. /\ retain \in 0..MaxDemand /\ WantedWith(retain) /\ disturbances' \in Nat
    BY <1>1, <1>3, Counting DEF Wanted, Inv, TypeOK
  <2> QED
    BY <1>1, <2>1, <2>2, <2>3, ScheduleReconnectInv
<1> QED
  BY <1>2, <1>3 DEF SocketOpens

(* A socket fails, or the peer stops answering: the connection recovers.    *)
LEMMA FaultsInv ==
  ASSUME Inv, (\E e \in 1..created : SocketFails(e)) \/ SendFails
  PROVE  Inv'
<1>1. /\ socket # 0 /\ Disturb /\ disturbances' \in Nat
      /\ \E drop \in 0..retain : Recover(drop)
  BY Counting DEF SocketFails, SendFails, IsCurrentSocket, Inv, TypeOK
<1> QED
  BY <1>1, SocketWanted, RecoverInv

(* A step that touches only the timers of an open socket, the backoff and   *)
(* what was heard keeps the invariant, if the heartbeat stays armed and the *)
(* flag of the ping goes with its timeout.                                  *)
LEMMA WatchStep ==
  ASSUME Inv, socket # 0,
         timers' \in SUBSET Timers, timers' \subseteq timers \cup {"pong"},
         "heartbeat" \in timers => "heartbeat" \in timers',
         "connect" \in timers /\ state = "connecting" => "connect" \in timers',
         awaitingPong' \in BOOLEAN, awaitingPong' <=> "pong" \in timers',
         backoff' \in 0..MaxBackoff, heard' \in 0..created,
         confirmed' \in BOOLEAN, aged' \in BOOLEAN, disturbances' \in Nat,
         UNCHANGED <<state, retain, identity, requestVars, attempt, socketVars, wait>>
  PROVE  Inv'
<1>1. Wanted /\ state \in {"connecting", "open"} /\ "reconnect" \notin timers
  BY SocketWanted DEF Inv, OneWayForward
<1>2. TypeOK'
  BY DEF Inv, TypeOK, requestVars, socketVars
<1>3. NeverStranded'
  BY <1>1 DEF Inv, NeverStranded, requestVars, socketVars
<1>4. NoWorkUnwanted' /\ OneWayForward'
  BY <1>1 DEF NoWorkUnwanted, OneWayForward, Wanted, WantedWith
<1>5. CurrentIdentityOnly' /\ WaitersServed' /\ PingIsWatched' /\ Bookkeeping'
  BY DEF Inv, CurrentIdentityOnly, WaitersServed, PingIsWatched, Bookkeeping, requestVars,
         socketVars
<1> QED
  BY <1>2, <1>3, <1>4, <1>5 DEF Inv

(* Frames, pings, their timeouts and the passing of time on an open socket. *)
LEMMA WatchInv ==
  ASSUME Inv,
         (\E e \in 1..created : Activity(e)) \/ HeartbeatTick \/ StableTimer
  PROVE  Inv'
<1>1. CASE \E e \in 1..created : Activity(e)
  <2>1. PICK e \in 1..created : Activity(e)
    BY <1>1
  <2>2. /\ socket # 0 /\ state = "open" /\ heard' \in 0..created
        /\ backoff' \in 0..MaxBackoff /\ disturbances' \in Nat
    <3>1. socket = e /\ state = "open" /\ heard' = e
      BY <2>1 DEF Activity, IsCurrentSocket
    <3>2. backoff' \in 0..MaxBackoff /\ disturbances' \in Nat /\ created \in Nat
      BY <2>1, BoundsAssumption DEF Activity, Inv, TypeOK
    <3> QED
      BY <3>1, <3>2
  <2>3. awaitingPong' = FALSE /\ confirmed' = TRUE /\ aged' \in BOOLEAN
    BY <2>1 DEF Activity, Inv, TypeOK
  <2>4. /\ timers' \in SUBSET Timers /\ timers' \subseteq timers \cup {"pong"}
        /\ "heartbeat" \in timers => "heartbeat" \in timers'
        /\ "pong" \notin timers'
    BY <2>1 DEF Activity, Inv, TypeOK
  <2>5. UNCHANGED <<state, retain, identity, requestVars, attempt, socketVars, wait>>
    BY <2>1 DEF Activity
  <2> QED
    BY <2>2, <2>3, <2>4, <2>5, WatchStep
<1>2. CASE HeartbeatTick
  <2>1. socket # 0 /\ state = "open"
    BY <1>2 DEF HeartbeatTick
  <2>2. CASE /\ awaitingPong' = TRUE
             /\ timers' = timers \cup {"pong"}
             /\ UNCHANGED <<state, retain, identity, requestVars, attempt, socketVars, wait,
                            backoff, heardVars, disturbances>>
    <3>1. /\ heard' \in 0..created /\ backoff' \in 0..MaxBackoff /\ disturbances' \in Nat
      BY <2>2 DEF heardVars, Inv, TypeOK
    <3>2. confirmed' \in BOOLEAN /\ aged' \in BOOLEAN /\ awaitingPong' = TRUE
      BY <2>2 DEF heardVars, Inv, TypeOK
    <3>3. /\ timers' \in SUBSET Timers /\ timers' \subseteq timers \cup {"pong"}
          /\ "heartbeat" \in timers => "heartbeat" \in timers'
          /\ "pong" \in timers'
      BY <2>2 DEF Inv, TypeOK, Timers, SocketTimers
    <3> QED
      BY <2>1, <2>2, <3>1, <3>2, <3>3, WatchStep
  <2>3. CASE Disturb /\ \E drop \in 0..retain : Recover(drop)
    <3>1. disturbances' \in Nat
      BY <2>3, Counting DEF Inv
    <3> QED
      BY <2>1, <2>3, <3>1, SocketWanted, RecoverInv
  <2> QED
    BY <1>2, <2>2, <2>3 DEF HeartbeatTick
<1>3. CASE StableTimer
  <2>1. /\ timers' = timers \ {"stable"}
        /\ UNCHANGED <<state, retain, identity, requestVars, attempt, socketVars, wait,
                       awaitingPong, heardVars, disturbances>>
    BY <1>3 DEF StableTimer
  <2>2. socket # 0
    BY <1>3 DEF StableTimer, Inv, Bookkeeping, SocketTimers
  <2>3. heard' \in 0..created /\ backoff' \in 0..MaxBackoff /\ disturbances' \in Nat
    BY <1>3, BoundsAssumption DEF StableTimer, heardVars, Inv, TypeOK
  <2>4. confirmed' \in BOOLEAN /\ aged' \in BOOLEAN /\ awaitingPong' \in BOOLEAN
    BY <2>1 DEF heardVars, Inv, TypeOK
  <2>5. /\ timers' \in SUBSET Timers /\ timers' \subseteq timers \cup {"pong"}
        /\ "heartbeat" \in timers => "heartbeat" \in timers'
        /\ "connect" \in timers => "connect" \in timers'
        /\ "pong" \in timers' <=> "pong" \in timers
    BY <2>1 DEF Inv, TypeOK
  <2>6. awaitingPong' <=> "pong" \in timers'
    BY <2>1, <2>5 DEF Inv, PingIsWatched
  <2> QED
    BY <2>1, <2>2, <2>3, <2>4, <2>5, <2>6, WatchStep
<1> QED
  BY <1>1, <1>2, <1>3

(* The age of a connection is only remembered.                              *)
LEMMA AgeInv == ASSUME Inv, Age PROVE Inv'
<1>1. TypeOK'
  BY DEF Age, Inv, TypeOK, requestVars, socketVars
<1>2. NeverStranded' /\ NoWorkUnwanted' /\ OneWayForward'
  BY DEF Age, Inv, NeverStranded, NoWorkUnwanted, OneWayForward, Wanted, WantedWith,
         requestVars, socketVars
<1>3. CurrentIdentityOnly' /\ WaitersServed' /\ PingIsWatched' /\ Bookkeeping'
  BY DEF Age, Inv, CurrentIdentityOnly, WaitersServed, PingIsWatched, Bookkeeping,
         requestVars, socketVars
<1> QED
  BY <1>1, <1>2, <1>3 DEF Inv

(* The timeouts recover; the reconnect timer connects again.                *)
LEMMA TimeoutsInv ==
  ASSUME Inv, ReconnectTimer \/ ConnectTimeout \/ PongTimeout
  PROVE  Inv'
<1>1. CASE ReconnectTimer
  <2>1. /\ state = "reconnect_wait" /\ socket = 0 /\ Wanted /\ ~awaitingPong
    BY <1>1 DEF ReconnectTimer, Inv, OneWayForward, NoWorkUnwanted, PingIsWatched,
                Bookkeeping, SocketTimers
  <2>2. retain \in 1..MaxDemand /\ WantedWith(retain)
    BY <2>1 DEF Wanted, WantedWith, Inv, TypeOK
  <2>3. PICK drop \in 0..retain, throws \in BOOLEAN :
          /\ IF throws THEN Disturb ELSE UNCHANGED disturbances
          /\ BeginConnect(retain, drop, throws)
    BY <1>1, <2>1, <2>2 DEF ReconnectTimer
  <2>4. disturbances' \in Nat /\ UNCHANGED <<identity, heardVars>>
    BY <1>1, <2>3, Counting DEF ReconnectTimer, Inv
  <2> QED
    BY <2>1, <2>2, <2>3, <2>4, BeginConnectInv
<1>2. CASE ConnectTimeout
  <2>1. disturbances' \in Nat
    BY <1>2, Counting DEF ConnectTimeout, Inv
  <2>2. socket # 0
    BY <1>2 DEF ConnectTimeout, Inv, Bookkeeping, SocketTimers
  <2>3. Wanted /\ state \in {"connecting", "open"}
    BY <2>2, SocketWanted
  <2>4. CASE IsCurrentAttempt
    <3>1. PICK drop \in 0..retain : Recover(drop)
      BY <1>2, <2>2, <2>4 DEF ConnectTimeout
    <3> QED
      BY <2>1, <2>3, <3>1, RecoverInv
  <2>5. CASE ~IsCurrentAttempt
    <3>1. /\ timers' = timers \ {"connect"}
          /\ UNCHANGED <<state, retain, identity, requestVars, attempt, socketVars, wait,
                         backoff, awaitingPong, heardVars>>
      BY <1>2, <2>5 DEF ConnectTimeout
    <3>2. state = "open"
      BY <2>3, <2>5 DEF IsCurrentAttempt, Inv, NeverStranded
    <3>3. heard' \in 0..created /\ backoff' \in 0..MaxBackoff
      BY <3>1 DEF heardVars, Inv, TypeOK
    <3>4. confirmed' \in BOOLEAN /\ aged' \in BOOLEAN /\ awaitingPong' \in BOOLEAN
      BY <3>1 DEF heardVars, Inv, TypeOK
    <3>5. /\ timers' \in SUBSET Timers /\ timers' \subseteq timers \cup {"pong"}
          /\ "heartbeat" \in timers => "heartbeat" \in timers'
          /\ "pong" \in timers' <=> "pong" \in timers
      BY <3>1 DEF Inv, TypeOK
    <3>6. awaitingPong' <=> "pong" \in timers'
      BY <3>1, <3>5 DEF Inv, PingIsWatched
    <3> QED
      BY <2>1, <2>2, <3>1, <3>2, <3>3, <3>4, <3>5, <3>6, WatchStep
  <2> QED
    BY <2>4, <2>5
<1>3. CASE PongTimeout
  <2>1. disturbances' \in Nat
    BY <1>3, Counting DEF PongTimeout, Inv
  <2>2. socket # 0 /\ awaitingPong
    BY <1>3 DEF PongTimeout, Inv, PingIsWatched, Bookkeeping, SocketTimers
  <2>3. PICK drop \in 0..retain : Recover(drop)
    BY <1>3, <2>2 DEF PongTimeout
  <2> QED
    BY <2>1, <2>2, <2>3, SocketWanted, RecoverInv
<1> QED
  BY <1>1, <1>2, <1>3

-----------------------------------------------------------------------------
(* The results.                                                             *)

(* Every step of the supervisor keeps the invariant.                        *)
THEOREM InvStep == Inv /\ [Next]_vars => Inv'
<1> SUFFICES ASSUME Inv, [Next]_vars PROVE Inv'
  OBVIOUS
<1>1. CASE Retain \/ Release
  BY <1>1, RetainInv, ReleaseInv
<1>2. CASE \E id \in Identities : ApplyCredentialIdentity(id)
  BY <1>2, ApplyInv
<1>3. CASE ForceReconnect \/ Destroy
  BY <1>3, ForceDestroyInv
<1>4. CASE RefreshApprovalKey \/ PeerGone \/ \E r \in abandoned : AbandonedSettles(r)
  BY <1>4, SmallSteps
<1>5. CASE \E gen \in Generations : ApprovalAnswered(gen)
  BY <1>5, AnsweredInv
<1>6. CASE ApprovalFails
  BY <1>6, FailsInv
<1>7. CASE \E e \in 1..created : SocketOpens(e)
  BY <1>7, OpensInv
<1>8. CASE (\E e \in 1..created : SocketFails(e)) \/ SendFails
  BY <1>8, FaultsInv
<1>9. CASE (\E e \in 1..created : Activity(e)) \/ HeartbeatTick \/ StableTimer
  BY <1>9, WatchInv
<1>10. CASE Age
  BY <1>10, AgeInv
<1>11. CASE ReconnectTimer \/ ConnectTimeout \/ PongTimeout
  BY <1>11, TimeoutsInv
<1>12. CASE UNCHANGED vars
  <2>1. TypeOK'
    BY <1>12 DEF vars, Inv, TypeOK
  <2> QED
    BY <1>12, <2>1
       DEF vars, Inv, NeverStranded, NoWorkUnwanted, OneWayForward, CurrentIdentityOnly,
           WaitersServed, PingIsWatched, Bookkeeping, Wanted, WantedWith
<1> QED
  BY <1>1, <1>2, <1>3, <1>4, <1>5, <1>6, <1>7, <1>8, <1>9, <1>10, <1>11, <1>12 DEF Next

(* The invariant holds in every reachable state.                            *)
THEOREM Invariance == Spec => []Inv
BY InitInv, InvStep, PTL DEF Spec

(* Every variable of the supervisor keeps its type, and the index into the  *)
(* table of delays never leaves it.                                         *)
THEOREM TypesKept == Spec => []TypeOK
<1>1. Inv => TypeOK
  BY DEF Inv
<1> QED
  BY <1>1, Invariance, PTL

(* A connection that is wanted always has something armed that moves it on. *)
THEOREM WantedIsDriven == Spec => []NeverStranded
<1>1. Inv => NeverStranded
  BY DEF Inv
<1> QED
  BY <1>1, Invariance, PTL

(* An unwanted connection keeps no attempt, socket or timer.                *)
THEOREM NothingIdleRuns == Spec => []NoWorkUnwanted
<1>1. Inv => NoWorkUnwanted
  BY DEF Inv
<1> QED
  BY <1>1, Invariance, PTL

(* While a reconnect is awaited no attempt runs and no socket exists, so a  *)
(* timer, a retain() and a forced reconnect never connect twice.            *)
THEOREM OneWay == Spec => []OneWayForward
<1>1. Inv => OneWayForward
  BY DEF Inv
<1> QED
  BY <1>1, Invariance, PTL

(* No socket and no approval key outlives the identity it was made for.     *)
THEOREM IdentityIsolated == Spec => []CurrentIdentityOnly
<1>1. Inv => CurrentIdentityOnly
  BY DEF Inv
<1> QED
  BY <1>1, Invariance, PTL

(* A caller of retain() waits only while a connection is being made, and a  *)
(* ping only while its timeout is armed.                                    *)
THEOREM WaitsAreBounded == Spec => [](WaitersServed /\ PingIsWatched)
<1>1. Inv => WaitersServed /\ PingIsWatched
  BY DEF Inv
<1> QED
  BY <1>1, Invariance, PTL

(* After destroy() every action but the settling of an orphaned request is  *)
(* disabled.                                                                *)
LEMMA StoppedStep ==
  ASSUME Inv, [Next]_vars, state = "stopped"
  PROVE  UNCHANGED <<state, retain, approval, request, socket, timers, attempt>>
<1>1. ~Wanted /\ socket = 0 /\ timers = {} /\ ~request.running /\ ~IsCurrentAttempt
  BY DEF Inv, Wanted, WantedWith, NoWorkUnwanted, Bookkeeping, IsCurrentAttempt
<1>2. /\ ~Retain /\ ~Release /\ ~(\E id \in Identities : ApplyCredentialIdentity(id))
      /\ ~ForceReconnect /\ ~RefreshApprovalKey /\ ~Destroy
  BY <1>1 DEF Retain, Release, ApplyCredentialIdentity, ForceReconnect, RefreshApprovalKey,
              Destroy
<1>3. ~(\E gen \in Generations : ApprovalAnswered(gen)) /\ ~ApprovalFails
  BY <1>1 DEF ApprovalAnswered, ApprovalFails
<1>4. ~(\E e \in 1..created : SocketOpens(e) \/ SocketFails(e) \/ Activity(e))
  BY DEF SocketOpens, SocketFails, Activity, IsCurrentSocket
<1>5. ~SendFails /\ ~PeerGone
  BY <1>1 DEF SendFails, PeerGone
<1>6. ~ReconnectTimer /\ ~ConnectTimeout /\ ~HeartbeatTick /\ ~PongTimeout /\ ~Age
      /\ ~StableTimer
  BY <1>1 DEF ReconnectTimer, ConnectTimeout, HeartbeatTick, PongTimeout, Age, StableTimer
<1>7. (\E r \in abandoned : AbandonedSettles(r)) \/ UNCHANGED vars
  BY <1>2, <1>3, <1>4, <1>5, <1>6 DEF Next
<1> QED
  BY <1>7 DEF AbandonedSettles, vars, socketVars

(* No late answer, event, timer or call revives a destroyed supervisor.     *)
THEOREM NothingAfterDestroy == Spec => StoppedForGood
<1>1. Inv /\ [Next]_vars =>
        [state = "stopped" =>
           UNCHANGED <<state, retain, approval, request, socket, timers, attempt>>]_vars
  BY StoppedStep
<1> QED
  BY <1>1, Invariance, PTL DEF Spec, StoppedForGood

-----------------------------------------------------------------------------
(* The backoff.                                                             *)

(* Liveness that is remembered of an open connection is its own socket's.   *)
HeardOfOwn == state = "open" /\ confirmed => socket # 0 /\ heard = socket

(* What all steps do but those that hear of a socket or find it old enough: *)
(* the delays do not get shorter, and a connection that opens is unheard.   *)
Quiet ==
  /\ backoff' \in {backoff, NextBackoff}
  /\ state' = "open" =>
       ~confirmed' \/ (state = "open" /\ UNCHANGED <<socket, heard, confirmed>>)

LEMMA GiveUpQuiet ==
  ASSUME NEW next \in {"idle", "stopped"}, NEW req, GiveUp(next, req)
  PROVE  Quiet
BY DEF GiveUp, Quiet

LEMMA ScheduleQuiet ==
  ASSUME Inv, NEW n, NEW drop, NEW key, NEW req, NEW armed, armed \subseteq timers \cup {"refresh"},
         ScheduleReconnect(n, key, req, armed, drop)
  PROVE  Quiet
<1>1. CASE StopForNoDemand(req)
  BY <1>1, GiveUpQuiet DEF StopForNoDemand
<1>2. CASE ~StopForNoDemand(req) /\ "reconnect" \in armed
  <2>1. "reconnect" \in timers /\ state = "reconnect_wait"
    BY <1>2 DEF Inv, OneWayForward
  <2>2. backoff' = backoff /\ state' \in {state, "idle"}
    BY <1>2, <2>1 DEF ScheduleReconnect, SocketTimers
  <2> QED BY <2>1, <2>2 DEF Quiet
<1>3. CASE ~StopForNoDemand(req) /\ "reconnect" \notin armed
  <2>1. backoff' \in {backoff, NextBackoff} /\ state' \in {"reconnect_wait", "idle"}
    BY <1>3 DEF ScheduleReconnect, SocketTimers
  <2> QED BY <2>1 DEF Quiet
<1> QED BY <1>1, <1>2, <1>3

LEMMA CreateQuiet ==
  ASSUME Inv, NEW n, NEW drop, NEW key, NEW req, NEW armed, armed \subseteq timers \cup {"refresh"},
         NEW throws \in BOOLEAN, CreateSocket(n, key, req, armed, drop, throws)
  PROVE  Quiet
<1>1. CASE throws
  BY <1>1, ScheduleQuiet DEF CreateSocket
<1>2. CASE ~throws
  BY <1>2 DEF CreateSocket, Quiet
<1> QED BY <1>1, <1>2

LEMMA BeginQuiet ==
  ASSUME Inv, NEW n, NEW drop, NEW throws \in BOOLEAN, BeginConnect(n, drop, throws)
  PROVE  Quiet
<1>1. CASE drop = n
  BY <1>1, GiveUpQuiet DEF BeginConnect, StopForNoDemand
<1>2. CASE drop # n /\ approval.held
  <2>1. timers \ {"reconnect"} \subseteq timers \cup {"refresh"}
    OBVIOUS
  <2>2. CreateSocket(n, approval, request, timers \ {"reconnect"}, drop, throws)
    BY <1>2 DEF BeginConnect
  <2> QED BY <2>1, <2>2, CreateQuiet
<1>3. CASE drop # n /\ ~approval.held
  BY <1>3 DEF BeginConnect, Quiet
<1> QED BY <1>1, <1>2, <1>3

LEMMA RecoverQuiet ==
  ASSUME Inv, NEW drop, Recover(drop) PROVE Quiet
BY ScheduleQuiet DEF Recover

(* The calls, the answers and the faults. *)
LEMMA CallQuiet ==
  ASSUME Inv,
         \/ Retain \/ Release
         \/ \E id \in Identities : ApplyCredentialIdentity(id)
         \/ ForceReconnect \/ RefreshApprovalKey \/ Destroy
  PROVE  Quiet
<1>1. CASE Retain
  <2>1. CASE state = "idle" /\ identity.configured
    BY <1>1, <2>1, BeginQuiet DEF Retain
  <2>2. CASE ~(state = "idle" /\ identity.configured)
    BY <1>1, <2>2 DEF Retain, Quiet, socketVars, heardVars
  <2> QED BY <2>1, <2>2
<1>2. CASE Release
  <2>1. CASE StopForNoDemand(request)
    BY <2>1, GiveUpQuiet DEF StopForNoDemand
  <2>2. CASE BeginConnect(retain - 1, 0, FALSE)
    BY <2>2, BeginQuiet
  <2>3. CASE UNCHANGED <<state, socketVars, backoff>>
    BY <1>2, <2>3 DEF Release, Quiet, socketVars, heardVars
  <2> QED BY <1>2, <2>1, <2>2, <2>3 DEF Release
<1>3. CASE \E id \in Identities : ApplyCredentialIdentity(id)
  <2>1. GiveUp("idle", request) \/ (state' = "connecting" /\ backoff' = backoff)
    BY <1>3 DEF ApplyCredentialIdentity
  <2> QED BY <2>1, GiveUpQuiet DEF Quiet
<1>4. CASE ForceReconnect
  BY <1>4, RecoverQuiet DEF ForceReconnect
<1>5. CASE RefreshApprovalKey
  BY <1>5 DEF RefreshApprovalKey, Quiet, socketVars, heardVars
<1>6. CASE Destroy
  BY <1>6, GiveUpQuiet DEF Destroy
<1> QED BY <1>1, <1>2, <1>3, <1>4, <1>5, <1>6

LEMMA AnswerQuiet ==
  ASSUME Inv,
         \/ \E gen \in Generations : ApprovalAnswered(gen)
         \/ ApprovalFails
         \/ \E r \in abandoned : AbandonedSettles(r)
  PROVE  Quiet
<1>1. ASSUME NEW gen \in Generations, ApprovalAnswered(gen) PROVE Quiet
  <2> DEFINE accept == Acceptable(gen)
             key    == IF accept THEN Key(gen, request.identity) ELSE approval
             armed  == IF accept /\ retain > 0 /\ identity.configured
                       THEN timers \cup {"refresh"} ELSE timers
  <2>1. armed \subseteq timers \cup {"refresh"}
    OBVIOUS
  <2>2. \/ \E throws \in BOOLEAN, drop \in 0..retain :
             \/ CreateSocket(retain, key, NoRequest, armed, drop, throws)
             \/ ScheduleReconnect(retain, key, NoRequest, armed, drop)
        \/ UNCHANGED <<state, socketVars, backoff>>
    BY <1>1 DEF ApprovalAnswered
  <2> HIDE DEF key, armed
  <2>3. CASE UNCHANGED <<state, socketVars, backoff>>
    BY <1>1, <2>3 DEF ApprovalAnswered, Quiet, socketVars, heardVars
  <2> QED BY <2>1, <2>2, <2>3, CreateQuiet, ScheduleQuiet
<1>2. CASE ApprovalFails
  <2>1. timers \subseteq timers \cup {"refresh"}
    OBVIOUS
  <2>2. CASE UNCHANGED <<state, socketVars, backoff>>
    BY <1>2, <2>2 DEF ApprovalFails, Quiet, socketVars, heardVars
  <2>3. CASE \E drop \in 0..retain : ScheduleReconnect(retain, approval, NoRequest, timers, drop)
    BY <2>1, <2>3, ScheduleQuiet
  <2> QED BY <1>2, <2>2, <2>3 DEF ApprovalFails
<1>3. CASE \E r \in abandoned : AbandonedSettles(r)
  BY <1>3 DEF AbandonedSettles, Quiet, socketVars, heardVars
<1> QED BY <1>1, <1>2, <1>3

LEMMA OtherQuiet ==
  ASSUME Inv,
         \/ \E e \in 1..created : SocketOpens(e) \/ SocketFails(e)
         \/ SendFails \/ PeerGone
         \/ ReconnectTimer \/ ConnectTimeout \/ HeartbeatTick \/ PongTimeout
         \/ Age \/ UNCHANGED vars
  PROVE  Quiet
<1>1. ASSUME NEW e \in 1..created, SocketOpens(e) PROVE Quiet
  BY <1>1, ScheduleQuiet DEF SocketOpens, Quiet
<1>2. CASE ReconnectTimer
  BY <1>2, BeginQuiet DEF ReconnectTimer, Quiet, socketVars, heardVars
<1>3. CASE UNCHANGED <<state, backoff, socket, heard, confirmed>>
  BY <1>3 DEF Quiet
<1>4. CASE \E drop \in 0..retain : Recover(drop)
  BY <1>4, RecoverQuiet
<1>5. CASE PeerGone \/ Age \/ UNCHANGED vars
  BY <1>3, <1>5 DEF PeerGone, Age, vars, socketVars, heardVars
<1>6. CASE ConnectTimeout \/ HeartbeatTick \/ PongTimeout
  BY <1>3, <1>4, <1>6 DEF ConnectTimeout, HeartbeatTick, PongTimeout, socketVars, heardVars
<1>7. CASE SendFails \/ \E e \in 1..created : SocketFails(e)
  BY <1>4, <1>7 DEF SendFails, SocketFails
<1> QED BY <1>1, <1>2, <1>5, <1>6, <1>7

(* Liveness stays the open socket's own, and only such shortens the delays. *)
LEMMA BackoffStep ==
  ASSUME Inv, HeardOfOwn, [Next]_vars
  PROVE  HeardOfOwn' /\ (backoff' < backoff => socket # 0 /\ heard' = socket /\ aged)
<1>1. CASE Quiet
  <2>1. ~(backoff' < backoff)
    BY <1>1, BoundsAssumption DEF Quiet, NextBackoff, Inv, TypeOK
  <2> QED BY <1>1, <2>1 DEF Quiet, HeardOfOwn
<1>2. CASE \E e \in 1..created : Activity(e)
  BY <1>2, BoundsAssumption DEF Activity, IsCurrentSocket, HeardOfOwn, socketVars, Inv, TypeOK
<1>3. CASE StableTimer
  <2>1. UNCHANGED <<state, socket, heard, confirmed>>
    BY <1>3 DEF StableTimer, socketVars, heardVars
  <2>2. backoff' < backoff => state = "open" /\ confirmed /\ aged
    BY <1>3, BoundsAssumption DEF StableTimer, Inv, TypeOK
  <2> QED BY <2>1, <2>2 DEF HeardOfOwn
<1> QED BY <1>1, <1>2, <1>3, CallQuiet, AnswerQuiet, OtherQuiet DEF Next

(* The delay before a reconnect gets shorter only on account of the socket  *)
(* that is open, has been heard from itself and has been open for 30 s,     *)
(* whatever earlier sockets said (resetBackoffAfterConfirmedLiveness).      *)
THEOREM BackoffIsEarned == Spec => BackoffEarned
<1>1. Init => HeardOfOwn
  BY DEF Init, HeardOfOwn
<1>2. Inv /\ HeardOfOwn /\ [Next]_vars =>
        HeardOfOwn' /\ [backoff' < backoff => socket # 0 /\ heard' = socket /\ aged]_vars
  BY BackoffStep
<1> QED
  BY <1>1, <1>2, Invariance, PTL DEF Spec, BackoffEarned
=============================================================================
