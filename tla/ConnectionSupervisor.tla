------------------------ MODULE ConnectionSupervisor ------------------------
(***************************************************************************)
(* The life cycle of the one WebSocket of the plugin, as kept by class     *)
(* ConnectionSupervisor (src/src/kis/connection-supervisor.ts).            *)
(*                                                                         *)
(* The program is single threaded.  Everything between two turns of the    *)
(* event loop is one action here: a whole handler, with the state that is  *)
(* published to the listener in its middle and what the listener calls     *)
(* back (release() of the demand of entries it drops, a send that throws). *)
(* Interleaving comes from timers, socket events, answers of the           *)
(* credential session and calls of the subscription layer.                 *)
(*                                                                         *)
(* Sockets are numbered in order of creation.  Timers are the set of those *)
(* armed.  The host's timer functions are taken not to throw.              *)
(***************************************************************************)
EXTENDS Naturals, FiniteSets

CONSTANTS
  Generations,      \* credential generations an approval key can belong to
  MaxDemand,        \* bound on retainCount
  MaxIdentity,      \* bound on the epochs of credential identities
  MaxBackoff,       \* index of the last of RECONNECT_DELAYS_MS (5, 10, 20, 40, 60 s)
  MaxDisturbances   \* bound on faults, demand changes and identity changes

ASSUME GenerationsAssumption == Generations \subseteq Nat /\ 0 \in Generations
ASSUME BoundsAssumption ==
  /\ MaxDemand \in Nat /\ MaxIdentity \in Nat
  /\ MaxBackoff \in Nat /\ MaxDisturbances \in Nat

VARIABLES
  state,            \* currentState
  retain,           \* retainCount
  identity,         \* credentialIdentity; epoch 0 stands for undefined
  approval,         \* approval lease in use, with the identity it was asked for
  request,          \* the approval request later callers join
  abandoned,        \* approval requests still running whose epoch has passed
  attempt,          \* connectionAttempt and what its coroutine waits for
  socket,           \* the current socket, 0 for none
  created,          \* sockets created so far
  socketIdentity,   \* history: identity epoch the current socket belongs to
  timers,           \* timers armed
  wait,             \* a reconnectWait promise is unsettled
  backoff,          \* reconnectAttempts, the index into the delays
  awaitingPong,     \* awaitingHeartbeat
  confirmed,        \* hasConfirmedLiveness
  heard,            \* history: the last socket a frame or pong came from
  aged,             \* 30 s have passed since openedAt
  mute,             \* environment: the peer of the current socket is gone
  disturbances      \* disturbances so far

requestVars == <<approval, request, abandoned>>
socketVars == <<socket, created, socketIdentity, mute>>
heardVars == <<confirmed, heard, aged>>
vars == <<state, retain, identity, approval, request, abandoned, attempt, socket,
          created, socketIdentity, timers, wait, backoff, awaitingPong, confirmed,
          heard, aged, mute, disturbances>>

States == {"idle", "connecting", "open", "reconnect_wait", "stopped"}
SocketTimers == {"connect", "heartbeat", "pong", "stable"}
Timers == SocketTimers \cup {"reconnect", "refresh"}

Identities == [epoch : 0..MaxIdentity, gen : Generations, configured : BOOLEAN]
Undefined == [epoch |-> 0, gen |-> 0, configured |-> TRUE]
NoKey == [gen |-> 0, identity |-> 0, held |-> FALSE]
Key(gen, id) == [gen |-> gen, identity |-> id, held |-> TRUE]
Keys == [gen : Generations, identity : 0..MaxIdentity, held : BOOLEAN]
NoRequest == [gen |-> 0, identity |-> 0, running |-> FALSE]
Requests == [gen : Generations, identity : 0..MaxIdentity, running : BOOLEAN]

(* The conditions under which scheduleReconnect reconnects, n demands held. *)
WantedWith(n) == state # "stopped" /\ n > 0 /\ identity.configured
Wanted == WantedWith(retain)

IsCurrentAttempt == state = "connecting" /\ attempt # "none" /\ Wanted

IsCurrentSocket(e) == state # "stopped" /\ socket = e

(* Everything outside the supervisor that is bounded in a run. *)
Disturb ==
  /\ disturbances < MaxDisturbances
  /\ disturbances' = disturbances + 1

Init ==
  /\ state = "idle" /\ retain = 0 /\ identity = Undefined
  /\ approval = NoKey /\ request = NoRequest /\ abandoned = {}
  /\ attempt = "none" /\ socket = 0 /\ created = 0 /\ socketIdentity = 0
  /\ timers = {} /\ wait = FALSE /\ backoff = 0
  /\ awaitingPong = FALSE /\ confirmed = FALSE /\ heard = 0 /\ aged = FALSE
  /\ mute = FALSE /\ disturbances = 0

-----------------------------------------------------------------------------
(* Parts of handlers.                                                       *)

NoSocket ==
  socket' = 0 /\ socketIdentity' = 0 /\ mute' = FALSE /\ created' = created

NextBackoff == IF backoff < MaxBackoff THEN backoff + 1 ELSE MaxBackoff

NewRequest(id) == [gen |-> id.gen, identity |-> id.epoch, running |-> TRUE]

(* Mutant: the reconnect timer survives. *)
GiveUpLeavingTimer(next, req) ==
  /\ state' = next
  /\ timers' = timers \cap {"reconnect"}
  /\ attempt' = "none" /\ wait' = FALSE /\ awaitingPong' = FALSE
  /\ NoSocket
  /\ approval' = NoKey /\ request' = NoRequest
  /\ abandoned' = abandoned \cup {r \in {req} : r.running}
  /\ UNCHANGED backoff

(* The state every path without demand or credentials ends in: timers,      *)
(* attempt, reconnect wait, socket and key are given up, and a request that *)
(* still runs (req) is orphaned.                                            *)
GiveUp(next, req) ==
  /\ state' = next
  /\ timers' = {} /\ attempt' = "none" /\ wait' = FALSE /\ awaitingPong' = FALSE
  /\ NoSocket
  /\ approval' = NoKey /\ request' = NoRequest
  /\ abandoned' = abandoned \cup {r \in {req} : r.running}
  /\ UNCHANGED backoff

StopForNoDemand(req) == retain' = 0 /\ GiveUp("idle", req)

(* recover and failAttempt: the timers of the socket, the attempt and the   *)
(* socket are given up, then scheduleReconnect.  It finds n demands,        *)
(* approval `key`, request `req` and timers `armed`.  Publishing            *)
(* reconnect_wait lets the listener drop `drop` demands; dropping the last  *)
(* one stops everything, and no timer is armed.                             *)
ScheduleReconnect(n, key, req, armed, drop) ==
  LET kept == armed \ SocketTimers IN
  IF WantedWith(n) /\ "reconnect" \notin kept /\ drop = n
  THEN StopForNoDemand(req)
  ELSE /\ attempt' = "none" /\ awaitingPong' = FALSE
       /\ NoSocket
       /\ approval' = key /\ request' = req /\ abandoned' = abandoned
       /\ IF ~WantedWith(n)
          THEN state' = "idle" /\ retain' = n /\ timers' = kept /\ UNCHANGED <<wait, backoff>>
          ELSE IF "reconnect" \in kept
          THEN retain' = n /\ timers' = kept /\ UNCHANGED <<state, wait, backoff>>
          ELSE /\ state' = "reconnect_wait" /\ retain' = n - drop
               /\ timers' = kept \cup {"reconnect"}
               /\ wait' = TRUE /\ backoff' = NextBackoff

(* The same, when nothing else was changed before in the same turn.         *)
Recover(drop) ==
  /\ ScheduleReconnect(retain, approval, request, timers, drop)
  /\ UNCHANGED <<identity, heardVars>>

(* Mutant: no connect timeout is set. *)
CreateSocketUntimed(n, key, req, armed, drop, throws) ==
  IF throws
  THEN ScheduleReconnect(n, key, req, armed, drop)
  ELSE /\ state' = "connecting" /\ retain' = n - drop
       /\ timers' = armed
       /\ attempt' = "socket"
       /\ socket' = created + 1 /\ created' = created + 1
       /\ socketIdentity' = identity.epoch /\ mute' = FALSE
       /\ approval' = key /\ request' = req /\ abandoned' = abandoned
       /\ UNCHANGED <<wait, backoff, awaitingPong>>

(* createSocket: the factory returns a socket, or throws and the attempt    *)
(* fails.  The other parameters are those of ScheduleReconnect.             *)
CreateSocket(n, key, req, armed, drop, throws) ==
  IF throws
  THEN ScheduleReconnect(n, key, req, armed, drop)
  ELSE /\ state' = "connecting" /\ retain' = n - drop
       /\ timers' = armed \cup {"connect"}
       /\ attempt' = "socket"
       /\ socket' = created + 1 /\ created' = created + 1
       /\ socketIdentity' = identity.epoch /\ mute' = FALSE
       /\ approval' = key /\ request' = req /\ abandoned' = abandoned
       /\ UNCHANGED <<wait, backoff, awaitingPong>>

(* Mutant: the reconnect timer is not cleared when another path connects.   *)
BeginConnectTwice(n, drop, throws) ==
  IF drop = n
  THEN StopForNoDemand(request)
  ELSE IF approval.held
  THEN CreateSocket(n, approval, request, timers, drop, throws)
  ELSE /\ state' = "connecting" /\ retain' = n - drop
       /\ attempt' = "approval"
       /\ request' = IF request.running THEN request ELSE NewRequest(identity)
       /\ NoSocket
       /\ UNCHANGED <<approval, abandoned, timers, wait, backoff, awaitingPong>>

(* beginConnect with n demands, of which the listener of "connecting" drops *)
(* some.  With a key the socket is made in the same turn; without one the   *)
(* attempt joins the approval request that runs, or starts one.             *)
BeginConnect(n, drop, throws) ==
  LET armed == timers \ {"reconnect"} IN
  IF drop = n
  THEN StopForNoDemand(request)
  ELSE IF approval.held
  THEN CreateSocket(n, approval, request, armed, drop, throws)
  ELSE /\ state' = "connecting" /\ retain' = n - drop
       /\ timers' = armed
       /\ attempt' = "approval"
       /\ request' = IF request.running THEN request ELSE NewRequest(identity)
       /\ NoSocket
       /\ UNCHANGED <<approval, abandoned, wait, backoff, awaitingPong>>

-----------------------------------------------------------------------------
(* Calls of the subscription layer, the runtime and the Property Inspector. *)

(* retain and ensureConnection. *)
Retain ==
  /\ state # "stopped" /\ retain < MaxDemand
  /\ Disturb
  /\ IF state = "idle" /\ identity.configured
     THEN \E drop \in 0..(retain + 1), throws \in BOOLEAN :
             BeginConnect(retain + 1, drop, throws)
     ELSE /\ retain' = retain + 1
          /\ wait' = (wait \/ (state = "reconnect_wait" /\ identity.configured))
          /\ UNCHANGED <<state, requestVars, attempt, socketVars, timers, backoff,
                         awaitingPong>>
  /\ UNCHANGED <<identity, heardVars>>

(* release and setDemand: the last demand stops the connection.             *)
Release ==
  /\ state # "stopped" /\ retain > 0
  /\ Disturb
  /\ IF retain = 1
     THEN StopForNoDemand(request)
     ELSE IF state = "idle" /\ identity.configured
     THEN BeginConnect(retain - 1, 0, FALSE)
     ELSE /\ retain' = retain - 1
          /\ wait' = (wait \/ (state = "reconnect_wait" /\ identity.configured))
          /\ UNCHANGED <<state, requestVars, attempt, socketVars, timers, backoff,
                         awaitingPong>>
  /\ UNCHANGED <<identity, heardVars>>

(* applyCredentialIdentity with an identity of a later epoch; the other     *)
(* calls return early.  The old key, request, attempt and socket are given  *)
(* up at once, and with demand left a new attempt asks for a new key.       *)
ApplyCredentialIdentity(id) ==
  /\ state # "stopped"
  /\ id.epoch > identity.epoch
  /\ Disturb
  /\ identity' = id
  /\ LET next == IF id.configured /\ retain > 0 THEN "connecting" ELSE "idle" IN
     \E drop \in IF state = next THEN {0} ELSE 0..retain :
       IF next = "idle" \/ drop = retain
       THEN retain' = retain - drop /\ GiveUp("idle", request)
       ELSE /\ state' = "connecting" /\ retain' = retain - drop
            /\ timers' = {} /\ attempt' = "approval" /\ wait' = FALSE
            /\ awaitingPong' = FALSE
            /\ NoSocket
            /\ approval' = NoKey /\ request' = NewRequest(id)
            /\ abandoned' = abandoned \cup {r \in {request} : r.running}
            /\ UNCHANGED backoff
  /\ UNCHANGED heardVars

(* forceReconnect: a wait that has begun is kept.                           *)
ForceReconnect ==
  /\ Wanted /\ state # "reconnect_wait"
  /\ Disturb
  /\ \E drop \in 0..retain : Recover(drop)

(* refreshApprovalKey, called by its timer or from the Property Inspector   *)
(* ("auth/retry"): it joins the request that runs, or starts one.           *)
RefreshApprovalKey ==
  /\ state # "stopped" /\ identity.configured
  /\ ~request.running
  /\ \/ "refresh" \in timers /\ UNCHANGED disturbances
     \/ Disturb
  /\ request' = NewRequest(identity)
  /\ UNCHANGED <<state, retain, identity, approval, abandoned, attempt, socketVars, timers,
                 wait, backoff, awaitingPong, heardVars>>

Destroy ==
  /\ state # "stopped"
  /\ Disturb
  /\ retain' = 0
  /\ GiveUp("stopped", request)
  /\ UNCHANGED <<identity, heardVars>>

-----------------------------------------------------------------------------
(* Answers of the credential session.                                       *)

(* The lease of generation gen is adopted by performApprovalRequest.        *)
Acceptable(gen) ==
  /\ identity.epoch > 0 =>
       identity.configured /\ request.gen = identity.gen /\ gen = identity.gen
  /\ approval.held => gen >= approval.gen

(* Mutant: a lease that is not adopted ends the coroutine silently. *)
ApprovalIgnored(gen) ==
  /\ request.running
  /\ LET accept == Acceptable(gen)
         key    == IF accept THEN Key(gen, request.identity) ELSE approval
         armed  == IF accept /\ retain > 0 /\ identity.configured
                   THEN timers \cup {"refresh"} ELSE timers
     IN  IF IsCurrentAttempt /\ attempt = "approval" /\ accept
         THEN CreateSocket(retain, key, NoRequest, armed, 0, FALSE) /\ UNCHANGED disturbances
         ELSE /\ approval' = key /\ request' = NoRequest /\ timers' = armed
              /\ UNCHANGED <<state, retain, abandoned, attempt, socketVars, wait, backoff,
                             awaitingPong, disturbances>>
  /\ UNCHANGED <<identity, heardVars>>

(* The running request is answered with a lease.  A current attempt goes on *)
(* in the same turn: with a key it makes its socket, without one it fails.  *)
ApprovalAnswered(gen) ==
  /\ request.running
  /\ LET accept == Acceptable(gen)
         key    == IF accept THEN Key(gen, request.identity) ELSE approval
         armed  == IF accept /\ retain > 0 /\ identity.configured
                   THEN timers \cup {"refresh"} ELSE timers
     IN  IF IsCurrentAttempt /\ attempt = "approval"
         THEN \E throws \in BOOLEAN, drop \in 0..retain :
                /\ IF accept /\ ~throws THEN drop = 0 /\ UNCHANGED disturbances
                                        ELSE Disturb
                /\ IF accept
                   THEN CreateSocket(retain, key, NoRequest, armed, drop, throws)
                   ELSE ScheduleReconnect(retain, key, NoRequest, armed, drop)
         ELSE /\ approval' = key /\ request' = NoRequest /\ timers' = armed
              /\ UNCHANGED <<state, retain, abandoned, attempt, socketVars, wait, backoff,
                             awaitingPong, disturbances>>
  /\ UNCHANGED <<identity, heardVars>>

(* The running request fails (rejected, timed out, no network).             *)
ApprovalFails ==
  /\ request.running
  /\ Disturb
  /\ IF IsCurrentAttempt /\ attempt = "approval"
     THEN \E drop \in 0..retain : ScheduleReconnect(retain, approval, NoRequest, timers, drop)
     ELSE /\ request' = NoRequest
          /\ UNCHANGED <<state, retain, approval, abandoned, attempt, socketVars, timers,
                         wait, backoff, awaitingPong>>
  /\ UNCHANGED <<identity, heardVars>>

(* Mutant: the epoch of the request is not compared with the current one. *)
AbandonedAdopted(r) ==
  /\ r \in abandoned
  /\ abandoned' = abandoned \ {r}
  /\ approval' = Key(r.gen, r.identity)
  /\ UNCHANGED <<state, retain, identity, request, attempt, socketVars, timers,
                 wait, backoff, awaitingPong, heardVars, disturbances>>

(* A request of a passed epoch settles, and nobody reads its answer.        *)
AbandonedSettles(r) ==
  /\ r \in abandoned
  /\ abandoned' = abandoned \ {r}
  /\ UNCHANGED <<state, retain, identity, approval, request, attempt, socketVars, timers,
                 wait, backoff, awaitingPong, heardVars, disturbances>>

-----------------------------------------------------------------------------
(* Events of sockets, the superseded ones included.                         *)

(* Mutant: liveness confirmed on an earlier socket is taken over. *)
SocketOpensConfirmed(e) ==
  /\ IsCurrentSocket(e) /\ IsCurrentAttempt
  /\ ~mute
  /\ state' = "open" /\ attempt' = "none" /\ wait' = FALSE
  /\ timers' = (timers \ SocketTimers) \cup {"heartbeat", "stable"}
  /\ awaitingPong' = FALSE
  /\ aged' = FALSE
  /\ UNCHANGED <<retain, requestVars, socketVars, backoff, disturbances, identity,
                 heard, confirmed>>

(* handleOpen.  The listener of "open" may send at once, and a send that    *)
(* throws recovers before the handler goes on.                              *)
SocketOpens(e) ==
  /\ IsCurrentSocket(e) /\ IsCurrentAttempt
  /\ ~mute
  /\ \/ /\ state' = "open" /\ attempt' = "none" /\ wait' = FALSE
        /\ timers' = (timers \ SocketTimers) \cup {"heartbeat", "stable"}
        /\ awaitingPong' = FALSE
        /\ UNCHANGED <<retain, requestVars, socketVars, backoff, disturbances>>
     \/ /\ Disturb
        /\ \E drop \in 0..retain :
             ScheduleReconnect(retain, approval, request, timers, drop)
  /\ confirmed' = FALSE /\ aged' = FALSE
  /\ UNCHANGED <<identity, heard>>

(* The "error" and "close" events. *)
SocketFails(e) ==
  /\ IsCurrentSocket(e)
  /\ Disturb
  /\ \E drop \in 0..retain : Recover(drop)

(* A frame or a pong of a socket that is open: handleActivity.              *)
Activity(e) ==
  /\ IsCurrentSocket(e) /\ state = "open"
  /\ ~mute
  /\ confirmed' = TRUE /\ heard' = e
  /\ awaitingPong' = FALSE
  /\ timers' = timers \ {"pong"}
  /\ backoff' = IF aged THEN 0 ELSE backoff
  /\ UNCHANGED <<state, retain, identity, requestVars, attempt, socketVars, wait, aged,
                 disturbances>>

(* sendRaw throws: a control frame, or the echo of PINGPONG.                *)
SendFails ==
  /\ state = "open" /\ socket # 0
  /\ Disturb
  /\ \E drop \in 0..retain : Recover(drop)

(* The peer of the current socket disappears without closing it.            *)
PeerGone ==
  /\ socket # 0 /\ ~mute
  /\ Disturb
  /\ mute' = TRUE
  /\ UNCHANGED <<state, retain, identity, requestVars, attempt, socket, created,
                 socketIdentity, timers, wait, backoff, awaitingPong, heardVars>>

-----------------------------------------------------------------------------
(* Timers.                                                                  *)

ReconnectTimer ==
  /\ "reconnect" \in timers
  /\ IF state = "reconnect_wait" /\ retain > 0
     THEN \E drop \in 0..retain, throws \in BOOLEAN :
            /\ IF throws THEN Disturb ELSE UNCHANGED disturbances
            /\ BeginConnect(retain, drop, throws)
     ELSE /\ timers' = timers \ {"reconnect"}
          /\ UNCHANGED <<state, retain, requestVars, attempt, socketVars, wait, backoff,
                         awaitingPong, disturbances>>
  /\ UNCHANGED <<identity, heardVars>>

(* 10 s without "open": a slow server is a disturbance, a dead one is not.  *)
ConnectTimeout ==
  /\ "connect" \in timers
  /\ IF mute THEN UNCHANGED disturbances ELSE Disturb
  /\ IF socket # 0 /\ IsCurrentAttempt
     THEN \E drop \in 0..retain : Recover(drop)
     ELSE /\ timers' = timers \ {"connect"}
          /\ UNCHANGED <<state, retain, identity, requestVars, attempt, socketVars, wait,
                         backoff, awaitingPong, heardVars>>

(* Mutant: the ping is sent, and nothing waits for its answer. *)
HeartbeatTickOnly ==
  /\ "heartbeat" \in timers
  /\ socket # 0 /\ state = "open"
  /\ ~awaitingPong
  /\ awaitingPong' = TRUE
  /\ UNCHANGED <<state, retain, identity, requestVars, attempt, socketVars, timers, wait,
                 backoff, heardVars, disturbances>>

(* 15 s without activity: the socket is pinged, or its ping() throws.       *)
HeartbeatTick ==
  /\ "heartbeat" \in timers
  /\ socket # 0 /\ state = "open"
  /\ ~awaitingPong
  /\ \/ /\ awaitingPong' = TRUE
        /\ timers' = timers \cup {"pong"}
        /\ UNCHANGED <<state, retain, identity, requestVars, attempt, socketVars, wait,
                       backoff, heardVars, disturbances>>
     \/ Disturb /\ \E drop \in 0..retain : Recover(drop)

(* 5 s without an answer to the ping. *)
PongTimeout ==
  /\ "pong" \in timers
  /\ IF mute THEN UNCHANGED disturbances ELSE Disturb
  /\ IF socket # 0 /\ awaitingPong
     THEN \E drop \in 0..retain : Recover(drop)
     ELSE /\ timers' = timers \ {"pong"}
          /\ UNCHANGED <<state, retain, identity, requestVars, attempt, socketVars, wait,
                         backoff, awaitingPong, heardVars>>

(* The clock passes openedAt + 30 s; the timer set for it may fire before   *)
(* or after, being measured by another clock.                               *)
Age ==
  /\ state = "open" /\ ~aged
  /\ aged' = TRUE
  /\ UNCHANGED <<state, retain, identity, requestVars, attempt, socketVars, timers, wait,
                 backoff, awaitingPong, confirmed, heard, disturbances>>

StableTimer ==
  /\ "stable" \in timers
  /\ timers' = timers \ {"stable"}
  /\ backoff' = IF socket # 0 /\ state = "open" /\ ~awaitingPong /\ confirmed /\ aged
                THEN 0 ELSE backoff
  /\ UNCHANGED <<state, retain, identity, requestVars, attempt, socketVars, wait,
                 awaitingPong, heardVars, disturbances>>

-----------------------------------------------------------------------------

Next ==
  \/ Retain \/ Release
  \/ \E id \in Identities : ApplyCredentialIdentity(id)
  \/ ForceReconnect \/ RefreshApprovalKey \/ Destroy
  \/ \E gen \in Generations : ApprovalAnswered(gen)
  \/ ApprovalFails
  \/ \E r \in abandoned : AbandonedSettles(r)
  \/ \E e \in 1..created : SocketOpens(e) \/ SocketFails(e) \/ Activity(e)
  \/ SendFails \/ PeerGone
  \/ ReconnectTimer \/ ConnectTimeout \/ HeartbeatTick \/ PongTimeout
  \/ Age \/ StableTimer

(* Timers fire, an approval request settles (its HTTP call is bounded by    *)
(* 10 s), and a server that is there and not slow for ever accepts.         *)
Fairness ==
  /\ WF_vars(ReconnectTimer) /\ WF_vars(ConnectTimeout)
  /\ WF_vars(HeartbeatTick) /\ WF_vars(PongTimeout)
  /\ WF_vars(\E gen \in Generations : ApprovalAnswered(gen))
  /\ WF_vars(\E e \in 1..created : SocketOpens(e))

Spec == Init /\ [][Next]_vars /\ Fairness
-----------------------------------------------------------------------------
(* Properties.                                                              *)

(* Every variable keeps its type; the delay index stays within the table    *)
(* (RECONNECT_DELAYS_MS).                                                   *)
TypeOK ==
  /\ state \in States
  /\ retain \in 0..MaxDemand
  /\ identity \in Identities
  /\ approval \in Keys /\ request \in Requests /\ abandoned \in SUBSET Requests
  /\ attempt \in {"none", "approval", "socket"}
  /\ created \in Nat /\ socket \in 0..created /\ socketIdentity \in 0..MaxIdentity
  /\ timers \in SUBSET Timers
  /\ wait \in BOOLEAN
  /\ backoff \in 0..MaxBackoff
  /\ awaitingPong \in BOOLEAN /\ confirmed \in BOOLEAN /\ aged \in BOOLEAN
  /\ heard \in 0..created
  /\ mute \in BOOLEAN
  /\ disturbances \in Nat

(* A connection that is wanted is never left with nobody to move it: an     *)
(* approval request runs for the attempt, or a socket is being opened under *)
(* a connect timeout, or an open socket is watched by the heartbeat, or the *)
(* reconnect timer is armed.                                                *)
NeverStranded ==
  Wanted =>
    \/ state = "connecting" /\ attempt = "approval" /\ request.running
    \/ state = "connecting" /\ attempt = "socket" /\ socket # 0 /\ "connect" \in timers
    \/ state = "open" /\ socket # 0 /\ "heartbeat" \in timers
    \/ state = "reconnect_wait" /\ "reconnect" \in timers

(* Without demand, without credentials or after destroy() nothing is kept   *)
(* that could open a connection: no attempt, no socket, no timer.           *)
NoWorkUnwanted ==
  ~Wanted => attempt = "none" /\ socket = 0 /\ timers = {} /\ state \in {"idle", "stopped"}

(* There is one way forward at a time: while the reconnect timer is armed   *)
(* the state is reconnect_wait and neither an attempt nor a socket exists.  *)
OneWayForward ==
  "reconnect" \in timers => state = "reconnect_wait" /\ attempt = "none" /\ socket = 0

(* Nothing of an earlier credential identity is in use: neither a socket    *)
(* opened under it, nor a key asked for under it, however late it came.     *)
CurrentIdentityOnly ==
  /\ socket # 0 => socketIdentity = identity.epoch
  /\ approval.held => /\ approval.identity = identity.epoch
                      /\ identity.epoch > 0 => approval.gen = identity.gen

(* A caller of retain() waits for a reconnect only while one is under way,  *)
(* so its promise is settled on every path.                                 *)
WaitersServed == wait => state \in {"connecting", "reconnect_wait"}

(* The flag that keeps the heartbeat from pinging again is set exactly      *)
(* while the timeout that clears it is armed.                               *)
PingIsWatched == awaitingPong <=> "pong" \in timers

(* The backoff is reset only on a socket that has been heard from itself    *)
(* and has been open for 30 s, not on the strength of an earlier one.       *)
BackoffEarned ==
  [][backoff' < backoff => socket # 0 /\ heard' = socket /\ aged]_vars

(* After destroy() no late answer, event or call starts anything again.     *)
StoppedForGood ==
  [][state = "stopped" =>
       UNCHANGED <<state, retain, approval, request, socket, timers, attempt>>]_vars

(* Once faults and changes cease, a connection that is wanted is open.      *)
Recovers == Wanted ~> (state = "open" \/ ~Wanted)

(* A peer that is gone without a close is noticed, and its socket given up. *)
HalfOpenDetected == mute ~> ~mute

(* "rearms the 30 minute refresh timer when demand reappears": while the    *)
(* connection is open the refresh timer of the approval key runs.           *)
OpenKeepsRefreshing == state = "open" => "refresh" \in timers
=============================================================================
