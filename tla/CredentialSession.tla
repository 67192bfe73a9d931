-------------------------- MODULE CredentialSession --------------------------
(***************************************************************************)
(* Credentials, access tokens and approval keys, as kept by class          *)
(* CredentialSession (src/src/kis/credential-session.ts) in the global     *)
(* settings, with those who ask it for tokens and keys.                    *)
(*                                                                         *)
(* The settings are what SerialSettings promises: updates are queued, take *)
(* effect one at a time on the settings the one before left, or fail; a    *)
(* copy of the settings (memory) can be read at any time.                  *)
(*                                                                         *)
(* Credentials are a key and a secret, and their fingerprint, which names  *)
(* them, is taken to be injective.  An action is a turn of the event loop; *)
(* every await is taken to be one, other turns may come in between.        *)
(***************************************************************************)
EXTENDS Naturals, Sequences, FiniteSets

CONSTANTS
  Credentials,   \* pairs of key and secret
  No,            \* none
  Requesters,    \* callers of prepareRestAuthorization and getApprovalKey
  MaxChanges,    \* bound on saves and clears
  MaxTokens,     \* bound on tokens issued
  MaxFlights     \* bound on issues under way

ASSUME NoAssumption == No \notin Credentials /\ No \notin Requesters
ASSUME NumbersAssumption == {MaxChanges, MaxFlights} \subseteq Nat /\ MaxTokens \in Nat \ {0}

VARIABLES
  settings,      \* what is stored of the credentials and the token
  memory,        \* the copy getSnapshot() returns
  degraded,      \* status: the base is not known, or not saved
  calls,         \* updates called and not settled
  reconciling,   \* reconciliation, which callers join
  requester,     \* what each requester does and has
  flight,        \* accessTokenFlights and approvalKeyFlights
  issuedFor,     \* the tokens issued so far, and for which credentials
  changes        \* saves and clears so far

repositoryVars == <<settings, memory, degraded, calls>>
issueVars == <<flight, issuedFor>>
vars == <<settings, memory, degraded, calls, reconciling, requester, flight, issuedFor, changes>>

Some == Credentials \cup {No}
FlightIds == 1..MaxFlights
Kinds == {"token", "approval"}

(* key stands for appKey and appSecret, fingerprint and tokenFingerprint    *)
(* for the credentials they are of; token 0 is none.                        *)
Files == [key : Some, fingerprint : Some, generation : Nat,
          token : 0..MaxTokens, tokenFingerprint : Some, version : Nat]
Empty == [key |-> No, fingerprint |-> No, generation |-> 0,
          token |-> 0, tokenFingerprint |-> No, version |-> 0]

(* A lease of a token; version and token are 0 in one of an approval key.   *)
NoLease == [token |-> 0, of |-> No, generation |-> 0, version |-> 0]
Leases == [token : 0..MaxTokens, of : Some, generation : Nat, version : Nat]

Idle == [does |-> "nothing", kind |-> "token", flight |-> 0, lease |-> NoLease]
NoFlight == [kind |-> "token", of |-> No, generation |-> 0, does |-> "nothing",
             attempt |-> 0, token |-> 0]

(* An update: what it is, the lease it concerns, and by whom.               *)
Update(what, lease, by, for) == [what |-> what, lease |-> lease, by |-> by, flight |-> for]

Init ==
  /\ settings \in {s \in [key : Some, fingerprint : Some, generation : {0},
                          token : {0, 1}, tokenFingerprint : Some, version : {0}] :
                     s.token = 0 <=> s.tokenFingerprint = No}
  /\ degraded \in BOOLEAN
  /\ memory = IF degraded THEN Empty ELSE settings
  /\ calls = <<>> /\ reconciling = FALSE
  /\ requester = [r \in Requesters |-> Idle]
  /\ flight = [f \in FlightIds |-> NoFlight]
  /\ issuedFor = IF settings.token = 0 THEN <<>> ELSE <<settings.tokenFingerprint>>
  /\ changes = 0

-----------------------------------------------------------------------------
(* What updaters make of settings.                                          *)

WithoutToken(s) ==
  [s EXCEPT !.token = 0, !.tokenFingerprint = No, !.version = @ + 1]

(* Mutant: other credentials do not begin a new generation. *)
ChangedInPlace(s, c) == [WithoutToken(s) EXCEPT !.key = c, !.fingerprint = c]

(* Other credentials, or none, begin a new generation without a token.      *)
Changed(s, c) ==
  [WithoutToken(s) EXCEPT !.key = c, !.fingerprint = c, !.generation = @ + 1]

HasArtifacts(s) == s # [Empty EXCEPT !.generation = s.generation, !.version = s.version]

HasInvalidToken(s) ==
  /\ s.token # 0 \/ s.tokenFingerprint # No
  /\ s.token = 0 \/ s.tokenFingerprint # s.key

BootstrapNeeded(s) ==
  IF s.key = No THEN HasArtifacts(s) ELSE s.fingerprint # s.key \/ HasInvalidToken(s)

Bootstrapped(s) ==
  IF ~BootstrapNeeded(s) THEN s
  ELSE IF s.key # No /\ s.fingerprint = s.key THEN WithoutToken(s)
  ELSE Changed(s, s.key)

Saved(s, c) == IF s.key = c /\ s.fingerprint = c THEN s ELSE Changed(s, c)

Cleared(s) == IF HasArtifacts(s) THEN Changed(s, No) ELSE s

(* Mutant: the version of the token is not compared. *)
InvalidatedAnyVersion(s, l) ==
  IF /\ s.generation = l.generation /\ s.fingerprint = l.of /\ s.tokenFingerprint = l.of
     /\ s.token # 0
  THEN WithoutToken(s) ELSE s

(* invalidateAccessToken with the expectation l. *)
Invalidated(s, l) ==
  IF /\ s.generation = l.generation /\ s.fingerprint = l.of /\ s.tokenFingerprint = l.of
     /\ s.version = l.version /\ s.token # 0
  THEN WithoutToken(s) ELSE s

(* credentialsMatch. *)
Matches(s, fl) == s.generation = fl.generation /\ s.fingerprint = fl.of /\ s.key = fl.of

WithToken(s, fl) ==
  [s EXCEPT !.token = fl.token, !.tokenFingerprint = fl.of, !.version = @ + 1]

-----------------------------------------------------------------------------
(* Updates.                                                                 *)

Enqueue(update) == calls' = Append(calls, update) /\ UNCHANGED <<settings, memory, degraded>>

(* The first update called takes effect ...                                 *)
Done(s) == settings' = s /\ memory' = s /\ degraded' = FALSE /\ calls' = Tail(calls)

(* ... or its reading or its writing fails.                                 *)
Failed ==
  /\ memory' \in {memory, settings} /\ degraded' = TRUE
  /\ calls' = Tail(calls) /\ UNCHANGED settings

First(what) == calls # <<>> /\ Head(calls).what = what

SaveCredentials(c) ==
  /\ changes < MaxChanges /\ changes' = changes + 1
  /\ Enqueue(Update("save", [NoLease EXCEPT !.of = c], No, 0))
  /\ UNCHANGED <<reconciling, requester, issueVars>>

ClearCredentials ==
  /\ changes < MaxChanges /\ changes' = changes + 1
  /\ Enqueue(Update("clear", NoLease, No, 0))
  /\ UNCHANGED <<reconciling, requester, issueVars>>

(* A save or clear is settled; one made on an outdated revision is refused. *)
CredentialsSettled ==
  /\ \/ First("save") /\ Done(Saved(settings, Head(calls).lease.of))
     \/ First("clear") /\ Done(Cleared(settings))
     \/ (First("save") \/ First("clear")) /\ Failed
     \/ (First("save") \/ First("clear"))
        /\ calls' = Tail(calls) /\ UNCHANGED <<settings, memory, degraded>>
  /\ UNCHANGED <<reconciling, requester, issueVars, changes>>

-----------------------------------------------------------------------------
(* Requests.                                                                *)

Go(r, does) == requester' = [requester EXCEPT ![r].does = does]
End(r) == requester' = [requester EXCEPT ![r] = Idle]

(* prepareRestAuthorization or getApprovalKey is called.                    *)
Ask(r, kind) ==
  /\ requester[r] = Idle
  /\ requester' = [requester EXCEPT
       ![r].does = IF kind = "token" THEN "initialize" ELSE "initialize again",
       ![r].kind = kind]
  /\ UNCHANGED <<repositoryVars, reconciling, issueVars, changes>>

After(does) == IF does = "reconcile" THEN "look" ELSE "join"
Reconciling(does) == IF does = "initialize" THEN "reconcile" ELSE "reconcile again"

(* reconcile finds nothing to repair, and its caller goes on.               *)
Ready(r, does) == requester[r].does = does /\ ~degraded /\ ~BootstrapNeeded(memory)

(* It repairs what is stored, or joins the repair under way.  (bootstrap    *)
(* looks once more whether there is anything to repair; if not, it leaves   *)
(* out the update, which would change nothing.)                             *)
Reconcile(r) ==
  /\ requester[r].does \in {"initialize", "initialize again"}
  /\ degraded \/ BootstrapNeeded(memory)
  /\ Go(r, Reconciling(requester[r].does))
  /\ reconciling' = TRUE
  /\ IF reconciling THEN UNCHANGED repositoryVars
                    ELSE Enqueue(Update("bootstrap", NoLease, No, 0))
  /\ UNCHANGED <<issueVars, changes>>

Reconcilers == {r \in Requesters : requester[r].does \in {"reconcile", "reconcile again"}}

(* bootstrap. *)
Reconciled ==
  /\ First("bootstrap")
  /\ \/ /\ Done(Bootstrapped(settings))
        /\ requester' = [r \in Requesters |->
             IF r \in Reconcilers THEN [requester[r] EXCEPT !.does = After(@)] ELSE requester[r]]
     \/ /\ Failed
        /\ requester' = [r \in Requesters |-> IF r \in Reconcilers THEN Idle ELSE requester[r]]
  /\ reconciling' = FALSE
  /\ UNCHANGED <<issueVars, changes>>

PersistedLease ==
  [token |-> memory.token, of |-> memory.key,
   generation |-> memory.generation, version |-> memory.version]

(* getPersistedAccessToken: a token that lives for 5 minutes more is        *)
(* returned, and one that does not is invalidated.  There is no clock here: *)
(* each token may be either whenever it is looked up.                       *)
LookUp(r) ==
  /\ Ready(r, "initialize") \/ requester[r].does = "look"
  /\ LET ours == memory.key # No /\ memory.fingerprint = memory.key
                 /\ memory.token # 0 /\ memory.tokenFingerprint = memory.key
     IN  \/ /\ ours
            /\ requester' = [requester EXCEPT ![r].does = "authorize", ![r].lease = PersistedLease]
            /\ UNCHANGED repositoryVars
         \/ /\ ours
            /\ Go(r, "invalidate")
            /\ Enqueue(Update("invalidate", PersistedLease, r, 0))
         \/ ~ours /\ Go(r, "initialize again") /\ UNCHANGED repositoryVars
  /\ UNCHANGED <<reconciling, issueVars, changes>>

(* An invalidation is settled: of an old token, or after a 401.             *)
InvalidationSettled ==
  /\ First("invalidate")
  /\ LET r == Head(calls).by IN
     \/ /\ Done(Invalidated(settings, Head(calls).lease))
        /\ IF requester[r].does = "invalidate" THEN Go(r, "initialize again") ELSE End(r)
     \/ Failed /\ End(r)
  /\ UNCHANGED <<reconciling, issueVars, changes>>

Running(f) == flight[f].does # "nothing"

(* The flight of the map with the kind and the key of r.                    *)
Joinable(r) ==
  {f \in FlightIds : Running(f) /\ flight[f].kind = requester[r].kind
                     /\ flight[f].of = memory.key /\ flight[f].generation = memory.generation}

(* The rest of getAccessToken and getApprovalKey: an issue is joined or     *)
(* begun, with its first request to the server.                             *)
Join(r) ==
  /\ Ready(r, "initialize again") \/ requester[r].does = "join"
  /\ \/ memory.key = No /\ End(r) /\ UNCHANGED flight
     \/ /\ memory.key # No
        /\ \E f \in Joinable(r) :
             requester' = [requester EXCEPT ![r].does = "wait", ![r].flight = f]
        /\ UNCHANGED flight
     \/ /\ memory.key # No /\ Joinable(r) = {}
        /\ \E f \in FlightIds :
             /\ ~Running(f) /\ \A g \in 1..(f - 1) : Running(g)
             /\ flight' = [flight EXCEPT ![f] =
                  [kind |-> requester[r].kind, of |-> memory.key,
                   generation |-> memory.generation, does |-> "post", attempt |-> 0, token |-> 0]]
             /\ requester' = [requester EXCEPT ![r].does = "wait", ![r].flight = f]
  /\ UNCHANGED <<repositoryVars, reconciling, issuedFor, changes>>

(* The lease is compared with the settings of now, by                       *)
(* createRestAuthorization and once more by execute.  Generations and       *)
(* versions only grow, so that what has passed stays so, and the second     *)
(* comparison stands for both.                                              *)
IsCurrent(l) ==
  /\ memory.key = l.of /\ memory.fingerprint = l.of /\ memory.generation = l.generation
  /\ memory.token = l.token /\ memory.tokenFingerprint = l.of /\ memory.version = l.version

Execute(r) ==
  /\ requester[r].does = "authorize"
  /\ IF IsCurrent(requester[r].lease) THEN Go(r, "fetch") ELSE End(r)
  /\ UNCHANGED <<repositoryVars, reconciling, issueVars, changes>>

(* The server answers; with a 401, RestCoordinator invalidates the token.   *)
Answered(r) ==
  /\ requester[r].does = "fetch"
  /\ \/ End(r) /\ UNCHANGED repositoryVars
     \/ /\ Go(r, "reject")
        /\ Enqueue(Update("invalidate", requester[r].lease, r, 0))
  /\ UNCHANGED <<reconciling, issueVars, changes>>

-----------------------------------------------------------------------------
(* Issues.                                                                  *)

Waiting(f) == {r \in Requesters : requester[r].does = "wait" /\ requester[r].flight = f}

(* Mutant: a flight that ends leaves the map, and those who wait are not told. *)
LandAlone(f, lease) ==
  flight' = [flight EXCEPT ![f] = NoFlight] /\ UNCHANGED requester

(* A flight ends, and leaves the map: those who wait are given the lease    *)
(* or, if it failed, its error.                                             *)
Land(f, lease) ==
  /\ flight' = [flight EXCEPT ![f] = NoFlight]
  /\ requester' = [r \in Requesters |->
       IF r \notin Waiting(f) THEN requester[r]
       ELSE IF flight[f].kind = "approval" \/ lease = NoLease THEN Idle
       ELSE [does |-> "authorize", kind |-> "token", flight |-> 0, lease |-> lease]]

FlightDoes(f, does) ==
  flight' = [flight EXCEPT ![f].does = does] /\ UNCHANGED requester

(* The server grants what was asked for. *)
PostGranted(f) ==
  /\ flight[f].does = "post"
  /\ IF flight[f].kind = "token"
     THEN /\ Len(issuedFor) < MaxTokens
          /\ issuedFor' = Append(issuedFor, flight[f].of)
          /\ flight' = [flight EXCEPT ![f].does = "persist", ![f].token = Len(issuedFor) + 1]
          /\ Enqueue(Update("persist", NoLease, No, f)) /\ UNCHANGED requester
     ELSE /\ FlightDoes(f, "confirm")
          /\ Enqueue(Update("refresh", NoLease, No, f)) /\ UNCHANGED issuedFor
  /\ UNCHANGED <<reconciling, changes>>

(* EGW00133: the first time it is tried again after a minute.               *)
PostLimited(f) ==
  /\ flight[f].does = "post"
  /\ IF flight[f].attempt = 0
     THEN flight' = [flight EXCEPT ![f].does = "sleep", ![f].attempt = 1] /\ UNCHANGED requester
     ELSE Land(f, NoLease)
  /\ UNCHANGED <<repositoryVars, reconciling, issuedFor, changes>>

(* It is refused, lost, or not answered within 10 s.                        *)
PostFails(f) ==
  /\ flight[f].does = "post"
  /\ Land(f, NoLease)
  /\ UNCHANGED <<repositoryVars, reconciling, issuedFor, changes>>

Wakes(f) ==
  /\ flight[f].does = "sleep"
  /\ FlightDoes(f, "recheck")
  /\ Enqueue(Update("refresh", NoLease, No, f))
  /\ UNCHANGED <<reconciling, issuedFor, changes>>

(* refreshAndCheckCredentials, before the second attempt or with the key.   *)
Refreshed ==
  /\ First("refresh")
  /\ LET f == Head(calls).flight IN
     \/ /\ Done(settings)
        /\ IF flight[f].does = "recheck" /\ Matches(settings, flight[f])
           THEN FlightDoes(f, "post") ELSE Land(f, NoLease)
     \/ Failed /\ Land(f, NoLease)
  /\ UNCHANGED <<reconciling, issuedFor, changes>>

(* A token is stored, if it is for the credentials of now.                  *)
Persisted ==
  /\ First("persist")
  /\ LET f  == Head(calls).flight
         fl == flight[f]
     IN  \/ /\ Matches(settings, fl)
            /\ Done(WithToken(settings, fl))
            /\ Land(f, [token |-> fl.token, of |-> fl.of, generation |-> fl.generation,
                        version |-> settings.version + 1])
         \/ ~Matches(settings, fl) /\ Done(settings) /\ Land(f, NoLease)
         \/ Failed /\ Land(f, NoLease)
  /\ UNCHANGED <<reconciling, issuedFor, changes>>

-----------------------------------------------------------------------------

Proceed(r) ==
  Reconcile(r) \/ LookUp(r) \/ Join(r) \/ Execute(r) \/ Answered(r)
Settle == CredentialsSettled \/ Reconciled \/ InvalidationSettled \/ Refreshed \/ Persisted
Issue(f) == PostGranted(f) \/ PostLimited(f) \/ PostFails(f) \/ Wakes(f)

Next ==
  \/ \E c \in Credentials : SaveCredentials(c)
  \/ ClearCredentials
  \/ \E r \in Requesters : (\E kind \in Kinds : Ask(r, kind)) \/ Proceed(r)
  \/ Settle
  \/ \E f \in FlightIds : Issue(f)

Spec == Init /\ [][Next]_vars
-----------------------------------------------------------------------------
(* Properties.                                                              *)

Deeds == {"nothing", "initialize", "reconcile", "look", "invalidate", "initialize again",
          "reconcile again", "join", "wait", "authorize", "fetch", "reject"}
Duties == {"nothing", "post", "sleep", "recheck", "persist", "confirm"}
Whats == {"save", "clear", "bootstrap", "invalidate", "refresh", "persist"}

(* Every variable keeps its type, a request for a token or a key is made at *)
(* most twice, and a reconciliation is under way while its update is.       *)
TypeOK ==
  /\ settings \in Files /\ memory \in Files /\ degraded \in BOOLEAN
  /\ calls \in Seq([what : Whats, lease : Leases, by : Requesters \cup {No}, flight : 0..MaxFlights])
  /\ reconciling <=> \E i \in DOMAIN calls : calls[i].what = "bootstrap"
  /\ requester \in [Requesters -> [does : Deeds, kind : Kinds, flight : 0..MaxFlights, lease : Leases]]
  /\ flight \in [FlightIds -> [kind : Kinds, of : Some, generation : Nat, does : Duties,
                               attempt : {0, 1}, token : 0..MaxTokens]]
  /\ issuedFor \in Seq(Credentials) /\ Len(issuedFor) <= MaxTokens
  /\ changes \in 0..MaxChanges

(* Nothing crosses over from one pair of credentials to another, however    *)
(* late the server answers: the token that is stored was issued for the     *)
(* credentials that are stored, so was that of every lease for those of the *)
(* lease, and what carries the generation of now is for the credentials of  *)
(* now.                                                                     *)
CredentialsIsolated ==
  /\ settings.token # 0 /\ ~BootstrapNeeded(settings) => issuedFor[settings.token] = settings.key
  /\ \A r \in Requesters : LET l == requester[r].lease IN
       l # NoLease => /\ issuedFor[l.token] = l.of
                      /\ l.generation = settings.generation => l.of = settings.key
  /\ \A f \in FlightIds :
       Running(f) /\ flight[f].generation = settings.generation => flight[f].of = settings.key

(* A token is discarded only on account of itself: neither a 401 nor an     *)
(* expiry that comes late takes away the token that followed.               *)
OwnTokenDiscarded ==
  [][/\ settings.token # 0 /\ settings'.token = 0
     /\ settings'.generation = settings.generation /\ ~BootstrapNeeded(settings)
     => Head(calls).lease.token = settings.token]_vars

(* Nobody waits for what is not under way: those who wait for a flight wait *)
(* for one of their kind that runs, and those who wait for an update, a     *)
(* flight among them, have it in the queue.                                 *)
NobodyForgotten ==
  /\ \A r \in Requesters : LET q == requester[r] IN
       /\ q.does = "wait" => Running(q.flight) /\ flight[q.flight].kind = q.kind
       /\ q.does \in {"reconcile", "reconcile again"} => reconciling
       /\ q.does \in {"invalidate", "reject"} =>
            \E i \in DOMAIN calls : calls[i].what = "invalidate" /\ calls[i].by = r
  /\ \A f \in FlightIds : flight[f].does \in {"persist", "confirm", "recheck"} =>
       \E i \in DOMAIN calls :
         /\ calls[i].what = (IF flight[f].does = "persist" THEN "persist" ELSE "refresh")
         /\ calls[i].flight = f
=============================================================================
