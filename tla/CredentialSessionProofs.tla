----------------------- MODULE CredentialSessionProofs -----------------------
(* Nothing crosses from one pair of credentials to another, no token is      *)
(* discarded on account of another, and nobody waits for nothing: for any    *)
(* credentials, requesters, flights, tokens and changes. Then, of the        *)
(* repository the session keeps its settings in: its snapshots are true, and *)
(* it serves its updates one at a time.                                      *)
EXTENDS CredentialSession, GlobalSettings, TLAPS

CallSet == [what : Whats, lease : Leases, by : Requesters \cup {No}, flight : 0..MaxFlights]
RequestSet == [does : Deeds, kind : Kinds, flight : 0..MaxFlights, lease : Leases]
FlightSet == [kind : Kinds, of : Some, generation : Nat, does : Duties,
              attempt : {0, 1}, token : 0..MaxTokens]

(* Settings t come after s: other credentials have another generation, and   *)
(* another token another version.                                            *)
Follows(t, s) ==
  /\ s.generation <= t.generation /\ (s.generation = t.generation => s.key = t.key)
  /\ s.version <= t.version /\ (s.version = t.version => s.token = t.token)

(* What carries a generation, a version or a token carries that of its       *)
(* credentials.                                                              *)
Dated(s, of, gen) == gen <= s.generation /\ (gen = s.generation => of = s.key)
Versioned(s, tok, ver) == ver <= s.version /\ (ver = s.version => tok = s.token)
Issued(iss, tok, of) == tok \in 1..Len(iss) /\ iss[tok] = of

Leased(s, iss, l) ==
  l # NoLease =>
    /\ Dated(s, l.of, l.generation) /\ Versioned(s, l.token, l.version)
    /\ Issued(iss, l.token, l.of)
Flown(s, iss, fl) ==
  /\ fl.does # "nothing" => Dated(s, fl.of, fl.generation) /\ fl.of \in Credentials
  /\ fl.does = "persist" => Issued(iss, fl.token, fl.of)
Copied(s, iss, m) ==
  m.key # No =>
    /\ Dated(s, m.key, m.generation) /\ Versioned(s, m.token, m.version)
    /\ m.token # 0 => Issued(iss, m.token, m.tokenFingerprint)
OwnTokenStored(s, iss) == s.token # 0 => Issued(iss, s.token, s.tokenFingerprint)

(* What a call in the queue is about. *)
Grounded(s, iss, c) ==
  /\ c.what = "invalidate" => c.by \in Requesters /\ Leased(s, iss, c.lease)
  /\ c.what = "save" => c.lease.of \in Credentials

Isolated(s, m, iss, req, fl, q) ==
  /\ OwnTokenStored(s, iss) /\ Copied(s, iss, m)
  /\ \A r \in Requesters : Leased(s, iss, req[r].lease)
  /\ \A f \in FlightIds : Flown(s, iss, fl[f])
  /\ \A i \in 1..Len(q) : Grounded(s, iss, q[i])

(* Each flight that waits for an update has one call in the queue, and no    *)
(* call is there for any other; the one of a reconciliation is there once.   *)
Expects(does, what) ==
  \/ does = "persist" /\ what = "persist"
  \/ does \in {"confirm", "recheck"} /\ what = "refresh"

Claimed(fl, q) ==
  /\ \A i \in 1..Len(q) :
       IF q[i].what \in {"persist", "refresh"}
       THEN q[i].flight \in FlightIds /\ Expects(fl[q[i].flight].does, q[i].what)
       ELSE q[i].flight = 0
  /\ \A i, j \in 1..Len(q) : q[i].flight = q[j].flight /\ q[i].flight # 0 => i = j
  /\ \A f \in FlightIds : fl[f].does \in {"persist", "confirm", "recheck"} =>
       \E i \in 1..Len(q) : q[i].flight = f

OneRepair(rec, q) ==
  /\ rec <=> \E i \in 1..Len(q) : q[i].what = "bootstrap"
  /\ \A i, j \in 1..Len(q) : q[i].what = "bootstrap" /\ q[j].what = "bootstrap" => i = j

(* Who waits is waited for. *)
Promised(rq, r, fl, rec, q) ==
  /\ rq.does = "wait" =>
       /\ rq.flight \in FlightIds /\ fl[rq.flight].does # "nothing"
       /\ fl[rq.flight].kind = rq.kind
  /\ rq.does \in {"reconcile", "reconcile again"} => rec
  /\ rq.does \in {"invalidate", "reject"} =>
       \E i \in 1..Len(q) : q[i].what = "invalidate" /\ q[i].by = r

Told(req, fl, rec, q) == \A r \in Requesters : Promised(req[r], r, fl, rec, q)

Typed ==
  /\ settings \in Files /\ memory \in Files /\ degraded \in BOOLEAN
  /\ calls \in Seq(CallSet) /\ reconciling \in BOOLEAN
  /\ requester \in [Requesters -> RequestSet] /\ flight \in [FlightIds -> FlightSet]
  /\ issuedFor \in Seq(Credentials) /\ Len(issuedFor) <= MaxTokens
  /\ changes \in 0..MaxChanges

Inv ==
  /\ Typed
  /\ Isolated(settings, memory, issuedFor, requester, flight, calls)
  /\ Claimed(flight, calls)
  /\ OneRepair(reconciling, calls)
  /\ Told(requester, flight, reconciling, calls)

-----------------------------------------------------------------------------
(* What updates make of the settings.                                        *)

LEMMA NoIsSome == No \in Some /\ Credentials \subseteq Some
BY DEF Some

LEMMA FollowsItself == ASSUME NEW s \in Files PROVE Follows(s, s)
BY DEF Follows, Files

LEMMA FileFields ==
  ASSUME NEW s \in Files
  PROVE  /\ s.key \in Some /\ s.fingerprint \in Some /\ s.generation \in Nat
         /\ s.token \in 0..MaxTokens /\ s.tokenFingerprint \in Some /\ s.version \in Nat
BY DEF Files

PutToken(s, v) == [s EXCEPT !.token = v]
PutTokenOf(s, v) == [s EXCEPT !.tokenFingerprint = v]
PutVersion(s, v) == [s EXCEPT !.version = v]
PutKey(s, v) == [s EXCEPT !.key = v]
PutPrint(s, v) == [s EXCEPT !.fingerprint = v]
PutGeneration(s, v) == [s EXCEPT !.generation = v]

LEMMA PutTokenType ==
  ASSUME NEW s \in Files, NEW v \in 0..MaxTokens
  PROVE  /\ PutToken(s, v) \in Files /\ PutToken(s, v).token = v
         /\ PutToken(s, v).key = s.key /\ PutToken(s, v).generation = s.generation
         /\ PutToken(s, v).version = s.version
         /\ PutToken(s, v).tokenFingerprint = s.tokenFingerprint
BY DEF Files, PutToken

LEMMA PutTokenOfType ==
  ASSUME NEW s \in Files, NEW v \in Some
  PROVE  /\ PutTokenOf(s, v) \in Files /\ PutTokenOf(s, v).tokenFingerprint = v
         /\ PutTokenOf(s, v).key = s.key /\ PutTokenOf(s, v).generation = s.generation
         /\ PutTokenOf(s, v).version = s.version /\ PutTokenOf(s, v).token = s.token
BY DEF Files, PutTokenOf

LEMMA PutVersionType ==
  ASSUME NEW s \in Files, NEW v \in Nat
  PROVE  /\ PutVersion(s, v) \in Files /\ PutVersion(s, v).version = v
         /\ PutVersion(s, v).key = s.key /\ PutVersion(s, v).generation = s.generation
         /\ PutVersion(s, v).token = s.token
         /\ PutVersion(s, v).tokenFingerprint = s.tokenFingerprint
BY DEF Files, PutVersion

LEMMA PutKeyType ==
  ASSUME NEW s \in Files, NEW v \in Some
  PROVE  /\ PutKey(s, v) \in Files /\ PutKey(s, v).key = v
         /\ PutKey(s, v).generation = s.generation /\ PutKey(s, v).token = s.token
         /\ PutKey(s, v).version = s.version
BY DEF Files, PutKey

LEMMA PutPrintType ==
  ASSUME NEW s \in Files, NEW v \in Some
  PROVE  /\ PutPrint(s, v) \in Files /\ PutPrint(s, v).key = s.key
         /\ PutPrint(s, v).generation = s.generation /\ PutPrint(s, v).token = s.token
         /\ PutPrint(s, v).version = s.version
BY DEF Files, PutPrint

LEMMA PutGenerationType ==
  ASSUME NEW s \in Files, NEW v \in Nat
  PROVE  /\ PutGeneration(s, v) \in Files /\ PutGeneration(s, v).generation = v
         /\ PutGeneration(s, v).key = s.key /\ PutGeneration(s, v).token = s.token
         /\ PutGeneration(s, v).version = s.version
BY DEF Files, PutGeneration

(* An update that puts a token, or none, gives it a version.                 *)
Retoken(s, n, of) == PutVersion(PutTokenOf(PutToken(s, n), of), s.version + 1)

LEMMA RetokenFields ==
  ASSUME NEW s \in Files, NEW n \in 0..MaxTokens, NEW of \in Some
  PROVE  /\ Retoken(s, n, of) \in Files
         /\ Retoken(s, n, of).token = n /\ Retoken(s, n, of).tokenFingerprint = of
         /\ Retoken(s, n, of).version = s.version + 1
         /\ Retoken(s, n, of).generation = s.generation /\ Retoken(s, n, of).key = s.key
<1>1. PICK a : a = PutToken(s, n)
  OBVIOUS
<1>2. /\ a \in Files /\ a.token = n /\ a.key = s.key /\ a.generation = s.generation
      /\ a.version = s.version
  BY <1>1, PutTokenType
<1>3. PICK b : b = PutTokenOf(a, of)
  OBVIOUS
<1>4. /\ b \in Files /\ b.token = n /\ b.tokenFingerprint = of /\ b.key = s.key
      /\ b.generation = s.generation
  BY <1>2, <1>3, PutTokenOfType
<1>5. s.version + 1 \in Nat
  BY FileFields
<1>6. PICK v \in Nat : v = s.version + 1
  BY <1>5
<1>7. PICK c : c = PutVersion(b, v)
  OBVIOUS
<1>8. /\ c \in Files /\ c.token = n /\ c.tokenFingerprint = of /\ c.key = s.key
      /\ c.generation = s.generation /\ c.version = v
  BY <1>4, <1>7, PutVersionType
<1>9. Retoken(s, n, of) = c
  BY <1>1, <1>3, <1>6, <1>7 DEF Retoken
<1> QED BY <1>6, <1>8, <1>9

LEMMA WithoutTokenFields ==
  ASSUME NEW s \in Files
  PROVE  /\ WithoutToken(s) \in Files
         /\ WithoutToken(s).token = 0 /\ WithoutToken(s).version = s.version + 1
         /\ WithoutToken(s).generation = s.generation /\ WithoutToken(s).key = s.key
<1>1. WithoutToken(s) = Retoken(s, 0, No)
  BY DEF WithoutToken, Retoken, PutToken, PutTokenOf, PutVersion, Files
<1>2. 0 \in 0..MaxTokens /\ No \in Some
  BY NumbersAssumption, NoIsSome
<1>3. PICK t : t = Retoken(s, 0, No)
  OBVIOUS
<1>4. /\ t \in Files /\ t.token = 0 /\ t.version = s.version + 1
      /\ t.generation = s.generation /\ t.key = s.key
  BY <1>2, <1>3, RetokenFields
<1> QED BY <1>1, <1>3, <1>4

LEMMA WithoutTokenFollows ==
  ASSUME NEW s \in Files
  PROVE  Follows(WithoutToken(s), s) /\ WithoutToken(s).token = 0
<1>1. s.generation \in Nat /\ s.version \in Nat
  BY DEF Files
<1> QED BY <1>1, WithoutTokenFields DEF Follows

LEMMA ChangedFields ==
  ASSUME NEW s \in Files, NEW c \in Some
  PROVE  /\ Changed(s, c) \in Files
         /\ Changed(s, c).token = 0 /\ Changed(s, c).version = s.version + 1
         /\ Changed(s, c).generation = s.generation + 1
<1>1. PICK w : w = WithoutToken(s)
  OBVIOUS
<1>2. /\ w \in Files /\ w.token = 0 /\ w.version = s.version + 1
      /\ w.generation = s.generation
  BY <1>1, WithoutTokenFields
<1>3. PICK a : a = PutKey(w, c)
  OBVIOUS
<1>4. /\ a \in Files /\ a.token = 0 /\ a.version = s.version + 1
      /\ a.generation = s.generation
  BY <1>2, <1>3, PutKeyType
<1>5. PICK b : b = PutPrint(a, c)
  OBVIOUS
<1>6. /\ b \in Files /\ b.token = 0 /\ b.version = s.version + 1
      /\ b.generation = s.generation
  BY <1>4, <1>5, PutPrintType
<1>7. s.generation + 1 \in Nat
  BY FileFields
<1>8. PICK g \in Nat : g = s.generation + 1
  BY <1>7
<1>9. PICK d : d = PutGeneration(b, g)
  OBVIOUS
<1>10. d \in Files /\ d.token = 0 /\ d.version = s.version + 1 /\ d.generation = g
  BY <1>6, <1>9, PutGenerationType
<1>11. Changed(s, c) = [w EXCEPT !.key = c, !.fingerprint = c, !.generation = @ + 1]
  BY <1>1 DEF Changed
<1>12. w.generation + 1 = g
  BY <1>2, <1>8
<1>13. Changed(s, c) = d
  BY <1>2, <1>3, <1>5, <1>9, <1>11, <1>12
  DEF PutKey, PutPrint, PutGeneration, Files
<1> QED BY <1>8, <1>10, <1>13

LEMMA ChangedFollows ==
  ASSUME NEW s \in Files, NEW c \in Some
  PROVE  /\ Follows(Changed(s, c), s) /\ Changed(s, c).token = 0
         /\ Changed(s, c).generation # s.generation
<1>1. s.generation \in Nat /\ s.version \in Nat
  BY DEF Files
<1> QED BY <1>1, ChangedFields DEF Follows

(* An updater leaves the settings alone or takes their token away.           *)
Lesser(t, s) == t \in Files /\ (t = s \/ (t.token = 0 /\ Follows(t, s)))

LEMMA LesserOnes ==
  ASSUME NEW s \in Files
  PROVE  /\ Lesser(s, s) /\ Lesser(WithoutToken(s), s)
         /\ \A c \in Some : Lesser(Changed(s, c), s)
<1>1. Lesser(s, s)
  BY FollowsItself, Zenon DEF Lesser
<1>2. Lesser(WithoutToken(s), s)
  BY WithoutTokenFields, WithoutTokenFollows DEF Lesser
<1>3. \A c \in Some : Lesser(Changed(s, c), s)
  BY ChangedFields, ChangedFollows DEF Lesser
<1> QED BY <1>1, <1>2, <1>3

LEMMA SavedLesser ==
  ASSUME NEW s \in Files, NEW c \in Credentials PROVE Lesser(Saved(s, c), s)
<1>1. Saved(s, c) = s \/ Saved(s, c) = Changed(s, c)
  BY Zenon DEF Saved
<1>2. c \in Some
  BY NoIsSome
<1> QED BY <1>1, <1>2, LesserOnes, Zenon

LEMMA ClearedLesser ==
  ASSUME NEW s \in Files PROVE Lesser(Cleared(s), s)
<1>1. Cleared(s) = s \/ Cleared(s) = Changed(s, No)
  BY Zenon DEF Cleared
<1> QED BY <1>1, NoIsSome, LesserOnes, Zenon

LEMMA BootstrappedLesser ==
  ASSUME NEW s \in Files PROVE Lesser(Bootstrapped(s), s)
<1>1. \/ Bootstrapped(s) = s \/ Bootstrapped(s) = WithoutToken(s)
      \/ Bootstrapped(s) = Changed(s, s.key)
  BY Zenon DEF Bootstrapped
<1>2. s.key \in Some
  BY FileFields
<1> QED BY <1>1, <1>2, LesserOnes, Zenon

LEMMA InvalidatedLesser ==
  ASSUME NEW s \in Files, NEW l PROVE Lesser(Invalidated(s, l), s)
<1>1. Invalidated(s, l) = s \/ Invalidated(s, l) = WithoutToken(s)
  BY Zenon DEF Invalidated
<1> QED BY <1>1, LesserOnes, Zenon

LEMMA LesserFollows ==
  ASSUME NEW s \in Files, NEW t, Lesser(t, s)
  PROVE  t \in Files /\ Follows(t, s) /\ (t.token # 0 => t = s)
BY FollowsItself DEF Lesser

LEMMA WithTokenFollows ==
  ASSUME NEW s \in Files, NEW fl \in FlightSet
  PROVE  /\ WithToken(s, fl) \in Files /\ Follows(WithToken(s, fl), s)
         /\ WithToken(s, fl).token = fl.token
         /\ WithToken(s, fl).tokenFingerprint = fl.of
         /\ WithToken(s, fl).version = s.version + 1
         /\ WithToken(s, fl).key = s.key /\ WithToken(s, fl).generation = s.generation
<1> DEFINE w == WithToken(s, fl)
<1>1. fl.token \in 0..MaxTokens /\ fl.of \in Some
  BY DEF FlightSet
<1>2. s.generation \in Nat /\ s.version \in Nat
  BY DEF Files
<1>3. PICK n, of : n = fl.token /\ of = fl.of
  OBVIOUS
<1>4. w = Retoken(s, n, of)
  BY <1>3 DEF WithToken, Retoken, PutToken, PutTokenOf, PutVersion, Files
<1> HIDE DEF w
<1>5. /\ w \in Files /\ w.token = n /\ w.tokenFingerprint = of
      /\ w.version = s.version + 1 /\ w.key = s.key /\ w.generation = s.generation
  BY <1>1, <1>3, <1>4, RetokenFields
<1>6. Follows(w, s)
  BY <1>2, <1>5 DEF Follows
<1>7. w = WithToken(s, fl)
  BY DEF w
<1> QED BY <1>3, <1>5, <1>6, <1>7

-----------------------------------------------------------------------------
(* What stays true of old leases, flights and copies.                        *)

LEMMA DatedKept ==
  ASSUME NEW s \in Files, NEW t \in Files, Follows(t, s), NEW of, NEW gen \in Nat,
         Dated(s, of, gen)
  PROVE  Dated(t, of, gen)
BY DEF Follows, Dated, Files

LEMMA VersionedKept ==
  ASSUME NEW s \in Files, NEW t \in Files, Follows(t, s), NEW tok, NEW ver \in Nat,
         Versioned(s, tok, ver)
  PROVE  Versioned(t, tok, ver)
BY DEF Follows, Versioned, Files

(* Tokens issued so far stay what they are.                                  *)
Longer(jss, iss) ==
  Len(iss) <= Len(jss) /\ \A n \in 1..Len(iss) : jss[n] = iss[n]

LEMMA IssuedKept ==
  ASSUME NEW iss \in Seq(Credentials), NEW jss \in Seq(Credentials), Longer(jss, iss),
         NEW tok, NEW of, Issued(iss, tok, of)
  PROVE  Issued(jss, tok, of)
<1>1. Len(iss) \in Nat /\ Len(jss) \in Nat
  OBVIOUS
<1>2. tok \in 1..Len(jss)
  BY <1>1 DEF Longer, Issued
<1> QED BY <1>2 DEF Longer, Issued

LEMMA LeasedKept ==
  ASSUME NEW s \in Files, NEW t \in Files, Follows(t, s), NEW l \in Leases,
         NEW iss \in Seq(Credentials), NEW jss \in Seq(Credentials), Longer(jss, iss),
         Leased(s, iss, l)
  PROVE  Leased(t, jss, l)
<1>1. l.generation \in Nat /\ l.version \in Nat
  BY DEF Leases
<1> QED BY <1>1, DatedKept, VersionedKept, IssuedKept DEF Leased

LEMMA FlownKept ==
  ASSUME NEW s \in Files, NEW t \in Files, Follows(t, s), NEW fl \in FlightSet,
         NEW iss \in Seq(Credentials), NEW jss \in Seq(Credentials), Longer(jss, iss),
         Flown(s, iss, fl)
  PROVE  Flown(t, jss, fl)
<1>1. fl.generation \in Nat
  BY DEF FlightSet
<1> QED BY <1>1, DatedKept, IssuedKept DEF Flown

LEMMA CopiedKept ==
  ASSUME NEW s \in Files, NEW t \in Files, Follows(t, s), NEW m \in Files,
         NEW iss \in Seq(Credentials), NEW jss \in Seq(Credentials), Longer(jss, iss),
         Copied(s, iss, m)
  PROVE  Copied(t, jss, m)
<1>1. m.generation \in Nat /\ m.version \in Nat
  BY DEF Files
<1> QED BY <1>1, DatedKept, VersionedKept, IssuedKept DEF Copied

LEMMA GroundedKept ==
  ASSUME NEW s \in Files, NEW t \in Files, Follows(t, s), NEW c \in CallSet,
         NEW iss \in Seq(Credentials), NEW jss \in Seq(Credentials), Longer(jss, iss),
         Grounded(s, iss, c)
  PROVE  Grounded(t, jss, c)
<1>1. c.lease \in Leases
  BY DEF CallSet
<1> QED BY <1>1, LeasedKept DEF Grounded

LEMMA SameIsLonger == ASSUME NEW iss \in Seq(Credentials) PROVE Longer(iss, iss)
BY DEF Longer

(* The copy that an update leaves is the settings themselves.                *)
LEMMA CopyOfStored ==
  ASSUME NEW s \in Files, NEW iss, OwnTokenStored(s, iss) PROVE Copied(s, iss, s)
BY DEF OwnTokenStored, Copied, Dated, Versioned, Files

-----------------------------------------------------------------------------
(* The queue.                                                                *)

LEMMA AppendAt ==
  ASSUME NEW q \in Seq(CallSet), NEW c \in CallSet
  PROVE  /\ Append(q, c) \in Seq(CallSet) /\ Len(Append(q, c)) = Len(q) + 1
         /\ Append(q, c)[Len(q) + 1] = c
         /\ \A i \in 1..Len(q) : Append(q, c)[i] = q[i]
OBVIOUS

LEMMA TailAt ==
  ASSUME NEW q \in Seq(CallSet), q # <<>>
  PROVE  /\ Len(q) \in Nat \ {0} /\ Head(q) = q[1] /\ Head(q) \in CallSet
         /\ Tail(q) \in Seq(CallSet) /\ Len(Tail(q)) = Len(q) - 1
         /\ \A i \in 1..Len(Tail(q)) : Tail(q)[i] = q[i + 1]
OBVIOUS

Plain(c) == c.what \notin {"persist", "refresh"} /\ c.flight = 0

LEMMA ClaimedAppend ==
  ASSUME NEW q \in Seq(CallSet), NEW c \in CallSet, NEW fl, Claimed(fl, q), Plain(c)
  PROVE  Claimed(fl, Append(q, c))
<1> DEFINE p == Append(q, c)
<1>1. /\ p \in Seq(CallSet) /\ Len(p) = Len(q) + 1 /\ p[Len(q) + 1] = c
      /\ \A i \in 1..Len(q) : p[i] = q[i]
  BY AppendAt
<1>2. Len(q) \in Nat
  OBVIOUS
<1> HIDE DEF p
<1>3. \A i \in 1..Len(p) : i \in 1..Len(q) \/ p[i] = c
  BY <1>1, <1>2
<1>4. ASSUME NEW i \in 1..Len(p)
      PROVE  IF p[i].what \in {"persist", "refresh"}
             THEN p[i].flight \in FlightIds /\ Expects(fl[p[i].flight].does, p[i].what)
             ELSE p[i].flight = 0
  BY <1>1, <1>3, <1>4 DEF Claimed, Plain
<1>5. ASSUME NEW i \in 1..Len(p), NEW j \in 1..Len(p),
             p[i].flight = p[j].flight, p[i].flight # 0
      PROVE  i = j
  <2>1. i \in 1..Len(q) /\ j \in 1..Len(q)
    BY <1>3, <1>5 DEF Plain
  <2>2. q[i].flight = q[j].flight /\ q[i].flight # 0
    BY <1>1, <1>5, <2>1
  <2> QED BY <2>1, <2>2 DEF Claimed
<1>6. ASSUME NEW f \in FlightIds, fl[f].does \in {"persist", "confirm", "recheck"}
      PROVE  \E i \in 1..Len(p) : p[i].flight = f
  <2>1. PICK i \in 1..Len(q) : q[i].flight = f
    BY <1>6 DEF Claimed
  <2>2. i \in 1..Len(p) /\ p[i].flight = f
    BY <1>1, <1>2, <2>1
  <2> QED BY <2>2
<1>7. Claimed(fl, p)
  BY <1>4, <1>5, <1>6 DEF Claimed
<1> QED BY <1>7 DEF p

LEMMA OneRepairAppend ==
  ASSUME NEW q \in Seq(CallSet), NEW c \in CallSet, NEW rec \in BOOLEAN, OneRepair(rec, q),
         c.what = "bootstrap" => ~rec
  PROVE  OneRepair(rec \/ c.what = "bootstrap", Append(q, c))
<1> DEFINE p == Append(q, c)
<1>1. /\ Len(p) = Len(q) + 1 /\ p[Len(q) + 1] = c
      /\ \A i \in 1..Len(q) : p[i] = q[i]
  BY AppendAt
<1>2. Len(q) \in Nat
  OBVIOUS
<1> HIDE DEF p
<1>3. \A i \in 1..Len(p) : i \in 1..Len(q) \/ i = Len(q) + 1
  BY <1>1, <1>2
<1>4. \A i \in 1..Len(q) : i \in 1..Len(p)
  BY <1>1, <1>2
<1>5. Len(q) + 1 \in 1..Len(p)
  BY <1>1, <1>2
<1>6. CASE c.what = "bootstrap"
  <2>1. \A i \in 1..Len(q) : q[i].what # "bootstrap"
    BY <1>6 DEF OneRepair
  <2>2. \E i \in 1..Len(p) : p[i].what = "bootstrap"
    BY <1>1, <1>5, <1>6
  <2>3. \A i \in 1..Len(p) : p[i].what = "bootstrap" => i = Len(q) + 1
    BY <1>1, <1>3, <2>1
  <2> QED BY <1>6, <2>2, <2>3 DEF OneRepair, p
<1>7. CASE c.what # "bootstrap"
  <2>1. \A i \in 1..Len(p) : p[i].what = "bootstrap" => i \in 1..Len(q) /\ q[i].what = "bootstrap"
    BY <1>1, <1>3, <1>7
  <2>2. (\E i \in 1..Len(q) : q[i].what = "bootstrap") => \E i \in 1..Len(p) : p[i].what = "bootstrap"
    BY <1>1, <1>4
  <2>3. OneRepair(rec, p)
    BY <2>1, <2>2 DEF OneRepair
  <2> QED BY <1>7, <2>3 DEF p
<1> QED BY <1>6, <1>7

(* A call stays in the queue until it is its turn.                           *)
Invalidating(r, q) == \E i \in 1..Len(q) : q[i].what = "invalidate" /\ q[i].by = r

LEMMA InvalidatingAppend ==
  ASSUME NEW q \in Seq(CallSet), NEW c \in CallSet, NEW r, Invalidating(r, q)
  PROVE  Invalidating(r, Append(q, c))
<1>1. PICK i \in 1..Len(q) : q[i].what = "invalidate" /\ q[i].by = r
  BY DEF Invalidating
<1>2. i \in 1..Len(Append(q, c)) /\ Append(q, c)[i] = q[i]
  BY AppendAt
<1> QED BY <1>1, <1>2 DEF Invalidating

LEMMA InvalidatingLast ==
  ASSUME NEW q \in Seq(CallSet), NEW c \in CallSet, c.what = "invalidate"
  PROVE  Invalidating(c.by, Append(q, c))
<1>1. Len(q) + 1 \in 1..Len(Append(q, c)) /\ Append(q, c)[Len(q) + 1] = c
  BY AppendAt
<1> QED BY <1>1 DEF Invalidating

LEMMA InvalidatingTail ==
  ASSUME NEW q \in Seq(CallSet), q # <<>>, NEW r, Invalidating(r, q),
         ~(Head(q).what = "invalidate" /\ Head(q).by = r)
  PROVE  Invalidating(r, Tail(q))
<1>1. PICK i \in 1..Len(q) : q[i].what = "invalidate" /\ q[i].by = r
  BY DEF Invalidating
<1>2. i # 1
  BY <1>1, TailAt
<1>3. i - 1 \in 1..Len(Tail(q)) /\ (i - 1) + 1 = i
  BY <1>2, TailAt
<1>4. Tail(q)[i - 1] = q[i]
  BY <1>3, TailAt
<1> QED BY <1>1, <1>3, <1>4 DEF Invalidating

LEMMA TailIndex ==
  ASSUME NEW q \in Seq(CallSet), q # <<>>
  PROVE  /\ \A i \in 1..Len(Tail(q)) : i + 1 \in 1..Len(q) /\ i + 1 # 1 /\ Tail(q)[i] = q[i + 1]
         /\ \A j \in 1..Len(q) : j = 1 \/ (j - 1 \in 1..Len(Tail(q)) /\ Tail(q)[j - 1] = q[j])
         /\ 1 \in 1..Len(q)
<1>1. /\ Len(q) \in Nat \ {0} /\ Len(Tail(q)) = Len(q) - 1
      /\ \A i \in 1..Len(Tail(q)) : Tail(q)[i] = q[i + 1]
  BY TailAt
<1>2. \A j \in 1..Len(q) : j # 1 => j - 1 \in 1..Len(Tail(q)) /\ (j - 1) + 1 = j
  BY <1>1
<1>3. \A j \in 1..Len(q) : j # 1 => Tail(q)[j - 1] = q[j]
  BY <1>1, <1>2
<1>4. \A i \in 1..Len(Tail(q)) : i + 1 \in 1..Len(q) /\ i + 1 # 1
  BY <1>1
<1> QED BY <1>1, <1>2, <1>3, <1>4

LEMMA OneRepairTail ==
  ASSUME NEW q \in Seq(CallSet), q # <<>>, NEW rec \in BOOLEAN, OneRepair(rec, q)
  PROVE  OneRepair(rec /\ Head(q).what # "bootstrap", Tail(q))
<1> DEFINE p == Tail(q)
<1>1. /\ \A i \in 1..Len(p) : i + 1 \in 1..Len(q) /\ i + 1 # 1 /\ p[i] = q[i + 1]
      /\ \A j \in 1..Len(q) : j = 1 \/ (j - 1 \in 1..Len(p) /\ p[j - 1] = q[j])
      /\ 1 \in 1..Len(q)
  BY TailIndex
<1>2. Head(q) = q[1]
  BY TailAt
<1> HIDE DEF p
<1>3. ASSUME NEW i \in 1..Len(p), NEW j \in 1..Len(p),
             p[i].what = "bootstrap", p[j].what = "bootstrap"
      PROVE  i = j
  <2>1. i + 1 = j + 1
    BY <1>1, <1>3, ZenonT(40) DEF OneRepair
  <2> QED BY <2>1
<1>4. CASE Head(q).what = "bootstrap"
  <2>1. \A i \in 1..Len(p) : p[i].what # "bootstrap"
    BY <1>1, <1>2, <1>4 DEF OneRepair
  <2> QED BY <1>3, <1>4, <2>1 DEF OneRepair, p
<1>5. CASE Head(q).what # "bootstrap"
  <2>1. rec <=> \E i \in 1..Len(q) : q[i].what = "bootstrap"
    BY DEF OneRepair
  <2>2. ASSUME NEW i \in 1..Len(p), p[i].what = "bootstrap"
        PROVE  \E j \in 1..Len(q) : q[j].what = "bootstrap"
    BY <1>1, <2>2
  <2>3. ASSUME NEW j \in 1..Len(q), q[j].what = "bootstrap"
        PROVE  \E i \in 1..Len(p) : p[i].what = "bootstrap"
    BY <1>1, <1>2, <1>5, <2>3
  <2>4. rec <=> \E i \in 1..Len(p) : p[i].what = "bootstrap"
    BY <2>1, <2>2, <2>3
  <2> QED BY <1>3, <1>5, <2>4 DEF OneRepair, p
<1> QED BY <1>4, <1>5

(* When the call of a flight has had its turn, the flight expects none.      *)
LEMMA ClaimedTail ==
  ASSUME NEW q \in Seq(CallSet), q # <<>>, NEW fl, NEW gl, Claimed(fl, q),
         \A f \in FlightIds :
            \/ f # Head(q).flight /\ gl[f].does = fl[f].does
            \/ f = Head(q).flight /\ gl[f].does \notin {"persist", "confirm", "recheck"}
  PROVE  Claimed(gl, Tail(q))
<1> DEFINE p == Tail(q)
<1>1. /\ \A i \in 1..Len(p) : i + 1 \in 1..Len(q) /\ i + 1 # 1 /\ p[i] = q[i + 1]
      /\ \A j \in 1..Len(q) : j = 1 \/ (j - 1 \in 1..Len(p) /\ p[j - 1] = q[j])
      /\ 1 \in 1..Len(q)
  BY TailIndex
<1>2. Head(q) = q[1]
  BY TailAt
<1> HIDE DEF p
<1>3. ASSUME NEW i \in 1..Len(p)
      PROVE  IF p[i].what \in {"persist", "refresh"}
             THEN p[i].flight \in FlightIds /\ Expects(gl[p[i].flight].does, p[i].what)
             ELSE p[i].flight = 0
  <2>1. PICK k \in 1..Len(q) : k = i + 1 /\ k # 1 /\ p[i] = q[k]
    BY <1>1
  <2>2. IF q[k].what \in {"persist", "refresh"}
        THEN q[k].flight \in FlightIds /\ Expects(fl[q[k].flight].does, q[k].what)
        ELSE q[k].flight = 0
    BY DEF Claimed
  <2>3. CASE q[k].what \in {"persist", "refresh"}
    <3>1. q[k].flight # q[1].flight
      <4>1. q[k].flight # 0
        BY <2>2, <2>3, NumbersAssumption DEF FlightIds
      <4> QED BY <1>1, <2>1, <4>1 DEF Claimed
    <3>2. gl[q[k].flight].does = fl[q[k].flight].does
      BY <1>2, <2>2, <2>3, <3>1
    <3> QED BY <2>1, <2>2, <2>3, <3>2
  <2>4. CASE q[k].what \notin {"persist", "refresh"}
    BY <2>1, <2>2, <2>4
  <2> QED BY <2>3, <2>4
<1>4. ASSUME NEW i \in 1..Len(p), NEW j \in 1..Len(p),
             p[i].flight = p[j].flight, p[i].flight # 0
      PROVE  i = j
  <2>1. PICK k \in 1..Len(q) : k = i + 1 /\ p[i] = q[k]
    BY <1>1
  <2>2. PICK l \in 1..Len(q) : l = j + 1 /\ p[j] = q[l]
    BY <1>1
  <2>3. k = l
    BY <1>4, <2>1, <2>2 DEF Claimed
  <2> QED BY <2>1, <2>2, <2>3
<1>5. ASSUME NEW f \in FlightIds, gl[f].does \in {"persist", "confirm", "recheck"}
      PROVE  \E i \in 1..Len(p) : p[i].flight = f
  <2>1. f # Head(q).flight /\ fl[f].does \in {"persist", "confirm", "recheck"}
    BY <1>5
  <2>2. PICK j \in 1..Len(q) : q[j].flight = f
    BY <2>1 DEF Claimed
  <2>3. j # 1
    BY <1>2, <2>1, <2>2
  <2> QED BY <1>1, <2>2, <2>3
<1>6. Claimed(gl, p)
  BY <1>3, <1>4, <1>5 DEF Claimed
<1> QED BY <1>6 DEF p

(* A flight that begins to expect a call has none, and gets one.             *)
LEMMA ClaimedBegins ==
  ASSUME NEW q \in Seq(CallSet), NEW c \in CallSet, NEW fl, NEW gl, Claimed(fl, q),
         NEW g \in FlightIds, fl[g].does \notin {"persist", "confirm", "recheck"},
         c.flight = g, c.what \in {"persist", "refresh"}, Expects(gl[g].does, c.what),
         \A f \in FlightIds \ {g} : gl[f] = fl[f]
  PROVE  Claimed(gl, Append(q, c))
<1> DEFINE p == Append(q, c)
<1>1. /\ Len(p) = Len(q) + 1 /\ p[Len(q) + 1] = c
      /\ \A i \in 1..Len(q) : p[i] = q[i]
  BY AppendAt
<1>2. Len(q) \in Nat
  OBVIOUS
<1> HIDE DEF p
<1>3. \A i \in 1..Len(p) : i \in 1..Len(q) \/ i = Len(q) + 1
  BY <1>1, <1>2
<1>4. \A i \in 1..Len(q) : i \in 1..Len(p)
  BY <1>1, <1>2
<1>5. Len(q) + 1 \in 1..Len(p)
  BY <1>1, <1>2
<1>6. \A i \in 1..Len(q) : q[i].flight # g
  <2> SUFFICES ASSUME NEW i \in 1..Len(q), q[i].flight = g PROVE FALSE
    OBVIOUS
  <2>1. g # 0
    BY NumbersAssumption DEF FlightIds
  <2>2. q[i].flight \in FlightIds /\ Expects(fl[q[i].flight].does, q[i].what)
    BY <2>1 DEF Claimed
  <2>3. Expects(fl[g].does, q[i].what)
    BY <2>2
  <2> QED BY <2>3 DEF Expects
<1>7. ASSUME NEW i \in 1..Len(p)
      PROVE  IF p[i].what \in {"persist", "refresh"}
             THEN p[i].flight \in FlightIds /\ Expects(gl[p[i].flight].does, p[i].what)
             ELSE p[i].flight = 0
  <2>1. CASE i = Len(q) + 1
    BY <1>1, <2>1
  <2>2. CASE i \in 1..Len(q)
    <3>1. IF q[i].what \in {"persist", "refresh"}
          THEN q[i].flight \in FlightIds /\ Expects(fl[q[i].flight].does, q[i].what)
          ELSE q[i].flight = 0
      BY <2>2 DEF Claimed
    <3>2. q[i].flight \in FlightIds => gl[q[i].flight] = fl[q[i].flight]
      BY <1>6, <2>2
    <3>3. p[i] = q[i]
      BY <1>1, <2>2
    <3> QED BY <3>1, <3>2, <3>3
  <2> QED BY <1>3, <2>1, <2>2
<1>8. ASSUME NEW i \in 1..Len(p), NEW j \in 1..Len(p),
             p[i].flight = p[j].flight, p[i].flight # 0
      PROVE  i = j
  <2>1. CASE i \in 1..Len(q) /\ j \in 1..Len(q)
    BY <1>1, <1>8, <2>1 DEF Claimed
  <2>2. CASE i = Len(q) + 1 \/ j = Len(q) + 1
    BY <1>1, <1>3, <1>6, <1>8, <2>2
  <2> QED BY <1>3, <2>1, <2>2
<1>9. ASSUME NEW f \in FlightIds, gl[f].does \in {"persist", "confirm", "recheck"}
      PROVE  \E i \in 1..Len(p) : p[i].flight = f
  <2>1. CASE f = g
    BY <1>1, <1>5, <2>1
  <2>2. CASE f # g
    <3>1. fl[f].does \in {"persist", "confirm", "recheck"}
      BY <1>9, <2>2
    <3>2. PICK i \in 1..Len(q) : q[i].flight = f
      BY <3>1 DEF Claimed
    <3> QED BY <1>1, <1>4, <3>2
  <2> QED BY <2>1, <2>2
<1>10. Claimed(gl, p)
  BY <1>7, <1>8, <1>9 DEF Claimed
<1> QED BY <1>10 DEF p

-----------------------------------------------------------------------------
(* The parts of the invariant, kept by parts of steps.                       *)

LEMMA IsolatedKept ==
  ASSUME Inv, Typed', Follows(settings', settings), Longer(issuedFor', issuedFor),
         OwnTokenStored(settings', issuedFor'), memory' \in {memory, settings, settings'},
         \A r \in Requesters : \/ requester'[r].lease = requester[r].lease
                               \/ Leased(settings', issuedFor', requester'[r].lease),
         \A f \in FlightIds : \/ flight'[f] = flight[f]
                              \/ Flown(settings', issuedFor', flight'[f]),
         \A i \in 1..Len(calls') : \/ \E j \in 1..Len(calls) : calls'[i] = calls[j]
                                   \/ Grounded(settings', issuedFor', calls'[i])
  PROVE  Isolated(settings, memory, issuedFor, requester, flight, calls)'
<1>1. /\ settings \in Files /\ settings' \in Files /\ memory \in Files
      /\ issuedFor \in Seq(Credentials) /\ issuedFor' \in Seq(Credentials)
      /\ calls \in Seq(CallSet)
  BY DEF Inv, Typed
<1>2. /\ OwnTokenStored(settings, issuedFor) /\ Copied(settings, issuedFor, memory)
      /\ \A r \in Requesters : Leased(settings, issuedFor, requester[r].lease)
      /\ \A f \in FlightIds : Flown(settings, issuedFor, flight[f])
      /\ \A i \in 1..Len(calls) : Grounded(settings, issuedFor, calls[i])
  BY DEF Inv, Isolated
<1>3. Copied(settings', issuedFor', memory')
  <2>1. Copied(settings', issuedFor', memory)
    BY <1>1, <1>2, CopiedKept
  <2>2. Copied(settings', issuedFor', settings)
    BY <1>1, <1>2, CopiedKept, CopyOfStored
  <2>3. Copied(settings', issuedFor', settings')
    BY <1>1, CopyOfStored
  <2> QED BY <2>1, <2>2, <2>3
<1>4. ASSUME NEW r \in Requesters PROVE Leased(settings', issuedFor', requester'[r].lease)
  <2>1. requester[r].lease \in Leases
    BY DEF Inv, Typed, RequestSet
  <2>2. Leased(settings', issuedFor', requester[r].lease)
    BY <1>1, <1>2, <2>1, LeasedKept
  <2> QED BY <2>2
<1>5. ASSUME NEW f \in FlightIds PROVE Flown(settings', issuedFor', flight'[f])
  <2>1. flight[f] \in FlightSet
    BY DEF Inv, Typed
  <2>2. Flown(settings', issuedFor', flight[f])
    BY <1>1, <1>2, <2>1, FlownKept
  <2> QED BY <2>2
<1>6. ASSUME NEW i \in 1..Len(calls') PROVE Grounded(settings', issuedFor', calls'[i])
  <2>1. ASSUME NEW j \in 1..Len(calls) PROVE Grounded(settings', issuedFor', calls[j])
    <3>1. calls[j] \in CallSet
      BY <1>1
    <3> QED BY <1>1, <1>2, <3>1, GroundedKept
  <2> QED BY <2>1
<1> QED BY <1>3, <1>4, <1>5, <1>6 DEF Isolated

Free == {"nothing", "initialize", "look", "initialize again", "join", "authorize", "fetch"}

LEMMA FreePromised ==
  ASSUME NEW rq, NEW r, NEW fl, NEW rec, NEW q, rq.does \in Free
  PROVE  Promised(rq, r, fl, rec, q)
BY DEF Promised, Free

LEMMA PromisedKept ==
  ASSUME NEW rq, NEW r, NEW fl, NEW gl, NEW rec, NEW sec, NEW q, NEW p,
         Promised(rq, r, fl, rec, q),
         rq.does = "wait" => /\ gl[rq.flight].does # "nothing"
                             /\ gl[rq.flight].kind = fl[rq.flight].kind,
         rq.does \in {"reconcile", "reconcile again"} /\ rec => sec,
         Invalidating(r, q) => Invalidating(r, p)
  PROVE  Promised(rq, r, gl, sec, p)
BY DEF Promised, Invalidating

LEMMA DoesType ==
  ASSUME NEW rq \in RequestSet, NEW d \in Deeds
  PROVE  /\ [rq EXCEPT !.does = d] \in RequestSet
         /\ [rq EXCEPT !.does = d].does = d
         /\ [rq EXCEPT !.does = d].lease = rq.lease
         /\ [rq EXCEPT !.does = d].kind = rq.kind
BY DEF RequestSet

LEMMA IdleType == Idle \in RequestSet /\ Idle.does = "nothing" /\ Idle.lease = NoLease
<1>1. NoLease \in Leases
  BY NoIsSome, NumbersAssumption DEF NoLease, Leases
<1> QED BY <1>1, NumbersAssumption DEF Idle, RequestSet, Deeds, Kinds

LEMMA NoLeased == ASSUME NEW s, NEW iss PROVE Leased(s, iss, NoLease)
BY DEF Leased

LEMMA RequesterPut ==
  ASSUME requester \in [Requesters -> RequestSet], NEW r \in Requesters, NEW x \in RequestSet,
         requester' = [requester EXCEPT ![r] = x]
  PROVE  /\ requester' \in [Requesters -> RequestSet] /\ requester'[r] = x
         /\ \A p \in Requesters \ {r} : requester'[p] = requester[p]
OBVIOUS

LEMMA UpdateType ==
  ASSUME NEW w \in Whats, NEW l \in Leases, NEW r \in Requesters \cup {No},
         NEW f \in 0..MaxFlights
  PROVE  /\ Update(w, l, r, f) \in CallSet
         /\ Update(w, l, r, f).what = w /\ Update(w, l, r, f).lease = l
         /\ Update(w, l, r, f).by = r /\ Update(w, l, r, f).flight = f
BY DEF Update, CallSet

(* The queue as it is, or with one more call.                                *)
Queues(c) == calls' = Append(calls, c)
More(c) == calls' = calls \/ Queues(c)

LEMMA MoreCalls ==
  ASSUME calls \in Seq(CallSet), NEW c \in CallSet, More(c)
  PROVE  /\ calls' \in Seq(CallSet)
         /\ \A i \in 1..Len(calls') : (\E j \in 1..Len(calls) : calls'[i] = calls[j])
                                       \/ (Queues(c) /\ calls'[i] = c)
         /\ \A r : Invalidating(r, calls) => Invalidating(r, calls')
<1>1. CASE calls' = calls
  BY <1>1
<1>2. CASE Queues(c)
  <2>1. /\ calls' \in Seq(CallSet) /\ Len(calls') = Len(calls) + 1 /\ calls'[Len(calls) + 1] = c
        /\ \A i \in 1..Len(calls) : calls'[i] = calls[i]
    BY <1>2, AppendAt DEF Queues
  <2>2. Len(calls) \in Nat
    OBVIOUS
  <2>3. ASSUME NEW i \in 1..Len(calls')
        PROVE  (\E j \in 1..Len(calls) : calls'[i] = calls[j]) \/ calls'[i] = c
    <3>1. i \in 1..Len(calls) \/ i = Len(calls) + 1
      BY <2>1, <2>2
    <3> QED BY <2>1, <3>1
  <2>4. \A r : Invalidating(r, calls) => Invalidating(r, calls')
    BY <1>2, InvalidatingAppend DEF Queues
  <2> QED BY <1>2, <2>1, <2>3, <2>4
<1> QED BY <1>1, <1>2 DEF More

(* A turn of one requester, which may call an update.                        *)
LEMMA TurnOfRequester ==
  ASSUME Inv, NEW r \in Requesters, NEW x \in RequestSet, NEW c \in CallSet,
         requester' = [requester EXCEPT ![r] = x],
         x.lease = requester[r].lease \/ Leased(settings, issuedFor, x.lease),
         More(c), Plain(c), Grounded(settings, issuedFor, c),
         Queues(c) /\ c.what = "bootstrap" => ~reconciling,
         reconciling' = (reconciling \/ (Queues(c) /\ c.what = "bootstrap")),
         Promised(x, r, flight, reconciling', calls'),
         UNCHANGED <<settings, memory, degraded, flight, issuedFor, changes>>
  PROVE  Inv'
<1>1. /\ calls \in Seq(CallSet) /\ reconciling \in BOOLEAN /\ settings \in Files
      /\ requester \in [Requesters -> RequestSet] /\ issuedFor \in Seq(Credentials)
  BY DEF Inv, Typed
<1>2. /\ requester' \in [Requesters -> RequestSet] /\ requester'[r] = x
      /\ \A p \in Requesters \ {r} : requester'[p] = requester[p]
  BY <1>1, RequesterPut
<1>3. /\ calls' \in Seq(CallSet)
      /\ \A i \in 1..Len(calls') : (\E j \in 1..Len(calls) : calls'[i] = calls[j])
                                    \/ (Queues(c) /\ calls'[i] = c)
      /\ \A p : Invalidating(p, calls) => Invalidating(p, calls')
  BY <1>1, MoreCalls
<1>4. Typed'
  BY <1>1, <1>2, <1>3 DEF Inv, Typed
<1>5. Isolated(settings, memory, issuedFor, requester, flight, calls)'
  <2>1. Follows(settings', settings) /\ Longer(issuedFor', issuedFor)
    BY <1>1, FollowsItself, SameIsLonger
  <2>2. OwnTokenStored(settings', issuedFor') /\ memory' \in {memory, settings, settings'}
    BY DEF Inv, Isolated
  <2>3. \A p \in Requesters : \/ requester'[p].lease = requester[p].lease
                              \/ Leased(settings', issuedFor', requester'[p].lease)
    BY <1>2
  <2>4. \A i \in 1..Len(calls') : \/ \E j \in 1..Len(calls) : calls'[i] = calls[j]
                                  \/ Grounded(settings', issuedFor', calls'[i])
    BY <1>3
  <2> QED BY <1>4, <2>1, <2>2, <2>3, <2>4, IsolatedKept
<1>6. Claimed(flight, calls)'
  BY <1>1, ClaimedAppend DEF Inv, More, Queues
<1>7. OneRepair(reconciling, calls)'
  <2>1. CASE Queues(c)
    <3>1. OneRepair(reconciling \/ c.what = "bootstrap", Append(calls, c))
      BY <1>1, <2>1, OneRepairAppend DEF Inv
    <3>2. reconciling' = (reconciling \/ c.what = "bootstrap")
      BY <2>1
    <3> QED BY <2>1, <3>1, <3>2 DEF Queues
  <2>2. CASE ~Queues(c)
    BY <1>1, <2>2 DEF More, Inv
  <2> QED BY <2>1, <2>2
<1>8. Told(requester, flight, reconciling, calls)'
  <2> SUFFICES ASSUME NEW p \in Requesters
               PROVE  Promised(requester'[p], p, flight', reconciling', calls')
    BY DEF Told
  <2>1. CASE p = r
    BY <1>2, <2>1
  <2>2. CASE p # r
    <3>1. Promised(requester[p], p, flight, reconciling, calls)
      BY DEF Inv, Told
    <3>2. requester'[p] = requester[p]
      BY <1>2, <2>2
    <3>3. reconciling => reconciling'
      OBVIOUS
    <3>4. Invalidating(p, calls) => Invalidating(p, calls')
      BY <1>3
    <3>5. Promised(requester[p], p, flight, reconciling', calls')
      BY <3>1, <3>3, <3>4, Zenon DEF Promised, Invalidating
    <3> QED BY <3>2, <3>5
  <2> QED BY <2>1, <2>2
<1> QED BY <1>4, <1>5, <1>6, <1>7, <1>8 DEF Inv

(* A call that is nobody's concern, for steps that call none. *)
NoCall == Update("clear", NoLease, No, 0)

LEMMA NoCallType ==
  /\ NoCall \in CallSet /\ Plain(NoCall) /\ NoCall.what = "clear"
  /\ \A s, iss : Grounded(s, iss, NoCall)
<1>1. NoLease \in Leases /\ 0 \in 0..MaxFlights /\ No \in Requesters \cup {No}
  BY NoIsSome, NumbersAssumption DEF NoLease, Leases
<1>2. "clear" \in Whats
  BY DEF Whats
<1>3. NoCall \in CallSet /\ NoCall.what = "clear" /\ NoCall.flight = 0
  BY <1>1, <1>2, UpdateType DEF NoCall
<1> QED BY <1>3 DEF Plain, Grounded

LEMMA QuietTurn ==
  ASSUME Inv, NEW r \in Requesters, NEW x \in RequestSet,
         requester' = [requester EXCEPT ![r] = x],
         x.lease = requester[r].lease \/ Leased(settings, issuedFor, x.lease),
         Promised(x, r, flight, reconciling, calls),
         UNCHANGED <<settings, memory, degraded, calls, reconciling, flight, issuedFor, changes>>
  PROVE  Inv'
<1>1. NoCall \in CallSet /\ Plain(NoCall) /\ NoCall.what = "clear"
      /\ Grounded(settings, issuedFor, NoCall)
  BY NoCallType
<1>2. More(NoCall) /\ reconciling \in BOOLEAN
  BY DEF More, Inv, Typed
<1>3. reconciling' = (reconciling \/ (Queues(NoCall) /\ NoCall.what = "bootstrap"))
  BY <1>1, <1>2
<1>4. Promised(x, r, flight, reconciling', calls')
  OBVIOUS
<1> QED BY <1>1, <1>2, <1>3, <1>4, TurnOfRequester

(* A save or a clear is called. *)
LEMMA CallStep ==
  ASSUME Inv, NEW c \in CallSet, Plain(c), Grounded(settings, issuedFor, c),
         c.what # "bootstrap", Queues(c), changes' \in 0..MaxChanges,
         UNCHANGED <<settings, memory, degraded, reconciling, requester, flight, issuedFor>>
  PROVE  Inv'
<1>1. /\ calls \in Seq(CallSet) /\ reconciling \in BOOLEAN /\ settings \in Files
      /\ issuedFor \in Seq(Credentials) /\ More(c)
  BY DEF Inv, Typed, More
<1>2. /\ calls' \in Seq(CallSet)
      /\ \A i \in 1..Len(calls') : (\E j \in 1..Len(calls) : calls'[i] = calls[j])
                                    \/ (Queues(c) /\ calls'[i] = c)
      /\ \A p : Invalidating(p, calls) => Invalidating(p, calls')
  BY <1>1, MoreCalls
<1>3. Typed'
  BY <1>2 DEF Inv, Typed
<1>4. Isolated(settings, memory, issuedFor, requester, flight, calls)'
  <2>1. Follows(settings', settings) /\ Longer(issuedFor', issuedFor)
    BY <1>1, FollowsItself, SameIsLonger
  <2>2. OwnTokenStored(settings', issuedFor') /\ memory' \in {memory, settings, settings'}
    BY DEF Inv, Isolated
  <2>3. \A i \in 1..Len(calls') : \/ \E j \in 1..Len(calls) : calls'[i] = calls[j]
                                  \/ Grounded(settings', issuedFor', calls'[i])
    BY <1>2
  <2> QED BY <1>3, <2>1, <2>2, <2>3, IsolatedKept
<1>5. Claimed(flight, calls)'
  BY <1>1, ClaimedAppend DEF Inv, Queues
<1>6. OneRepair(reconciling, calls)'
  <2>1. OneRepair(reconciling \/ c.what = "bootstrap", Append(calls, c))
    BY <1>1, OneRepairAppend DEF Inv
  <2>2. (reconciling \/ c.what = "bootstrap") = reconciling
    BY <1>1
  <2> QED BY <2>1, <2>2 DEF Queues
<1>7. Told(requester, flight, reconciling, calls)'
  <2> SUFFICES ASSUME NEW p \in Requesters
               PROVE  Promised(requester[p], p, flight, reconciling, calls')
    BY DEF Told
  <2>1. Promised(requester[p], p, flight, reconciling, calls)
    BY DEF Inv, Told
  <2>2. Invalidating(p, calls) => Invalidating(p, calls')
    BY <1>2
  <2> QED BY <2>1, <2>2, Zenon DEF Promised, Invalidating
<1> QED BY <1>3, <1>4, <1>5, <1>6, <1>7 DEF Inv

(* What a step leaves of the promise to r: r is free, or waits for something *)
(* that has not been settled.                                                *)
Undisturbed(r) ==
  \/ requester'[r].does \in Free
  \/ /\ requester'[r] = requester[r]
     /\ requester[r].does = "wait" =>
          /\ flight'[requester[r].flight].does # "nothing"
          /\ flight'[requester[r].flight].kind = flight[requester[r].flight].kind

(* The first call is settled.                                                *)
LEMMA TurnOfQueue ==
  ASSUME Inv, calls # <<>>, calls' = Tail(calls),
         settings' \in Files, Follows(settings', settings), OwnTokenStored(settings', issuedFor),
         memory' \in {memory, settings, settings'}, degraded' \in BOOLEAN,
         reconciling' = (reconciling /\ Head(calls).what # "bootstrap"),
         requester' \in [Requesters -> RequestSet], flight' \in [FlightIds -> FlightSet],
         \A r \in Requesters : \/ requester'[r].lease = requester[r].lease
                               \/ Leased(settings', issuedFor, requester'[r].lease),
         \A f \in FlightIds : \/ flight'[f] = flight[f]
                              \/ Flown(settings', issuedFor, flight'[f]),
         \A f \in FlightIds :
            \/ f # Head(calls).flight /\ flight'[f].does = flight[f].does
            \/ f = Head(calls).flight
               /\ flight'[f].does \notin {"persist", "confirm", "recheck"},
         \A r \in Requesters :
            /\ Undisturbed(r)
            /\ requester'[r].does \in {"reconcile", "reconcile again"} =>
                 Head(calls).what # "bootstrap"
            /\ requester'[r].does \in {"invalidate", "reject"} =>
                 ~(Head(calls).what = "invalidate" /\ Head(calls).by = r),
         UNCHANGED <<issuedFor, changes>>
  PROVE  Inv'
<1>1. /\ calls \in Seq(CallSet) /\ reconciling \in BOOLEAN
      /\ issuedFor \in Seq(Credentials)
  BY DEF Inv, Typed
<1>2. calls' \in Seq(CallSet)
  BY <1>1, TailAt
<1>3. memory' \in Files /\ reconciling' \in BOOLEAN
  BY <1>1 DEF Inv, Typed
<1>4. Typed'
  BY <1>2, <1>3 DEF Inv, Typed
<1>5. Isolated(settings, memory, issuedFor, requester, flight, calls)'
  <2>1. Longer(issuedFor', issuedFor)
    BY <1>1, SameIsLonger
  <2>2. \A i \in 1..Len(calls') : \E j \in 1..Len(calls) : calls'[i] = calls[j]
    BY <1>1, TailIndex, ZenonT(40)
  <2> QED BY <1>4, <2>1, <2>2, IsolatedKept
<1>6. Claimed(flight, calls)'
  BY <1>1, ClaimedTail DEF Inv
<1>7. OneRepair(reconciling, calls)'
  <2>1. OneRepair(reconciling /\ Head(calls).what # "bootstrap", Tail(calls))
    BY <1>1, OneRepairTail DEF Inv
  <2> QED BY <2>1
<1>8. Told(requester, flight, reconciling, calls)'
  <2> SUFFICES ASSUME NEW r \in Requesters
               PROVE  Promised(requester'[r], r, flight', reconciling', calls')
    BY DEF Told
  <2>1. CASE requester'[r].does \in Free
    BY <2>1, FreePromised
  <2>2. CASE requester'[r].does \notin Free
    <3>1. /\ requester'[r] = requester[r]
          /\ requester[r].does = "wait" =>
               /\ flight'[requester[r].flight].does # "nothing"
               /\ flight'[requester[r].flight].kind = flight[requester[r].flight].kind
      BY <2>2 DEF Undisturbed
    <3>2. Promised(requester[r], r, flight, reconciling, calls)
      BY DEF Inv, Told
    <3>3. requester[r].does \in {"reconcile", "reconcile again"} /\ reconciling => reconciling'
      BY <3>1
    <3>4. requester[r].does \in {"invalidate", "reject"} /\ Invalidating(r, calls)
          => Invalidating(r, calls')
      <4>1. requester[r].does \in {"invalidate", "reject"} =>
              ~(Head(calls).what = "invalidate" /\ Head(calls).by = r)
        BY <3>1
      <4> QED BY <1>1, <4>1, InvalidatingTail
    <3>5. Promised(requester[r], r, flight', reconciling', calls')
      BY <3>1, <3>2, <3>3, <3>4, Zenon DEF Promised, Invalidating
    <3> QED BY <3>1, <3>5
  <2> QED BY <2>1, <2>2
<1> QED BY <1>4, <1>5, <1>6, <1>7, <1>8 DEF Inv

(* A flight calls an update. *)
LEMMA FlightCalls ==
  ASSUME Inv, NEW f \in FlightIds, NEW c \in CallSet, Queues(c),
         flight[f].does \in {"post", "sleep"}, c.flight = f, c.what \in {"persist", "refresh"},
         flight' \in [FlightIds -> FlightSet], Expects(flight'[f].does, c.what),
         flight'[f].kind = flight[f].kind, \A g \in FlightIds \ {f} : flight'[g] = flight[g],
         issuedFor' \in Seq(Credentials), Len(issuedFor') <= MaxTokens,
         Longer(issuedFor', issuedFor), Flown(settings, issuedFor', flight'[f]),
         UNCHANGED <<settings, memory, degraded, reconciling, requester, changes>>
  PROVE  Inv'
<1>1. /\ calls \in Seq(CallSet) /\ reconciling \in BOOLEAN /\ settings \in Files
      /\ issuedFor \in Seq(Credentials) /\ More(c)
  BY DEF Inv, Typed, More
<1>2. /\ calls' \in Seq(CallSet)
      /\ \A i \in 1..Len(calls') : (\E j \in 1..Len(calls) : calls'[i] = calls[j])
                                    \/ (Queues(c) /\ calls'[i] = c)
      /\ \A p : Invalidating(p, calls) => Invalidating(p, calls')
  BY <1>1, MoreCalls
<1>3. Typed'
  BY <1>2 DEF Inv, Typed
<1>4. Isolated(settings, memory, issuedFor, requester, flight, calls)'
  <2>1. Follows(settings', settings) /\ memory' \in {memory, settings, settings'}
    BY <1>1, FollowsItself
  <2>2. OwnTokenStored(settings', issuedFor')
    BY <1>1, IssuedKept DEF Inv, Isolated, OwnTokenStored
  <2>3. \A i \in 1..Len(calls') : \/ \E j \in 1..Len(calls) : calls'[i] = calls[j]
                                  \/ Grounded(settings', issuedFor', calls'[i])
    BY <1>2 DEF Grounded
  <2>4. \A g \in FlightIds : \/ flight'[g] = flight[g]
                             \/ Flown(settings', issuedFor', flight'[g])
    OBVIOUS
  <2> QED BY <1>3, <2>1, <2>2, <2>3, <2>4, IsolatedKept
<1>5. Claimed(flight, calls)'
  <2>1. flight[f].does \notin {"persist", "confirm", "recheck"}
    OBVIOUS
  <2>2. Claimed(flight', Append(calls, c))
    BY <1>1, <2>1, ClaimedBegins DEF Inv
  <2> QED BY <2>2 DEF Queues
<1>6. OneRepair(reconciling, calls)'
  <2>1. OneRepair(reconciling \/ c.what = "bootstrap", Append(calls, c))
    BY <1>1, OneRepairAppend DEF Inv
  <2>2. (reconciling \/ c.what = "bootstrap") = reconciling
    BY <1>1
  <2> QED BY <2>1, <2>2 DEF Queues
<1>7. Told(requester, flight, reconciling, calls)'
  <2> SUFFICES ASSUME NEW p \in Requesters
               PROVE  Promised(requester[p], p, flight', reconciling, calls')
    BY DEF Told
  <2>1. Promised(requester[p], p, flight, reconciling, calls)
    BY DEF Inv, Told
  <2>2. Invalidating(p, calls) => Invalidating(p, calls')
    BY <1>2
  <2>3. requester[p].does = "wait" =>
          /\ flight'[requester[p].flight].does # "nothing"
          /\ flight'[requester[p].flight].kind = flight[requester[p].flight].kind
    BY <2>1 DEF Promised, Expects
  <2> QED BY <2>1, <2>2, <2>3, Zenon DEF Promised, Invalidating
<1> QED BY <1>3, <1>4, <1>5, <1>6, <1>7 DEF Inv

(* Something happens to a flight that expects no call.                       *)
LEMMA FlightTurns ==
  ASSUME Inv, NEW f \in FlightIds,
         flight[f].does \notin {"persist", "confirm", "recheck"},
         flight' \in [FlightIds -> FlightSet], requester' \in [Requesters -> RequestSet],
         flight'[f].does \notin {"persist", "confirm", "recheck"},
         \A g \in FlightIds \ {f} : flight'[g] = flight[g],
         Flown(settings, issuedFor, flight'[f]),
         \A r \in Requesters :
            /\ Undisturbed(r) \/ Promised(requester'[r], r, flight', reconciling, calls)
            /\ \/ requester'[r].lease = requester[r].lease
               \/ Leased(settings, issuedFor, requester'[r].lease),
         UNCHANGED <<settings, memory, degraded, calls, reconciling, issuedFor, changes>>
  PROVE  Inv'
<1>1. /\ calls \in Seq(CallSet) /\ reconciling \in BOOLEAN /\ settings \in Files
      /\ issuedFor \in Seq(Credentials)
  BY DEF Inv, Typed
<1>2. Typed'
  BY DEF Inv, Typed
<1>3. Isolated(settings, memory, issuedFor, requester, flight, calls)'
  <2>1. Follows(settings', settings) /\ Longer(issuedFor', issuedFor)
    BY <1>1, FollowsItself, SameIsLonger
  <2>2. OwnTokenStored(settings', issuedFor') /\ memory' \in {memory, settings, settings'}
    BY DEF Inv, Isolated
  <2>3. \A g \in FlightIds : \/ flight'[g] = flight[g]
                             \/ Flown(settings', issuedFor', flight'[g])
    OBVIOUS
  <2>4. \A i \in 1..Len(calls') : \E j \in 1..Len(calls) : calls'[i] = calls[j]
    OBVIOUS
  <2>5. \A r \in Requesters : \/ requester'[r].lease = requester[r].lease
                              \/ Leased(settings', issuedFor', requester'[r].lease)
    OBVIOUS
  <2> QED BY <1>2, <2>1, <2>2, <2>3, <2>4, <2>5, IsolatedKept
<1>4. Claimed(flight, calls)'
  <2>1. \A g \in FlightIds : \/ flight'[g].does = flight[g].does
                             \/ g = f
    OBVIOUS
  <2>2. \A i \in 1..Len(calls) : calls[i].what \in {"persist", "refresh"} => calls[i].flight # f
    BY DEF Inv, Claimed, Expects
  <2>3. \A i \in 1..Len(calls) :
          IF calls[i].what \in {"persist", "refresh"}
          THEN calls[i].flight \in FlightIds
               /\ Expects(flight'[calls[i].flight].does, calls[i].what)
          ELSE calls[i].flight = 0
    BY <2>1, <2>2 DEF Inv, Claimed
  <2>4. \A i, j \in 1..Len(calls) : calls[i].flight = calls[j].flight /\ calls[i].flight # 0
          => i = j
    BY DEF Inv, Claimed
  <2>5. \A g \in FlightIds : flight'[g].does \in {"persist", "confirm", "recheck"} =>
          \E i \in 1..Len(calls) : calls[i].flight = g
    BY <2>1 DEF Inv, Claimed
  <2> QED BY <2>3, <2>4, <2>5 DEF Claimed
<1>5. OneRepair(reconciling, calls)'
  BY DEF Inv
<1>6. Told(requester, flight, reconciling, calls)'
  <2> SUFFICES ASSUME NEW r \in Requesters, Undisturbed(r)
               PROVE  Promised(requester'[r], r, flight', reconciling, calls)
    BY DEF Told
  <2>1. CASE requester'[r].does \in Free
    BY <2>1, FreePromised
  <2>2. CASE requester'[r].does \notin Free
    <3>1. /\ requester'[r] = requester[r]
          /\ requester[r].does = "wait" =>
               /\ flight'[requester[r].flight].does # "nothing"
               /\ flight'[requester[r].flight].kind = flight[requester[r].flight].kind
      BY <2>2 DEF Undisturbed
    <3>2. Promised(requester[r], r, flight, reconciling, calls)
      BY DEF Inv, Told
    <3>3. Promised(requester[r], r, flight', reconciling, calls)
      BY <3>1, <3>2, Zenon DEF Promised
    <3> QED BY <3>1, <3>3
  <2> QED BY <2>1, <2>2
<1> QED BY <1>2, <1>3, <1>4, <1>5, <1>6 DEF Inv

-----------------------------------------------------------------------------
(* The actions.                                                              *)

LEMMA NoFlightType ==
  /\ NoFlight \in FlightSet /\ NoFlight.does = "nothing"
  /\ \A s, iss : Flown(s, iss, NoFlight)
<1>1. /\ "token" \in Kinds /\ No \in Some /\ 0 \in Nat /\ "nothing" \in Duties
      /\ 0 \in {0, 1} /\ 0 \in 0..MaxTokens
  BY NoIsSome, NumbersAssumption DEF Kinds, Duties
<1>2. NoFlight \in FlightSet /\ NoFlight.does = "nothing"
  BY <1>1 DEF NoFlight, FlightSet
<1> QED BY <1>2 DEF Flown

LEMMA FlightPut ==
  ASSUME flight \in [FlightIds -> FlightSet], NEW f \in FlightIds, NEW y \in FlightSet,
         flight' = [flight EXCEPT ![f] = y]
  PROVE  /\ flight' \in [FlightIds -> FlightSet] /\ flight'[f] = y
         /\ \A g \in FlightIds \ {f} : flight'[g] = flight[g]
OBVIOUS

Given(lease) == [does |-> "authorize", kind |-> "token", flight |-> 0, lease |-> lease]

LEMMA GivenType ==
  ASSUME NEW l \in Leases
  PROVE  Given(l) \in RequestSet /\ Given(l).does = "authorize" /\ Given(l).lease = l
<1>1. "authorize" \in Deeds /\ "token" \in Kinds /\ 0 \in 0..MaxFlights
  BY NumbersAssumption DEF Deeds, Kinds
<1> QED BY <1>1 DEF Given, RequestSet

LEMMA LandFacts ==
  ASSUME Inv, NEW f \in FlightIds, NEW l \in Leases, Land(f, l)
  PROVE  /\ flight' \in [FlightIds -> FlightSet] /\ flight'[f] = NoFlight
         /\ \A g \in FlightIds \ {f} : flight'[g] = flight[g]
         /\ requester' \in [Requesters -> RequestSet]
         /\ \A r \in Requesters : Undisturbed(r)
         /\ \A r \in Requesters : requester'[r].lease \in {requester[r].lease, NoLease, l}
         /\ \A r \in Requesters : requester'[r].does \notin Free => requester'[r] = requester[r]
<1>1. flight \in [FlightIds -> FlightSet] /\ requester \in [Requesters -> RequestSet]
  BY DEF Inv, Typed
<1>2. /\ flight' \in [FlightIds -> FlightSet] /\ flight'[f] = NoFlight
      /\ \A g \in FlightIds \ {f} : flight'[g] = flight[g]
  BY <1>1, NoFlightType, FlightPut DEF Land
<1>3. \A r \in Requesters :
        \/ requester'[r] = requester[r] /\ r \notin Waiting(f)
        \/ requester'[r] = Idle
        \/ requester'[r] = Given(l)
  BY DEF Land, Given
<1>4. requester' = [r \in Requesters |-> requester'[r]]
  BY DEF Land
<1>5. \A r \in Requesters : requester'[r] \in RequestSet
  BY <1>1, <1>3, IdleType, GivenType
<1>6. requester' \in [Requesters -> RequestSet]
  BY <1>4, <1>5
<1>7. ASSUME NEW r \in Requesters
      PROVE  /\ Undisturbed(r)
             /\ requester'[r].lease \in {requester[r].lease, NoLease, l}
             /\ requester'[r].does \notin Free => requester'[r] = requester[r]
  <2>1. CASE requester'[r] = Idle
    BY <2>1, IdleType DEF Undisturbed, Free
  <2>2. CASE requester'[r] = Given(l)
    BY <2>2, GivenType DEF Undisturbed, Free
  <2>3. CASE requester'[r] = requester[r] /\ r \notin Waiting(f)
    <3>1. Promised(requester[r], r, flight, reconciling, calls)
      BY DEF Inv, Told
    <3>2. requester[r].does = "wait" => requester[r].flight \in FlightIds \ {f}
      BY <2>3, <3>1 DEF Waiting, Promised
    <3>3. requester[r].does = "wait" =>
            /\ flight'[requester[r].flight] = flight[requester[r].flight]
            /\ flight[requester[r].flight].does # "nothing"
      BY <1>2, <3>1, <3>2 DEF Promised
    <3> QED BY <2>3, <3>3 DEF Undisturbed
  <2> QED BY <1>3, <2>1, <2>2, <2>3
<1> QED BY <1>2, <1>6, <1>7

(* A flight that expects no call lands with nothing.                         *)
LEMMA LandStep ==
  ASSUME Inv, NEW f \in FlightIds, flight[f].does = "post", Land(f, NoLease),
         UNCHANGED <<settings, memory, degraded, calls, reconciling, issuedFor, changes>>
  PROVE  Inv'
<1>1. NoLease \in Leases
  BY IdleType, NoIsSome, NumbersAssumption DEF NoLease, Leases
<1>2. /\ flight' \in [FlightIds -> FlightSet] /\ flight'[f] = NoFlight
      /\ \A g \in FlightIds \ {f} : flight'[g] = flight[g]
      /\ requester' \in [Requesters -> RequestSet]
      /\ \A r \in Requesters : Undisturbed(r)
      /\ \A r \in Requesters : requester'[r].lease \in {requester[r].lease, NoLease}
  BY <1>1, LandFacts
<1>3. \A r \in Requesters :
        requester'[r].lease = requester[r].lease \/ Leased(settings, issuedFor, requester'[r].lease)
  BY <1>2, NoLeased
<1>4. flight'[f].does \notin {"persist", "confirm", "recheck"}
  BY <1>2, NoFlightType
<1>5. Flown(settings, issuedFor, flight'[f])
  BY <1>2, NoFlightType
<1> QED BY <1>2, <1>3, <1>4, <1>5, FlightTurns

LEMMA NothingLent == NoLease \in Leases
BY NoIsSome, NumbersAssumption DEF NoLease, Leases

LEMMA CallActions ==
  ASSUME Inv, (\E c \in Credentials : SaveCredentials(c)) \/ ClearCredentials
  PROVE  Inv'
<1>0. changes \in 0..MaxChanges /\ MaxChanges \in Nat
  BY NumbersAssumption DEF Inv, Typed
<1>1. ASSUME NEW c \in Credentials, SaveCredentials(c) PROVE Inv'
  <2>1. PICK l : l = [NoLease EXCEPT !.of = c]
    OBVIOUS
  <2>2. c \in Some
    BY NoIsSome
  <2>3. l \in Leases /\ l.of = c
    BY <2>1, <2>2, NumbersAssumption DEF NoLease, Leases
  <2>4. PICK u : u = Update("save", l, No, 0)
    OBVIOUS
  <2>5. "save" \in Whats /\ No \in Requesters \cup {No} /\ 0 \in 0..MaxFlights
    BY NumbersAssumption DEF Whats
  <2>6. u \in CallSet /\ u.what = "save" /\ u.lease = l /\ u.flight = 0
    BY <2>3, <2>4, <2>5, UpdateType
  <2>7. Queues(u) /\ UNCHANGED <<settings, memory, degraded>>
    BY <1>1, <2>1, <2>4 DEF SaveCredentials, Enqueue, Queues
  <2>8. changes' \in 0..MaxChanges /\ UNCHANGED <<reconciling, requester, flight, issuedFor>>
    BY <1>0, <1>1 DEF SaveCredentials, issueVars
  <2>9. Plain(u) /\ Grounded(settings, issuedFor, u)
    BY <2>3, <2>6 DEF Plain, Grounded
  <2> QED BY <2>6, <2>7, <2>8, <2>9, CallStep
<1>2. CASE ClearCredentials
  <2>1. Queues(NoCall) /\ UNCHANGED <<settings, memory, degraded>>
    BY <1>2 DEF ClearCredentials, Enqueue, Queues, NoCall
  <2>2. changes' \in 0..MaxChanges /\ UNCHANGED <<reconciling, requester, flight, issuedFor>>
    BY <1>0, <1>2 DEF ClearCredentials, issueVars
  <2>3. NoCall \in CallSet /\ Plain(NoCall) /\ NoCall.what # "bootstrap"
        /\ Grounded(settings, issuedFor, NoCall)
    BY NoCallType
  <2> QED BY <2>1, <2>2, <2>3, CallStep
<1> QED BY <1>1, <1>2

LEMMA AskStep ==
  ASSUME Inv, NEW r \in Requesters, NEW kind \in Kinds, Ask(r, kind)
  PROVE  Inv'
<1>1. PICK d : d = (IF kind = "token" THEN "initialize" ELSE "initialize again")
  OBVIOUS
<1>2. PICK x : x = [does |-> d, kind |-> kind, flight |-> 0, lease |-> NoLease]
  OBVIOUS
<1>3. d \in Deeds /\ d \in Free /\ 0 \in 0..MaxFlights
  <2>1. d = "initialize" \/ d = "initialize again"
    BY <1>1
  <2>2. d \in Deeds
    BY <2>1 DEF Deeds
  <2>3. d \in Free
    BY <2>1 DEF Free
  <2>4. 0 \in 0..MaxFlights
    BY NumbersAssumption
  <2> QED BY <2>2, <2>3, <2>4
<1>4. x \in RequestSet /\ x.lease = NoLease /\ x.does = d
  BY <1>2, <1>3, NothingLent DEF RequestSet
<1>5. requester' = [requester EXCEPT ![r] = x]
  <2>1. requester[r] = [does |-> "nothing", kind |-> "token", flight |-> 0, lease |-> NoLease]
    BY DEF Ask, Idle
  <2>2. PICK w : w = requester[r]
    OBVIOUS
  <2>3. PICK z : z = [does |-> d, kind |-> "token", flight |-> 0, lease |-> NoLease]
    OBVIOUS
  <2>4. [w EXCEPT !.does = d] = z
    BY <2>1, <2>2, <2>3
  <2>5. [z EXCEPT !.kind = kind] = x
    BY <1>2, <2>3
  <2>6. [w EXCEPT !.does = d, !.kind = kind] = [[w EXCEPT !.does = d] EXCEPT !.kind = kind]
    OBVIOUS
  <2>7. [[w EXCEPT !.does = d] EXCEPT !.kind = kind] = x
    BY <2>4, <2>5
  <2>8. requester' = [requester EXCEPT ![r] = [w EXCEPT !.does = d, !.kind = kind]]
    BY <1>1, <2>2 DEF Ask
  <2> QED BY <2>6, <2>7, <2>8
<1>6. UNCHANGED <<settings, memory, degraded, calls, reconciling, flight, issuedFor, changes>>
  BY DEF Ask, repositoryVars, issueVars
<1>7. Leased(settings, issuedFor, x.lease) /\ Promised(x, r, flight, reconciling, calls)
  BY <1>3, <1>4, NoLeased, FreePromised
<1> QED BY <1>4, <1>5, <1>6, <1>7, QuietTurn

(* Going on to something that nobody else has to do.                         *)
LEMMA GoesOn ==
  ASSUME Inv, NEW r \in Requesters, NEW d \in Deeds, d \in Free, Go(r, d),
         UNCHANGED <<settings, memory, degraded, calls, reconciling, flight, issuedFor, changes>>
  PROVE  Inv'
<1>1. requester[r] \in RequestSet
  BY DEF Inv, Typed
<1>2. PICK x : x = [requester[r] EXCEPT !.does = d]
  OBVIOUS
<1>3. x \in RequestSet /\ x.does = d /\ x.lease = requester[r].lease
  BY <1>1, <1>2, DoesType
<1>4. requester' = [requester EXCEPT ![r] = x]
  BY <1>2 DEF Go
<1>5. Promised(x, r, flight, reconciling, calls)
  BY <1>3, FreePromised
<1> QED BY <1>3, <1>4, <1>5, QuietTurn

LEMMA Ends ==
  ASSUME Inv, NEW r \in Requesters, End(r),
         UNCHANGED <<settings, memory, degraded, calls, reconciling, flight, issuedFor, changes>>
  PROVE  Inv'
<1>0. Idle.does \in Free
  BY IdleType DEF Free
<1>1. /\ Idle \in RequestSet /\ Leased(settings, issuedFor, Idle.lease)
      /\ Promised(Idle, r, flight, reconciling, calls)
  BY <1>0, IdleType, NoLeased, FreePromised
<1>2. requester' = [requester EXCEPT ![r] = Idle]
  BY DEF End
<1> QED BY <1>1, <1>2, QuietTurn

LEMMA ReconcileStep ==
  ASSUME Inv, NEW r \in Requesters, Reconcile(r)
  PROVE  Inv'
<1>1. PICK d : d = Reconciling(requester[r].does)
  OBVIOUS
<1>2. d \in Deeds /\ d \in {"reconcile", "reconcile again"}
  BY <1>1 DEF Reconciling, Deeds
<1>3. requester[r] \in RequestSet /\ reconciling \in BOOLEAN
  BY DEF Inv, Typed
<1>4. PICK x : x = [requester[r] EXCEPT !.does = d]
  OBVIOUS
<1>5. x \in RequestSet /\ x.does = d /\ x.lease = requester[r].lease
  BY <1>2, <1>3, <1>4, DoesType
<1>6. requester' = [requester EXCEPT ![r] = x] /\ reconciling' = TRUE
  BY <1>1, <1>4 DEF Reconcile, Go
<1>7. PICK c : c = Update("bootstrap", NoLease, No, 0)
  OBVIOUS
<1>8. "bootstrap" \in Whats /\ No \in Requesters \cup {No} /\ 0 \in 0..MaxFlights
  BY NumbersAssumption DEF Whats
<1>9. c \in CallSet /\ c.what = "bootstrap" /\ c.flight = 0
  BY <1>7, <1>8, UpdateType, NothingLent
<1>10. Plain(c) /\ Grounded(settings, issuedFor, c)
  BY <1>9 DEF Plain, Grounded
<1>11. UNCHANGED <<settings, memory, degraded, flight, issuedFor, changes>>
  BY DEF Reconcile, Enqueue, repositoryVars, issueVars
<1>12. IF reconciling THEN calls' = calls ELSE Queues(c)
  BY <1>7 DEF Reconcile, Enqueue, repositoryVars, Queues
<1>13. Promised(x, r, flight, reconciling', calls')
  BY <1>2, <1>5, <1>6 DEF Promised
<1>14. CASE reconciling
  <2>1. NoCall \in CallSet /\ Plain(NoCall) /\ NoCall.what = "clear"
        /\ Grounded(settings, issuedFor, NoCall) /\ More(NoCall)
    BY <1>12, <1>14, NoCallType DEF More
  <2>2. reconciling' = (reconciling \/ (Queues(NoCall) /\ NoCall.what = "bootstrap"))
    BY <1>3, <1>6, <1>14
  <2> QED BY <1>5, <1>6, <1>11, <1>13, <2>1, <2>2, TurnOfRequester
<1>15. CASE ~reconciling
  <2>1. More(c) /\ Queues(c)
    BY <1>12, <1>15 DEF More
  <2>2. reconciling' = (reconciling \/ (Queues(c) /\ c.what = "bootstrap"))
    BY <1>3, <1>6, <1>9, <2>1
  <2> QED BY <1>5, <1>6, <1>9, <1>10, <1>11, <1>13, <1>15, <2>1, <2>2, TurnOfRequester
<1> QED BY <1>14, <1>15

LEMMA LeaseType ==
  ASSUME NEW rq \in RequestSet, NEW l \in Leases
  PROVE  /\ [rq EXCEPT !.lease = l] \in RequestSet /\ [rq EXCEPT !.lease = l].lease = l
         /\ [rq EXCEPT !.lease = l].does = rq.does
BY DEF RequestSet

LEMMA FlightOfType ==
  ASSUME NEW rq \in RequestSet, NEW f \in FlightIds
  PROVE  /\ [rq EXCEPT !.flight = f] \in RequestSet /\ [rq EXCEPT !.flight = f].flight = f
         /\ [rq EXCEPT !.flight = f].does = rq.does /\ [rq EXCEPT !.flight = f].kind = rq.kind
         /\ [rq EXCEPT !.flight = f].lease = rq.lease
<1>1. f \in 0..MaxFlights
  BY NumbersAssumption DEF FlightIds
<1> QED BY <1>1 DEF RequestSet

LEMMA PersistedType == ASSUME memory \in Files PROVE PersistedLease \in Leases
BY DEF PersistedLease, Leases, Files

LEMMA PersistedLeased ==
  ASSUME Inv, memory.key # No, memory.token # 0, memory.tokenFingerprint = memory.key
  PROVE  Leased(settings, issuedFor, PersistedLease)
<1>1. /\ Dated(settings, memory.key, memory.generation)
      /\ Versioned(settings, memory.token, memory.version)
      /\ Issued(issuedFor, memory.token, memory.key)
  BY DEF Inv, Isolated, Copied
<1>2. /\ PersistedLease.token = memory.token /\ PersistedLease.of = memory.key
      /\ PersistedLease.generation = memory.generation
      /\ PersistedLease.version = memory.version
  BY DEF PersistedLease
<1> QED BY <1>1, <1>2 DEF Leased

(* Asking for an invalidation, and waiting for it.                           *)
LEMMA AsksInvalidation ==
  ASSUME Inv, NEW r \in Requesters, NEW d \in {"invalidate", "reject"}, NEW l \in Leases,
         Leased(settings, issuedFor, l), Go(r, d), Queues(Update("invalidate", l, r, 0)),
         UNCHANGED <<settings, memory, degraded, reconciling, flight, issuedFor, changes>>
  PROVE  Inv'
<1>1. requester[r] \in RequestSet /\ reconciling \in BOOLEAN /\ calls \in Seq(CallSet)
  BY DEF Inv, Typed
<1>2. PICK x : x = [requester[r] EXCEPT !.does = d]
  OBVIOUS
<1>3. d \in Deeds
  BY DEF Deeds
<1>4. x \in RequestSet /\ x.does = d /\ x.lease = requester[r].lease
  BY <1>1, <1>2, <1>3, DoesType
<1>5. requester' = [requester EXCEPT ![r] = x]
  BY <1>2 DEF Go
<1>6. PICK c : c = Update("invalidate", l, r, 0)
  OBVIOUS
<1>7. "invalidate" \in Whats /\ r \in Requesters \cup {No} /\ 0 \in 0..MaxFlights
  BY NumbersAssumption DEF Whats
<1>8. c \in CallSet /\ c.what = "invalidate" /\ c.lease = l /\ c.by = r /\ c.flight = 0
  BY <1>6, <1>7, UpdateType
<1>9. Plain(c) /\ Grounded(settings, issuedFor, c)
  BY <1>8 DEF Plain, Grounded
<1>10. Queues(c) /\ More(c)
  BY <1>6 DEF More
<1>11. reconciling' = (reconciling \/ (Queues(c) /\ c.what = "bootstrap"))
  BY <1>1, <1>8
<1>12. Invalidating(r, calls')
  BY <1>1, <1>8, <1>10, InvalidatingLast DEF Queues
<1>13. Promised(x, r, flight, reconciling', calls')
  BY <1>4, <1>12 DEF Promised, Invalidating
<1>14. ~(Queues(c) /\ c.what = "bootstrap")
  BY <1>8
<1> QED BY <1>4, <1>5, <1>8, <1>9, <1>10, <1>11, <1>13, <1>14, TurnOfRequester

LEMMA LookUpStep ==
  ASSUME Inv, NEW r \in Requesters, LookUp(r)
  PROVE  Inv'
<1>1. UNCHANGED <<reconciling, flight, issuedFor, changes>>
  BY DEF LookUp, issueVars
<1>2. requester[r] \in RequestSet /\ memory \in Files
  BY DEF Inv, Typed
<1> DEFINE ours == /\ memory.key # No /\ memory.fingerprint = memory.key
                   /\ memory.token # 0 /\ memory.tokenFingerprint = memory.key
<1>3. CASE /\ ours
           /\ requester' = [requester EXCEPT ![r].does = "authorize", ![r].lease = PersistedLease]
           /\ UNCHANGED repositoryVars
  <2>1. PersistedLease \in Leases /\ Leased(settings, issuedFor, PersistedLease)
    BY <1>2, <1>3, PersistedType, PersistedLeased
  <2>2. PICK l : l = PersistedLease
    OBVIOUS
  <2>3. PICK w : w = requester[r]
    OBVIOUS
  <2>4. PICK z : z = [w EXCEPT !.does = "authorize"]
    OBVIOUS
  <2>5. "authorize" \in Deeds
    BY DEF Deeds
  <2>6. z \in RequestSet /\ z.does = "authorize"
    BY <1>2, <2>3, <2>4, <2>5, DoesType
  <2>7. PICK x : x = [z EXCEPT !.lease = l]
    OBVIOUS
  <2>8. x \in RequestSet /\ x.lease = l /\ x.does = "authorize"
    BY <2>1, <2>2, <2>6, <2>7, LeaseType
  <2>9. [w EXCEPT !.does = "authorize", !.lease = l] = [[w EXCEPT !.does = "authorize"] EXCEPT !.lease = l]
    OBVIOUS
  <2>10. requester' = [requester EXCEPT ![r] = [w EXCEPT !.does = "authorize", !.lease = l]]
    BY <1>3, <2>2, <2>3
  <2>11. requester' = [requester EXCEPT ![r] = x]
    BY <2>4, <2>7, <2>9, <2>10
  <2>12. x.does \in Free
    BY <2>8 DEF Free
  <2>13. Promised(x, r, flight, reconciling, calls)
    BY <2>12, FreePromised
  <2>14. UNCHANGED <<settings, memory, degraded, calls>>
    BY <1>3 DEF repositoryVars
  <2> QED BY <1>1, <2>1, <2>2, <2>8, <2>11, <2>13, <2>14, QuietTurn
<1>4. CASE /\ ours /\ Go(r, "invalidate")
           /\ Enqueue(Update("invalidate", PersistedLease, r, 0))
  <2>1. PersistedLease \in Leases /\ Leased(settings, issuedFor, PersistedLease)
    BY <1>2, <1>4, PersistedType, PersistedLeased
  <2>2. PICK l : l = PersistedLease
    OBVIOUS
  <2>3. Queues(Update("invalidate", l, r, 0)) /\ UNCHANGED <<settings, memory, degraded>>
    BY <1>4, <2>2 DEF Enqueue, Queues
  <2>4. PICK d \in {"invalidate", "reject"} : d = "invalidate"
    OBVIOUS
  <2>5. Go(r, d)
    BY <1>4, <2>4
  <2> QED BY <1>1, <2>1, <2>2, <2>3, <2>5, AsksInvalidation
<1>5. CASE Go(r, "initialize again") /\ UNCHANGED repositoryVars
  <2>1. PICK d : d = "initialize again"
    OBVIOUS
  <2>2. d \in Deeds /\ d \in Free
    BY <2>1 DEF Deeds, Free
  <2>3. UNCHANGED <<settings, memory, degraded, calls>>
    BY <1>5 DEF repositoryVars
  <2>4. Go(r, d)
    BY <1>5, <2>1
  <2> QED BY <1>1, <2>2, <2>3, <2>4, GoesOn
<1> QED BY <1>3, <1>4, <1>5, Zenon DEF LookUp

LEMMA JoinStep ==
  ASSUME Inv, NEW r \in Requesters, Join(r)
  PROVE  Inv'
<1>1. UNCHANGED <<settings, memory, degraded, calls, reconciling, issuedFor, changes>>
  BY DEF Join, repositoryVars
<1>2. requester[r] \in RequestSet /\ memory \in Files
  BY DEF Inv, Typed
<1>3. ASSUME NEW f \in FlightIds,
             requester' = [requester EXCEPT ![r].does = "wait", ![r].flight = f]
      PROVE  \E x \in RequestSet : /\ requester' = [requester EXCEPT ![r] = x]
                                   /\ x.does = "wait" /\ x.flight = f
                                   /\ x.kind = requester[r].kind /\ x.lease = requester[r].lease
  <2>1. PICK w : w = requester[r]
    OBVIOUS
  <2>2. PICK z : z = [w EXCEPT !.does = "wait"]
    OBVIOUS
  <2>3. "wait" \in Deeds
    BY DEF Deeds
  <2>4. z \in RequestSet /\ z.does = "wait" /\ z.kind = w.kind /\ z.lease = w.lease
    BY <1>2, <2>1, <2>2, <2>3, DoesType
  <2>5. PICK x : x = [z EXCEPT !.flight = f]
    OBVIOUS
  <2>6. /\ x \in RequestSet /\ x.does = "wait" /\ x.flight = f /\ x.kind = w.kind
        /\ x.lease = w.lease
    BY <2>4, <2>5, FlightOfType
  <2>7. [w EXCEPT !.does = "wait", !.flight = f] = [[w EXCEPT !.does = "wait"] EXCEPT !.flight = f]
    OBVIOUS
  <2>8. requester' = [requester EXCEPT ![r] = [w EXCEPT !.does = "wait", !.flight = f]]
    BY <1>3, <2>1
  <2>9. requester' = [requester EXCEPT ![r] = x]
    BY <2>2, <2>5, <2>7, <2>8
  <2> QED BY <2>1, <2>6, <2>9
<1>4. CASE End(r) /\ UNCHANGED flight
  BY <1>1, <1>4, Ends
<1>5. ASSUME NEW f \in Joinable(r), UNCHANGED flight,
             requester' = [requester EXCEPT ![r].does = "wait", ![r].flight = f]
      PROVE  Inv'
  <2>1. f \in FlightIds /\ flight[f].does # "nothing" /\ flight[f].kind = requester[r].kind
    BY DEF Joinable, Running
  <2>2. PICK x \in RequestSet : /\ requester' = [requester EXCEPT ![r] = x]
                                /\ x.does = "wait" /\ x.flight = f
                                /\ x.kind = requester[r].kind /\ x.lease = requester[r].lease
    BY <1>3, <1>5, <2>1
  <2>3. Promised(x, r, flight, reconciling, calls)
    BY <2>1, <2>2 DEF Promised
  <2> QED BY <1>1, <1>5, <2>2, <2>3, QuietTurn
<1>6. ASSUME NEW f \in FlightIds, memory.key # No, ~Running(f),
             flight' = [flight EXCEPT ![f] =
               [kind |-> requester[r].kind, of |-> memory.key,
                generation |-> memory.generation, does |-> "post", attempt |-> 0, token |-> 0]],
             requester' = [requester EXCEPT ![r].does = "wait", ![r].flight = f]
      PROVE  Inv'
  <2>1. PICK y : y = [kind |-> requester[r].kind, of |-> memory.key,
                      generation |-> memory.generation, does |-> "post",
                      attempt |-> 0, token |-> 0]
    OBVIOUS
  <2>2. /\ requester[r].kind \in Kinds /\ memory.key \in Some /\ memory.key \in Credentials
        /\ memory.generation \in Nat
    BY <1>2, <1>6 DEF RequestSet, Files, Some
  <2>3. "post" \in Duties /\ 0 \in {0, 1} /\ 0 \in 0..MaxTokens
    BY NumbersAssumption DEF Duties
  <2>4. /\ y \in FlightSet /\ y.does = "post" /\ y.kind = requester[r].kind
        /\ y.of = memory.key /\ y.generation = memory.generation
    BY <2>1, <2>2, <2>3 DEF FlightSet
  <2>5. /\ flight' \in [FlightIds -> FlightSet] /\ flight'[f] = y
        /\ \A g \in FlightIds \ {f} : flight'[g] = flight[g]
    BY <1>6, <2>1, <2>4, FlightPut DEF Inv, Typed
  <2>6. PICK x \in RequestSet : /\ requester' = [requester EXCEPT ![r] = x]
                                /\ x.does = "wait" /\ x.flight = f
                                /\ x.kind = requester[r].kind /\ x.lease = requester[r].lease
    BY <1>3, <1>6
  <2>7. /\ requester' \in [Requesters -> RequestSet] /\ requester'[r] = x
        /\ \A p \in Requesters \ {r} : requester'[p] = requester[p]
    BY <2>6, RequesterPut DEF Inv, Typed
  <2>8. Flown(settings, issuedFor, flight'[f])
    <3>1. Dated(settings, memory.key, memory.generation)
      BY <1>6 DEF Inv, Isolated, Copied
    <3>2. Dated(settings, y.of, y.generation) /\ y.of \in Credentials
      BY <2>2, <2>4, <3>1
    <3> QED BY <2>4, <2>5, <3>2 DEF Flown
  <2>9. ASSUME NEW p \in Requesters
        PROVE  /\ Undisturbed(p) \/ Promised(requester'[p], p, flight', reconciling, calls)
               /\ requester'[p].lease = requester[p].lease
    <3>1. CASE p = r
      <4>1. Promised(x, r, flight', reconciling, calls)
        BY <2>4, <2>5, <2>6 DEF Promised
      <4> QED BY <2>6, <2>7, <3>1, <4>1
    <3>2. CASE p # r
      <4>1. Promised(requester[p], p, flight, reconciling, calls)
        BY DEF Inv, Told
      <4>2. requester[p].does = "wait" =>
              /\ requester[p].flight \in FlightIds \ {f}
              /\ flight[requester[p].flight].does # "nothing"
        BY <1>6, <4>1 DEF Promised, Running
      <4> QED BY <2>5, <2>7, <3>2, <4>2 DEF Undisturbed
    <3> QED BY <3>1, <3>2
  <2>10. flight[f].does \notin {"persist", "confirm", "recheck"}
    BY <1>6 DEF Running
  <2>11. flight'[f].does \notin {"persist", "confirm", "recheck"}
    BY <2>4, <2>5
  <2> QED BY <1>1, <2>5, <2>7, <2>8, <2>9, <2>10, <2>11, FlightTurns
<1> QED BY <1>4, <1>5, <1>6, Zenon DEF Join

LEMMA ExecuteStep ==
  ASSUME Inv, NEW r \in Requesters, Execute(r)
  PROVE  Inv'
<1>1. UNCHANGED <<settings, memory, degraded, calls, reconciling, flight, issuedFor, changes>>
  BY DEF Execute, repositoryVars, issueVars
<1>2. CASE Go(r, "fetch")
  <2>1. PICK d : d = "fetch"
    OBVIOUS
  <2>2. d \in Deeds /\ d \in Free
    BY <2>1 DEF Deeds, Free
  <2>3. Go(r, d)
    BY <1>2, <2>1
  <2> QED BY <1>1, <2>2, <2>3, GoesOn
<1>3. CASE End(r)
  BY <1>1, <1>3, Ends
<1> QED BY <1>2, <1>3 DEF Execute

LEMMA AnsweredStep ==
  ASSUME Inv, NEW r \in Requesters, Answered(r)
  PROVE  Inv'
<1>1. UNCHANGED <<reconciling, flight, issuedFor, changes>>
  BY DEF Answered, issueVars
<1>2. CASE End(r) /\ UNCHANGED repositoryVars
  BY <1>1, <1>2, Ends DEF repositoryVars
<1>3. CASE Go(r, "reject") /\ Enqueue(Update("invalidate", requester[r].lease, r, 0))
  <2>1. PICK l : l = requester[r].lease
    OBVIOUS
  <2>2. l \in Leases
    BY <2>1 DEF Inv, Typed, RequestSet
  <2>3. Leased(settings, issuedFor, l)
    BY <2>1 DEF Inv, Isolated
  <2>4. Queues(Update("invalidate", l, r, 0)) /\ UNCHANGED <<settings, memory, degraded>>
    BY <1>3, <2>1 DEF Enqueue, Queues
  <2>5. PICK d \in {"invalidate", "reject"} : d = "reject"
    OBVIOUS
  <2>6. Go(r, d)
    BY <1>3, <2>5
  <2> QED BY <1>1, <2>2, <2>3, <2>4, <2>6, AsksInvalidation
<1> QED BY <1>2, <1>3 DEF Answered

LEMMA LesserStored ==
  ASSUME Inv, NEW t, Lesser(t, settings)
  PROVE  t \in Files /\ Follows(t, settings) /\ OwnTokenStored(t, issuedFor)
<1>1. settings \in Files /\ OwnTokenStored(settings, issuedFor)
  BY DEF Inv, Typed, Isolated
<1>2. t \in Files /\ Follows(t, settings) /\ (t.token # 0 => t = settings)
  BY <1>1, LesserFollows
<1> QED BY <1>1, <1>2 DEF OwnTokenStored

(* How the repository settles a call.                                        *)
Settles == \/ \E t : Lesser(t, settings) /\ Done(t)
           \/ Failed
           \/ calls' = Tail(calls) /\ UNCHANGED <<settings, memory, degraded>>

LEMMA Settled ==
  ASSUME Inv, Settles
  PROVE  /\ calls' = Tail(calls) /\ settings' \in Files /\ Follows(settings', settings)
         /\ OwnTokenStored(settings', issuedFor) /\ memory' \in {memory, settings, settings'}
         /\ degraded' \in BOOLEAN
<1>1. settings \in Files /\ OwnTokenStored(settings, issuedFor) /\ degraded \in BOOLEAN
  BY DEF Inv, Typed, Isolated
<1>2. Follows(settings, settings)
  BY <1>1, FollowsItself
<1>3. ASSUME NEW t, Lesser(t, settings), Done(t)
      PROVE  /\ calls' = Tail(calls) /\ settings' \in Files /\ Follows(settings', settings)
             /\ OwnTokenStored(settings', issuedFor) /\ memory' \in {memory, settings, settings'}
             /\ degraded' \in BOOLEAN
  BY <1>3, LesserStored DEF Done
<1>4. CASE Failed
  BY <1>1, <1>2, <1>4 DEF Failed
<1>5. CASE calls' = Tail(calls) /\ UNCHANGED <<settings, memory, degraded>>
  BY <1>1, <1>2, <1>5
<1> QED BY <1>3, <1>4, <1>5 DEF Settles

LEMMA FirstCall ==
  ASSUME Inv, calls # <<>>
  PROVE  /\ Head(calls) \in CallSet /\ Grounded(settings, issuedFor, Head(calls))
         /\ IF Head(calls).what \in {"persist", "refresh"}
            THEN /\ Head(calls).flight \in FlightIds
                 /\ Expects(flight[Head(calls).flight].does, Head(calls).what)
            ELSE Head(calls).flight = 0
<1>1. calls \in Seq(CallSet)
  BY DEF Inv, Typed
<1>2. Head(calls) = calls[1] /\ Head(calls) \in CallSet /\ 1 \in 1..Len(calls)
  BY <1>1, TailAt
<1> QED BY <1>2 DEF Inv, Isolated, Claimed

LEMMA ZeroIsNoFlight == 0 \notin FlightIds
BY NumbersAssumption DEF FlightIds

(* A call is settled that no flight waits for.                               *)
LEMMA PlainSettled ==
  ASSUME Inv, calls # <<>>, Settles, Head(calls).what \notin {"persist", "refresh"},
         reconciling' = (reconciling /\ Head(calls).what # "bootstrap"),
         requester' \in [Requesters -> RequestSet],
         \A r \in Requesters :
            /\ requester'[r] = requester[r] \/ requester'[r].does \in Free
            /\ requester'[r].lease \in {requester[r].lease, NoLease}
            /\ requester'[r].does \in {"reconcile", "reconcile again"} =>
                 Head(calls).what # "bootstrap"
            /\ requester'[r].does \in {"invalidate", "reject"} =>
                 ~(Head(calls).what = "invalidate" /\ Head(calls).by = r),
         UNCHANGED <<flight, issuedFor, changes>>
  PROVE  Inv'
<1>1. /\ calls' = Tail(calls) /\ settings' \in Files /\ Follows(settings', settings)
      /\ OwnTokenStored(settings', issuedFor) /\ memory' \in {memory, settings, settings'}
      /\ degraded' \in BOOLEAN
  BY Settled
<1>2. flight' \in [FlightIds -> FlightSet]
  BY DEF Inv, Typed
<1>3. \A r \in Requesters : \/ requester'[r].lease = requester[r].lease
                            \/ Leased(settings', issuedFor, requester'[r].lease)
  BY NoLeased
<1>4. \A f \in FlightIds : f # Head(calls).flight /\ flight'[f] = flight[f]
  BY FirstCall, ZeroIsNoFlight
<1>5. ASSUME NEW r \in Requesters PROVE Undisturbed(r)
  <2>1. CASE requester'[r].does \in Free
    BY <2>1 DEF Undisturbed
  <2>2. CASE requester'[r] = requester[r]
    <3>1. Promised(requester[r], r, flight, reconciling, calls)
      BY DEF Inv, Told
    <3>2. requester[r].does = "wait" => flight[requester[r].flight].does # "nothing"
      BY <3>1 DEF Promised
    <3> QED BY <2>2, <3>2 DEF Undisturbed
  <2> QED BY <2>1, <2>2
<1>6. \A f \in FlightIds :
        \/ f # Head(calls).flight /\ flight'[f].does = flight[f].does
        \/ f = Head(calls).flight
           /\ flight'[f].does \notin {"persist", "confirm", "recheck"}
  BY <1>4
<1>7. \A f \in FlightIds : \/ flight'[f] = flight[f]
                           \/ Flown(settings', issuedFor, flight'[f])
  BY <1>4
<1>8. \A r \in Requesters :
        /\ Undisturbed(r)
        /\ requester'[r].does \in {"reconcile", "reconcile again"} =>
             Head(calls).what # "bootstrap"
        /\ requester'[r].does \in {"invalidate", "reject"} =>
             ~(Head(calls).what = "invalidate" /\ Head(calls).by = r)
  BY <1>5
<1> QED BY <1>1, <1>2, <1>3, <1>6, <1>7, <1>8, TurnOfQueue

LEMMA CredentialsSettledStep ==
  ASSUME Inv, CredentialsSettled
  PROVE  Inv'
<1>1. /\ calls # <<>> /\ Head(calls).what \in {"save", "clear"}
      /\ UNCHANGED <<reconciling, requester, flight, issuedFor, changes>>
  BY DEF CredentialsSettled, First, issueVars
<1>2. settings \in Files /\ reconciling \in BOOLEAN /\ requester \in [Requesters -> RequestSet]
  BY DEF Inv, Typed
<1>3. Settles
  <2>1. CASE First("save") /\ Done(Saved(settings, Head(calls).lease.of))
    <3>1. Head(calls).lease.of \in Credentials
      BY <1>1, <2>1, FirstCall DEF First, Grounded
    <3>2. Lesser(Saved(settings, Head(calls).lease.of), settings)
      BY <1>2, <3>1, SavedLesser
    <3> QED BY <2>1, <3>2 DEF Settles
  <2>2. CASE First("clear") /\ Done(Cleared(settings))
    BY <1>2, <2>2, ClearedLesser DEF Settles
  <2>3. CASE Failed
    BY <2>3 DEF Settles
  <2>4. CASE calls' = Tail(calls) /\ UNCHANGED <<settings, memory, degraded>>
    BY <2>4 DEF Settles
  <2> QED BY <2>1, <2>2, <2>3, <2>4 DEF CredentialsSettled
<1>4. reconciling' = (reconciling /\ Head(calls).what # "bootstrap")
  BY <1>1, <1>2
<1>5. requester' \in [Requesters -> RequestSet] /\ Head(calls).what \notin {"persist", "refresh"}
  BY <1>1, <1>2
<1>6. \A r \in Requesters :
        /\ requester'[r] = requester[r] \/ requester'[r].does \in Free
        /\ requester'[r].lease \in {requester[r].lease, NoLease}
        /\ requester'[r].does \in {"reconcile", "reconcile again"} =>
             Head(calls).what # "bootstrap"
        /\ requester'[r].does \in {"invalidate", "reject"} =>
             ~(Head(calls).what = "invalidate" /\ Head(calls).by = r)
  BY <1>1
<1> QED BY <1>1, <1>3, <1>4, <1>5, <1>6, PlainSettled

LEMMA ReconciledStep ==
  ASSUME Inv, Reconciled
  PROVE  Inv'
<1>1. /\ calls # <<>> /\ Head(calls).what = "bootstrap"
      /\ UNCHANGED <<flight, issuedFor, changes>> /\ reconciling' = FALSE
  BY DEF Reconciled, First, issueVars
<1>2. settings \in Files /\ reconciling \in BOOLEAN /\ requester \in [Requesters -> RequestSet]
  BY DEF Inv, Typed
<1>3. Settles
  <2>1. Lesser(Bootstrapped(settings), settings)
    BY <1>2, BootstrappedLesser
  <2> QED BY <2>1 DEF Settles, Reconciled
<1>4. reconciling' = (reconciling /\ Head(calls).what # "bootstrap")
  BY <1>1
<1>5. ASSUME NEW r \in Requesters, r \in Reconcilers,
             requester'[r] = [requester[r] EXCEPT !.does = After(@)]
      PROVE  /\ requester'[r] \in RequestSet /\ requester'[r].does \in {"look", "join"}
             /\ requester'[r].lease = requester[r].lease
  <2>1. PICK d : d = After(requester[r].does)
    OBVIOUS
  <2>2. d \in {"look", "join"} /\ d \in Deeds
    BY <2>1 DEF After, Deeds
  <2>3. PICK w \in RequestSet : w = requester[r]
    BY <1>2
  <2>4. PICK x : x = [w EXCEPT !.does = d]
    OBVIOUS
  <2>5. x \in RequestSet /\ x.does = d /\ x.lease = w.lease
    BY <2>2, <2>3, <2>4, DoesType
  <2>6. requester'[r] = x
    BY <1>5, <2>1, <2>3, <2>4
  <2> QED BY <2>2, <2>3, <2>5, <2>6
<1>6. ASSUME NEW r \in Requesters
      PROVE  /\ requester'[r] \in RequestSet
             /\ \/ requester'[r] = requester[r] /\ r \notin Reconcilers
                \/ requester'[r].does \in {"look", "join", "nothing"}
             /\ requester'[r].lease \in {requester[r].lease, NoLease}
  <2>1. \/ requester'[r] = requester[r] /\ r \notin Reconcilers
        \/ requester'[r] = Idle
        \/ r \in Reconcilers /\ requester'[r] = [requester[r] EXCEPT !.does = After(@)]
    BY DEF Reconciled
  <2>2. CASE requester'[r] = requester[r] /\ r \notin Reconcilers
    BY <1>2, <2>2
  <2>3. CASE requester'[r] = Idle
    BY <2>3, IdleType
  <2>4. CASE r \in Reconcilers /\ requester'[r] = [requester[r] EXCEPT !.does = After(@)]
    BY <1>5, <2>4
  <2> QED BY <2>1, <2>2, <2>3, <2>4
<1>7. requester' \in [Requesters -> RequestSet]
  <2>1. requester' = [r \in Requesters |-> requester'[r]]
    BY DEF Reconciled
  <2> QED BY <1>6, <2>1
<1>8. ASSUME NEW r \in Requesters
      PROVE  /\ requester'[r] = requester[r] \/ requester'[r].does \in Free
             /\ requester'[r].lease \in {requester[r].lease, NoLease}
             /\ requester'[r].does \in {"reconcile", "reconcile again"} =>
                  Head(calls).what # "bootstrap"
             /\ requester'[r].does \in {"invalidate", "reject"} =>
                  ~(Head(calls).what = "invalidate" /\ Head(calls).by = r)
  BY <1>1, <1>6 DEF Free, Reconcilers
<1>9. Head(calls).what \notin {"persist", "refresh"}
  BY <1>1
<1> QED BY <1>1, <1>3, <1>4, <1>7, <1>8, <1>9, PlainSettled

LEMMA InvalidationSettledStep ==
  ASSUME Inv, InvalidationSettled
  PROVE  Inv'
<1>1. /\ calls # <<>> /\ Head(calls).what = "invalidate"
      /\ UNCHANGED <<reconciling, flight, issuedFor, changes>>
  BY DEF InvalidationSettled, First, issueVars
<1>2. settings \in Files /\ reconciling \in BOOLEAN /\ requester \in [Requesters -> RequestSet]
  BY DEF Inv, Typed
<1>3. PICK r \in Requesters : r = Head(calls).by
  BY <1>1, FirstCall DEF Grounded
<1>4. Settles
  <2>1. Lesser(Invalidated(settings, Head(calls).lease), settings)
    BY <1>2, InvalidatedLesser
  <2> QED BY <2>1 DEF Settles, InvalidationSettled
<1>5. PICK w \in RequestSet : w = requester[r]
  BY <1>2
<1>6. PICK x : x = [w EXCEPT !.does = "initialize again"]
  OBVIOUS
<1>7. "initialize again" \in Deeds
  BY DEF Deeds
<1>8. x \in RequestSet /\ x.does = "initialize again" /\ x.lease = w.lease
  BY <1>5, <1>6, <1>7, DoesType
<1>9. requester' = [requester EXCEPT ![r] = x] \/ requester' = [requester EXCEPT ![r] = Idle]
  BY <1>3, <1>5, <1>6 DEF InvalidationSettled, Go, End
<1>10. PICK y \in RequestSet : /\ requester' = [requester EXCEPT ![r] = y]
                               /\ y.does \in Free /\ y.lease \in {requester[r].lease, NoLease}
  BY <1>5, <1>8, <1>9, IdleType DEF Free
<1>11. /\ requester' \in [Requesters -> RequestSet] /\ requester'[r] = y
       /\ \A p \in Requesters \ {r} : requester'[p] = requester[p]
  BY <1>2, <1>10, RequesterPut
<1>12. ASSUME NEW p \in Requesters
       PROVE  /\ requester'[p] = requester[p] \/ requester'[p].does \in Free
              /\ requester'[p].lease \in {requester[p].lease, NoLease}
              /\ requester'[p].does \in {"reconcile", "reconcile again"} =>
                   Head(calls).what # "bootstrap"
              /\ requester'[p].does \in {"invalidate", "reject"} =>
                   ~(Head(calls).what = "invalidate" /\ Head(calls).by = p)
  <2>1. CASE p = r
    BY <1>1, <1>10, <1>11, <2>1 DEF Free
  <2>2. CASE p # r
    BY <1>1, <1>3, <1>11, <2>2
  <2> QED BY <2>1, <2>2
<1>13. reconciling' = (reconciling /\ Head(calls).what # "bootstrap")
  BY <1>1, <1>2
<1>14. Head(calls).what \notin {"persist", "refresh"}
  BY <1>1
<1> QED BY <1>1, <1>4, <1>11, <1>12, <1>13, <1>14, PlainSettled

LEMMA DutyType ==
  ASSUME NEW fl \in FlightSet, NEW d \in Duties
  PROVE  /\ [fl EXCEPT !.does = d] \in FlightSet /\ [fl EXCEPT !.does = d].does = d
         /\ [fl EXCEPT !.does = d].kind = fl.kind /\ [fl EXCEPT !.does = d].of = fl.of
         /\ [fl EXCEPT !.does = d].generation = fl.generation
BY DEF FlightSet

LEMMA TokenOfType ==
  ASSUME NEW fl \in FlightSet, NEW n \in 0..MaxTokens
  PROVE  /\ [fl EXCEPT !.token = n] \in FlightSet /\ [fl EXCEPT !.token = n].token = n
         /\ [fl EXCEPT !.token = n].kind = fl.kind /\ [fl EXCEPT !.token = n].of = fl.of
         /\ [fl EXCEPT !.token = n].generation = fl.generation
         /\ [fl EXCEPT !.token = n].does = fl.does
BY DEF FlightSet

LEMMA AttemptType ==
  ASSUME NEW fl \in FlightSet
  PROVE  /\ [fl EXCEPT !.attempt = 1] \in FlightSet
         /\ [fl EXCEPT !.attempt = 1].kind = fl.kind /\ [fl EXCEPT !.attempt = 1].of = fl.of
         /\ [fl EXCEPT !.attempt = 1].generation = fl.generation
         /\ [fl EXCEPT !.attempt = 1].does = fl.does
BY DEF FlightSet

(* A flight goes on, to something else than storing a token. *)
LEMMA GoesOnFlown ==
  ASSUME NEW s, NEW iss, NEW fl, NEW y, Flown(s, iss, fl), fl.does # "nothing",
         y.of = fl.of, y.generation = fl.generation, y.does # "persist"
  PROVE  Flown(s, iss, y)
BY DEF Flown

LEMMA FlightDoesFacts ==
  ASSUME Inv, NEW f \in FlightIds, NEW d \in Duties, d # "persist",
         flight[f].does # "nothing", flight' = [flight EXCEPT ![f].does = d]
  PROVE  /\ flight' \in [FlightIds -> FlightSet] /\ flight'[f].does = d
         /\ flight'[f].kind = flight[f].kind
         /\ \A g \in FlightIds \ {f} : flight'[g] = flight[g]
         /\ Flown(settings, issuedFor, flight'[f])
<1>1. PICK w \in FlightSet : w = flight[f]
  BY DEF Inv, Typed
<1>2. PICK y : y = [w EXCEPT !.does = d]
  OBVIOUS
<1>3. /\ y \in FlightSet /\ y.does = d /\ y.kind = w.kind /\ y.of = w.of
      /\ y.generation = w.generation
  BY <1>2, DutyType
<1>4. flight' = [flight EXCEPT ![f] = y]
  BY <1>1, <1>2
<1>5. /\ flight' \in [FlightIds -> FlightSet] /\ flight'[f] = y
      /\ \A g \in FlightIds \ {f} : flight'[g] = flight[g]
  BY <1>3, <1>4, FlightPut DEF Inv, Typed
<1>6. Flown(settings, issuedFor, w) /\ w.does # "nothing"
  BY <1>1 DEF Inv, Isolated
<1>7. Flown(settings, issuedFor, y)
  BY <1>3, <1>6, GoesOnFlown
<1> QED BY <1>1, <1>3, <1>5, <1>7

(* Those who wait for a flight that goes on, and all others, are undisturbed. *)
LEMMA WaitsOn ==
  ASSUME Inv, NEW f \in FlightIds, requester' = requester,
         flight'[f].does # "nothing", flight'[f].kind = flight[f].kind,
         \A g \in FlightIds \ {f} : flight'[g] = flight[g]
  PROVE  \A r \in Requesters : Undisturbed(r)
<1> SUFFICES ASSUME NEW r \in Requesters PROVE Undisturbed(r)
  OBVIOUS
<1>1. Promised(requester[r], r, flight, reconciling, calls)
  BY DEF Inv, Told
<1>2. requester[r].does = "wait" =>
        requester[r].flight \in FlightIds /\ flight[requester[r].flight].does # "nothing"
  BY <1>1 DEF Promised
<1>3. requester[r].does = "wait" =>
        /\ flight'[requester[r].flight].does # "nothing"
        /\ flight'[requester[r].flight].kind = flight[requester[r].flight].kind
  BY <1>2
<1> QED BY <1>3 DEF Undisturbed

LEMMA WakesStep ==
  ASSUME Inv, NEW f \in FlightIds, NEW d \in {"recheck", "confirm"},
         flight[f].does \in {"post", "sleep"}, FlightDoes(f, d),
         Enqueue(Update("refresh", NoLease, No, f)),
         UNCHANGED <<reconciling, issuedFor, changes>>
  PROVE  Inv'
<1>1. PICK c : c = Update("refresh", NoLease, No, f)
  OBVIOUS
<1>2. "refresh" \in Whats /\ No \in Requesters \cup {No} /\ f \in 0..MaxFlights
  BY NumbersAssumption DEF Whats, FlightIds
<1>3. c \in CallSet /\ c.what = "refresh" /\ c.flight = f
  BY <1>1, <1>2, NothingLent, UpdateType
<1>4. Queues(c) /\ UNCHANGED <<settings, memory, degraded>>
  BY <1>1 DEF Enqueue, Queues
<1>5. d \in Duties /\ d # "persist"
  BY DEF Duties
<1>6. /\ flight' \in [FlightIds -> FlightSet] /\ flight'[f].does = d
      /\ flight'[f].kind = flight[f].kind
      /\ \A g \in FlightIds \ {f} : flight'[g] = flight[g]
      /\ Flown(settings, issuedFor, flight'[f])
  BY <1>5, FlightDoesFacts DEF FlightDoes
<1>7. requester' = requester
  BY DEF FlightDoes
<1>8. Expects(flight'[f].does, c.what)
  BY <1>3, <1>6 DEF Expects
<1>9. /\ issuedFor' \in Seq(Credentials) /\ Len(issuedFor') <= MaxTokens
      /\ Longer(issuedFor', issuedFor)
  BY SameIsLonger DEF Inv, Typed
<1> QED BY <1>3, <1>4, <1>6, <1>7, <1>8, <1>9, FlightCalls

LEMMA TokenGranted ==
  ASSUME Inv, NEW f \in FlightIds, flight[f].does = "post", Len(issuedFor) < MaxTokens,
         issuedFor' = Append(issuedFor, flight[f].of),
         flight' = [flight EXCEPT ![f].does = "persist", ![f].token = Len(issuedFor) + 1],
         Enqueue(Update("persist", NoLease, No, f)),
         UNCHANGED <<requester, reconciling, changes>>
  PROVE  Inv'
<1>1. PICK c : c = Update("persist", NoLease, No, f)
  OBVIOUS
<1>2. "persist" \in Whats /\ No \in Requesters \cup {No} /\ f \in 0..MaxFlights
  BY NumbersAssumption DEF Whats, FlightIds
<1>3. c \in CallSet /\ c.what = "persist" /\ c.flight = f
  <2>1. c = [what |-> "persist", lease |-> NoLease, by |-> No, flight |-> f]
    BY <1>1 DEF Update
  <2> QED BY <1>2, <2>1, NothingLent DEF CallSet
<1>4. Queues(c) /\ UNCHANGED <<settings, memory, degraded>>
  BY <1>1 DEF Enqueue, Queues
<1>5. PICK w \in FlightSet : w = flight[f]
  BY DEF Inv, Typed
<1>6. /\ issuedFor \in Seq(Credentials) /\ Len(issuedFor) \in Nat /\ MaxTokens \in Nat
      /\ settings \in Files
  BY NumbersAssumption DEF Inv, Typed
<1>7. PICK n \in 0..MaxTokens : n = Len(issuedFor) + 1
  BY <1>6
<1>8. PICK v : v = [w EXCEPT !.does = "persist"]
  OBVIOUS
<1>9. "persist" \in Duties
  BY DEF Duties
<1>10. /\ v \in FlightSet /\ v.does = "persist" /\ v.kind = w.kind /\ v.of = w.of
       /\ v.generation = w.generation
  BY <1>8, <1>9, DutyType
<1>11. PICK y : y = [v EXCEPT !.token = n]
  OBVIOUS
<1>12. /\ y \in FlightSet /\ y.does = "persist" /\ y.kind = w.kind /\ y.of = w.of
       /\ y.generation = w.generation /\ y.token = n
  BY <1>10, <1>11, TokenOfType
<1>13. [w EXCEPT !.does = "persist", !.token = n] = [[w EXCEPT !.does = "persist"] EXCEPT !.token = n]
  OBVIOUS
<1>14. flight' = [flight EXCEPT ![f] = [w EXCEPT !.does = "persist", !.token = n]]
  BY <1>5, <1>7
<1>15. flight' = [flight EXCEPT ![f] = y]
  BY <1>8, <1>11, <1>13, <1>14
<1>16. /\ flight' \in [FlightIds -> FlightSet] /\ flight'[f] = y
       /\ \A g \in FlightIds \ {f} : flight'[g] = flight[g]
  BY <1>12, <1>15, FlightPut DEF Inv, Typed
<1>17. Flown(settings, issuedFor, w)
  BY <1>5 DEF Inv, Isolated
<1>18. Dated(settings, w.of, w.generation) /\ w.of \in Credentials
  BY <1>5, <1>17 DEF Flown
<1>19. PICK of \in Credentials : of = w.of
  BY <1>18
<1>20. issuedFor' = Append(issuedFor, of)
  BY <1>5, <1>19
<1>21. /\ issuedFor' \in Seq(Credentials) /\ Len(issuedFor') = n /\ issuedFor'[n] = of
       /\ \A i \in 1..Len(issuedFor) : issuedFor'[i] = issuedFor[i]
  BY <1>6, <1>7, <1>20
<1>22. Len(issuedFor') <= MaxTokens /\ Longer(issuedFor', issuedFor)
  BY <1>6, <1>7, <1>21 DEF Longer
<1>23. n \in 1..Len(issuedFor')
  BY <1>6, <1>7, <1>21
<1>24. Flown(settings, issuedFor', flight'[f])
  BY <1>12, <1>16, <1>18, <1>19, <1>21, <1>23 DEF Flown, Issued
<1>25. Expects(flight'[f].does, c.what)
  BY <1>3, <1>12, <1>16 DEF Expects
<1> QED
  BY <1>3, <1>4, <1>5, <1>12, <1>16, <1>21, <1>22, <1>24, <1>25, FlightCalls, ZenonT(40)

LEMMA IssueStep ==
  ASSUME Inv, NEW f \in FlightIds, Issue(f)
  PROVE  Inv'
<1>1. CASE PostGranted(f)
  <2>1. CASE flight[f].kind = "token"
    BY <1>1, <2>1, TokenGranted DEF PostGranted
  <2>2. CASE flight[f].kind # "token"
    <3>1. PICK d \in {"recheck", "confirm"} : d = "confirm"
      OBVIOUS
    <3>2. FlightDoes(f, d) /\ flight[f].does \in {"post", "sleep"}
      BY <1>1, <2>2, <3>1 DEF PostGranted
    <3>3. /\ Enqueue(Update("refresh", NoLease, No, f))
          /\ UNCHANGED <<reconciling, issuedFor, changes>>
      BY <1>1, <2>2 DEF PostGranted
    <3> QED BY <3>2, <3>3, WakesStep
  <2> QED BY <2>1, <2>2
<1>2. CASE PostLimited(f)
  <2>1. UNCHANGED <<settings, memory, degraded, calls, reconciling, issuedFor, changes>>
    BY <1>2 DEF PostLimited, repositoryVars
  <2>2. flight[f].does = "post"
    BY <1>2 DEF PostLimited
  <2>3. CASE Land(f, NoLease)
    BY <2>1, <2>2, <2>3, LandStep
  <2>4. CASE /\ flight' = [flight EXCEPT ![f].does = "sleep", ![f].attempt = 1]
             /\ UNCHANGED requester
    <3>1. PICK w \in FlightSet : w = flight[f]
      BY DEF Inv, Typed
    <3>2. PICK v : v = [w EXCEPT !.does = "sleep"]
      OBVIOUS
    <3>3. "sleep" \in Duties
      BY DEF Duties
    <3>4. /\ v \in FlightSet /\ v.does = "sleep" /\ v.kind = w.kind /\ v.of = w.of
          /\ v.generation = w.generation
      BY <3>2, <3>3, DutyType
    <3>5. PICK y : y = [v EXCEPT !.attempt = 1]
      OBVIOUS
    <3>6. /\ y \in FlightSet /\ y.does = "sleep" /\ y.kind = w.kind /\ y.of = w.of
          /\ y.generation = w.generation
      BY <3>4, <3>5, AttemptType
    <3>7. [w EXCEPT !.does = "sleep", !.attempt = 1] = [[w EXCEPT !.does = "sleep"] EXCEPT !.attempt = 1]
      OBVIOUS
    <3>8. flight' = [flight EXCEPT ![f] = [w EXCEPT !.does = "sleep", !.attempt = 1]]
      BY <2>4, <3>1
    <3>9. flight' = [flight EXCEPT ![f] = y]
      BY <3>2, <3>5, <3>7, <3>8
    <3>10. /\ flight' \in [FlightIds -> FlightSet] /\ flight'[f] = y
           /\ \A g \in FlightIds \ {f} : flight'[g] = flight[g]
      BY <3>6, <3>9, FlightPut DEF Inv, Typed
    <3>11. Flown(settings, issuedFor, w)
      BY <3>1 DEF Inv, Isolated
    <3>12. Flown(settings, issuedFor, flight'[f])
      BY <2>2, <3>1, <3>6, <3>10, <3>11, GoesOnFlown
    <3>13. flight'[f].does # "nothing" /\ flight'[f].kind = flight[f].kind
      BY <3>1, <3>6, <3>10
    <3>14. requester' = requester
      BY <2>4
    <3>15. \A r \in Requesters : Undisturbed(r)
      BY <3>10, <3>13, <3>14, WaitsOn
    <3>16. requester' \in [Requesters -> RequestSet]
      BY <2>4 DEF Inv, Typed
    <3>17. flight'[f].does \notin {"persist", "confirm", "recheck"}
      BY <3>6, <3>10
    <3>18. flight[f].does \notin {"persist", "confirm", "recheck"}
      BY <2>2
    <3> QED
      BY <2>1, <2>4, <3>10, <3>12, <3>15, <3>16, <3>17, <3>18, FlightTurns
  <2> QED BY <1>2, <2>3, <2>4 DEF PostLimited
<1>3. CASE PostFails(f)
  BY <1>3, LandStep DEF PostFails, repositoryVars
<1>4. CASE Wakes(f)
  <2>1. PICK d \in {"recheck", "confirm"} : d = "recheck"
    OBVIOUS
  <2>2. FlightDoes(f, d) /\ flight[f].does \in {"post", "sleep"}
    BY <1>4, <2>1 DEF Wakes
  <2>3. /\ Enqueue(Update("refresh", NoLease, No, f))
        /\ UNCHANGED <<reconciling, issuedFor, changes>>
    BY <1>4 DEF Wakes
  <2> QED BY <2>2, <2>3, WakesStep
<1> QED BY <1>1, <1>2, <1>3, <1>4 DEF Issue

(* A flight's call is settled, and the flight lands.                         *)
LEMMA LandsWithCall ==
  ASSUME Inv, calls # <<>>, Head(calls).what \in {"persist", "refresh"},
         NEW f \in FlightIds, f = Head(calls).flight,
         calls' = Tail(calls), settings' \in Files, Follows(settings', settings),
         OwnTokenStored(settings', issuedFor), memory' \in {memory, settings, settings'},
         degraded' \in BOOLEAN, NEW l \in Leases, Leased(settings', issuedFor, l), Land(f, l),
         UNCHANGED <<reconciling, issuedFor, changes>>
  PROVE  Inv'
<1>1. /\ flight' \in [FlightIds -> FlightSet] /\ flight'[f] = NoFlight
      /\ \A g \in FlightIds \ {f} : flight'[g] = flight[g]
      /\ requester' \in [Requesters -> RequestSet]
      /\ \A r \in Requesters : Undisturbed(r)
      /\ \A r \in Requesters : requester'[r].lease \in {requester[r].lease, NoLease, l}
  BY LandFacts
<1>2. \A r \in Requesters : \/ requester'[r].lease = requester[r].lease
                            \/ Leased(settings', issuedFor, requester'[r].lease)
  BY <1>1, NoLeased
<1>3. \A g \in FlightIds : \/ flight'[g] = flight[g]
                           \/ Flown(settings', issuedFor, flight'[g])
  BY <1>1, NoFlightType
<1>4. \A g \in FlightIds :
        \/ g # Head(calls).flight /\ flight'[g].does = flight[g].does
        \/ g = Head(calls).flight
           /\ flight'[g].does \notin {"persist", "confirm", "recheck"}
  BY <1>1, NoFlightType
<1>5. reconciling' = (reconciling /\ Head(calls).what # "bootstrap")
  <2>1. Head(calls).what # "bootstrap" /\ reconciling \in BOOLEAN
    BY DEF Inv, Typed
  <2> QED BY <2>1
<1>6. \A r \in Requesters :
        /\ Undisturbed(r)
        /\ requester'[r].does \in {"reconcile", "reconcile again"} =>
             Head(calls).what # "bootstrap"
        /\ requester'[r].does \in {"invalidate", "reject"} =>
             ~(Head(calls).what = "invalidate" /\ Head(calls).by = r)
  BY <1>1
<1> QED BY <1>1, <1>2, <1>3, <1>4, <1>5, <1>6, TurnOfQueue

LEMMA RefreshedStep ==
  ASSUME Inv, Refreshed
  PROVE  Inv'
<1>1. /\ calls # <<>> /\ Head(calls).what = "refresh"
      /\ UNCHANGED <<reconciling, issuedFor, changes>>
  BY DEF Refreshed, First
<1>2. PICK f \in FlightIds : f = Head(calls).flight /\ flight[f].does \in {"confirm", "recheck"}
  BY <1>1, FirstCall DEF Expects
<1>3. settings \in Files /\ reconciling \in BOOLEAN
  BY DEF Inv, Typed
<1>4. Settles
  <2>1. Lesser(settings, settings)
    BY <1>3, LesserOnes
  <2> QED BY <2>1 DEF Settles, Refreshed
<1>5. /\ calls' = Tail(calls) /\ settings' \in Files /\ Follows(settings', settings)
      /\ OwnTokenStored(settings', issuedFor) /\ memory' \in {memory, settings, settings'}
      /\ degraded' \in BOOLEAN
  BY <1>4, Settled
<1>6. CASE Land(f, NoLease)
  <2>1. Leased(settings', issuedFor, NoLease)
    BY NoLeased
  <2> QED BY <1>1, <1>2, <1>5, <1>6, <2>1, NothingLent, LandsWithCall
<1>7. CASE FlightDoes(f, "post") /\ Done(settings)
  <2>1. PICK d : d = "post"
    OBVIOUS
  <2>2. d \in Duties /\ d # "persist"
    BY <2>1 DEF Duties
  <2>3. /\ flight' \in [FlightIds -> FlightSet] /\ flight'[f].does = d
        /\ flight'[f].kind = flight[f].kind
        /\ \A g \in FlightIds \ {f} : flight'[g] = flight[g]
        /\ Flown(settings, issuedFor, flight'[f])
    <3>1. flight' = [flight EXCEPT ![f].does = d] /\ flight[f].does # "nothing"
      BY <1>2, <1>7, <2>1 DEF FlightDoes
    <3> QED BY <2>2, <3>1, FlightDoesFacts
  <2>4. requester' = requester /\ settings' = settings
    BY <1>7 DEF FlightDoes, Done
  <2>5. flight'[f].does # "nothing"
    BY <2>1, <2>3
  <2>6. \A r \in Requesters : Undisturbed(r)
    BY <2>3, <2>4, <2>5, WaitsOn
  <2>7. requester' \in [Requesters -> RequestSet]
    BY <2>4 DEF Inv, Typed
  <2>8. \A r \in Requesters : requester'[r].lease = requester[r].lease
    BY <2>4
  <2>9. \A g \in FlightIds : \/ flight'[g] = flight[g]
                             \/ Flown(settings', issuedFor, flight'[g])
    BY <2>3, <2>4
  <2>10. \A g \in FlightIds :
           \/ g # Head(calls).flight /\ flight'[g].does = flight[g].does
           \/ g = Head(calls).flight
              /\ flight'[g].does \notin {"persist", "confirm", "recheck"}
    BY <1>2, <2>1, <2>3
  <2>11. reconciling' = (reconciling /\ Head(calls).what # "bootstrap")
    BY <1>1, <1>3
  <2>12. \A r \in Requesters :
           /\ Undisturbed(r)
           /\ requester'[r].does \in {"reconcile", "reconcile again"} =>
                Head(calls).what # "bootstrap"
           /\ requester'[r].does \in {"invalidate", "reject"} =>
                ~(Head(calls).what = "invalidate" /\ Head(calls).by = r)
    BY <1>1, <2>6
  <2> QED
    BY <1>1, <1>5, <2>3, <2>7, <2>8, <2>9, <2>10, <2>11, <2>12, TurnOfQueue
<1> QED BY <1>2, <1>6, <1>7 DEF Refreshed

LEMMA PersistedStep ==
  ASSUME Inv, Persisted
  PROVE  Inv'
<1>1. /\ calls # <<>> /\ Head(calls).what = "persist"
      /\ UNCHANGED <<reconciling, issuedFor, changes>>
  BY DEF Persisted, First
<1>2. PICK f \in FlightIds : f = Head(calls).flight /\ flight[f].does = "persist"
  BY <1>1, FirstCall DEF Expects
<1>3. PICK fl \in FlightSet : fl = flight[f]
  BY DEF Inv, Typed
<1>4. /\ settings \in Files
      /\ Dated(settings, fl.of, fl.generation) /\ Issued(issuedFor, fl.token, fl.of)
      /\ fl.of \in Some /\ fl.token \in 0..MaxTokens /\ fl.generation \in Nat
      /\ fl.of \in Credentials
  <2>1. Flown(settings, issuedFor, fl) /\ settings \in Files
    BY <1>3 DEF Inv, Typed, Isolated
  <2>2. fl.of \in Some /\ fl.token \in 0..MaxTokens /\ fl.generation \in Nat
    BY DEF FlightSet
  <2> QED BY <1>2, <1>3, <2>1, <2>2 DEF Flown
<1>5. ASSUME Settles, Land(f, NoLease)
      PROVE  Inv'
  <2>1. /\ calls' = Tail(calls) /\ settings' \in Files /\ Follows(settings', settings)
        /\ OwnTokenStored(settings', issuedFor) /\ memory' \in {memory, settings, settings'}
        /\ degraded' \in BOOLEAN
    BY <1>5, Settled
  <2>2. Leased(settings', issuedFor, NoLease)
    BY NoLeased
  <2> QED BY <1>1, <1>2, <1>5, <2>1, <2>2, NothingLent, LandsWithCall
<1>6. CASE Failed /\ Land(f, NoLease)
  BY <1>5, <1>6 DEF Settles
<1>7. CASE Done(settings) /\ Land(f, NoLease)
  <2>1. Lesser(settings, settings)
    BY <1>4, LesserOnes
  <2> QED BY <1>5, <1>7, <2>1 DEF Settles
<1>8. CASE /\ Done(WithToken(settings, fl))
           /\ Land(f, [token |-> fl.token, of |-> fl.of, generation |-> fl.generation,
                       version |-> settings.version + 1])
  <2>1. PICK t : t = WithToken(settings, fl)
    OBVIOUS
  <2>2. /\ t \in Files /\ Follows(t, settings) /\ t.token = fl.token
        /\ t.tokenFingerprint = fl.of /\ t.version = settings.version + 1
    BY <1>4, <2>1, WithTokenFollows
  <2>3. PICK n : n = settings.version + 1
    OBVIOUS
  <2>4. n \in Nat /\ n = t.version
    BY <1>4, <2>2, <2>3, FileFields
  <2>5. PICK l : l = [token |-> fl.token, of |-> fl.of, generation |-> fl.generation,
                      version |-> n]
    OBVIOUS
  <2>6. /\ l \in Leases /\ l.token = fl.token /\ l.of = fl.of /\ l.version = n
        /\ l.generation = fl.generation
    BY <1>4, <2>4, <2>5 DEF Leases
  <2>7. Dated(t, l.of, l.generation)
    BY <1>4, <2>2, <2>6, DatedKept
  <2>8. Versioned(t, l.token, l.version)
    BY <2>2, <2>4, <2>6 DEF Versioned
  <2>9. Leased(t, issuedFor, l)
    BY <1>4, <2>6, <2>7, <2>8 DEF Leased
  <2>10. OwnTokenStored(t, issuedFor)
    BY <1>4, <2>2 DEF OwnTokenStored
  <2>11. settings' = t /\ memory' = t /\ degraded' = FALSE /\ calls' = Tail(calls)
    BY <1>8, <2>1 DEF Done
  <2>12. Land(f, l)
    BY <1>8, <2>3, <2>5
  <2> QED BY <1>1, <1>2, <2>2, <2>6, <2>9, <2>10, <2>11, <2>12, LandsWithCall
<1> QED BY <1>2, <1>3, <1>6, <1>7, <1>8 DEF Persisted

-----------------------------------------------------------------------------
(* The invariant.                                                            *)

LEMMA InvInit == Init => Inv
<1> SUFFICES ASSUME Init PROVE Inv
  OBVIOUS
<1>1. PICK s \in [key : Some, fingerprint : Some, generation : {0}, token : {0, 1},
                  tokenFingerprint : Some, version : {0}] :
        s = settings /\ (s.token = 0 <=> s.tokenFingerprint = No)
  BY DEF Init
<1>2. /\ s.key \in Some /\ s.fingerprint \in Some /\ s.generation = 0 /\ s.token \in {0, 1}
      /\ s.tokenFingerprint \in Some /\ s.version = 0
  OBVIOUS
<1>3. s.token \in 0..MaxTokens /\ 0 \in 0..MaxTokens
  BY <1>2, NumbersAssumption
<1>4. settings \in Files
  BY <1>1, <1>2, <1>3 DEF Files
<1>5. Empty \in Files /\ Empty.key = No
  BY <1>3, NoIsSome DEF Empty, Files
<1>6. /\ issuedFor \in Seq(Credentials) /\ Len(issuedFor) <= MaxTokens
      /\ OwnTokenStored(settings, issuedFor)
  <2>1. CASE s.token = 0
    <3>1. issuedFor = <<>>
      BY <1>1, <2>1 DEF Init
    <3> QED BY <1>1, <2>1, <3>1, NumbersAssumption DEF OwnTokenStored
  <2>2. CASE s.token # 0
    <3>1. issuedFor = <<s.tokenFingerprint>> /\ s.token = 1
      BY <1>1, <1>2, <2>2 DEF Init
    <3>2. PICK c \in Credentials : c = s.tokenFingerprint
      BY <1>1, <1>2, <2>2 DEF Some
    <3>3. issuedFor = <<c>>
      BY <3>1, <3>2
    <3>4. issuedFor \in Seq(Credentials) /\ Len(issuedFor) = 1 /\ issuedFor[1] = c
      BY <3>3
    <3>5. Len(issuedFor) <= MaxTokens
      BY <3>4, NumbersAssumption
    <3>6. Issued(issuedFor, settings.token, settings.tokenFingerprint)
      BY <1>1, <3>1, <3>2, <3>4 DEF Issued
    <3> QED BY <3>4, <3>5, <3>6 DEF OwnTokenStored
  <2> QED BY <2>1, <2>2
<1>7. memory \in Files /\ Copied(settings, issuedFor, memory)
  <2>1. CASE memory = settings
    BY <1>4, <1>6, <2>1, CopyOfStored
  <2>2. CASE memory = Empty
    BY <1>5, <2>2 DEF Copied
  <2> QED BY <2>1, <2>2 DEF Init
<1>8. /\ calls = <<>> /\ calls \in Seq(CallSet) /\ Len(calls) = 0 /\ reconciling = FALSE
      /\ degraded \in BOOLEAN
  BY DEF Init
<1>9. /\ requester \in [Requesters -> RequestSet]
      /\ \A r \in Requesters : requester[r] = Idle
  BY IdleType DEF Init
<1>10. /\ flight \in [FlightIds -> FlightSet]
       /\ \A f \in FlightIds : flight[f] = NoFlight
  BY NoFlightType DEF Init
<1>11. changes \in 0..MaxChanges
  BY NumbersAssumption DEF Init
<1>12. Typed
  BY <1>4, <1>6, <1>7, <1>8, <1>9, <1>10, <1>11 DEF Typed
<1>13. 1..Len(calls) = {}
  BY <1>8
<1>14. Isolated(settings, memory, issuedFor, requester, flight, calls)
  BY <1>6, <1>7, <1>9, <1>10, <1>13, IdleType, NoLeased, NoFlightType DEF Isolated
<1>15. Claimed(flight, calls)
  BY <1>10, <1>13, NoFlightType DEF Claimed
<1>16. OneRepair(reconciling, calls)
  BY <1>8, <1>13 DEF OneRepair
<1>17. Told(requester, flight, reconciling, calls)
  <2>1. Idle.does \in Free
    BY IdleType DEF Free
  <2>2. \A r \in Requesters : Promised(Idle, r, flight, reconciling, calls)
    BY <2>1, FreePromised
  <2> QED BY <1>9, <2>2 DEF Told
<1> QED BY <1>12, <1>14, <1>15, <1>16, <1>17 DEF Inv

LEMMA InvStep == Inv /\ [Next]_vars => Inv'
<1> SUFFICES ASSUME Inv, [Next]_vars PROVE Inv'
  OBVIOUS
<1>1. CASE (\E c \in Credentials : SaveCredentials(c)) \/ ClearCredentials
  BY <1>1, CallActions
<1>2. ASSUME NEW r \in Requesters, NEW kind \in Kinds, Ask(r, kind) PROVE Inv'
  BY <1>2, AskStep
<1>3. ASSUME NEW r \in Requesters, Proceed(r) PROVE Inv'
  BY <1>3, ReconcileStep, LookUpStep, JoinStep, ExecuteStep, AnsweredStep DEF Proceed
<1>4. CASE Settle
  BY <1>4, CredentialsSettledStep, ReconciledStep, InvalidationSettledStep, RefreshedStep,
     PersistedStep DEF Settle
<1>5. ASSUME NEW f \in FlightIds, Issue(f) PROVE Inv'
  BY <1>5, IssueStep
<1>6. CASE UNCHANGED vars
  BY <1>6 DEF vars, Inv, Typed
<1> QED BY <1>1, <1>2, <1>3, <1>4, <1>5, <1>6 DEF Next

(* In every reachable state: types, whose each token and lease is, one call  *)
(* for each flight that waits for the settings, and nobody who waits for     *)
(* nothing.                                                                  *)
THEOREM Invariance == Spec => []Inv
<1> QED BY InvInit, InvStep, PTL DEF Spec

(* Nothing crosses over from one pair of credentials to another, for any     *)
(* credentials and however late and in whatever order answers come.          *)
THEOREM NothingCrossesOver == Spec => []CredentialsIsolated
<1>1. Inv => CredentialsIsolated
  <2> SUFFICES ASSUME Inv PROVE CredentialsIsolated
    OBVIOUS
  <2>1. ASSUME settings.token # 0, ~BootstrapNeeded(settings)
        PROVE  issuedFor[settings.token] = settings.key
    <3>1. issuedFor[settings.token] = settings.tokenFingerprint
      BY <2>1 DEF Inv, Isolated, OwnTokenStored, Issued
    <3>2. CASE settings.key = No
      <4>1. PICK e : e = [Empty EXCEPT !.generation = settings.generation,
                                       !.version = settings.version]
        OBVIOUS
      <4>2. e.token = 0
        BY <4>1 DEF Empty
      <4>3. settings = e
        BY <2>1, <3>2, <4>1 DEF BootstrapNeeded, HasArtifacts
      <4> QED BY <2>1, <4>2, <4>3
    <3>3. CASE settings.key # No
      <4>1. settings.tokenFingerprint = settings.key
        BY <2>1, <3>3 DEF BootstrapNeeded, HasInvalidToken
      <4> QED BY <3>1, <4>1
    <3> QED BY <3>2, <3>3
  <2>2. ASSUME NEW r \in Requesters, requester[r].lease # NoLease
        PROVE  /\ issuedFor[requester[r].lease.token] = requester[r].lease.of
               /\ requester[r].lease.generation = settings.generation
                  => requester[r].lease.of = settings.key
    BY <2>2 DEF Inv, Isolated, Leased, Dated, Issued
  <2>3. ASSUME NEW f \in FlightIds, Running(f), flight[f].generation = settings.generation
        PROVE  flight[f].of = settings.key
    BY <2>3 DEF Inv, Isolated, Flown, Dated, Running
  <2> QED BY <2>1, <2>2, <2>3 DEF CredentialsIsolated
<1> QED BY <1>1, Invariance, PTL

(* Who waits for a flight, an update or a reconciliation is waited for.      *)
THEOREM EveryWaitIsKept == Spec => []NobodyForgotten
<1>1. Inv => NobodyForgotten
  <2> SUFFICES ASSUME Inv PROVE NobodyForgotten
    OBVIOUS
  <2>1. calls \in Seq(CallSet) /\ DOMAIN calls = 1..Len(calls)
    BY DEF Inv, Typed
  <2>2. ASSUME NEW r \in Requesters
        PROVE  /\ requester[r].does = "wait" =>
                    /\ Running(requester[r].flight)
                    /\ flight[requester[r].flight].kind = requester[r].kind
               /\ requester[r].does \in {"reconcile", "reconcile again"} => reconciling
               /\ requester[r].does \in {"invalidate", "reject"} =>
                    \E i \in DOMAIN calls : calls[i].what = "invalidate" /\ calls[i].by = r
    BY <2>1, Zenon DEF Inv, Told, Promised, Running
  <2>3. ASSUME NEW f \in FlightIds, flight[f].does \in {"persist", "confirm", "recheck"}
        PROVE  \E i \in DOMAIN calls :
                 /\ calls[i].what = (IF flight[f].does = "persist" THEN "persist" ELSE "refresh")
                 /\ calls[i].flight = f
    <3>1. PICK i \in 1..Len(calls) : calls[i].flight = f
      BY <2>3 DEF Inv, Claimed
    <3>2. Expects(flight[f].does, calls[i].what)
      BY <3>1, ZeroIsNoFlight DEF Inv, Claimed
    <3> QED BY <2>1, <3>1, <3>2 DEF Expects
  <2> QED BY <2>2, <2>3 DEF NobodyForgotten
<1> QED BY <1>1, Invariance, PTL

(* Neither a late 401 nor a late expiry discards the token that followed.    *)
THEOREM OnlyOwnTokens == Spec => OwnTokenDiscarded
<1> DEFINE Own == /\ settings.token # 0 /\ settings'.token = 0
                  /\ settings'.generation = settings.generation /\ ~BootstrapNeeded(settings)
                  => Head(calls).lease.token = settings.token
<1>1. Inv /\ [Next]_vars => [Own]_vars
  <2> SUFFICES ASSUME Inv, [Next]_vars, settings.token # 0, settings'.token = 0,
                      settings'.generation = settings.generation, ~BootstrapNeeded(settings)
               PROVE  Head(calls).lease.token = settings.token
    OBVIOUS
  <2>1. settings \in Files /\ OwnTokenStored(settings, issuedFor) /\ settings' # settings
    BY DEF Inv, Typed, Isolated
  <2>2. \A c \in Some : settings' # Changed(settings, c)
    <3> SUFFICES ASSUME NEW c \in Some, settings' = Changed(settings, c) PROVE FALSE
      OBVIOUS
    <3> QED BY <2>1, ChangedFollows
  <2>3. CASE InvalidationSettled
    <3>1. calls # <<>> /\ Head(calls).what = "invalidate"
      BY <2>3 DEF InvalidationSettled, First
    <3>2. PICK l : l = Head(calls).lease
      OBVIOUS
    <3>3. Leased(settings, issuedFor, l)
      BY <3>1, <3>2, FirstCall DEF Grounded
    <3>4. settings' = Invalidated(settings, l)
      BY <2>1, <2>3, <3>2 DEF InvalidationSettled, Done, Failed
    <3>5. settings.version = l.version /\ settings.tokenFingerprint = l.of
      BY <2>1, <3>4, Zenon DEF Invalidated
    <3>6. l # NoLease
      <4>1. issuedFor[settings.token] = settings.tokenFingerprint
            /\ settings.token \in 1..Len(issuedFor)
        BY <2>1 DEF OwnTokenStored, Issued
      <4>2. issuedFor \in Seq(Credentials)
        BY DEF Inv, Typed
      <4>3. l.of \in Credentials
        BY <3>5, <4>1, <4>2
      <4>4. NoLease.of = No
        BY DEF NoLease
      <4> QED BY <4>3, <4>4, NoAssumption
    <3>7. l.token = settings.token
      BY <3>3, <3>5, <3>6 DEF Leased, Versioned
    <3> QED BY <3>2, <3>7
  <2>4. CASE CredentialsSettled
    <3>1. \/ settings' = Saved(settings, Head(calls).lease.of) /\ First("save")
          \/ settings' = Cleared(settings)
      BY <2>1, <2>4 DEF CredentialsSettled, Done, Failed
    <3>2. First("save") => Head(calls).lease.of \in Some
      BY FirstCall, NoIsSome DEF First, Grounded
    <3>3. \E c \in Some : settings' = Changed(settings, c)
      BY <2>1, <3>1, <3>2, NoIsSome DEF Saved, Cleared
    <3> QED BY <2>2, <3>3
  <2>5. CASE Reconciled
    BY <2>1, <2>5 DEF Reconciled, Done, Failed, Bootstrapped
  <2>6. CASE Refreshed
    BY <2>1, <2>6 DEF Refreshed, Done, Failed
  <2>7. CASE Persisted
    <3>1. calls # <<>> /\ Head(calls).what = "persist"
      BY <2>7 DEF Persisted, First
    <3>2. PICK f \in FlightIds : f = Head(calls).flight /\ flight[f].does = "persist"
      BY <3>1, FirstCall DEF Expects
    <3>3. PICK fl \in FlightSet : fl = flight[f]
      BY DEF Inv, Typed
    <3>4. settings' = WithToken(settings, fl)
      BY <2>1, <2>7, <3>2, <3>3 DEF Persisted, Done, Failed
    <3>5. settings'.token = fl.token
      BY <2>1, <3>4, WithTokenFollows
    <3>6. fl.token # 0
      <4>1. Issued(issuedFor, fl.token, fl.of)
        BY <3>2, <3>3 DEF Inv, Isolated, Flown
      <4> QED BY <4>1 DEF Issued
    <3> QED BY <3>5, <3>6
  <2>8. CASE /\ ~Settle /\ Next
    BY <2>1, <2>8 DEF Next, SaveCredentials, ClearCredentials, Enqueue, Ask, Proceed, Reconcile,
       LookUp, Join, Execute, Answered, Issue, PostGranted, PostLimited, PostFails, Wakes,
       repositoryVars
  <2>9. CASE UNCHANGED vars
    BY <2>1, <2>9 DEF vars
  <2> QED BY <2>3, <2>4, <2>5, <2>6, <2>7, <2>8, <2>9 DEF Settle
<1>2. OwnTokenDiscarded <=> [][Own]_vars
  BY DEF OwnTokenDiscarded
<1> QED BY <1>1, <1>2, Invariance, PTL DEF Spec

-----------------------------------------------------------------------------
(* The repository of the settings, on which the session is built: its types, *)
(* the truth of its snapshots, and that it implements SerialSettings, for    *)
(* all settings, updaters and tables of delays.                              *)

VARIABLES phase, attempt, base

R == INSTANCE SettingsRepository

USE DEF R!Contents, R!Statuses, R!Snapshots, R!Files, R!Known, R!Degraded, Stored, R!Stored


(* Between the read of an update and its write the store does not change,   *)
(* all writers being served in turn, and only a result that is neither an   *)
(* exception nor the same again is written, the same only to migrate it.    *)
BaseLatest ==
  /\ phase \in {"initial write", "write", "migrate"} => base = Stored
  /\ phase = "initial write" => status.baseKnown
  /\ phase = "write" => Effect[Head(waiting)][base.settings] \notin {Throws, base.settings}
  /\ phase = "migrate" => Effect[Head(waiting)][base.settings] = base.settings

RepositoryInv == R!TypeOK /\ SnapshotTrue /\ BaseLatest

-----------------------------------------------------------------------------
(* The parts of handlers.                                                   *)

(* The names of the phases do not change; the steps below use this fact      *)
(* instead of the strings the set is made of.                                *)
LEMMA PhasesFixed == R!Phases' = R!Phases
  BY DEF R!Phases

USE PhasesFixed

LEMMA StoredType ==
  ASSUME R!TypeOK PROVE Stored \in R!Contents
BY DEF R!TypeOK, Stored, R!Contents, R!Files

(* What an updater makes of settings are settings, unless it throws.        *)
LEMMA EffectType ==
  ASSUME NEW u \in Updates, NEW s \in Settings
  PROVE  Effect[u][s] \in Settings \cup {Throws}
BY SettingsAssumption

(* Giving up an update under way leaves the queue well formed.              *)
LEMMA AnswerTypes ==
  ASSUME R!TypeOK, waiting # <<>>, NEW a \in {"done", "failed"}, R!Answer(a)
  PROVE  /\ waiting' \in Seq(Updates) /\ phase' = "idle" /\ attempt' \in 0..Retries
         /\ answer' \in {"none", "done", "failed"}
BY RepositoryAssumption DEF R!TypeOK, R!Answer, R!Begin

LEMMA ReplaceTypes ==
  ASSUME NEW m \in R!Contents, NEW st \in R!Statuses, R!Replace(m, st)
  PROVE  cached' \in R!Contents /\ status' \in R!Statuses /\ emitted' \in R!Snapshots
BY DEF R!Replace, R!Snapshots

LEMMA PhaseTypes ==
  /\ "initial read" \in R!Phases /\ "initial write" \in R!Phases /\ "idle" \in R!Phases
  /\ "read" \in R!Phases /\ "write" \in R!Phases /\ "migrate" \in R!Phases
BY DEF R!Phases

LEMMA StatusTypes ==
  /\ R!Known \in R!Statuses
  /\ R!Degraded(TRUE) \in R!Statuses
  /\ R!Degraded(FALSE) \in R!Statuses /\ ~R!Degraded(FALSE).baseKnown
BY DEF R!Known, R!Degraded, R!Statuses

LEMMA BegunTypes ==
  ASSUME R!TypeOK, NEW p \in R!Phases, R!Begin(p),
         p \in {"read", "write", "migrate"} => waiting # <<>>,
         UNCHANGED <<waiting, answer>>, store' \in R!Files, base' \in R!Contents,
         cached' \in R!Contents, status' \in R!Statuses, emitted' \in R!Snapshots
  PROVE  R!TypeOK'
BY RepositoryAssumption DEF R!TypeOK, R!Begin

(* An attempt that is to be made again changes the count of attempts only.  *)
LEMMA RetriedKeepsInv ==
  ASSUME RepositoryInv, R!Again, UNCHANGED <<store, cached, status, emitted>>
  PROVE  RepositoryInv'
<1>1. attempt' \in 0..Retries /\ UNCHANGED <<waiting, phase, base, answer>>
  BY RepositoryAssumption DEF RepositoryInv, R!TypeOK, R!Again
<1>2. R!TypeOK' /\ SnapshotTrue' /\ BaseLatest'
  BY <1>1 DEF RepositoryInv, R!TypeOK, SnapshotTrue, BaseLatest, Stored
<1> QED BY <1>2 DEF RepositoryInv

(* An update may be settled without a word to the listeners.                *)
LEMMA SettledKeepsInv ==
  ASSUME RepositoryInv, waiting # <<>>, NEW a \in {"done", "failed"}, R!Answer(a),
         base' \in R!Contents, UNCHANGED <<store, cached, status, emitted>>
  PROVE  RepositoryInv'
<1>1. /\ waiting' \in Seq(Updates) /\ phase' = "idle" /\ attempt' \in 0..Retries
      /\ answer' \in {"none", "done", "failed"}
  BY AnswerTypes DEF RepositoryInv
<1>2. phase' \in R!Phases
  BY <1>1, PhaseTypes
<1>3. R!TypeOK'
  BY <1>1, <1>2 DEF RepositoryInv, R!TypeOK
<1>4. SnapshotTrue' /\ BaseLatest'
  BY <1>1 DEF RepositoryInv, SnapshotTrue, BaseLatest, Stored
<1> QED BY <1>3, <1>4 DEF RepositoryInv

(* Or with what the listeners are told of it, which must be true.           *)
LEMMA ToldKeepsInv ==
  ASSUME RepositoryInv, waiting # <<>>, NEW a \in {"done", "failed"}, R!Answer(a),
         store' \in R!Files, base' \in R!Contents,
         NEW m \in R!Contents, NEW st \in R!Statuses, R!Replace(m, st),
         st.baseKnown => m = Stored'
  PROVE  RepositoryInv'
<1>1. /\ waiting' \in Seq(Updates) /\ phase' = "idle" /\ attempt' \in 0..Retries
      /\ answer' \in {"none", "done", "failed"}
  BY AnswerTypes DEF RepositoryInv
<1>2. cached' \in R!Contents /\ status' \in R!Statuses /\ emitted' \in R!Snapshots
  BY ReplaceTypes
<1>3. R!TypeOK'
  BY <1>1, <1>2, RepositoryAssumption DEF R!TypeOK, R!Phases
<1>4. SnapshotTrue' /\ BaseLatest'
  BY <1>1 DEF R!Replace, SnapshotTrue, BaseLatest
<1> QED BY <1>3, <1>4 DEF RepositoryInv

-----------------------------------------------------------------------------
(* The actions of an update.                                                *)

(* The result of an update under way is written only if it is settings.     *)
LEMMA CandidateType ==
  ASSUME RepositoryInv, phase = "write"
  PROVE  R!Candidate \in R!Contents
<1>1. Head(waiting) \in Updates /\ base \in R!Contents
  BY DEF RepositoryInv, R!TypeOK
<1>2. Effect[Head(waiting)][base.settings] \in Settings
  BY <1>1, EffectType DEF RepositoryInv, BaseLatest, R!Contents
<1> QED BY <1>1, <1>2 DEF R!Candidate, R!Contents

LEMMA ReadKeepsInv ==
  ASSUME RepositoryInv, R!ReadForUpdate
  PROVE  RepositoryInv'
<1>1. /\ R!Latest = Stored /\ Stored' = Stored /\ Stored \in R!Contents /\ base' = Stored
      /\ store' = store /\ store \in R!Files
      /\ waiting # <<>>
  BY StoredType DEF R!ReadForUpdate, Stored, R!Latest, RepositoryInv, R!TypeOK
<1>2. CASE R!Answer("failed") /\ UNCHANGED <<cached, status, emitted>>
  BY <1>1, <1>2, SettledKeepsInv
<1>3. CASE R!Replace(R!Latest, R!Known) /\ R!Answer("done")
  BY <1>1, <1>3, ToldKeepsInv, StatusTypes
<1>4. CASE /\ Effect[Head(waiting)][R!Latest.settings] = R!Latest.settings
           /\ R!Begin("migrate") /\ UNCHANGED <<waiting, answer, cached, status, emitted>>
  <2>1. R!TypeOK'
    BY <1>1, <1>4, BegunTypes, PhaseTypes DEF RepositoryInv, R!TypeOK
  <2>2. SnapshotTrue' /\ BaseLatest'
    BY <1>1, <1>4 DEF RepositoryInv, R!Begin, SnapshotTrue, BaseLatest
  <2> QED BY <2>1, <2>2 DEF RepositoryInv
<1>5. CASE /\ Effect[Head(waiting)][R!Latest.settings] \notin {Throws, R!Latest.settings}
           /\ R!Begin("write") /\ UNCHANGED <<waiting, answer, cached, status, emitted>>
  <2>1. R!TypeOK'
    BY <1>1, <1>5, BegunTypes, PhaseTypes DEF RepositoryInv, R!TypeOK
  <2>2. SnapshotTrue' /\ BaseLatest'
    BY <1>1, <1>5 DEF RepositoryInv, R!Begin, SnapshotTrue, BaseLatest
  <2> QED BY <2>1, <2>2 DEF RepositoryInv
<1> QED BY <1>2, <1>3, <1>4, <1>5 DEF R!ReadForUpdate

LEMMA ReadFailsKeepsInv ==
  ASSUME RepositoryInv, R!ReadForUpdateFails
  PROVE  RepositoryInv'
<1>1. /\ store' = store /\ store \in R!Files /\ waiting # <<>>
      /\ base \in R!Contents /\ cached \in R!Contents
  BY DEF R!ReadForUpdateFails, RepositoryInv, R!TypeOK
<1>2. CASE R!Again /\ UNCHANGED <<cached, status, emitted>>
  BY <1>1, <1>2, RetriedKeepsInv
<1>3. CASE R!Replace(cached, R!Degraded(FALSE)) /\ R!Answer("failed") /\ UNCHANGED base
  BY <1>1, <1>3, ToldKeepsInv, StatusTypes
<1> QED BY <1>2, <1>3 DEF R!ReadForUpdateFails

(* What is written is in memory and with the listeners in the same step.    *)
LEMMA WroteKeepsInv ==
  ASSUME RepositoryInv, waiting # <<>>, NEW content \in R!Contents, R!Write(content)
  PROVE  RepositoryInv'
<1>1. Stored' = content /\ store' \in R!Files /\ base' \in R!Contents
  BY DEF R!Write, Stored, R!Contents, R!Files, RepositoryInv, R!TypeOK
<1> QED BY <1>1, ToldKeepsInv, StatusTypes DEF R!Write

LEMMA WriteKeepsInv == ASSUME RepositoryInv, R!WriteUpdate PROVE RepositoryInv'
BY CandidateType, WroteKeepsInv DEF R!WriteUpdate, RepositoryInv, R!TypeOK

LEMMA MigrateKeepsInv == ASSUME RepositoryInv, R!WriteMigrated PROVE RepositoryInv'
BY WroteKeepsInv DEF R!WriteMigrated, RepositoryInv, R!TypeOK

LEMMA WriteFailsKeepsInv ==
  ASSUME RepositoryInv, R!WriteFails
  PROVE  RepositoryInv'
<1>1. /\ store' = store /\ store \in R!Files /\ waiting # <<>>
      /\ Stored' = Stored /\ base = Stored /\ base \in R!Contents
  BY DEF R!WriteFails, RepositoryInv, R!TypeOK, BaseLatest, Stored
<1>2. CASE R!Again /\ UNCHANGED <<cached, status, emitted>>
  BY <1>1, <1>2, RetriedKeepsInv
<1>3. CASE R!Replace(base, R!Degraded(TRUE)) /\ R!Answer("failed") /\ UNCHANGED base
  BY <1>1, <1>3, ToldKeepsInv, StatusTypes
<1> QED BY <1>2, <1>3 DEF R!WriteFails

-----------------------------------------------------------------------------
(* The invariant.                                                           *)

LEMMA InitInv == R!Init => RepositoryInv
<1> SUFFICES ASSUME R!Init PROVE RepositoryInv
  OBVIOUS
<1> USE RepositoryAssumption
<1>1. cached \in R!Contents
  BY SettingsAssumption DEF R!Init, R!Contents
<1>2. store \in R!Files
  BY DEF R!Init, R!Files
<1>3. status \in R!Statuses
  BY DEF R!Init, R!Statuses
<1>4. emitted \in R!Snapshots
  BY <1>1, <1>3 DEF R!Init, R!Snapshots
<1>5. R!TypeOK
  BY <1>1, <1>2, <1>3, <1>4 DEF R!Init, R!TypeOK, R!Phases
<1>6. SnapshotTrue /\ BaseLatest
  BY DEF R!Init, SnapshotTrue, BaseLatest
<1> QED BY <1>5, <1>6 DEF RepositoryInv

(* Every step keeps the invariant: one case per action.                     *)
LEMMA NextInv == RepositoryInv /\ [R!Next]_(R!vars) => RepositoryInv'
<1> SUFFICES ASSUME RepositoryInv, [R!Next]_(R!vars) PROVE RepositoryInv'
  OBVIOUS
<1> USE DEF RepositoryInv
<1>0. Stored \in R!Contents
  BY StoredType
<1>1. CASE R!Initialize
  <2>1. R!TypeOK'
    BY <1>1, BegunTypes, PhaseTypes DEF R!Initialize, R!TypeOK
  <2>2. SnapshotTrue' /\ BaseLatest'
    BY <1>1 DEF R!Initialize, R!Begin, SnapshotTrue, BaseLatest, Stored
  <2> QED BY <2>1, <2>2
<1>2. CASE R!InitialRead
  <2>1. Stored' = Stored
    BY <1>2 DEF R!InitialRead, Stored
  <2>2. cached' \in R!Contents /\ status' \in R!Statuses /\ emitted' \in R!Snapshots
    BY <1>0, <1>2, ReplaceTypes, StatusTypes DEF R!InitialRead
  <2>3. R!TypeOK'
    BY <1>0, <1>2, <2>2, BegunTypes, PhaseTypes DEF R!InitialRead, R!TypeOK
  <2>4. SnapshotTrue' /\ BaseLatest'
    BY <1>2, <2>1 DEF R!InitialRead, R!Replace, R!Begin, SnapshotTrue, BaseLatest, R!Known
  <2> QED BY <2>3, <2>4
<1>3. CASE R!InitialReadFails
  <2>1. CASE R!Again /\ UNCHANGED <<cached, status, emitted>>
    BY <1>3, <2>1, RetriedKeepsInv DEF R!InitialReadFails
  <2>2. CASE /\ R!Replace(cached, R!Degraded(FALSE))
             /\ R!Begin("idle") /\ UNCHANGED <<waiting, base, answer>>
    <3>1. cached' \in R!Contents /\ status' \in R!Statuses /\ emitted' \in R!Snapshots
      BY <2>2, ReplaceTypes, StatusTypes DEF R!TypeOK
    <3>2. R!TypeOK'
      BY <1>3, <2>2, <3>1, BegunTypes, PhaseTypes DEF R!InitialReadFails, R!TypeOK
    <3>3. SnapshotTrue' /\ BaseLatest'
      BY <2>2, StatusTypes DEF R!Replace, R!Begin, SnapshotTrue, BaseLatest
    <3> QED BY <3>2, <3>3
  <2> QED BY <1>3, <2>1, <2>2 DEF R!InitialReadFails
<1>4. CASE R!InitialWrite
  <2>1. base = Stored /\ base \in R!Contents
    BY <1>4 DEF R!InitialWrite, BaseLatest, R!TypeOK
  <2>2. Stored' = Stored
    BY <1>4, <2>1 DEF R!InitialWrite, Stored
  <2>3. store' \in R!Files
    BY <1>4, <2>1 DEF R!InitialWrite, R!Contents, R!Files
  <2>4. R!TypeOK'
    BY <1>4, <2>3, BegunTypes, PhaseTypes DEF R!InitialWrite, R!TypeOK
  <2>5. SnapshotTrue' /\ BaseLatest'
    BY <1>4, <2>2 DEF R!InitialWrite, R!Begin, SnapshotTrue, BaseLatest
  <2> QED BY <2>4, <2>5
<1>5. CASE R!InitialWriteFails
  <2>1. CASE R!Again /\ UNCHANGED <<cached, status, emitted>>
    BY <1>5, <2>1, RetriedKeepsInv DEF R!InitialWriteFails
  <2>2. CASE /\ R!Replace(cached, R!Degraded(TRUE))
             /\ R!Begin("idle") /\ UNCHANGED <<waiting, base, answer>>
    <3>1. cached' \in R!Contents /\ status' \in R!Statuses /\ emitted' \in R!Snapshots
      BY <2>2, ReplaceTypes, StatusTypes DEF R!TypeOK
    <3>2. R!TypeOK'
      BY <1>5, <2>2, <3>1, BegunTypes, PhaseTypes DEF R!InitialWriteFails, R!TypeOK
    <3>3. Stored' = Stored /\ cached = Stored
      BY <1>5 DEF R!InitialWriteFails, SnapshotTrue, BaseLatest, Stored
    <3>4. SnapshotTrue' /\ BaseLatest'
      BY <2>2, <3>3 DEF R!Replace, R!Begin, SnapshotTrue, BaseLatest
    <3> QED BY <3>2, <3>4
  <2> QED BY <1>5, <2>1, <2>2 DEF R!InitialWriteFails
<1>6. ASSUME NEW u \in Updates, R!Update(u) PROVE RepositoryInv'
  <2>1. Stored' = Stored /\ waiting' \in Seq(Updates) /\ waiting' # <<>>
    BY <1>6 DEF R!Update, Stored, R!TypeOK
  <2>2. waiting # <<>> => Head(waiting') = Head(waiting)
    BY <1>6 DEF R!Update, R!TypeOK
  <2>3. R!TypeOK'
    BY <1>6, <2>1 DEF R!Update, R!TypeOK
  <2>4. SnapshotTrue'
    BY <1>6, <2>1 DEF R!Update, SnapshotTrue
  <2>5. BaseLatest'
    BY <1>6, <2>1, <2>2 DEF R!Update, BaseLatest, R!TypeOK
  <2> QED BY <2>3, <2>4, <2>5
<1>7. CASE R!StartUpdate
  <2>1. R!TypeOK'
    BY <1>7, BegunTypes, PhaseTypes DEF R!StartUpdate, R!TypeOK
  <2>2. SnapshotTrue' /\ BaseLatest'
    BY <1>7 DEF R!StartUpdate, R!Begin, SnapshotTrue, BaseLatest, Stored
  <2> QED BY <2>1, <2>2
<1>8. CASE R!ReadForUpdate
  BY <1>8, ReadKeepsInv
<1>9. CASE R!ReadForUpdateFails
  BY <1>9, ReadFailsKeepsInv
<1>10. CASE R!WriteUpdate
  BY <1>10, WriteKeepsInv
<1>11. CASE R!WriteMigrated
  BY <1>11, MigrateKeepsInv
<1>12. CASE R!WriteFails
  BY <1>12, WriteFailsKeepsInv
<1>13. CASE UNCHANGED R!vars
  BY <1>13 DEF R!vars, R!TypeOK, SnapshotTrue, BaseLatest, Stored
<1> QED
  BY <1>1, <1>2, <1>3, <1>4, <1>5, <1>6, <1>7, <1>8, <1>9, <1>10, <1>11, <1>12, <1>13 DEF R!Next

LEMMA RepositoryInvariance == R!Spec => []RepositoryInv
BY InitInv, NextInv, PTL DEF R!Spec

(* The types of the repository, for any settings, updaters and delays.      *)
THEOREM RepositoryTypesKept == R!Spec => []R!TypeOK
<1>1. RepositoryInv => R!TypeOK
  BY DEF RepositoryInv
<1> QED BY RepositoryInvariance, <1>1, PTL

(* getSnapshot, and what listeners are given, tell the truth whenever they  *)
(* claim to know it: no order of failed reads and writes leaves the copy in *)
(* memory ahead of or behind the store.                                     *)
THEOREM SnapshotsTrue == R!Spec => []SnapshotTrue
<1>1. RepositoryInv => SnapshotTrue
  BY DEF RepositoryInv
<1> QED BY RepositoryInvariance, <1>1, PTL

-----------------------------------------------------------------------------
(* The repository implements SerialSettings.                                *)

LEMMA InitSerial == R!Init => Serial!Init
<1> SUFFICES ASSUME R!Init PROVE Serial!Init
  OBVIOUS
<1>1. store.settings \in Settings /\ store.revision = 0
  BY DEF R!Init
<1>2. waiting = <<>> /\ answer = "none"
  BY DEF R!Init
<1> QED BY <1>1, <1>2 DEF Serial!Init

(* An update that wrote its candidate took effect on the settings it read.  *)
LEMMA WriteUpdateDone ==
  ASSUME RepositoryInv, R!WriteUpdate
  PROVE  Serial!Done
<1>1. waiting # <<>> /\ base = Stored /\ Effect[Head(waiting)][base.settings] # base.settings
  BY DEF R!WriteUpdate, RepositoryInv, R!TypeOK, BaseLatest
<1>2. base.settings = store.settings /\ base.revision = store.revision
  BY <1>1 DEF Stored
<1>3. store'.settings = R!Candidate.settings /\ store'.revision = R!Candidate.revision
  BY DEF R!WriteUpdate, R!Write
<1>4. R!Candidate \in R!Contents
  BY CandidateType DEF R!WriteUpdate
<1>5. /\ store'.settings = Effect[Head(waiting)][store.settings]
      /\ store'.settings # store.settings
      /\ store'.settings \in Settings
      /\ store'.revision = store.revision + 1
  BY <1>1, <1>2, <1>3, <1>4 DEF R!Candidate, R!Contents
<1>6. waiting' = Tail(waiting) /\ answer' = "done"
  BY DEF R!WriteUpdate, R!Write, R!Answer
<1> QED BY <1>1, <1>5, <1>6 DEF Serial!Done

(* So did one that wrote the old settings in the new form, and one that had *)
(* nothing to write: neither changes the settings.                          *)
LEMMA WriteMigratedDone ==
  ASSUME RepositoryInv, R!WriteMigrated
  PROVE  Serial!Done
<1>1. /\ waiting # <<>> /\ base = Stored /\ base \in R!Contents
      /\ Effect[Head(waiting)][base.settings] = base.settings
  BY DEF R!WriteMigrated, RepositoryInv, R!TypeOK, BaseLatest
<1>2. /\ store'.settings = store.settings /\ store'.revision = store.revision
      /\ store.settings \in Settings
      /\ Effect[Head(waiting)][store.settings] = store.settings
  BY <1>1 DEF R!WriteMigrated, R!Write, Stored, R!Contents
<1>3. waiting' = Tail(waiting) /\ answer' = "done"
  BY DEF R!WriteMigrated, R!Write, R!Answer
<1> QED BY <1>1, <1>2, <1>3 DEF Serial!Done

LEMMA ReadSerial ==
  ASSUME RepositoryInv, R!ReadForUpdate
  PROVE  Serial!Done \/ Serial!Failed \/ UNCHANGED Serial!vars
<1>1. /\ R!Latest = Stored /\ UNCHANGED store /\ waiting # <<>>
      /\ store.settings \in Settings /\ R!Latest.settings = store.settings
  BY DEF R!ReadForUpdate, R!Latest, Stored, RepositoryInv, R!TypeOK, R!Files
<1>2. CASE R!Answer("failed")
  BY <1>1, <1>2 DEF R!Answer, Serial!Failed
<1>3. CASE Effect[Head(waiting)][R!Latest.settings] = R!Latest.settings /\ R!Answer("done")
  <2>1. waiting' = Tail(waiting) /\ answer' = "done"
    BY <1>3 DEF R!Answer
  <2> QED BY <1>1, <1>3, <2>1 DEF Serial!Done
<1>4. CASE UNCHANGED <<waiting, answer>>
  BY <1>1, <1>4 DEF Serial!vars
<1> QED BY <1>2, <1>3, <1>4 DEF R!ReadForUpdate

(* A step that is the last failed attempt fails the update, and any other   *)
(* failed attempt is not seen.                                              *)
LEMMA FailureSerial ==
  ASSUME waiting # <<>>, UNCHANGED store, R!Again \/ R!Answer("failed")
  PROVE  Serial!Failed \/ UNCHANGED Serial!vars
<1>1. CASE R!Again
  BY <1>1 DEF R!Again, Serial!vars
<1>2. CASE R!Answer("failed")
  BY <1>2 DEF R!Answer, Serial!Failed
<1> QED BY <1>1, <1>2

(* Every step is a step of SerialSettings or is not seen there.             *)
LEMMA NextSerial == RepositoryInv /\ [R!Next]_(R!vars) => [Serial!Next]_(Serial!vars)
<1> SUFFICES ASSUME RepositoryInv, [R!Next]_(R!vars)
             PROVE  Serial!Next \/ UNCHANGED Serial!vars
  OBVIOUS
<1> USE DEF Serial!vars
<1>1. CASE R!Initialize \/ R!InitialRead \/ R!StartUpdate
  BY <1>1 DEF R!Initialize, R!InitialRead, R!StartUpdate
<1>2. CASE R!InitialReadFails \/ R!InitialWriteFails
  BY <1>2 DEF R!InitialReadFails, R!InitialWriteFails, R!Again
<1>3. CASE R!InitialWrite
  <2>1. base = Stored
    BY <1>3 DEF R!InitialWrite, RepositoryInv, BaseLatest
  <2> QED BY <1>3, <2>1 DEF R!InitialWrite, Stored
<1>4. ASSUME NEW u \in Updates, R!Update(u) PROVE Serial!Next
  <2>1. Serial!Call(u)
    BY <1>4 DEF R!Update, Serial!Call
  <2> QED BY <2>1 DEF Serial!Next
<1>5. CASE R!ReadForUpdate
  BY <1>5, ReadSerial DEF Serial!Next
<1>6. CASE R!ReadForUpdateFails
  <2>1. waiting # <<>>
    BY <1>6 DEF R!ReadForUpdateFails, RepositoryInv, R!TypeOK
  <2> QED BY <1>6, <2>1, FailureSerial DEF R!ReadForUpdateFails, Serial!Next
<1>7. CASE R!WriteUpdate
  BY <1>7, WriteUpdateDone DEF Serial!Next
<1>8. CASE R!WriteMigrated
  BY <1>8, WriteMigratedDone DEF Serial!Next
<1>9. CASE R!WriteFails
  <2>1. waiting # <<>>
    BY <1>9 DEF R!WriteFails, RepositoryInv, R!TypeOK
  <2> QED BY <1>9, <2>1, FailureSerial DEF R!WriteFails, Serial!Next
<1>10. CASE UNCHANGED R!vars
  BY <1>10 DEF R!vars
<1> QED
  BY <1>1, <1>2, <1>3, <1>4, <1>5, <1>6, <1>7, <1>8, <1>9, <1>10 DEF R!Next

(* However reads and writes fail, the updates of all the program's writers  *)
(* take effect one at a time and in order, each on what the one before it   *)
(* left, and an update is answered "done" only if it is in effect.          *)
THEOREM ImplementsSerial == R!Spec => UpdatesSerial
<1>1. RepositoryInv /\ [R!Next]_(R!vars) => [Serial!Next]_(Serial!vars)
  BY NextSerial
<1> QED BY RepositoryInvariance, InitSerial, <1>1, PTL DEF R!Spec, UpdatesSerial, Serial!Spec
=============================================================================
