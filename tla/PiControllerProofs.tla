--------------------------- MODULE PiControllerProofs ---------------------------
(***************************************************************************)
(* Proofs about PiController, for every set of preferences, every choice   *)
(* of the commands the user sends and every bound on the user's turns and  *)
(* on the disturbances.                                                    *)
(*                                                                         *)
(* Inv is the inductive invariant.  It says in turn what each side may     *)
(* believe of the settings (Heard, News, SettingsKnown: whoever stands at  *)
(* the revision stored holds what is stored), what the page remembers of   *)
(* its requests (Requested, IdsBelow, Remembered), which inspectors are    *)
(* there (Present, Fenced) and what a command on its way may still do      *)
(* (Based, Failing, SaveShown).  The page's operators come first, each     *)
(* with what it leaves and what it may change; what a message does to the  *)
(* page is then one of two things, Updated or Taken, and the steps of the  *)
(* plugin are proved from these.                                           *)
(***************************************************************************)
EXTENDS PiController, TLAPS

Sections == {SectionOf[t] : t \in CommandTypes}
FormValues == Preferences \cup {None}
RealSnapshots ==
  [epoch : Nat \ {0}, sequence : Nat \ {0}, revision : Nat, preferences : Preferences]
Snapshots == RealSnapshots \cup {NoSnapshot}

Requests ==
  [type : CommandTypes, secret : Nat, secretEdits : Nat, edits : Nat, epoch : Nat,
   submitted : FormValues]
Pendings == UNION {[D -> Requests] : D \in SUBSET Nat}

Pages ==
  [current : Nat, applied : Nat, retired : SUBSET Nat, latest : Snapshots, revision : Nat,
   authoritative : FormValues, basis : FormValues, basisRevision : Nat, form : FormValues,
   edits : Nat, save : Nat, secret : Nat, secretEdits : Nat, pending : Pendings,
   lastOf : [Sections -> Nat]]

Fences == [tracked : BOOLEAN, generation : Nat, visit : Nat]
CommandRecords ==
  [type : CommandTypes, id : Nat, expected : Nat, preferences : FormValues,
   basis : FormValues, fence : Fences, step : Nat,
   phase : {"idle", "busy", "answer", "recover"}, ok : BOOLEAN, conflict : BOOLEAN,
   snapshot : Snapshots]
SettingsValues == [revision : Nat, preferences : Preferences]

TypeOK ==
  /\ epoch \in Nat \ {0} /\ destroyed \in BOOLEAN /\ tracked \in BOOLEAN
  /\ context \in [appearances : Nat, generation : Nat]
  /\ nextGeneration \in Nat /\ sequence \in Nat /\ visit \in Nat
  /\ commandTail \in Seq(CommandRecords)
  /\ disk \in SettingsValues /\ seen \in SettingsValues /\ ready \in BOOLEAN
  /\ leaving \in {"no", "reported", "unreported"} /\ open \in BOOLEAN
  /\ shown \in {"reported", "unreported", "lost"}
  /\ page \in Pages /\ nextId \in Nat \ {0}
  /\ left \in [turns : Nat, disturbances : Nat]

-----------------------------------------------------------------------------
(* What the page and the plugin know of the settings.  Here d stands for    *)
(* what is stored, n for the revision the repository stands at, e for the   *)
(* epoch.                                                                   *)

(* What is said of the settings at the revision stored is what is stored.   *)
OfDisk(s, d, n) ==
  s.revision <= n /\ (s.revision = d.revision => s.preferences = d.preferences)

HeardLatest(p, d, n) ==
  p.latest # NoSnapshot =>
    /\ OfDisk(p.latest, d, n)
    /\ p.latest.epoch = p.current
    /\ p.applied = p.current \/ p.revision <= p.latest.revision

HeardEpochs(p, e) == p.current <= e /\ \A f \in p.retired : f < p.current

HeardSettings(p, d, n) ==
  /\ p.basisRevision <= p.revision /\ p.revision <= n
  /\ p.revision = d.revision /\ p.authoritative # None => p.authoritative = d.preferences
  /\ p.basisRevision = d.revision =>
       p.basis = d.preferences \/ (d.revision = 0 /\ p.basis = None)

Heard(p, d, n, e) == HeardLatest(p, d, n) /\ HeardEpochs(p, e) /\ HeardSettings(p, d, n)

(* A snapshot of this epoch, not older than what a page of an earlier one   *)
(* shows.                                                                   *)
News(s, p, d, n, e) ==
  s # NoSnapshot =>
    s.epoch = e /\ OfDisk(s, d, n) /\ (p.applied = e \/ p.revision <= s.revision)

-----------------------------------------------------------------------------
(* The requests of a page.                                                  *)

(* A save under way is the last one, of the epoch the page knows.           *)
SaveIsLast(p) ==
  p.save # 0 =>
    /\ p.save \in DOMAIN p.pending /\ p.lastOf["advanced"] = p.save
    /\ p.pending[p.save].type = "preferences/save"
    /\ p.pending[p.save].epoch = p.current

(* A secret is there only if it was typed, and since the last command that  *)
(* was to store it, it has been typed anew or is the same.                  *)
SecretsTyped(p) ==
  /\ p.secretEdits = 0 => p.secret = 0
  /\ \A i \in DOMAIN p.pending :
       /\ p.pending[i].type = "settings/request" => p.pending[i].secretEdits = 0
       /\ i = p.lastOf["credentials"] =>
            /\ p.pending[i].secretEdits <= p.secretEdits
            /\ p.pending[i].secretEdits = p.secretEdits => p.pending[i].secret = p.secret

(* The last save was sent at this count of edits or an earlier one, from     *)
(* preferences the page had.                                                *)
EditsCounted(p) ==
  LET i == p.lastOf["advanced"] IN
  i \in DOMAIN p.pending =>
    p.pending[i].edits <= p.edits /\ p.authoritative # None

Requested(p) == SaveIsLast(p) /\ SecretsTyped(p) /\ EditsCounted(p)

(* Ids are not used twice.                                                  *)
IdsBelow(p, n) ==
  (\A i \in DOMAIN p.pending : i < n) /\ \A section \in Sections : p.lastOf[section] < n

-----------------------------------------------------------------------------
(* The commands.                                                            *)

(* A command based on the settings stored is based on what is stored.       *)
Based(c, d, n) ==
  /\ c.expected <= n
  /\ c.type = "preferences/save" /\ c.expected = d.revision =>
       c.basis = d.preferences \/ (d.revision = 0 /\ c.basis = None)

(* A step that runs is one of the command's, a save has what to store, and   *)
(* only what is stored later than a command expects is a conflict.          *)
Failing(c, d) ==
  /\ c.phase = "busy" => c.step < Len(StepsOf[c.type])
  /\ c.snapshot # NoSnapshot => c.phase = "answer"
  /\ c.phase = "recover" => ~c.ok
  /\ c.type = "preferences/save" =>
       /\ c.preferences \in Preferences
       /\ c.phase = "busy" => c.step = 0
       /\ c.ok /\ c.phase = "answer" => c.step # 0
  /\ c.conflict =>
       /\ c.phase \in {"answer", "recover"} /\ ~c.ok /\ c.expected < d.revision
       /\ c.snapshot # NoSnapshot => c.expected < c.snapshot.revision

(* Until a save is carried out, the settings it is compared with are other  *)
(* than it, and the controls show it unless edited; after that, unless the  *)
(* page may fill them.                                                      *)
SaveShown(c, p, d) ==
  LET r == p.pending[c.id] IN
  /\ c.type = "preferences/save" /\ c.ok
  /\ c.id = p.lastOf["advanced"] /\ c.id \in DOMAIN p.pending
  => /\ c.step = 0 =>
          /\ c.expected <= p.revision
          /\ c.expected = d.revision =>
               c.preferences # d.preferences /\ (r.edits = p.edits => p.form = c.preferences)
     /\ c.step # 0 /\ r.edits = p.edits =>
          p.form = c.preferences \/ (p.save = 0 /\ p.form = p.authoritative)

Good(c, p, d, n, e) ==
  Based(c, d, n) /\ Failing(c, d) /\ News(c.snapshot, p, d, n, e) /\ SaveShown(c, p, d)

(* The page remembers a command as it was sent.                             *)
Remembered(c, p, next) ==
  /\ c.id < next
  /\ c.id \in DOMAIN p.pending =>
       /\ p.pending[c.id].type = c.type
       /\ p.pending[c.id].submitted = c.preferences

(* The fence stands for the visit.                                          *)
Fenced(f) ==
  ~destroyed =>
    /\ f.generation <= nextGeneration
    /\ f.tracked /\ Visible /\ f.generation = context.generation => f.visit = visit
    /\ ~f.tracked /\ ~tracked => f.visit = visit

Sound(c) ==
  /\ Good(c, page, disk, seen.revision, epoch) /\ Remembered(c, page, nextId)
  /\ Fenced(c.fence)

(* Of the commands only the first has begun.                                *)
CommandsGood ==
  /\ \A c \in Range(commandTail) : Sound(c)
  /\ commandTail # << >> => \A c \in Range(Tail(commandTail)) : c.step = 0 /\ c.phase = "idle"

SettingsKnown == seen.revision <= disk.revision /\ (seen.revision = disk.revision => seen = disk)

PageGood ==
  /\ Heard(page, disk, seen.revision, epoch) /\ Requested(page) /\ IdsBelow(page, nextId)
  /\ ~open => page = FreshPage

(* The appearances counted are those of the pages this process was told of,  *)
(* without the one that it lost; a page of whose appearance it was not told  *)
(* has not heard of it.                                                      *)
Present ==
  /\ Visible => ~destroyed /\ tracked /\ context.generation \in 1..nextGeneration
  /\ leaving = "reported" => open /\ shown = "reported"
  /\ ~open => shown = "unreported"
  /\ open /\ shown = "unreported" => page.current # epoch
  /\ ~destroyed =>
       context.appearances = (IF shown = "reported" THEN 1 ELSE 0)
                             + (IF leaving = "reported" THEN 1 ELSE 0)

(* A save of a page the process was told of is on its way, and nothing stops *)
(* it.                                                                       *)
SaveUnderWay ==
  shown = "reported" /\ page.save # 0 /\ page.current = epoch /\ ~destroyed =>
    \E c \in Range(commandTail) : c.id = page.save /\ FenceCurrent(c.fence)

Inv == TypeOK /\ SettingsKnown /\ PageGood /\ Present /\ SaveUnderWay /\ CommandsGood

-----------------------------------------------------------------------------
(* The types of the tables and of the page's requests.                      *)

LEMMA SectionTypes ==
  /\ "settings" \in Sections /\ "credentials" \in Sections /\ "advanced" \in Sections
  /\ \A t \in CommandTypes :
       /\ SectionOf[t] \in Sections
       /\ SectionOf[t] = "settings" <=> t = "settings/request"
       /\ SectionOf[t] = "advanced" <=> t = "preferences/save"
       /\ SectionOf[t] = "credentials" <=> t \in {"credentials/save", "credentials/clear"}
BY DEF Sections, SectionOf, CommandTypes

LEMMA PendingsAre ==
  /\ \A f \in Pendings : DOMAIN f \subseteq Nat /\ \A i \in DOMAIN f : f[i] \in Requests
  /\ \A D \in SUBSET Nat : \A f \in [D -> Requests] : f \in Pendings
BY DEF Pendings

LEMMA Snapshotted ==
  /\ NoSnapshot \in Snapshots /\ NoSnapshot \notin RealSnapshots
  /\ \A s \in Snapshots : s # NoSnapshot => s \in RealSnapshots
  /\ \A s \in Snapshots : /\ s.epoch \in Nat /\ s.sequence \in Nat /\ s.revision \in Nat
                          /\ s.preferences \in FormValues
  /\ \A s \in RealSnapshots :
       s.epoch # 0 /\ s.sequence > 0 /\ s.preferences \in Preferences /\ s \in Snapshots
  /\ NoSnapshot.sequence = 0
BY PreferencesAssumption DEF NoSnapshot, Snapshots, RealSnapshots, FormValues

LEMMA FreshIsPage ==
  /\ FreshPage \in Pages /\ DOMAIN FreshPage.pending = {}
  /\ FreshPage.save = 0 /\ FreshPage.current = 0 /\ FreshPage.secret = 0
  /\ FreshPage.applied = 0 /\ FreshPage.revision = 0 /\ FreshPage.secretEdits = 0
  /\ FreshPage.retired = {} /\ FreshPage.latest = NoSnapshot /\ FreshPage.basis = None
  /\ FreshPage.basisRevision = 0 /\ FreshPage.authoritative = None
<1>1. PICK e : e = [i \in {} |-> 0]
  OBVIOUS
<1>2. << >> = e /\ DOMAIN << >> = {}
  BY <1>1
<1>3. << >> \in Pendings
  <2>1. << >> \in [{} -> Requests] /\ {} \in SUBSET Nat
    BY <1>1, <1>2
  <2> QED BY <2>1, PendingsAre
<1>4. [section \in Sections |-> 0] \in [Sections -> Nat]
  OBVIOUS
<1> QED BY <1>2, <1>3, <1>4, Snapshotted DEF FreshPage, Pages, FormValues, Sections

-----------------------------------------------------------------------------
(* A snapshot is looked at.                                                 *)

SameForm(q, p) ==
  /\ q.form = p.form /\ q.basis = p.basis /\ q.basisRevision = p.basisRevision
  /\ q.applied = p.applied /\ q.revision = p.revision /\ q.authoritative = p.authoritative
SameTyping(q, p) ==
  /\ q.secret = p.secret /\ q.edits = p.edits /\ q.secretEdits = p.secretEdits
  /\ q.lastOf = p.lastOf

Inspected(q, p, s) ==
  /\ q.current = s.epoch
  /\ IF p.current = s.epoch
     THEN q.save = p.save /\ q.retired = p.retired /\ q.latest \in {s, p.latest}
     ELSE q.save = 0 /\ q.retired = p.retired \cup ({p.current} \ {0}) /\ q.latest = s

LEMMA InspectIs ==
  ASSUME NEW p \in Pages, NEW s \in RealSnapshots, NEW q, q = InspectSnapshot(p, s)
  PROVE  /\ q \in Pages /\ SameForm(q, p) /\ SameTyping(q, p) /\ q.pending = p.pending
         /\ IF Known(p, s) THEN Inspected(q, p, s) ELSE q = p
<1>1. CASE ~Known(p, s)
  BY <1>1 DEF InspectSnapshot, SameForm, SameTyping
<1>2. CASE Known(p, s)
  <2>1. PICK w : w = IF s.epoch = p.current THEN p
                     ELSE [p EXCEPT !.retired = @ \cup ({p.current} \ {0}),
                                    !.current = s.epoch, !.latest = NoSnapshot, !.save = 0]
    OBVIOUS
  <2>2. q = [w EXCEPT !.latest = IF s.sequence > @.sequence THEN s ELSE @]
    BY <1>2, <2>1 DEF InspectSnapshot
  <2>3. s.epoch \in Nat /\ s \in Snapshots /\ s.sequence > NoSnapshot.sequence
    BY Snapshotted DEF RealSnapshots
  <2>4. /\ w \in Pages /\ SameForm(w, p) /\ SameTyping(w, p) /\ w.pending = p.pending
        /\ w.current = s.epoch
        /\ IF p.current = s.epoch
           THEN w.save = p.save /\ w.retired = p.retired /\ w.latest = p.latest
           ELSE w.save = 0 /\ w.retired = p.retired \cup ({p.current} \ {0})
                /\ w.latest = NoSnapshot
    <3>1. CASE s.epoch = p.current
      BY <2>1, <3>1 DEF SameForm, SameTyping
    <3>2. CASE s.epoch # p.current
      BY <2>1, <2>3, <3>2, Snapshotted DEF SameForm, SameTyping, Pages
    <3> QED BY <3>1, <3>2
  <2>5. PICK l : l = IF s.sequence > w.latest.sequence THEN s ELSE w.latest
    OBVIOUS
  <2>6. l \in Snapshots /\ q = [w EXCEPT !.latest = l]
    BY <2>2, <2>3, <2>4, <2>5 DEF Pages
  <2>7. /\ q \in Pages /\ SameForm(q, w) /\ SameTyping(q, w) /\ q.pending = w.pending
        /\ q.current = w.current /\ q.save = w.save /\ q.retired = w.retired /\ q.latest = l
    BY <2>4, <2>6 DEF SameForm, SameTyping, Pages
  <2>8. SameForm(q, p) /\ SameTyping(q, p) /\ q.pending = p.pending
    BY <2>4, <2>7 DEF SameForm, SameTyping
  <2>9. Inspected(q, p, s)
    BY <2>3, <2>4, <2>5, <2>7 DEF Inspected
  <2> QED BY <1>2, <2>7, <2>8, <2>9
<1> QED BY <1>1, <1>2

-----------------------------------------------------------------------------
(* A snapshot is applied.                                                   *)

SameRequests(q, p) ==
  /\ q.current = p.current /\ q.retired = p.retired /\ q.latest = p.latest
  /\ q.edits = p.edits /\ q.save = p.save /\ q.secretEdits = p.secretEdits
  /\ q.pending = p.pending /\ q.lastOf = p.lastOf

Filled(a, p, s, secretToo, prefsToo) ==
  /\ a.applied = s.epoch /\ a.revision = s.revision /\ a.authoritative = s.preferences
  /\ a.form = IF prefsToo THEN s.preferences ELSE p.form
  /\ a.secret = IF secretToo THEN 0 ELSE p.secret
  /\ \/ /\ a.basis = s.preferences
        /\ a.basisRevision = IF s.epoch # p.applied THEN s.revision
                             ELSE Later(p.basisRevision, s.revision)
     \/ a.basis = p.basis /\ a.basisRevision = p.basisRevision

LEMMA ApplyPreferencesIs ==
  ASSUME NEW p \in Pages, NEW s \in Snapshots, NEW c \in BOOLEAN,
         NEW a, a = ApplyPreferenceSnapshot(p, s, c)
  PROVE  /\ a \in Pages /\ SameRequests(a, p) /\ a.secret = p.secret
         /\ a.form = IF c THEN s.preferences ELSE p.form
         /\ \/ /\ a.basis = s.preferences
               /\ a.basisRevision = IF s.epoch # p.applied THEN s.revision
                                    ELSE Later(p.basisRevision, s.revision)
            \/ a.basis = p.basis /\ a.basisRevision = p.basisRevision
<1>1. PICK n : n = IF s.epoch # p.applied THEN s.revision
                   ELSE Later(p.basisRevision, s.revision)
  OBVIOUS
<1>2. n \in Nat /\ s.preferences \in FormValues
  BY <1>1, Snapshotted DEF Later, Pages
<1>3. CASE c
  <2>1. a = [p EXCEPT !.form = s.preferences, !.basis = s.preferences, !.basisRevision = n]
    BY <1>1, <1>3 DEF ApplyPreferenceSnapshot
  <2>2. /\ a \in Pages /\ SameRequests(a, p) /\ a.secret = p.secret
        /\ a.form = s.preferences /\ a.basis = s.preferences /\ a.basisRevision = n
    BY <1>2, <2>1, ZenonT(40) DEF Pages, SameRequests
  <2> QED BY <1>1, <1>3, <2>2
<1>4. CASE ~c
  <2>1. PICK m : m = IF s.preferences = p.basis THEN n ELSE p.basisRevision
    OBVIOUS
  <2>2. a = [p EXCEPT !.basisRevision = m]
    BY <1>1, <1>4, <2>1 DEF ApplyPreferenceSnapshot
  <2>3. m \in Nat
    BY <1>2, <2>1 DEF Pages
  <2>4. /\ a \in Pages /\ SameRequests(a, p) /\ a.secret = p.secret
        /\ a.form = p.form /\ a.basis = p.basis /\ a.basisRevision = m
    BY <2>2, <2>3 DEF Pages, SameRequests
  <2> QED BY <1>1, <1>4, <2>1, <2>4
<1> QED BY <1>3, <1>4

LEMMA ApplyIs ==
  ASSUME NEW p \in Pages, NEW s \in Snapshots, NEW b \in BOOLEAN, NEW c \in BOOLEAN,
         NEW a, a = ApplySafeSnapshot(p, s, b, c)
  PROVE  /\ a \in Pages /\ SameRequests(a, p)
         /\ IF Applies(p, s) THEN Filled(a, p, s, b, c) ELSE a = p
<1>1. CASE ~Applies(p, s)
  BY <1>1 DEF ApplySafeSnapshot, SameRequests
<1>2. CASE Applies(p, s)
  <2>1. PICK q : q = ApplyPreferenceSnapshot(p, s, c)
    OBVIOUS
  <2>2. PICK x : x = IF b THEN 0 ELSE q.secret
    OBVIOUS
  <2>3. a = [q EXCEPT !.applied = s.epoch, !.revision = s.revision,
                      !.authoritative = s.preferences, !.secret = x]
    BY <1>2, <2>1, <2>2 DEF ApplySafeSnapshot
  <2>4. q \in Pages /\ SameRequests(q, p) /\ q.secret = p.secret
        /\ q.form = (IF c THEN s.preferences ELSE p.form)
        /\ \/ /\ q.basis = s.preferences
              /\ q.basisRevision = IF s.epoch # p.applied THEN s.revision
                                   ELSE Later(p.basisRevision, s.revision)
           \/ q.basis = p.basis /\ q.basisRevision = p.basisRevision
    BY <2>1, ApplyPreferencesIs
  <2>5. x \in Nat /\ s.epoch \in Nat /\ s.revision \in Nat /\ s.preferences \in FormValues
    BY <2>2, <2>4, Snapshotted DEF Pages
  <2>6. /\ a \in Pages /\ SameRequests(a, q)
        /\ a.applied = s.epoch /\ a.revision = s.revision /\ a.authoritative = s.preferences
        /\ a.secret = x /\ a.form = q.form /\ a.basis = q.basis
        /\ a.basisRevision = q.basisRevision
    <3>1. PICK e, n, v : e = s.epoch /\ n = s.revision /\ v = s.preferences
      OBVIOUS
    <3>2. a = [q EXCEPT !.applied = e, !.revision = n, !.authoritative = v, !.secret = x]
      BY <2>3, <3>1
    <3>3. q \in Pages /\ e \in Nat /\ n \in Nat /\ v \in FormValues /\ x \in Nat
      BY <2>4, <2>5, <3>1
    <3>4. a \in Pages
      BY <3>2, <3>3, ZenonT(40) DEF Pages
    <3>5. /\ SameRequests(a, q) /\ a.applied = e /\ a.revision = n /\ a.authoritative = v
          /\ a.secret = x /\ a.form = q.form /\ a.basis = q.basis
          /\ a.basisRevision = q.basisRevision
      BY <3>2, <3>3 DEF Pages, SameRequests
    <3> QED BY <3>1, <3>4, <3>5
  <2>7. SameRequests(a, p)
    BY <2>4, <2>6 DEF SameRequests
  <2>8. Filled(a, p, s, b, c)
    BY <2>2, <2>4, <2>6 DEF Filled
  <2> QED BY <1>2, <2>6, <2>7, <2>8
<1> QED BY <1>1, <1>2

-----------------------------------------------------------------------------
(* What a page knows of the settings stays true of them.                    *)

LEMMA InspectHeard ==
  ASSUME NEW p \in Pages, NEW s \in RealSnapshots, NEW d, NEW n, NEW e \in Nat,
         Heard(p, d, n, e), News(s, p, d, n, e), NEW q, q = InspectSnapshot(p, s)
  PROVE  Heard(q, d, n, e)
<1>1. CASE ~Known(p, s)
  BY <1>1, InspectIs
<1>2. CASE Known(p, s)
  <2>1. SameForm(q, p) /\ Inspected(q, p, s) /\ s # NoSnapshot
    BY <1>2, InspectIs, Snapshotted
  <2>2. /\ s.epoch = e /\ OfDisk(s, d, n) /\ (p.applied = e \/ p.revision <= s.revision)
        /\ q.current = e
    BY <2>1 DEF News, Inspected
  <2>3. q.latest = s \/ (q.latest = p.latest /\ p.current = e)
    BY <2>1, <2>2 DEF Inspected
  <2>4. HeardLatest(q, d, n)
    BY <2>1, <2>2, <2>3 DEF Heard, HeardLatest, SameForm
  <2>5. HeardEpochs(q, e)
    <3>1. p.current <= e /\ p.current \in Nat /\ \A f \in p.retired : f \in Nat /\ f < p.current
      BY DEF Heard, HeardEpochs, Pages
    <3> QED BY <2>1, <2>2, <3>1 DEF Inspected, HeardEpochs
  <2>6. HeardSettings(q, d, n)
    BY <2>1 DEF Heard, HeardSettings, SameForm
  <2> QED BY <2>4, <2>5, <2>6 DEF Heard
<1> QED BY <1>1, <1>2

(* What is applied is the latest, and not older than what is shown.         *)
LEMMA AppliesNewer ==
  ASSUME NEW p \in Pages, NEW s \in Snapshots, NEW d, NEW n, NEW e, Heard(p, d, n, e),
         Applies(p, s)
  PROVE  /\ s = p.latest /\ s \in RealSnapshots /\ s.epoch = p.current
         /\ OfDisk(s, d, n) /\ p.revision <= s.revision
BY Snapshotted DEF Applies, Heard, HeardLatest, Pages

LEMMA ApplyHeard ==
  ASSUME NEW p \in Pages, NEW s \in Snapshots, NEW b \in BOOLEAN, NEW c \in BOOLEAN,
         NEW d \in SettingsValues, NEW n \in Nat, NEW e, Heard(p, d, n, e),
         NEW a, a = ApplySafeSnapshot(p, s, b, c)
  PROVE  Heard(a, d, n, e)
<1>1. CASE ~Applies(p, s)
  BY <1>1, ApplyIs
<1>2. CASE Applies(p, s)
  <2>1. SameRequests(a, p) /\ Filled(a, p, s, b, c)
    BY <1>2, ApplyIs
  <2>2. /\ s = p.latest /\ s \in RealSnapshots /\ s.epoch = p.current
        /\ OfDisk(s, d, n) /\ p.revision <= s.revision
    BY <1>2, AppliesNewer
  <2>3. HeardLatest(a, d, n) /\ HeardEpochs(a, e)
    BY <2>1, <2>2 DEF Heard, HeardLatest, HeardEpochs, SameRequests, Filled
  <2>4. HeardSettings(a, d, n)
    <3>1. p.basisRevision \in Nat /\ p.revision \in Nat /\ p.basisRevision <= p.revision
      BY DEF Heard, HeardSettings, Pages
    <3>2. s.revision \in Nat /\ Later(p.basisRevision, s.revision) = s.revision
      BY <2>2, <3>1 DEF Later, RealSnapshots
    <3>3. s.revision <= n /\ (s.revision = d.revision => s.preferences = d.preferences)
      BY <2>2 DEF OfDisk
    <3>4. \/ a.basis = s.preferences /\ a.basisRevision = s.revision
          \/ a.basis = p.basis /\ a.basisRevision = p.basisRevision
      BY <2>1, <3>2 DEF Filled
    <3>5. a.revision = s.revision /\ a.authoritative = s.preferences
      BY <2>1 DEF Filled
    <3> QED BY <2>2, <3>1, <3>2, <3>3, <3>4, <3>5 DEF Heard, HeardSettings
  <2> QED BY <2>3, <2>4 DEF Heard
<1> QED BY <1>1, <1>2

(* Neither requests nor what is typed matters to that.                      *)
LEMMA SameHeard ==
  ASSUME NEW p, NEW q, NEW d, NEW n, NEW e, Heard(p, d, n, e), SameForm(q, p),
         q.current = p.current, q.retired = p.retired, q.latest = p.latest
  PROVE  Heard(q, d, n, e)
BY DEF Heard, HeardLatest, HeardEpochs, HeardSettings, SameForm

-----------------------------------------------------------------------------
(* An answer is taken from the list of what the page waits for.             *)

Forget(p, id) == [p EXCEPT !.pending = [i \in DOMAIN @ \ {id} |-> @[i]]]

Forgotten(q, p, id) ==
  /\ DOMAIN q.pending = DOMAIN p.pending \ {id}
  /\ \A i \in DOMAIN q.pending : q.pending[i] = p.pending[i]

LEMMA ForgetIs ==
  ASSUME NEW p \in Pages, NEW id, NEW q, q = Forget(p, id)
  PROVE  /\ q \in Pages /\ SameForm(q, p) /\ SameTyping(q, p) /\ Forgotten(q, p, id)
         /\ q.current = p.current /\ q.retired = p.retired /\ q.latest = p.latest
         /\ q.save = p.save
<1>1. PICK f : f = [i \in DOMAIN p.pending \ {id} |-> p.pending[i]]
  OBVIOUS
<1>2. q = [p EXCEPT !.pending = f]
  BY <1>1 DEF Forget
<1>3. p.pending \in Pendings
  BY DEF Pages
<1>4. f \in Pendings /\ DOMAIN f = DOMAIN p.pending \ {id}
      /\ \A i \in DOMAIN f : f[i] = p.pending[i]
  <2>1. DOMAIN p.pending \ {id} \in SUBSET Nat
        /\ f \in [DOMAIN p.pending \ {id} -> Requests]
    BY <1>1, <1>3, PendingsAre
  <2>2. f \in Pendings
    BY <2>1, PendingsAre
  <2> QED BY <1>1, <2>2
<1>5. q.pending = f
  BY <1>2 DEF Pages
<1>6. /\ q \in Pages /\ SameForm(q, p) /\ SameTyping(q, p)
      /\ q.current = p.current /\ q.retired = p.retired /\ q.latest = p.latest
      /\ q.save = p.save
  BY <1>2, <1>4 DEF SameForm, SameTyping, Pages
<1> QED BY <1>4, <1>5, <1>6 DEF Forgotten

-----------------------------------------------------------------------------
(* A command is answered.                                                   *)

(* What the answer to a request may do to the page: apply a snapshot, to    *)
(* the controls if they show what was saved or may be filled, and take away *)
(* the secret that was stored or that nobody typed.                         *)
Answering(a, p, r, ok) ==
  \E t \in Snapshots, b, c, x, y \in BOOLEAN, f \in Pages :
    /\ f = ApplySafeSnapshot(p, t, b, c)
    /\ a = [f EXCEPT !.edits = IF x THEN 0 ELSE @, !.secretEdits = IF y THEN 0 ELSE @]
    /\ x => c /\ r.type = "preferences/save" /\ ok /\ r.edits = p.edits /\ Applies(p, t)
    /\ c => x \/ (r.type = "settings/request" /\ CanHydrate(p))
    /\ y => /\ b /\ r.type \in {"credentials/save", "credentials/clear"} /\ ok
            /\ r.secretEdits = p.secretEdits /\ Applies(p, t)
    /\ b => y \/ (r.type = "settings/request" /\ r.secretEdits = p.secretEdits)

LEMMA AppliedAnswers ==
  ASSUME NEW p \in Pages, NEW r \in Requests, NEW ok \in BOOLEAN, NEW t \in Snapshots,
         NEW b \in BOOLEAN, NEW c \in BOOLEAN,
         c => r.type = "settings/request" /\ CanHydrate(p),
         b => r.type = "settings/request" /\ r.secretEdits = p.secretEdits,
         NEW a, a = ApplySafeSnapshot(p, t, b, c)
  PROVE  Answering(a, p, r, ok)
<1>1. a \in Pages
  BY ApplyIs
<1>2. a = [a EXCEPT !.edits = IF FALSE THEN 0 ELSE @, !.secretEdits = IF FALSE THEN 0 ELSE @]
  BY <1>1 DEF Pages
<1> QED BY <1>1, <1>2, ZenonT(40) DEF Answering

LEMMA SectionAnsweredIs ==
  ASSUME NEW p \in Pages, NEW r \in Requests, NEW s \in RealSnapshots, NEW ok \in BOOLEAN,
         NEW a, a = SectionAnswered(p, r, s, ok)
  PROVE  Answering(a, p, r, ok)
<1>1. r.type \in CommandTypes /\ s \in Snapshots /\ CanHydrate(p) \in BOOLEAN
  BY Snapshotted DEF Requests, CanHydrate, Dirty
<1>2. PICK newest : newest = NewestOf(p, s)
  OBVIOUS
<1>3. newest \in Snapshots
  BY <1>1, <1>2 DEF NewestOf, Pages
<1>4. CASE a = ApplySafeSnapshot(p, s, FALSE, FALSE)
  BY <1>1, <1>4, AppliedAnswers
<1>5. CASE SectionOf[r.type] = "credentials"
  <2>1. a = CredentialsAnswered(p, r, s, ok)
    BY <1>5 DEF SectionAnswered
  <2>2. CASE ok /\ r.secretEdits = p.secretEdits /\ Applies(p, newest)
    <3>1. PICK f : f = ApplySafeSnapshot(p, newest, TRUE, FALSE)
      OBVIOUS
    <3>2. f \in Pages /\ a = [f EXCEPT !.secretEdits = 0]
      BY <1>2, <1>3, <2>1, <2>2, <3>1, ApplyIs DEF CredentialsAnswered
    <3>3. a = [f EXCEPT !.edits = IF FALSE THEN 0 ELSE @,
                        !.secretEdits = IF TRUE THEN 0 ELSE @]
      BY <3>2 DEF Pages
    <3>4. r.type \in {"credentials/save", "credentials/clear"}
      BY <1>1, <1>5, SectionTypes
    <3> QED BY <1>3, <2>2, <3>1, <3>2, <3>3, <3>4 DEF Answering
  <2>3. CASE ~(ok /\ r.secretEdits = p.secretEdits /\ Applies(p, newest))
    BY <1>2, <1>4, <2>1, <2>3 DEF CredentialsAnswered
  <2> QED BY <2>2, <2>3
<1>6. CASE SectionOf[r.type] = "advanced"
  <2>1. a = PreferencesAnswered(p, r, s, ok)
    BY <1>6 DEF SectionAnswered
  <2>2. CASE ok /\ r.edits = p.edits /\ r.submitted = s.preferences /\ Applies(p, newest)
    <3>1. PICK f : f = ApplySafeSnapshot(p, newest, FALSE, TRUE)
      OBVIOUS
    <3>2. f \in Pages /\ a = [f EXCEPT !.edits = 0]
      BY <1>2, <1>3, <2>1, <2>2, <3>1, ApplyIs DEF PreferencesAnswered
    <3>3. a = [f EXCEPT !.edits = IF TRUE THEN 0 ELSE @,
                        !.secretEdits = IF FALSE THEN 0 ELSE @]
      BY <3>2 DEF Pages
    <3>4. r.type = "preferences/save"
      BY <1>1, <1>6, SectionTypes
    <3> QED BY <1>3, <2>2, <3>1, <3>2, <3>3, <3>4 DEF Answering
  <2>3. CASE ~(ok /\ r.edits = p.edits /\ r.submitted = s.preferences /\ Applies(p, newest))
    BY <1>2, <1>4, <2>1, <2>3 DEF PreferencesAnswered
  <2> QED BY <2>2, <2>3
<1>7. CASE SectionOf[r.type] = "settings"
  <2>1. a = ApplySafeSnapshot(p, s, r.secretEdits = p.secretEdits, CanHydrate(p))
    BY <1>7 DEF SectionAnswered
  <2>2. r.type = "settings/request"
    BY <1>1, <1>7, SectionTypes
  <2> QED BY <1>1, <2>1, <2>2, AppliedAnswers, ZenonT(40)
<1>8. CASE SectionOf[r.type] \notin {"credentials", "advanced", "settings"}
  BY <1>4, <1>8 DEF SectionAnswered
<1> QED BY <1>5, <1>6, <1>7, <1>8

(* What an answered page keeps, and what it may lose.                       *)
AnsweredKeeps(a, p, r, ok) ==
  /\ a.current = p.current /\ a.retired = p.retired /\ a.latest = p.latest
  /\ a.save = p.save /\ a.pending = p.pending /\ a.lastOf = p.lastOf
  /\ a.edits # p.edits \/ a.form # p.form =>
       \/ /\ r.type = "preferences/save" /\ ok /\ r.edits = p.edits
       \/ CanHydrate(p) /\ a.edits = p.edits /\ a.form = a.authoritative
  /\ a.edits \in {0, p.edits}
  /\ \/ a.secret = p.secret /\ a.secretEdits = p.secretEdits
     \/ /\ r.type \in {"credentials/save", "credentials/clear"} /\ ok
        /\ r.secretEdits = p.secretEdits /\ a.secret = 0 /\ a.secretEdits = 0
     \/ /\ r.type = "settings/request" /\ r.secretEdits = p.secretEdits
        /\ a.secret = 0 /\ a.secretEdits = p.secretEdits

LEMMA AnsweringKeeps ==
  ASSUME NEW p \in Pages, NEW r \in Requests, NEW ok \in BOOLEAN,
         NEW a, Answering(a, p, r, ok)
  PROVE  a \in Pages /\ AnsweredKeeps(a, p, r, ok)
<1>1. PICK t \in Snapshots, b, c, x, y \in BOOLEAN, f \in Pages :
        /\ f = ApplySafeSnapshot(p, t, b, c)
        /\ a = [f EXCEPT !.edits = IF x THEN 0 ELSE @, !.secretEdits = IF y THEN 0 ELSE @]
        /\ x => c /\ r.type = "preferences/save" /\ ok /\ r.edits = p.edits /\ Applies(p, t)
        /\ c => x \/ (r.type = "settings/request" /\ CanHydrate(p))
        /\ y => /\ b /\ r.type \in {"credentials/save", "credentials/clear"} /\ ok
                /\ r.secretEdits = p.secretEdits /\ Applies(p, t)
        /\ b => y \/ (r.type = "settings/request" /\ r.secretEdits = p.secretEdits)
  BY DEF Answering
<1>2. PICK u, v : u = (IF x THEN 0 ELSE f.edits) /\ v = (IF y THEN 0 ELSE f.secretEdits)
  OBVIOUS
<1>3. u \in Nat /\ v \in Nat /\ a = [f EXCEPT !.edits = u, !.secretEdits = v]
  BY <1>1, <1>2 DEF Pages
<1>4. /\ a \in Pages /\ SameForm(a, f) /\ a.secret = f.secret /\ a.edits = u /\ a.secretEdits = v
      /\ a.current = f.current /\ a.retired = f.retired /\ a.latest = f.latest
      /\ a.save = f.save /\ a.pending = f.pending /\ a.lastOf = f.lastOf
  BY <1>3 DEF Pages, SameForm
<1>5. SameRequests(f, p) /\ IF Applies(p, t) THEN Filled(f, p, t, b, c) ELSE f = p
  BY <1>1, ApplyIs
<1>6. CASE ~Applies(p, t)
  BY <1>1, <1>2, <1>4, <1>5, <1>6 DEF AnsweredKeeps, SameForm
<1>7. CASE Applies(p, t)
  <2>1. /\ f.form = (IF c THEN t.preferences ELSE p.form) /\ f.authoritative = t.preferences
        /\ f.secret = IF b THEN 0 ELSE p.secret
    BY <1>5, <1>7 DEF Filled
  <2>2. /\ a.current = p.current /\ a.retired = p.retired /\ a.latest = p.latest
        /\ a.save = p.save /\ a.pending = p.pending /\ a.lastOf = p.lastOf
        /\ f.edits = p.edits /\ f.secretEdits = p.secretEdits
    BY <1>4, <1>5 DEF SameRequests
  <2> QED BY <1>1, <1>2, <1>4, <2>1, <2>2 DEF AnsweredKeeps, SameForm
<1> QED BY <1>4, <1>6, <1>7

LEMMA AnsweringHeard ==
  ASSUME NEW p \in Pages, NEW r, NEW ok, NEW a, Answering(a, p, r, ok),
         NEW d \in SettingsValues, NEW n \in Nat, NEW e, Heard(p, d, n, e)
  PROVE  Heard(a, d, n, e)
<1>1. PICK t \in Snapshots, b, c, x, y \in BOOLEAN, f \in Pages :
        /\ f = ApplySafeSnapshot(p, t, b, c)
        /\ a = [f EXCEPT !.edits = IF x THEN 0 ELSE @, !.secretEdits = IF y THEN 0 ELSE @]
        /\ x => c /\ r.type = "preferences/save" /\ ok /\ r.edits = p.edits /\ Applies(p, t)
        /\ c => x \/ (r.type = "settings/request" /\ CanHydrate(p))
        /\ y => /\ b /\ r.type \in {"credentials/save", "credentials/clear"} /\ ok
                /\ r.secretEdits = p.secretEdits /\ Applies(p, t)
        /\ b => y \/ (r.type = "settings/request" /\ r.secretEdits = p.secretEdits)
  BY DEF Answering
<1>2. Heard(f, d, n, e)
  BY <1>1, ApplyHeard
<1>3. /\ SameForm(a, f) /\ a.current = f.current /\ a.retired = f.retired
      /\ a.latest = f.latest
  BY <1>1 DEF SameForm, Pages
<1> QED BY <1>2, <1>3, SameHeard

-----------------------------------------------------------------------------
(* What messages do to the page.                                            *)

(* What is shown does not get older, and is not forgotten.                  *)
Grown(a, p) ==
  p.revision <= a.revision /\ (p.authoritative # None => a.authoritative # None)

LEMMA ApplyGrows ==
  ASSUME NEW p \in Pages, NEW s \in Snapshots, NEW b \in BOOLEAN, NEW c \in BOOLEAN,
         NEW d, NEW n, NEW e, Heard(p, d, n, e), NEW a, a = ApplySafeSnapshot(p, s, b, c)
  PROVE  Grown(a, p)
<1>1. CASE ~Applies(p, s)
  BY <1>1, ApplyIs DEF Grown, Pages
<1>2. CASE Applies(p, s)
  BY <1>2, ApplyIs, AppliesNewer, Snapshotted, PreferencesAssumption DEF Grown, Filled
<1> QED BY <1>1, <1>2

(* What is applied is of the present epoch.                                 *)
Dated(a, p, e) == (a.applied = p.applied /\ a.revision = p.revision) \/ a.applied = e

LEMMA ApplyDated ==
  ASSUME NEW p \in Pages, NEW s \in Snapshots, NEW b \in BOOLEAN, NEW c \in BOOLEAN,
         NEW d, NEW n, NEW e, Heard(p, d, n, e), p.current = e \/ ~Applies(p, s),
         NEW a, a = ApplySafeSnapshot(p, s, b, c)
  PROVE  Dated(a, p, e)
BY ApplyIs, AppliesNewer DEF Dated, Filled

LEMMA AnsweringGrows ==
  ASSUME NEW p \in Pages, NEW r, NEW ok, NEW a, Answering(a, p, r, ok),
         NEW d, NEW n, NEW e, Heard(p, d, n, e)
  PROVE  Grown(a, p) /\ (p.current = e => Dated(a, p, e))
<1>1. PICK t \in Snapshots, b, c, x, y \in BOOLEAN, f \in Pages :
        /\ f = ApplySafeSnapshot(p, t, b, c)
        /\ a = [f EXCEPT !.edits = IF x THEN 0 ELSE @, !.secretEdits = IF y THEN 0 ELSE @]
        /\ x => c /\ r.type = "preferences/save" /\ ok /\ r.edits = p.edits /\ Applies(p, t)
        /\ c => x \/ (r.type = "settings/request" /\ CanHydrate(p))
        /\ y => /\ b /\ r.type \in {"credentials/save", "credentials/clear"} /\ ok
                /\ r.secretEdits = p.secretEdits /\ Applies(p, t)
        /\ b => y \/ (r.type = "settings/request" /\ r.secretEdits = p.secretEdits)
  BY DEF Answering
<1>2. Grown(f, p) /\ (p.current = e => Dated(f, p, e))
  BY <1>1, ApplyGrows, ApplyDated
<1>3. a.revision = f.revision /\ a.authoritative = f.authoritative /\ a.applied = f.applied
  BY <1>1 DEF Pages
<1> QED BY <1>2, <1>3 DEF Grown, Dated

(* An update leaves what the page waits for, and the controls unless they   *)
(* may be filled.                                                           *)
Updated(a, p) ==
  /\ a.edits = p.edits /\ a.secretEdits = p.secretEdits
  /\ a.pending = p.pending /\ a.lastOf = p.lastOf
  /\ a.secret # p.secret => p.secretEdits = 0 /\ a.secret = 0
  /\ \/ a.form = p.form /\ a.authoritative = p.authoritative
     \/ a.form = IF CanHydrate(p) THEN a.authoritative ELSE p.form
  /\ a.save \in {0, p.save} /\ (a.save # 0 => a.current = p.current)
  /\ Grown(a, p)

LEMMA ApplySnapshotUpdates ==
  ASSUME NEW p \in Pages, NEW s \in RealSnapshots, NEW b \in BOOLEAN, b => p.secretEdits = 0,
         NEW d \in SettingsValues, NEW n \in Nat, NEW e \in Nat,
         Heard(p, d, n, e), News(s, p, d, n, e),
         NEW a, a = ApplySnapshot(p, s, b, CanHydrate(p))
  PROVE  a \in Pages /\ Heard(a, d, n, e) /\ Updated(a, p) /\ Dated(a, p, e)
<1>1. PICK q : q = InspectSnapshot(p, s)
  OBVIOUS
<1>2. /\ q \in Pages /\ SameForm(q, p) /\ SameTyping(q, p) /\ q.pending = p.pending
      /\ IF Known(p, s) THEN Inspected(q, p, s) ELSE q = p
  BY <1>1, InspectIs
<1>3. Heard(q, d, n, e)
  BY <1>1, InspectHeard
<1>4. s \in Snapshots /\ CanHydrate(p) \in BOOLEAN
  BY Snapshotted DEF CanHydrate, Dirty
<1>5. a = ApplySafeSnapshot(q, s, b, CanHydrate(p))
  BY <1>1 DEF ApplySnapshot
<1>6. /\ a \in Pages /\ SameRequests(a, q)
      /\ IF Applies(q, s) THEN Filled(a, q, s, b, CanHydrate(p)) ELSE a = q
  BY <1>2, <1>4, <1>5, ApplyIs
<1>7. Heard(a, d, n, e) /\ Grown(a, q)
  BY <1>2, <1>3, <1>4, <1>5, ApplyHeard, ApplyGrows
<1>8. Grown(a, p)
  BY <1>2, <1>7 DEF Grown, SameForm
<1>9. a.save \in {0, p.save} /\ (a.save # 0 => a.current = p.current)
  BY <1>2, <1>6 DEF SameRequests, Inspected
<1>10. /\ a.edits = p.edits /\ a.secretEdits = p.secretEdits
       /\ a.pending = p.pending /\ a.lastOf = p.lastOf
  BY <1>2, <1>6 DEF SameRequests, SameTyping
<1>11. /\ a.secret # p.secret => p.secretEdits = 0 /\ a.secret = 0
       /\ \/ a.form = p.form /\ a.authoritative = p.authoritative
          \/ a.form = IF CanHydrate(p) THEN a.authoritative ELSE p.form
  BY <1>2, <1>6 DEF SameForm, SameTyping, Filled
<1>12. Dated(a, p, e)
  <2>1. q.current = e \/ ~Applies(q, s)
    <3>1. CASE Known(p, s)
      BY <1>2, <3>1, Snapshotted DEF Inspected, News
    <3>2. CASE ~Known(p, s)
      BY <1>2, <3>2, Snapshotted DEF Known, Applies, News, Heard, HeardEpochs, HeardLatest, Pages
    <3> QED BY <3>1, <3>2
  <2>2. Dated(a, q, e)
    BY <1>2, <1>3, <1>4, <1>5, <2>1, ApplyDated
  <2> QED BY <1>2, <2>2 DEF Dated, SameForm
<1> QED BY <1>6, <1>7, <1>8, <1>9, <1>10, <1>11, <1>12 DEF Updated

(* An answer ends the wait for it, and does what such an answer may do if   *)
(* nothing of the kind was asked since.                                     *)
SameTyped(a, p) ==
  a.form = p.form /\ a.edits = p.edits /\ a.secret = p.secret /\ a.secretEdits = p.secretEdits

Allowed(a, p, r, ok) ==
  /\ a.edits # p.edits \/ a.form # p.form =>
       \/ /\ r.type = "preferences/save" /\ ok /\ r.edits = p.edits
       \/ /\ a.edits = p.edits
          /\ p.form = p.authoritative \/ (p.authoritative = None /\ p.edits = 0)
  /\ a.edits \in {0, p.edits}
  /\ \/ a.secret = p.secret /\ a.secretEdits = p.secretEdits
     \/ /\ r.type \in {"credentials/save", "credentials/clear"} /\ ok
        /\ r.secretEdits = p.secretEdits /\ a.secret = 0 /\ a.secretEdits = 0
     \/ /\ r.type = "settings/request" /\ r.secretEdits = p.secretEdits
        /\ a.secret = 0 /\ a.secretEdits = p.secretEdits

Taken(a, p, id, ok) ==
  /\ Forgotten(a, p, id) /\ a.lastOf = p.lastOf /\ Grown(a, p)
  /\ a.save \in {0, p.save} /\ (a.save # 0 => a.current = p.current /\ a.save # id)
  /\ \/ SameTyped(a, p)
     \/ /\ p.lastOf[SectionOf[p.pending[id].type]] = id
        /\ Allowed(a, p, p.pending[id], ok)

LEMMA AnsweredTaken ==
  ASSUME NEW p \in Pages, NEW m, m.id \in DOMAIN p.pending, m.ok \in BOOLEAN,
         m.snapshot \in Snapshots, NEW d \in SettingsValues, NEW n \in Nat, NEW e \in Nat,
         Heard(p, d, n, e), News(m.snapshot, p, d, n, e), SaveIsLast(p),
         NEW z, z = Answered(p, m)
  PROVE  /\ z \in Pages /\ Heard(z, d, n, e) /\ Dated(z, p, e)
         /\ IF Outdated(p, p.pending[m.id], m.snapshot) THEN z = p ELSE Taken(z, p, m.id, m.ok)
<1> DEFINE request == p.pending[m.id]
           s == m.snapshot
<1>1. CASE Outdated(p, request, s)
  BY <1>1 DEF Answered, Dated
<1>2. CASE ~Outdated(p, request, s)
  <2>1. PICK q : q = IF s = NoSnapshot THEN p ELSE InspectSnapshot(p, s)
    OBVIOUS
  <2>2. PICK r : r = Forget(q, m.id)
    OBVIOUS
  <2>3. PICK a : a = IF s = NoSnapshot THEN r ELSE SectionAnswered(r, request, s, m.ok)
    OBVIOUS
  <2>4. z = IF q.lastOf[SectionOf[request.type]] # m.id THEN r
            ELSE [a EXCEPT !.save = IF @ = m.id THEN 0 ELSE @]
    BY <1>2, <2>1, <2>2, <2>3, Zenon DEF Answered, Forget
  <2>5. /\ q \in Pages /\ SameForm(q, p) /\ SameTyping(q, p) /\ q.pending = p.pending
        /\ q.save \in {0, p.save} /\ (q.save # 0 => q.current = p.current)
        /\ Heard(q, d, n, e) /\ (s = NoSnapshot \/ q.current = e)
    <3>1. CASE s = NoSnapshot
      BY <2>1, <3>1 DEF SameForm, SameTyping
    <3>2. CASE s # NoSnapshot
      <4>1. s \in RealSnapshots /\ q = InspectSnapshot(p, s)
        BY <2>1, <3>2, Snapshotted
      <4>2. Heard(q, d, n, e)
        BY <4>1, InspectHeard
      <4>3. q.current = e
        BY <1>2, <3>2, <4>1, InspectIs DEF Outdated, Inspected, News
      <4> QED BY <4>1, <4>2, <4>3, InspectIs DEF Inspected
    <3> QED BY <3>1, <3>2
  <2>6. /\ r \in Pages /\ SameForm(r, q) /\ SameTyping(r, q) /\ Forgotten(r, q, m.id)
        /\ r.current = q.current /\ r.retired = q.retired /\ r.latest = q.latest
        /\ r.save = q.save
    BY <2>2, <2>5, ForgetIs
  <2>7. Heard(r, d, n, e)
    BY <2>5, <2>6, SameHeard
  <2>8. /\ SameForm(r, p) /\ SameTyping(r, p) /\ Forgotten(r, p, m.id)
        /\ r.save \in {0, p.save} /\ (r.save # 0 => r.current = p.current)
    BY <2>5, <2>6 DEF SameForm, SameTyping, Forgotten
  <2>9. request \in Requests
    BY PendingsAre DEF Pages
  <2>10. CASE q.lastOf[SectionOf[request.type]] # m.id
    <3>1. z = r
      BY <2>4, <2>10
    <3>2. p.lastOf[SectionOf[request.type]] # m.id
      BY <2>5, <2>10 DEF SameTyping
    <3>3. p.save # 0 => p.save # m.id
      <4>1. SectionOf["preferences/save"] = "advanced"
        BY SectionTypes DEF CommandTypes
      <4> QED BY <3>2, <4>1 DEF SaveIsLast
    <3>4. Grown(r, p) /\ SameTyped(r, p) /\ r.lastOf = p.lastOf
      BY <2>8 DEF Grown, SameTyped, SameForm, SameTyping, Pages
    <3>5. Taken(z, p, m.id, m.ok)
      BY <2>8, <3>1, <3>3, <3>4 DEF Taken
    <3>6. Dated(z, p, e)
      BY <2>8, <3>1 DEF Dated, SameForm
    <3> QED BY <1>2, <2>6, <2>7, <3>1, <3>5, <3>6
  <2>11. CASE q.lastOf[SectionOf[request.type]] = m.id
    <3>1. z = [a EXCEPT !.save = IF @ = m.id THEN 0 ELSE @]
      BY <2>4, <2>11
    <3>2. /\ a \in Pages /\ AnsweredKeeps(a, r, request, m.ok) /\ Heard(a, d, n, e)
          /\ Grown(a, r) /\ Dated(a, r, e)
      <4>1. CASE s = NoSnapshot
        BY <2>3, <2>6, <2>7, <4>1 DEF AnsweredKeeps, Grown, Dated, Pages
      <4>2. CASE s # NoSnapshot
        <5>1. s \in RealSnapshots
          BY <4>2, Snapshotted
        <5>2. Answering(a, r, request, m.ok)
          BY <2>3, <2>6, <2>9, <4>2, <5>1, SectionAnsweredIs
        <5>3. r.current = e
          BY <2>5, <2>6, <4>2
        <5> QED BY <2>6, <2>7, <2>9, <5>2, <5>3, AnsweringKeeps, AnsweringHeard, AnsweringGrows
      <4> QED BY <4>1, <4>2
    <3>3. PICK v : v = IF a.save = m.id THEN 0 ELSE a.save
      OBVIOUS
    <3>4. z = [a EXCEPT !.save = v] /\ v \in Nat
      BY <3>1, <3>2, <3>3 DEF Pages
    <3>5. /\ z \in Pages /\ SameForm(z, a) /\ SameTyping(z, a) /\ z.save = v
          /\ z.current = a.current /\ z.retired = a.retired /\ z.latest = a.latest
          /\ z.pending = a.pending
      BY <3>2, <3>4 DEF Pages, SameForm, SameTyping
    <3>6. Heard(z, d, n, e)
      BY <3>2, <3>5, SameHeard
    <3>7. Forgotten(z, p, m.id) /\ z.lastOf = p.lastOf
      BY <2>8, <3>2, <3>5 DEF Forgotten, AnsweredKeeps, SameTyping
    <3>8. Grown(z, p)
      BY <2>8, <3>2, <3>5 DEF Grown, SameForm
    <3>9. z.save \in {0, p.save} /\ (z.save # 0 => z.current = p.current /\ z.save # m.id)
      BY <2>8, <3>2, <3>3, <3>5 DEF AnsweredKeeps
    <3>10. Allowed(z, p, request, m.ok)
      <4>1. CanHydrate(r) => p.form = p.authoritative \/ (p.authoritative = None /\ p.edits = 0)
        BY <2>8 DEF CanHydrate, Dirty, SameForm, SameTyping
      <4> QED BY <2>8, <3>2, <3>5, <4>1 DEF Allowed, AnsweredKeeps, SameForm, SameTyping
    <3>11. p.lastOf[SectionOf[request.type]] = m.id
      BY <2>5, <2>11 DEF SameTyping
    <3>12. Dated(z, p, e)
      BY <2>8, <3>2, <3>5 DEF Dated, SameForm
    <3> QED BY <1>2, <3>5, <3>6, <3>7, <3>8, <3>9, <3>10, <3>11, <3>12 DEF Taken
  <2> QED BY <2>10, <2>11
<1> QED BY <1>1, <1>2

(* The messages of the plugin.                                              *)
Message(m) ==
  /\ m.type \in {"answer", "settings/update", "diagnostics/update"}
  /\ IF m.type = "answer" THEN m.snapshot \in Snapshots /\ m.ok \in BOOLEAN
     ELSE m.snapshot \in RealSnapshots

Expected(m, p) == m.type = "answer" /\ m.id \in DOMAIN p.pending

LEMMA MessageHandled ==
  ASSUME NEW p \in Pages, NEW m, Message(m), NEW d \in SettingsValues, NEW n \in Nat,
         NEW e \in Nat, Heard(p, d, n, e), News(m.snapshot, p, d, n, e), SaveIsLast(p),
         NEW z, z = HandleMessage(p, m)
  PROVE  /\ z \in Pages /\ Heard(z, d, n, e) /\ Dated(z, p, e)
         /\ IF Expected(m, p)
            THEN IF Outdated(p, p.pending[m.id], m.snapshot) THEN z = p
                 ELSE Taken(z, p, m.id, m.ok)
            ELSE Updated(z, p)
<1>1. CASE Expected(m, p)
  <2>1. z = Answered(p, m)
    BY <1>1 DEF HandleMessage, Expected
  <2> QED BY <1>1, <2>1, AnsweredTaken DEF Message, Expected
<1>2. CASE ~Expected(m, p)
  <2>1. (p.secretEdits = 0) \in BOOLEAN
    OBVIOUS
  <2>2. CASE m.snapshot = NoSnapshot
    <3>1. z = p
      BY <1>2, <2>2, Snapshotted DEF HandleMessage, Expected, Message
    <3> QED BY <1>2, <3>1 DEF Updated, Grown, Dated, Pages
  <2>3. CASE m.snapshot # NoSnapshot
    <3>1. m.snapshot \in RealSnapshots
      BY <2>3, Snapshotted DEF Message
    <3>2. \/ z = ApplySnapshot(p, m.snapshot, FALSE, CanHydrate(p))
          \/ z = ApplySnapshot(p, m.snapshot, p.secretEdits = 0, CanHydrate(p))
      BY <1>2, <2>3 DEF HandleMessage, Expected, Message
    <3>3. CASE z = ApplySnapshot(p, m.snapshot, FALSE, CanHydrate(p))
      BY <1>2, <3>1, <3>3, ApplySnapshotUpdates
    <3>4. CASE z = ApplySnapshot(p, m.snapshot, p.secretEdits = 0, CanHydrate(p))
      BY <1>2, <2>1, <3>1, <3>4, ApplySnapshotUpdates
    <3> QED BY <3>2, <3>3, <3>4
  <2> QED BY <2>2, <2>3
<1> QED BY <1>1, <1>2

(* What a page waits for and what was typed into it, after a message.       *)
LEMMA UpdatedRequested ==
  ASSUME NEW p \in Pages, NEW z \in Pages, Requested(p), Updated(z, p)
  PROVE  Requested(z)
<1>1. SaveIsLast(z)
  BY DEF Requested, SaveIsLast, Updated
<1>2. SecretsTyped(z)
  <2>1. z.secret = p.secret /\ z.secretEdits = p.secretEdits
    BY DEF Requested, SecretsTyped, Updated
  <2> QED BY <2>1 DEF Requested, SecretsTyped, Updated
<1>3. EditsCounted(z)
  BY DEF Requested, EditsCounted, Updated, Grown
<1> QED BY <1>1, <1>2, <1>3 DEF Requested

LEMMA TakenRequested ==
  ASSUME NEW p \in Pages, NEW z \in Pages, NEW id \in DOMAIN p.pending, NEW ok,
         Requested(p), Taken(z, p, id, ok)
  PROVE  Requested(z)
<1> DEFINE r == p.pending[id]
<1>1. SaveIsLast(z)
  BY DEF Requested, SaveIsLast, Taken, Forgotten
<1>2. r.type \in CommandTypes
  BY PendingsAre DEF Pages, Requests
<1>3. SecretsTyped(z)
  <2>1. /\ z.secretEdits = 0 => z.secret = 0
        /\ \/ z.secret = p.secret /\ z.secretEdits = p.secretEdits
           \/ p.lastOf["credentials"] = id
    <3>1. CASE SameTyped(z, p)
      BY <3>1 DEF SameTyped, Requested, SecretsTyped
    <3>2. CASE p.lastOf[SectionOf[r.type]] = id /\ Allowed(z, p, r, ok)
      <4>1. CASE z.secret = p.secret /\ z.secretEdits = p.secretEdits
        BY <4>1 DEF Requested, SecretsTyped
      <4>2. CASE r.type \in {"credentials/save", "credentials/clear"} /\ z.secret = 0
        BY <1>2, <3>2, <4>2, SectionTypes
      <4>3. CASE /\ r.type = "settings/request" /\ r.secretEdits = p.secretEdits
                 /\ z.secret = 0 /\ z.secretEdits = p.secretEdits
        BY <4>3 DEF Requested, SecretsTyped
      <4> QED BY <3>2, <4>1, <4>2, <4>3 DEF Allowed
    <3> QED BY <3>1, <3>2 DEF Taken
  <2> QED BY <2>1 DEF Requested, SecretsTyped, Taken, Forgotten
<1>4. EditsCounted(z)
  <2>1. z.edits = p.edits \/ p.lastOf["advanced"] = id
    <3>1. CASE SameTyped(z, p)
      BY <3>1 DEF SameTyped
    <3>2. CASE p.lastOf[SectionOf[r.type]] = id /\ Allowed(z, p, r, ok)
      BY <1>2, <3>2, SectionTypes DEF Allowed
    <3> QED BY <3>1, <3>2 DEF Taken
  <2> QED BY <2>1 DEF Requested, EditsCounted, Taken, Forgotten, Grown
<1> QED BY <1>1, <1>3, <1>4 DEF Requested

-----------------------------------------------------------------------------
(* What is said of commands stays true while messages come and settings     *)
(* change.                                                                  *)

LEMMA NewsKept ==
  ASSUME NEW s \in Snapshots, NEW p \in Pages, NEW z \in Pages, NEW d, NEW n, NEW e,
         News(s, p, d, n, e), Dated(z, p, e)
  PROVE  News(s, z, d, n, e)
BY DEF News, Dated

(* A save that may succeed is not in the controls by chance.                *)
LEMMA UnsavedIsDirty ==
  ASSUME NEW c \in CommandRecords, NEW p \in Pages, NEW d \in SettingsValues, NEW n \in Nat,
         NEW e, n <= d.revision, Heard(p, d, n, e), Requested(p), SaveShown(c, p, d),
         c.type = "preferences/save", c.ok, c.id = p.lastOf["advanced"],
         c.id \in DOMAIN p.pending, c.step = 0, c.expected = d.revision,
         p.pending[c.id].edits = p.edits
  PROVE  p.form # p.authoritative /\ p.authoritative # None
<1>1. p.authoritative # None
  BY DEF Requested, EditsCounted
<1>2. p.revision \in Nat /\ p.revision <= n /\ c.expected <= p.revision /\ c.expected \in Nat
  BY DEF Heard, HeardSettings, SaveShown, Pages, CommandRecords
<1>3. p.revision = d.revision
  BY <1>2 DEF SettingsValues
<1>4. p.authoritative = d.preferences
  BY <1>1, <1>3 DEF Heard, HeardSettings
<1> QED BY <1>1, <1>4 DEF SaveShown

LEMMA UpdatedShows ==
  ASSUME NEW c \in CommandRecords, NEW p \in Pages, NEW z \in Pages, NEW d \in SettingsValues,
         NEW n \in Nat, NEW e, n <= d.revision, Heard(p, d, n, e), Requested(p),
         SaveShown(c, p, d), Updated(z, p)
  PROVE  SaveShown(c, z, d)
<1> SUFFICES ASSUME c.type = "preferences/save", c.ok, c.id = z.lastOf["advanced"],
                    c.id \in DOMAIN z.pending
             PROVE  /\ c.step = 0 =>
                         /\ c.expected <= z.revision
                         /\ c.expected = d.revision =>
                              /\ c.preferences # d.preferences
                              /\ z.pending[c.id].edits = z.edits => z.form = c.preferences
                    /\ c.step # 0 /\ z.pending[c.id].edits = z.edits =>
                         z.form = c.preferences \/ (z.save = 0 /\ z.form = z.authoritative)
  BY DEF SaveShown
<1>1. /\ c.id = p.lastOf["advanced"] /\ c.id \in DOMAIN p.pending
      /\ z.pending[c.id] = p.pending[c.id] /\ z.edits = p.edits
  BY DEF Updated
<1>2. p.authoritative # None
  BY <1>1 DEF Requested, EditsCounted
<1>3. ASSUME c.step = 0 PROVE c.expected <= z.revision
  BY <1>1, <1>3 DEF SaveShown, Updated, Grown, Pages, CommandRecords
<1>4. ASSUME c.step = 0, c.expected = d.revision PROVE c.preferences # d.preferences
  BY <1>1, <1>4 DEF SaveShown
<1>5. ASSUME c.step = 0, c.expected = d.revision, z.pending[c.id].edits = z.edits
      PROVE  z.form = c.preferences
  <2>1. p.form # p.authoritative
    BY <1>1, <1>5, UnsavedIsDirty
  <2>2. ~CanHydrate(p)
    BY <1>2, <2>1 DEF CanHydrate, Dirty
  <2>3. p.form = c.preferences
    BY <1>1, <1>5 DEF SaveShown
  <2> QED BY <2>2, <2>3 DEF Updated
<1>6. ASSUME c.step # 0, z.pending[c.id].edits = z.edits
      PROVE  z.form = c.preferences \/ (z.save = 0 /\ z.form = z.authoritative)
  <2>1. p.form = c.preferences \/ (p.save = 0 /\ p.form = p.authoritative)
    BY <1>1, <1>6 DEF SaveShown
  <2>2. CanHydrate(p) <=> p.save = 0 /\ p.form = p.authoritative
    BY <1>2 DEF CanHydrate, Dirty
  <2> QED BY <2>1, <2>2 DEF Updated
<1> QED BY <1>3, <1>4, <1>5, <1>6

LEMMA TakenShows ==
  ASSUME NEW c \in CommandRecords, NEW p \in Pages, NEW z \in Pages, NEW d \in SettingsValues,
         NEW n \in Nat, NEW e, n <= d.revision, Heard(p, d, n, e), Requested(p),
         SaveShown(c, p, d), c.step = 0,
         NEW id \in DOMAIN p.pending, NEW ok, Taken(z, p, id, ok)
  PROVE  SaveShown(c, z, d)
<1> SUFFICES ASSUME c.type = "preferences/save", c.ok, c.id = z.lastOf["advanced"],
                    c.id \in DOMAIN z.pending
             PROVE  /\ c.expected <= z.revision
                    /\ c.expected = d.revision =>
                         /\ c.preferences # d.preferences
                         /\ z.pending[c.id].edits = z.edits => z.form = c.preferences
  BY DEF SaveShown
<1>1. /\ c.id = p.lastOf["advanced"] /\ c.id \in DOMAIN p.pending /\ c.id # id
      /\ z.pending[c.id] = p.pending[c.id]
  BY DEF Taken, Forgotten
<1>2. c.expected <= z.revision
  BY <1>1 DEF SaveShown, Taken, Grown, Pages, CommandRecords
<1>3. ASSUME c.expected = d.revision PROVE c.preferences # d.preferences
  BY <1>1, <1>3 DEF SaveShown
<1>4. ASSUME c.expected = d.revision, z.pending[c.id].edits = z.edits
      PROVE  z.form = c.preferences
  <2>1. CASE SameTyped(z, p)
    BY <1>1, <1>4, <2>1 DEF SameTyped, SaveShown
  <2>2. CASE p.lastOf[SectionOf[p.pending[id].type]] = id /\ Allowed(z, p, p.pending[id], ok)
    <3>1. p.pending[id].type # "preferences/save"
      BY <1>1, <2>2, SectionTypes DEF CommandTypes
    <3>2. z.edits = p.edits
      BY <2>2, <3>1 DEF Allowed
    <3>3. p.form = c.preferences
      BY <1>1, <1>4, <3>2 DEF SaveShown
    <3>4. p.form # p.authoritative /\ p.authoritative # None
      BY <1>1, <1>4, <3>2, UnsavedIsDirty
    <3> QED BY <2>2, <3>1, <3>3, <3>4 DEF Allowed
  <2> QED BY <2>1, <2>2 DEF Taken
<1> QED BY <1>2, <1>3, <1>4

(* The settings may change, and the repository may hear of it.              *)
Moved(d1, n1, d, n) ==
  n <= n1 /\ n1 <= d1.revision /\ (d1 = d \/ d1.revision = d.revision + 1)

LEMMA OfDiskMoves ==
  ASSUME NEW s, s.revision \in Nat, NEW d \in SettingsValues, NEW n \in Nat,
         NEW d1 \in SettingsValues, NEW n1 \in Nat, n <= d.revision,
         OfDisk(s, d, n), Moved(d1, n1, d, n)
  PROVE  OfDisk(s, d1, n1)
BY DEF OfDisk, Moved, SettingsValues

LEMMA HeardMoves ==
  ASSUME NEW p \in Pages, NEW d \in SettingsValues, NEW n \in Nat, NEW d1 \in SettingsValues,
         NEW n1 \in Nat, NEW e, n <= d.revision, Heard(p, d, n, e), Moved(d1, n1, d, n)
  PROVE  Heard(p, d1, n1, e)
<1>1. p.latest.revision \in Nat
  BY Snapshotted DEF Pages
<1>2. HeardLatest(p, d1, n1)
  BY <1>1, OfDiskMoves DEF Heard, HeardLatest
<1>3. HeardSettings(p, d1, n1)
  BY DEF Heard, HeardSettings, Moved, Pages, SettingsValues
<1> QED BY <1>2, <1>3 DEF Heard

LEMMA GoodMoves ==
  ASSUME NEW c \in CommandRecords, NEW p \in Pages, NEW d \in SettingsValues, NEW n \in Nat,
         NEW d1 \in SettingsValues, NEW n1 \in Nat, NEW e, n <= d.revision,
         Good(c, p, d, n, e), Moved(d1, n1, d, n)
  PROVE  Good(c, p, d1, n1, e)
<1>1. c.expected \in Nat /\ c.expected <= n /\ c.snapshot \in Snapshots
  BY DEF Good, Based, CommandRecords
<1>2. d1 = d \/ c.expected < d1.revision
  BY <1>1 DEF Moved, SettingsValues
<1>3. Based(c, d1, n1)
  BY <1>1, <1>2 DEF Good, Based, Moved
<1>4. Failing(c, d1)
  BY <1>1, <1>2 DEF Good, Failing
<1>5. News(c.snapshot, p, d1, n1, e)
  BY <1>1, Snapshotted, OfDiskMoves DEF Good, News
<1>6. SaveShown(c, p, d1)
  BY <1>1, <1>2 DEF Good, SaveShown
<1> QED BY <1>3, <1>4, <1>5, <1>6 DEF Good

-----------------------------------------------------------------------------
(* What the user does to the page.                                          *)

LEMMA EditIs ==
  ASSUME NEW p \in Pages, NEW form \in FormValues, NEW z, z = EditPreferences(p, form)
  PROVE  /\ z \in Pages /\ z.pending = p.pending /\ z.lastOf = p.lastOf /\ z.save = p.save
         /\ z.current = p.current /\ z.retired = p.retired /\ z.latest = p.latest
         /\ z.basis = p.basis /\ z.basisRevision = p.basisRevision
         /\ z.applied = p.applied /\ z.revision = p.revision
         /\ z.authoritative = p.authoritative
         /\ z.secret = p.secret /\ z.secretEdits = p.secretEdits
         /\ z.edits = p.edits + 1
<1>1. z = [p EXCEPT !.form = form, !.edits = p.edits + 1]
  BY DEF EditPreferences
<1>2. p.edits + 1 \in Nat
  BY DEF Pages
<1> QED BY <1>1, <1>2 DEF Pages

LEMMA TypeIs ==
  ASSUME NEW p \in Pages, NEW secret \in Nat, NEW z, z = TypeSecret(p, secret)
  PROVE  /\ z \in Pages /\ z.pending = p.pending /\ z.lastOf = p.lastOf /\ z.save = p.save
         /\ z.current = p.current /\ z.retired = p.retired /\ z.latest = p.latest
         /\ SameForm(z, p) /\ z.edits = p.edits
         /\ z.secretEdits = p.secretEdits + 1
<1>1. z = [p EXCEPT !.secret = secret, !.secretEdits = p.secretEdits + 1]
  BY DEF TypeSecret
<1>2. p.secretEdits + 1 \in Nat
  BY DEF Pages
<1> QED BY <1>1, <1>2, ZenonT(40) DEF Pages, SameForm

(* Editing leaves what the page knows, and sets the edited apart from what  *)
(* was sent.                                                                *)
Turned(z, p) ==
  /\ z.pending = p.pending /\ z.lastOf = p.lastOf /\ z.save = p.save
  /\ z.current = p.current /\ z.retired = p.retired /\ z.latest = p.latest
  /\ z.basis = p.basis /\ z.basisRevision = p.basisRevision
  /\ z.applied = p.applied /\ z.revision = p.revision /\ z.authoritative = p.authoritative
  /\ \/ z.edits = p.edits /\ z.form = p.form
     \/ z.edits = p.edits + 1
  /\ \/ z.secretEdits = p.secretEdits /\ z.secret = p.secret
     \/ z.secretEdits = p.secretEdits + 1

LEMMA TurnedKeeps ==
  ASSUME NEW p \in Pages, NEW z \in Pages, NEW d \in SettingsValues, NEW n \in Nat, NEW e,
         Heard(p, d, n, e), Requested(p), Turned(z, p)
  PROVE  /\ Heard(z, d, n, e) /\ Requested(z)
         /\ \A c \in CommandRecords : Good(c, p, d, n, e) => Good(c, z, d, n, e)
         /\ \A c \in CommandRecords : \A next : Remembered(c, p, next) => Remembered(c, z, next)
<1>1. Heard(z, d, n, e)
  BY DEF Heard, HeardLatest, HeardEpochs, HeardSettings, Turned
<1>2. \A i \in DOMAIN p.pending : p.pending[i] \in Requests
  BY PendingsAre DEF Pages
<1>3. SaveIsLast(z)
  BY DEF Requested, SaveIsLast, Turned
<1>4. SecretsTyped(z)
  BY <1>2 DEF Requested, SecretsTyped, Turned, Pages, Requests
<1>5. EditsCounted(z)
  BY <1>2 DEF Requested, EditsCounted, Turned, Pages, Requests
<1>6. ASSUME NEW c \in CommandRecords, Good(c, p, d, n, e) PROVE Good(c, z, d, n, e)
  <2>1. News(c.snapshot, z, d, n, e)
    BY <1>6 DEF Good, News, Turned
  <2>2. SaveShown(c, z, d)
    <3>1. CASE z.edits = p.edits /\ z.form = p.form
      BY <1>6, <3>1 DEF Good, SaveShown, Turned
    <3>2. CASE z.edits = p.edits + 1
      <4>1. c.id = p.lastOf["advanced"] /\ c.id \in DOMAIN p.pending =>
              p.pending[c.id].edits # z.edits
        BY <1>2, <3>2 DEF Requested, EditsCounted, Pages, Requests
      <4> QED BY <1>6, <4>1 DEF Good, SaveShown, Turned
    <3> QED BY <3>1, <3>2 DEF Turned
  <2> QED BY <1>6, <2>1, <2>2 DEF Good
<1>7. \A c \in CommandRecords : \A next : Remembered(c, p, next) => Remembered(c, z, next)
  BY DEF Remembered, Turned
<1> QED BY <1>1, <1>3, <1>4, <1>5, <1>6, <1>7 DEF Requested

(* A command is sent.                                                       *)
RequestOf(p, type) ==
  [type |-> type, secret |-> p.secret, secretEdits |-> p.secretEdits, edits |-> p.edits,
   epoch |-> p.current, submitted |-> p.form]

Sent(z, p, type, id) ==
  /\ DOMAIN z.pending = DOMAIN p.pending \cup {id} /\ z.pending[id] = RequestOf(p, type)
  /\ \A i \in DOMAIN p.pending : i # id => z.pending[i] = p.pending[i]
  /\ z.lastOf[SectionOf[type]] = id
  /\ \A section \in Sections : section # SectionOf[type] => z.lastOf[section] = p.lastOf[section]
  /\ z.save = IF type = "preferences/save" THEN id ELSE p.save

LEMMA SendIs ==
  ASSUME NEW p \in Pages, NEW type \in CommandTypes, NEW id \in Nat,
         NEW z, z = SendCommand(p, type, id)
  PROVE  /\ z \in Pages /\ SameForm(z, p) /\ Sent(z, p, type, id)
         /\ z.secret = p.secret /\ z.secretEdits = p.secretEdits /\ z.edits = p.edits
         /\ z.current = p.current /\ z.retired = p.retired /\ z.latest = p.latest
<1>1. PICK f : f = [i \in DOMAIN p.pending \cup {id} |->
                      IF i # id THEN p.pending[i] ELSE RequestOf(p, type)]
  OBVIOUS
<1>2. PICK l : l = [p.lastOf EXCEPT ![SectionOf[type]] = id]
  OBVIOUS
<1>3. PICK v : v = IF type = "preferences/save" THEN id ELSE p.save
  OBVIOUS
<1>4. z = [p EXCEPT !.pending = f, !.lastOf = l, !.save = v]
  BY <1>1, <1>2, <1>3 DEF SendCommand, RequestOf, Pages
<1>5. RequestOf(p, type) \in Requests
  BY DEF RequestOf, Requests, Pages
<1>6. f \in Pendings
  <2>1. DOMAIN p.pending \subseteq Nat /\ \A i \in DOMAIN p.pending : p.pending[i] \in Requests
    BY PendingsAre DEF Pages
  <2>2. DOMAIN p.pending \cup {id} \in SUBSET Nat
        /\ f \in [DOMAIN p.pending \cup {id} -> Requests]
    BY <1>1, <1>5, <2>1
  <2> QED BY <2>2, PendingsAre
<1>7. /\ l \in [Sections -> Nat] /\ l[SectionOf[type]] = id
      /\ \A section \in Sections : section # SectionOf[type] => l[section] = p.lastOf[section]
  BY <1>2, SectionTypes DEF Pages
<1>8. v \in Nat
  BY <1>3 DEF Pages
<1>9. /\ z \in Pages /\ SameForm(z, p) /\ z.pending = f /\ z.lastOf = l /\ z.save = v
      /\ z.secret = p.secret /\ z.secretEdits = p.secretEdits /\ z.edits = p.edits
      /\ z.current = p.current /\ z.retired = p.retired /\ z.latest = p.latest
  <2>1. z \in Pages
    BY <1>4, <1>6, <1>7, <1>8, ZenonT(40) DEF Pages
  <2>2. /\ z.pending = f /\ z.lastOf = l /\ z.save = v
        /\ z.secret = p.secret /\ z.secretEdits = p.secretEdits /\ z.edits = p.edits
        /\ z.current = p.current /\ z.retired = p.retired /\ z.latest = p.latest
    BY <1>4 DEF Pages
  <2>3. SameForm(z, p)
    BY <1>4 DEF Pages, SameForm
  <2> QED BY <2>1, <2>2, <2>3
<1>10. Sent(z, p, type, id)
  BY <1>1, <1>3, <1>7, <1>9 DEF Sent
<1> QED BY <1>9, <1>10

LEMMA SentRequested ==
  ASSUME NEW p \in Pages, NEW type \in CommandTypes, NEW id \in Nat \ {0}, NEW z \in Pages,
         Requested(p), IdsBelow(p, id), SameForm(z, p), Sent(z, p, type, id),
         z.secret = p.secret, z.secretEdits = p.secretEdits, z.edits = p.edits,
         z.current = p.current,
         type = "settings/request" => p.secretEdits = 0,
         type = "preferences/save" => p.authoritative # None
  PROVE  Requested(z) /\ IdsBelow(z, id + 1)
<1>1. /\ id \notin DOMAIN p.pending /\ DOMAIN p.pending \subseteq Nat
      /\ "advanced" \in Sections /\ "credentials" \in Sections
  BY SectionTypes, PendingsAre DEF IdsBelow, Pages
<1>2. /\ RequestOf(p, type).type = type /\ RequestOf(p, type).epoch = p.current
      /\ RequestOf(p, type).secret = p.secret /\ RequestOf(p, type).edits = p.edits
      /\ RequestOf(p, type).secretEdits = p.secretEdits
  BY DEF RequestOf
<1>3. SaveIsLast(z)
  <2>1. CASE type = "preferences/save"
    BY <1>2, <2>1, SectionTypes DEF Sent, SaveIsLast
  <2>2. CASE type # "preferences/save"
    <3>1. z.save = p.save /\ z.lastOf["advanced"] = p.lastOf["advanced"]
      BY <1>1, <2>2, SectionTypes DEF Sent
    <3> QED BY <1>1, <3>1 DEF Requested, SaveIsLast, Sent
  <2> QED BY <2>1, <2>2
<1>4. SecretsTyped(z)
  <2>1. z.secretEdits = 0 => z.secret = 0
    BY DEF Requested, SecretsTyped
  <2>2. ASSUME NEW i \in DOMAIN z.pending
        PROVE  /\ z.pending[i].type = "settings/request" => z.pending[i].secretEdits = 0
               /\ i = z.lastOf["credentials"] =>
                    /\ z.pending[i].secretEdits <= z.secretEdits
                    /\ z.pending[i].secretEdits = z.secretEdits => z.pending[i].secret = z.secret
    <3>1. CASE i = id
      BY <1>2, <3>1 DEF Sent, Pages
    <3>2. CASE i # id
      <4>1. i \in DOMAIN p.pending /\ z.pending[i] = p.pending[i]
        BY <3>2 DEF Sent
      <4>2. i = z.lastOf["credentials"] => i = p.lastOf["credentials"]
        BY <1>1, <3>2 DEF Sent
      <4> QED BY <4>1, <4>2 DEF Requested, SecretsTyped
    <3> QED BY <3>1, <3>2
  <2> QED BY <2>1, <2>2 DEF SecretsTyped
<1>5. EditsCounted(z)
  <2>1. CASE type = "preferences/save"
    BY <1>2, <2>1, SectionTypes DEF Sent, EditsCounted, SameForm, Pages
  <2>2. CASE type # "preferences/save"
    <3>1. z.lastOf["advanced"] = p.lastOf["advanced"]
      BY <1>1, <2>2, SectionTypes DEF Sent
    <3>2. p.lastOf["advanced"] # id
      BY <1>1 DEF IdsBelow, Pages
    <3> QED BY <1>1, <3>1, <3>2 DEF Requested, EditsCounted, Sent, SameForm
  <2> QED BY <2>1, <2>2
<1>6. IdsBelow(z, id + 1)
  <2>1. \A i \in DOMAIN z.pending : i < id + 1
    BY <1>1 DEF IdsBelow, Sent
  <2>2. ASSUME NEW section \in Sections PROVE z.lastOf[section] < id + 1
    <3>1. p.lastOf[section] \in Nat /\ p.lastOf[section] < id
      BY DEF IdsBelow, Pages
    <3> QED BY <3>1 DEF Sent
  <2> QED BY <2>1, <2>2 DEF IdsBelow
<1> QED BY <1>3, <1>4, <1>5, <1>6 DEF Requested

-----------------------------------------------------------------------------
(* The commands that wait.                                                  *)

LEMMA TailIs ==
  ASSUME NEW S, NEW s \in Seq(S), s # << >>
  PROVE  /\ Head(s) = s[1] /\ s[1] \in S /\ 1 \in DOMAIN s
         /\ Tail(s) \in Seq(S) /\ Len(Tail(s)) = Len(s) - 1
         /\ \A i \in DOMAIN Tail(s) : Tail(s)[i] = s[i + 1] /\ i + 1 \in DOMAIN s /\ i + 1 # 1
         /\ \A i \in DOMAIN s : i # 1 => i - 1 \in DOMAIN Tail(s) /\ Tail(s)[i - 1] = s[i]
OBVIOUS

LEMMA RangeIs ==
  ASSUME NEW S, NEW s \in Seq(S) PROVE Range(s) \subseteq S
BY DEF Range

LEMMA RangeOfTail ==
  ASSUME NEW S, NEW s \in Seq(S), s # << >>
  PROVE  Range(s) = {Head(s)} \cup Range(Tail(s)) /\ Range(Tail(s)) \subseteq S
BY TailIs DEF Range

LEMMA ReplacedIs ==
  ASSUME NEW S, NEW s \in Seq(S), s # << >>, NEW c \in S, NEW t, t = <<c>> \o Tail(s)
  PROVE  t \in Seq(S) /\ t # << >> /\ Len(t) = Len(s) /\ Head(t) = c /\ Tail(t) = Tail(s)
<1>1. PICK u : u = Tail(s)
  OBVIOUS
<1>2. <<c>> \in Seq(S) /\ u \in Seq(S) /\ Len(u) = Len(s) - 1 /\ Len(<<c>>) = 1
  BY <1>1, TailIs
<1>3. t \in Seq(S) /\ Len(t) = Len(u) + 1 /\ Len(t) = Len(s) /\ t # << >>
  BY <1>1, <1>2
<1>4. t[1] = c /\ \A i \in 1..Len(u) : t[i + 1] = u[i]
  BY <1>1, <1>2, <1>3
<1>5. /\ Head(t) = c /\ Tail(t) \in Seq(S) /\ Len(Tail(t)) = Len(u)
      /\ \A i \in 1..Len(u) : Tail(t)[i] = u[i]
  BY <1>3, <1>4
<1>6. Tail(t) = u
  BY <1>2, <1>5
<1> QED BY <1>1, <1>3, <1>5, <1>6

Appended(t, s, c) ==
  /\ \A b \in Range(t) : b \in Range(s) \/ b = c
  /\ c \in Range(t) /\ \A b \in Range(s) : b \in Range(t)
  /\ \A b \in Range(Tail(t)) : b = c \/ (s # << >> /\ b \in Range(Tail(s)))

LEMMA AppendedIs ==
  ASSUME NEW S, NEW s \in Seq(S), NEW c \in S
  PROVE  Append(s, c) \in Seq(S) /\ Appended(Append(s, c), s, c)
<1> DEFINE t == Append(s, c)
<1>1. /\ t \in Seq(S) /\ Len(t) = Len(s) + 1 /\ t # << >> /\ t[Len(s) + 1] = c
      /\ \A i \in 1..Len(s) : t[i] = s[i]
  OBVIOUS
<1>2. Range(t) = Range(s) \cup {c}
  BY <1>1 DEF Range
<1>3. ASSUME NEW b \in Range(Tail(t))
      PROVE  b = c \/ (s # << >> /\ b \in Range(Tail(s)))
  <2>1. PICK i \in DOMAIN Tail(t) : b = Tail(t)[i]
    BY DEF Range
  <2>2. i \in 1..Len(s) /\ b = t[i + 1]
    BY <1>1, <2>1
  <2>3. CASE i = Len(s)
    BY <1>1, <2>2, <2>3
  <2>4. CASE i < Len(s)
    <3>1. s # << >> /\ i \in DOMAIN Tail(s) /\ Tail(s)[i] = s[i + 1] /\ b = s[i + 1]
      BY <1>1, <2>2, <2>4
    <3> QED BY <3>1 DEF Range
  <2> QED BY <2>2, <2>3, <2>4
<1> QED BY <1>1, <1>2, <1>3 DEF Appended

LEMMA HeadSound ==
  ASSUME Inv, commandTail # << >>
  PROVE  /\ Head_ \in CommandRecords /\ Head_ \in Range(commandTail) /\ Sound(Head_)
         /\ commandTail \in Seq(CommandRecords)
         /\ Range(commandTail) = {Head_} \cup Range(Tail(commandTail))
<1>1. commandTail \in Seq(CommandRecords)
  BY DEF Inv, TypeOK
<1>2. Range(commandTail) = {Head_} \cup Range(Tail(commandTail)) /\ Head_ \in CommandRecords
  BY <1>1, TailIs, RangeOfTail DEF Head_
<1> QED BY <1>1, <1>2 DEF Inv, CommandsGood

(* The types that matter most, at hand.                                     *)
LEMMA Typed ==
  ASSUME Inv
  PROVE  /\ page \in Pages /\ disk \in SettingsValues /\ seen \in SettingsValues
         /\ seen.revision \in Nat /\ disk.revision \in Nat /\ seen.revision <= disk.revision
         /\ epoch \in Nat /\ epoch # 0 /\ nextId \in Nat /\ sequence \in Nat
         /\ Heard(page, disk, seen.revision, epoch) /\ Requested(page) /\ IdsBelow(page, nextId)
         /\ page.revision \in Nat /\ page.revision <= seen.revision
BY DEF Inv, TypeOK, SettingsValues, SettingsKnown, PageGood, Heard, HeardSettings, Pages

-----------------------------------------------------------------------------
(* The plugin goes on with a command, while the settings may change.        *)

SettingsMove ==
  /\ disk' \in SettingsValues /\ seen' \in SettingsValues /\ ready' \in BOOLEAN
  /\ left' \in [turns : Nat, disturbances : Nat]
  /\ SettingsKnown' /\ Moved(disk', seen'.revision, disk, seen.revision)

LEMMA PageMoves ==
  ASSUME Inv, SettingsMove, UNCHANGED <<page, nextId, epoch, open>>
  PROVE  PageGood'
<1>1. Heard(page, disk', seen'.revision, epoch)
  <2>1. seen'.revision \in Nat /\ disk' \in SettingsValues
    BY DEF SettingsMove, SettingsValues
  <2> QED BY <2>1, Typed, HeardMoves DEF SettingsMove
<1> QED BY <1>1 DEF Inv, PageGood

LEMMA SoundMoves ==
  ASSUME Inv, SettingsMove, NEW c \in CommandRecords, Sound(c),
         UNCHANGED <<page, nextId, epoch, destroyed, context, tracked, nextGeneration, visit>>
  PROVE  Sound(c)'
<1>1. Good(c, page, disk', seen'.revision, epoch)
  <2>1. seen'.revision \in Nat /\ disk' \in SettingsValues
    BY DEF SettingsMove, SettingsValues
  <2>2. Good(c, page, disk, seen.revision, epoch)
    BY DEF Sound
  <2> QED BY <2>1, <2>2, Typed, GoodMoves DEF SettingsMove
<1> QED BY <1>1 DEF Sound, Fenced, Visible

PluginFrame == UNCHANGED <<epoch, destroyed, context, tracked, nextGeneration, visit, leaving,
                           open, shown, nextId>>

LEMMA FenceStays ==
  ASSUME PluginFrame, NEW f, FenceCurrent(f)
  PROVE  FenceCurrent(f)'
BY DEF PluginFrame, FenceCurrent, IsCurrent, Visible

LEMMA FrameStays ==
  ASSUME Inv, PluginFrame, page'.current = page.current \/ Visible
  PROVE  Present'
BY DEF Inv, TypeOK, PluginFrame, Present, Visible

SameCommand(c, h) ==
  c.id = h.id /\ c.fence = h.fence /\ c.type = h.type /\ c.preferences = h.preferences

LEMMA StepInv ==
  ASSUME Inv, commandTail # << >>, NEW c \in CommandRecords, HeadTo(c), SameCommand(c, Head_),
         SettingsMove, Good(c, page, disk', seen'.revision, epoch), sequence' \in Nat,
         PluginFrame, UNCHANGED page
  PROVE  Inv'
<1>1. /\ commandTail' \in Seq(CommandRecords) /\ commandTail' # << >>
      /\ Range(commandTail') = {c} \cup Range(Tail(commandTail))
      /\ Range(Tail(commandTail')) = Range(Tail(commandTail))
  <2>1. commandTail \in Seq(CommandRecords) /\ commandTail' = <<c>> \o Tail(commandTail)
    BY HeadSound DEF HeadTo
  <2>2. PICK t : t = commandTail'
    OBVIOUS
  <2>3. t \in Seq(CommandRecords) /\ t # << >> /\ Head(t) = c /\ Tail(t) = Tail(commandTail)
    BY <2>1, <2>2, ReplacedIs
  <2>4. Range(t) = {Head(t)} \cup Range(Tail(t))
    BY <2>3, RangeOfTail
  <2> QED BY <2>2, <2>3, <2>4
<1>2. TypeOK'
  BY <1>1 DEF Inv, TypeOK, SettingsMove, PluginFrame
<1>3. SettingsKnown' /\ Present' /\ PageGood'
  BY FrameStays, PageMoves DEF SettingsMove, PluginFrame
<1>4. SaveUnderWay'
  <2> SUFFICES ASSUME shown = "reported", page.save # 0, page.current = epoch, ~destroyed
               PROVE  \E b \in Range(commandTail') : b.id = page.save /\ FenceCurrent(b.fence)'
    BY DEF SaveUnderWay, PluginFrame
  <2>1. PICK b \in Range(commandTail) : b.id = page.save /\ FenceCurrent(b.fence)
    BY DEF Inv, SaveUnderWay
  <2>2. FenceCurrent(b.fence)'
    BY <2>1, FenceStays
  <2>3. CASE b = Head_
    BY <1>1, <2>1, <2>2, <2>3 DEF SameCommand
  <2>4. CASE b # Head_
    BY <1>1, <2>1, <2>2, <2>4, HeadSound
  <2> QED BY <2>3, <2>4
<1>5. CommandsGood'
  <2>1. Sound(c)'
    <3>1. Remembered(c, page, nextId) /\ Fenced(c.fence)
      BY HeadSound DEF Sound, Remembered, SameCommand
    <3> QED BY <3>1 DEF Sound, Fenced, Visible, PluginFrame
  <2>2. ASSUME NEW b \in Range(Tail(commandTail)) PROVE Sound(b)'
    <3>1. b \in Range(commandTail) /\ b \in CommandRecords
      BY HeadSound, RangeIs
    <3>2. Sound(b)
      BY <3>1 DEF Inv, CommandsGood
    <3> QED BY <3>1, <3>2, SoundMoves DEF PluginFrame
  <2>3. \A b \in Range(commandTail') : Sound(b)'
    BY <1>1, <2>1, <2>2
  <2>4. \A b \in Range(Tail(commandTail')) : b.step = 0 /\ b.phase = "idle"
    BY <1>1 DEF Inv, CommandsGood
  <2> QED BY <2>3, <2>4 DEF CommandsGood
<1> QED BY <1>2, <1>3, <1>4, <1>5 DEF Inv

(* The changes of the settings.                                             *)
LEMMA SpendIs ==
  ASSUME Inv, NEW bound \in {"turns", "disturbances"}, Spend(bound)
  PROVE  left' \in [turns : Nat, disturbances : Nat]
BY DEF Inv, TypeOK, Spend

LEMMA StaysMoved ==
  ASSUME Inv, UNCHANGED <<settings, left>>
  PROVE  SettingsMove
BY DEF Inv, TypeOK, SettingsKnown, SettingsMove, Moved, settings, SettingsValues

LEMMA AdoptMoves ==
  ASSUME Inv, seen' = disk, ready' \in BOOLEAN, UNCHANGED disk,
         left' \in [turns : Nat, disturbances : Nat]
  PROVE  SettingsMove
BY DEF Inv, TypeOK, SettingsKnown, SettingsMove, Moved, SettingsValues

LEMMA FaultMoves ==
  ASSUME Inv, SettingsFault
  PROVE  SettingsMove
<1>1. left' \in [turns : Nat, disturbances : Nat]
  BY SpendIs DEF SettingsFault
<1>2. disk' = disk /\ seen' \in {seen, disk} /\ ready' = FALSE
  BY DEF SettingsFault
<1>3. seen' \in SettingsValues /\ SettingsKnown'
  BY <1>2, Typed DEF Inv, SettingsKnown
<1>4. Moved(disk', seen'.revision, disk, seen.revision)
  BY <1>2, Typed DEF Moved
<1> QED BY <1>1, <1>2, <1>3, <1>4, Typed DEF SettingsMove

LEMMA WriteMoves ==
  ASSUME Inv, NEW preferences \in Preferences, Write(preferences),
         left' \in [turns : Nat, disturbances : Nat]
  PROVE  SettingsMove
<1>1. disk.revision + 1 \in Nat
  BY Typed
<1>2. disk' \in SettingsValues /\ seen' = disk' /\ disk'.revision = disk.revision + 1
  BY <1>1 DEF Write, SettingsValues
<1> QED BY <1>1, <1>2, Typed, SMTT(20)
    DEF Inv, TypeOK, Write, SettingsKnown, SettingsMove, Moved

(* Whether something was to be written of the credentials or not.           *)
LEMMA StoredMoves ==
  ASSUME Inv, AdoptStored \/ Write(disk.preferences),
         UNCHANGED left \/ left' \in [turns : Nat, disturbances : Nat]
  PROVE  SettingsMove
<1>1. left' \in [turns : Nat, disturbances : Nat] /\ disk.preferences \in Preferences
  BY Typed DEF Inv, TypeOK, SettingsValues
<1> QED BY <1>1, AdoptMoves, WriteMoves DEF AdoptStored

-----------------------------------------------------------------------------
(* How a command goes on.                                                   *)

LEMMA MovedGood ==
  ASSUME Inv, commandTail # << >>, SettingsMove
  PROVE  Good(Head_, page, disk', seen'.revision, epoch)
<1>1. seen'.revision \in Nat /\ disk' \in SettingsValues
  BY DEF SettingsMove, SettingsValues
<1>2. Head_ \in CommandRecords /\ Good(Head_, page, disk, seen.revision, epoch)
  BY HeadSound DEF Sound
<1> QED BY <1>1, <1>2, Typed, GoodMoves DEF SettingsMove

(* A command that fails has no effect on what it may say but a conflict.    *)
LEMMA FailInv ==
  ASSUME Inv, commandTail # << >>, Head_.phase \in {"idle", "busy"}, NEW why, FailStep(why),
         SettingsMove, why = "conflict" => Head_.expected < disk'.revision,
         sequence' = sequence, PluginFrame, UNCHANGED page
  PROVE  Inv'
<1>1. PICK h : h = Head_
  OBVIOUS
<1>2. PICK f, w : f = (IF why = "rejected" THEN "answer" ELSE "recover")
                  /\ w = (why = "conflict")
  OBVIOUS
<1>3. PICK c : c = [h EXCEPT !.phase = f, !.ok = FALSE, !.conflict = w]
  OBVIOUS
<1>4. HeadTo(c)
  BY <1>1, <1>2, <1>3 DEF FailStep
<1>5. h \in CommandRecords /\ Good(h, page, disk', seen'.revision, epoch)
      /\ h.phase \in {"idle", "busy"} /\ (why = "conflict" => h.expected < disk'.revision)
  BY <1>1, HeadSound, MovedGood
<1>6. f \in {"answer", "recover"} /\ w \in BOOLEAN
  BY <1>2
<1>7. /\ c \in CommandRecords /\ SameCommand(c, h) /\ c.expected = h.expected
      /\ c.basis = h.basis /\ c.snapshot = h.snapshot /\ c.phase = f /\ c.ok = FALSE
      /\ c.conflict = w /\ c.step = h.step
  BY <1>3, <1>5, <1>6 DEF CommandRecords, SameCommand
<1>8. h.snapshot = NoSnapshot
  BY <1>5 DEF Good, Failing
<1>9. Based(c, disk', seen'.revision) /\ News(c.snapshot, page, disk', seen'.revision, epoch)
  BY <1>5, <1>7 DEF Good, Based, SameCommand
<1>10. Failing(c, disk')
  BY <1>2, <1>5, <1>6, <1>7, <1>8 DEF Good, Failing, SameCommand
<1>11. SaveShown(c, page, disk')
  BY <1>7 DEF SaveShown
<1>12. Good(c, page, disk', seen'.revision, epoch)
  BY <1>9, <1>10, <1>11 DEF Good
<1> QED BY <1>1, <1>4, <1>7, <1>12, Typed, StepInv

(* A save is in the list of steps once.                                     *)
LEMMA StepsAre ==
  /\ Len(StepsOf["preferences/save"]) = 1 /\ StepsOf["preferences/save"][1] = "save"
  /\ \A t \in CommandTypes :
       /\ Len(StepsOf[t]) \in Nat
       /\ t # "preferences/save" => \A i \in 1..Len(StepsOf[t]) : StepsOf[t][i] # "save"
BY DEF StepsOf, CommandTypes

LEMMA NextInv ==
  ASSUME Inv, commandTail # << >>, Head_.phase = "busy", NextStep, SettingsMove,
         Head_.type = "preferences/save" => Head_.expected = disk.revision,
         sequence' = sequence, PluginFrame, UNCHANGED page
  PROVE  Inv'
<1>1. PICK h : h = Head_
  OBVIOUS
<1>2. PICK c : c = [h EXCEPT !.phase = "idle", !.step = h.step + 1]
  OBVIOUS
<1>3. HeadTo(c)
  BY <1>1, <1>2 DEF NextStep
<1>4. h \in CommandRecords /\ Good(h, page, disk', seen'.revision, epoch)
      /\ Good(h, page, disk, seen.revision, epoch) /\ h.phase = "busy"
      /\ (h.type = "preferences/save" => h.expected = disk.revision)
  BY <1>1, HeadSound, MovedGood DEF Sound
<1>5. h.step \in Nat /\ h.step + 1 \in Nat
  BY <1>4 DEF CommandRecords
<1>6. /\ c \in CommandRecords /\ SameCommand(c, h) /\ c.expected = h.expected
      /\ c.basis = h.basis /\ c.snapshot = h.snapshot /\ c.phase = "idle" /\ c.ok = h.ok
      /\ c.conflict = h.conflict /\ c.step = h.step + 1
  BY <1>2, <1>4, <1>5 DEF CommandRecords, SameCommand
<1>7. h.snapshot = NoSnapshot /\ ~h.conflict
      /\ (h.type = "preferences/save" => h.step = 0)
  BY <1>4 DEF Good, Failing
<1>8. Based(c, disk', seen'.revision) /\ News(c.snapshot, page, disk', seen'.revision, epoch)
  BY <1>4, <1>6 DEF Good, Based, SameCommand
<1>9. Failing(c, disk')
  BY <1>4, <1>6, <1>7 DEF Good, Failing, SameCommand
<1>10. SaveShown(c, page, disk')
  BY <1>4, <1>5, <1>6, <1>7 DEF Good, SaveShown, SameCommand
<1>11. Good(c, page, disk', seen'.revision, epoch)
  BY <1>8, <1>9, <1>10 DEF Good
<1> QED BY <1>1, <1>3, <1>6, <1>11, Typed, StepInv

LEMMA StartStepInv ==
  ASSUME Inv, StartStep
  PROVE  Inv'
<1>1. PICK h : h = Head_
  OBVIOUS
<1>2. PICK c : c = [h EXCEPT !.phase = "busy"]
  OBVIOUS
<1>3. commandTail # << >> /\ HeadTo(c) /\ h.phase = "idle" /\ h.step < Len(StepsOf[h.type])
  BY <1>1, <1>2 DEF StartStep, Steps
<1>4. h \in CommandRecords /\ Good(h, page, disk, seen.revision, epoch)
  BY <1>1, <1>3, HeadSound DEF Sound
<1>5. /\ c \in CommandRecords /\ SameCommand(c, h) /\ c.expected = h.expected
      /\ c.basis = h.basis /\ c.snapshot = h.snapshot /\ c.phase = "busy" /\ c.ok = h.ok
      /\ c.conflict = h.conflict /\ c.step = h.step
  BY <1>2, <1>4 DEF CommandRecords, SameCommand
<1>6. ASSUME h.type = "preferences/save" PROVE h.step = 0
  <2>1. Len(StepsOf[h.type]) = 1
    BY <1>6, StepsAre
  <2> QED BY <1>3, <1>4, <2>1 DEF CommandRecords
<1>7. Failing(c, disk)
  BY <1>3, <1>4, <1>5, <1>6 DEF Good, Failing, SameCommand
<1>8. Good(c, page, disk, seen.revision, epoch)
  BY <1>4, <1>5, <1>7 DEF Good, Based, SaveShown, SameCommand
<1>9. UNCHANGED <<settings, left, sequence, page>> /\ PluginFrame
  BY DEF StartStep, CommandFrame, PluginFrame
<1>10. disk' = disk /\ seen' = seen
  BY <1>9 DEF settings
<1> QED BY <1>1, <1>3, <1>5, <1>8, <1>9, <1>10, Typed, StaysMoved, StepInv

LEMMA CompareInv ==
  ASSUME Inv, commandTail # << >>, Head_.phase = "busy", CompareStep,
         Head_.type # "preferences/save", sequence' = sequence, PluginFrame, UNCHANGED page
  PROVE  Inv'
<1>1. SettingsMove /\ disk' = disk
  BY StaysMoved DEF CompareStep, settings
<1>2. CASE ~ready /\ FailStep("unavailable")
  BY <1>1, <1>2, FailInv
<1>3. CASE ready /\ seen.revision # Head_.expected /\ FailStep("conflict")
  <2>1. Head_.expected \in Nat /\ Head_.expected <= seen.revision
    BY HeadSound DEF Sound, Good, Based, CommandRecords
  <2>2. Head_.expected < disk'.revision
    BY <1>1, <1>3, <2>1, Typed
  <2> QED BY <1>1, <1>3, <2>2, FailInv
<1>4. CASE NextStep
  BY <1>1, <1>4, NextInv
<1> QED BY <1>2, <1>3, <1>4 DEF CompareStep

(* What conflicts is expected earlier than it is.                           *)
LEMMA ConflictIsLater ==
  ASSUME Inv, commandTail # << >>, Conflicts(Head_.expected)
  PROVE  Head_.expected < disk.revision
<1>1. Head_.expected \in Nat /\ Head_.expected <= seen.revision
  BY HeadSound DEF Sound, Good, Based, CommandRecords
<1> QED BY <1>1, Typed DEF Conflicts

LEMMA SaveInv ==
  ASSUME Inv, commandTail # << >>, Head_.phase = "busy", SaveStep,
         Head_.type = "preferences/save", Head_.preferences \in Preferences,
         sequence' = sequence, PluginFrame, UNCHANGED page
  PROVE  Inv'
<1>1. CASE SettingsFault /\ FailStep("unavailable")
  BY <1>1, FaultMoves, FailInv
<1>2. CASE Conflicts(Head_.expected) /\ FailStep("conflict") /\ UNCHANGED <<settings, left>>
  <2>1. disk' = disk /\ SettingsMove
    BY <1>2, StaysMoved DEF settings
  <2> QED BY <1>2, <2>1, ConflictIsLater, FailInv
<1>3. CASE /\ ~Conflicts(Head_.expected) /\ NextStep /\ UNCHANGED left
           /\ AdoptStored
  <2>1. SettingsMove
    BY <1>3, StoredMoves
  <2> QED BY <1>3, <2>1, NextInv DEF Conflicts
<1>4. CASE ~Conflicts(Head_.expected) /\ NextStep /\ UNCHANGED left /\ Write(Head_.preferences)
  <2>1. SettingsMove
    BY <1>4, WriteMoves DEF Inv, TypeOK
  <2> QED BY <1>4, <2>1, NextInv DEF Conflicts
<1> QED BY <1>1, <1>2, <1>3, <1>4 DEF SaveStep

LEMMA StoreInv ==
  ASSUME Inv, commandTail # << >>, Head_.phase = "busy", StoreStep,
         Head_.type # "preferences/save", sequence' = sequence, PluginFrame, UNCHANGED page
  PROVE  Inv'
<1>1. CASE SettingsFault /\ FailStep("unavailable")
  BY <1>1, FaultMoves, FailInv
<1>2. CASE Conflicts(Head_.expected) /\ FailStep("conflict") /\ UNCHANGED <<settings, left>>
  <2>1. disk' = disk /\ SettingsMove
    BY <1>2, StaysMoved DEF settings
  <2> QED BY <1>2, <2>1, ConflictIsLater, FailInv
<1>3. CASE FailStep("rejected") /\ UNCHANGED <<settings, left>>
  BY <1>3, StaysMoved, FailInv
<1>4. CASE NextStep /\ UNCHANGED left /\ AdoptStored
  BY <1>4, StoredMoves, NextInv
<1>5. CASE NextStep /\ UNCHANGED left /\ Write(disk.preferences)
  <2>1. SettingsMove
    BY <1>5, Typed, StoredMoves
  <2> QED BY <1>5, <2>1, NextInv
<1> QED BY <1>1, <1>2, <1>3, <1>4, <1>5 DEF StoreStep

LEMMA ReconcileInv ==
  ASSUME Inv, commandTail # << >>, Head_.phase = "busy", ReconcileStep,
         Head_.type # "preferences/save", sequence' = sequence, PluginFrame, UNCHANGED page
  PROVE  Inv'
<1>1. CASE NextStep /\ UNCHANGED <<settings, left>>
  BY <1>1, StaysMoved, NextInv
<1>2. CASE SettingsFault /\ FailStep("unavailable")
  BY <1>2, FaultMoves, FailInv
<1>3. CASE NextStep /\ UNCHANGED left /\ AdoptStored
  BY <1>3, StoredMoves, NextInv
<1>4. CASE NextStep /\ Spend("disturbances") /\ Write(disk.preferences)
  <2>1. left' \in [turns : Nat, disturbances : Nat]
    BY <1>4, SpendIs
  <2> QED BY <1>4, <2>1, StoredMoves, NextInv
<1> QED BY <1>1, <1>2, <1>3, <1>4 DEF ReconcileStep

(* Which step is due depends on the command.                                *)
LEMMA SaveStepDue ==
  ASSUME Inv, commandTail # << >>, Head_.phase = "busy"
  PROVE  /\ Head_.type = "preferences/save" => StepNow = "save"
         /\ StepNow = "save" => Head_.type = "preferences/save"
<1>1. Head_ \in CommandRecords /\ Failing(Head_, disk)
  BY HeadSound DEF Sound, Good
<1>2. Head_.type \in CommandTypes /\ Head_.step \in Nat /\ Head_.step < Len(Steps)
  BY <1>1 DEF CommandRecords, Failing, Steps
<1>3. CASE Head_.type = "preferences/save"
  <2>1. Head_.step = 0 /\ Steps = StepsOf["preferences/save"]
    BY <1>1, <1>3 DEF Failing, Steps
  <2> QED BY <1>3, <2>1, StepsAre DEF StepNow
<1>4. CASE Head_.type # "preferences/save"
  <2>1. Head_.step + 1 \in 1..Len(Steps)
    BY <1>2, StepsAre DEF Steps
  <2> QED BY <1>2, <1>4, <2>1, StepsAre DEF StepNow, Steps
<1> QED BY <1>3, <1>4

LEMMA FinishStepInv ==
  ASSUME Inv, FinishStep
  PROVE  Inv'
<1>1. /\ commandTail # << >> /\ Head_.phase = "busy" /\ sequence' = sequence
      /\ PluginFrame /\ UNCHANGED page
  BY DEF FinishStep, CommandFrame, PluginFrame
<1>2. CASE StepNow = "compare" /\ CompareStep
  BY <1>1, <1>2, SaveStepDue, CompareInv
<1>3. CASE StepNow = "save" /\ SaveStep
  <2>1. Head_.type = "preferences/save"
    BY <1>1, <1>3, SaveStepDue
  <2>2. Head_.preferences \in Preferences
    BY <1>1, <2>1, HeadSound DEF Sound, Good, Failing
  <2> QED BY <1>1, <1>3, <2>1, <2>2, SaveInv
<1>4. CASE StepNow = "store" /\ StoreStep
  BY <1>1, <1>4, SaveStepDue, StoreInv
<1>5. CASE StepNow \in {"reconcile", "token"} /\ ReconcileStep
  BY <1>1, <1>5, SaveStepDue, ReconcileInv
<1>6. CASE StepNow # "save" /\ NextStep /\ UNCHANGED <<settings, left>>
  BY <1>1, <1>6, SaveStepDue, StaysMoved, NextInv
<1>7. CASE FailStep("rejected") /\ UNCHANGED <<settings, left>>
  BY <1>1, <1>7, StaysMoved, FailInv
<1> QED BY <1>2, <1>3, <1>4, <1>5, <1>6, <1>7 DEF FinishStep, ApproveStep

-----------------------------------------------------------------------------
(* The answer.                                                              *)

LEMMA SnapshotIsNews ==
  ASSUME Inv, NEW number \in Nat \ {0}, NEW v \in {seen, disk}, NEW s, s = Snapshot(number, v)
  PROVE  /\ s \in RealSnapshots /\ s \in Snapshots /\ s.revision = v.revision
         /\ News(s, page, disk, v.revision, epoch)
<1>1. v \in SettingsValues /\ v.revision \in Nat /\ v.revision <= disk.revision
      /\ seen.revision <= v.revision /\ (v.revision = disk.revision => v = disk)
  BY Typed DEF Inv, SettingsKnown
<1>2. /\ s \in RealSnapshots /\ s.epoch = epoch /\ s.revision = v.revision
      /\ s.preferences = v.preferences
  BY <1>1, Typed DEF Snapshot, RealSnapshots, SettingsValues
<1>3. OfDisk(s, disk, v.revision)
  BY <1>1, <1>2 DEF OfDisk
<1>4. page.revision <= s.revision
  BY <1>1, <1>2, Typed
<1> QED BY <1>2, <1>3, <1>4, Snapshotted DEF News

LEMMA BuildAnswerInv ==
  ASSUME Inv, BuildAnswer
  PROVE  Inv'
<1>1. commandTail # << >> /\ Head_.phase = "idle" /\ Head_.step = Len(Steps) /\ PluginFrame
      /\ UNCHANGED page /\ SettingsMove /\ disk' = disk /\ seen' = seen
  BY StaysMoved DEF BuildAnswer, CommandFrame, PluginFrame, settings
<1>2. CASE FailStep("unavailable") /\ UNCHANGED sequence
  BY <1>1, <1>2, FailInv
<1>3. CASE /\ sequence' = sequence + 1
           /\ HeadTo([Head_ EXCEPT !.phase = "answer",
                                   !.snapshot = Snapshot(sequence + 1, seen)])
  <2>1. PICK h, s : h = Head_ /\ s = Snapshot(sequence + 1, seen)
    OBVIOUS
  <2>2. PICK c : c = [h EXCEPT !.phase = "answer", !.snapshot = s]
    OBVIOUS
  <2>3. HeadTo(c)
    BY <1>3, <2>1, <2>2
  <2>4. h \in CommandRecords /\ Good(h, page, disk, seen.revision, epoch)
        /\ h.phase = "idle" /\ h.step = Len(StepsOf[h.type])
    BY <1>1, <2>1, HeadSound DEF Sound, Steps
  <2>5. sequence + 1 \in Nat \ {0}
    BY Typed
  <2>6. s \in Snapshots /\ News(s, page, disk, seen.revision, epoch)
    BY <2>1, <2>5, SnapshotIsNews
  <2>7. /\ c \in CommandRecords /\ SameCommand(c, h) /\ c.expected = h.expected
        /\ c.basis = h.basis /\ c.snapshot = s /\ c.phase = "answer" /\ c.ok = h.ok
        /\ c.conflict = h.conflict /\ c.step = h.step
    BY <2>2, <2>4, <2>6 DEF CommandRecords, SameCommand
  <2>8. ASSUME h.type = "preferences/save" PROVE h.step = 1
    <3>1. Len(StepsOf[h.type]) = 1
      BY <2>8, StepsAre
    <3> QED BY <2>4, <3>1
  <2>9. Failing(c, disk)
    BY <2>4, <2>7, <2>8 DEF Good, Failing, SameCommand
  <2>10. Good(c, page, disk, seen.revision, epoch)
    BY <2>4, <2>6, <2>7, <2>9 DEF Good, Based, SaveShown, SameCommand
  <2>11. SameCommand(c, Head_) /\ sequence' \in Nat
    BY <1>3, <2>1, <2>5, <2>7
  <2> QED BY <1>1, <2>3, <2>7, <2>10, <2>11, StepInv
<1> QED BY <1>2, <1>3 DEF BuildAnswer

LEMMA RecoverSnapshotInv ==
  ASSUME Inv, RecoverSnapshot
  PROVE  Inv'
<1>1. commandTail # << >> /\ Head_.phase = "recover" /\ PluginFrame /\ UNCHANGED page
  BY DEF RecoverSnapshot, CommandFrame, PluginFrame
<1>2. PICK h : h = Head_
  OBVIOUS
<1>3. h \in CommandRecords /\ Good(h, page, disk, seen.revision, epoch) /\ h.phase = "recover"
  BY <1>1, <1>2, HeadSound DEF Sound
<1>4. h.snapshot = NoSnapshot /\ ~h.ok
  BY <1>3 DEF Good, Failing
<1>5. CASE /\ SettingsFault
           /\ HeadTo([Head_ EXCEPT !.phase = "answer"])
           /\ UNCHANGED sequence
  <2>1. PICK c : c = [h EXCEPT !.phase = "answer"]
    OBVIOUS
  <2>2. HeadTo(c)
    BY <1>2, <1>5, <2>1
  <2>3. SettingsMove
    BY <1>5, FaultMoves
  <2>4. Good(h, page, disk', seen'.revision, epoch)
    BY <1>1, <1>2, <2>3, MovedGood
  <2>5. /\ c \in CommandRecords /\ SameCommand(c, h) /\ c.expected = h.expected
        /\ c.basis = h.basis /\ c.snapshot = h.snapshot /\ c.phase = "answer" /\ c.ok = h.ok
        /\ c.conflict = h.conflict /\ c.step = h.step
    BY <1>3, <2>1 DEF CommandRecords, SameCommand
  <2>6. Failing(c, disk')
    BY <1>3, <1>4, <2>4, <2>5 DEF Good, Failing, SameCommand
  <2>7. Good(c, page, disk', seen'.revision, epoch)
    BY <2>4, <2>5, <2>6 DEF Good, Based, SaveShown, SameCommand
  <2>8. SameCommand(c, Head_) /\ sequence' \in Nat
    BY <1>2, <1>5, <2>5, Typed
  <2> QED BY <1>1, <2>2, <2>3, <2>5, <2>7, <2>8, StepInv
<1>6. CASE ReadAgain
  <2>1. PICK s : s = Snapshot(sequence + 1, disk)
    OBVIOUS
  <2>2. PICK c : c = [h EXCEPT !.phase = "answer", !.snapshot = s]
    OBVIOUS
  <2>3. HeadTo(c)
    BY <1>2, <1>6, <2>1, <2>2 DEF ReadAgain
  <2>4. SettingsMove /\ disk' = disk /\ seen' = disk
    BY <1>6, AdoptMoves DEF ReadAgain, Inv, TypeOK
  <2>5. Good(h, page, disk, disk.revision, epoch)
    BY <1>1, <1>2, <2>4, MovedGood
  <2>6. sequence + 1 \in Nat \ {0} /\ sequence' = sequence + 1
    BY <1>6, Typed DEF ReadAgain
  <2>7. s \in Snapshots /\ s.revision = disk.revision
        /\ News(s, page, disk, disk.revision, epoch)
    BY <2>1, <2>6, SnapshotIsNews
  <2>8. /\ c \in CommandRecords /\ SameCommand(c, h) /\ c.expected = h.expected
        /\ c.basis = h.basis /\ c.snapshot = s /\ c.phase = "answer" /\ c.ok = h.ok
        /\ c.conflict = h.conflict /\ c.step = h.step
    BY <1>3, <2>2, <2>7 DEF CommandRecords, SameCommand
  <2>9. Failing(c, disk)
    BY <1>3, <1>4, <2>5, <2>7, <2>8 DEF Good, Failing, SameCommand
  <2>10. Good(c, page, disk, disk.revision, epoch)
    BY <2>5, <2>7, <2>8, <2>9 DEF Good, Based, SaveShown, SameCommand
  <2>11. SameCommand(c, Head_) /\ sequence' \in Nat
    BY <1>2, <2>6, <2>8
  <2>12. Good(c, page, disk', seen'.revision, epoch)
    BY <2>4, <2>10
  <2> QED BY <1>1, <2>3, <2>4, <2>8, <2>11, <2>12, StepInv
<1> QED BY <1>5, <1>6 DEF RecoverSnapshot

-----------------------------------------------------------------------------
(* A command ends.                                                          *)

LEMMA RestGood ==
  ASSUME Inv, commandTail # << >>, commandTail' = Tail(commandTail)
  PROVE  /\ commandTail' \in Seq(CommandRecords)
         /\ \A b \in Range(commandTail') :
              /\ b \in Range(commandTail) /\ b \in CommandRecords /\ Sound(b)
              /\ b.step = 0 /\ b.phase = "idle"
         /\ commandTail' # << >> =>
              \A b \in Range(Tail(commandTail')) : b \in Range(commandTail')
<1>1. commandTail \in Seq(CommandRecords)
      /\ Range(commandTail) = {Head_} \cup Range(Tail(commandTail))
  BY HeadSound
<1>2. commandTail' \in Seq(CommandRecords)
  BY <1>1, TailIs
<1>3. Range(commandTail') \subseteq CommandRecords
  BY <1>2, RangeIs
<1>4. commandTail' # << >> => Range(Tail(commandTail')) \subseteq Range(commandTail')
  <2>1. PICK t : t = commandTail'
    OBVIOUS
  <2>2. t # << >> => Range(t) = {Head(t)} \cup Range(Tail(t))
    BY <1>2, <2>1, RangeOfTail
  <2> QED BY <2>1, <2>2
<1> QED BY <1>1, <1>2, <1>3, <1>4 DEF Inv, CommandsGood

LEMMA AbandonInv ==
  ASSUME Inv, Abandon
  PROVE  Inv'
<1>1. /\ commandTail # << >> /\ ~MayGoOn /\ commandTail' = Tail(commandTail) /\ PluginFrame
      /\ UNCHANGED <<page, greetings, interval, left, sequence>> /\ SettingsMove
  BY StaysMoved DEF Abandon, CommandFrame, PluginFrame
<1>2. TypeOK'
  BY <1>1, RestGood DEF Inv, TypeOK, SettingsMove, PluginFrame
<1>3. SettingsKnown' /\ Present' /\ PageGood'
  BY <1>1, FrameStays, PageMoves DEF SettingsMove, PluginFrame
<1>4. SaveUnderWay'
  <2> SUFFICES ASSUME shown = "reported", page.save # 0, page.current = epoch, ~destroyed
               PROVE  \E b \in Range(commandTail') : b.id = page.save /\ FenceCurrent(b.fence)'
    BY <1>1 DEF SaveUnderWay, PluginFrame
  <2>1. PICK b \in Range(commandTail) : b.id = page.save /\ FenceCurrent(b.fence)
    BY DEF Inv, SaveUnderWay
  <2>2. FenceCurrent(b.fence)'
    BY <1>1, <2>1, FenceStays
  <2>3. b \in Range(commandTail')
    BY <1>1, <2>1, HeadSound DEF MayGoOn
  <2> QED BY <2>1, <2>2, <2>3
<1>5. CommandsGood'
  <2>1. ASSUME NEW b \in Range(commandTail') PROVE Sound(b)'
    <3>1. b \in CommandRecords /\ Sound(b)
      BY <1>1, RestGood
    <3> QED BY <1>1, <3>1, SoundMoves DEF PluginFrame
  <2> QED BY <1>1, <2>1, RestGood DEF CommandsGood
<1> QED BY <1>2, <1>3, <1>4, <1>5 DEF Inv

-----------------------------------------------------------------------------
(* A message reaches the page.                                              *)

LEMMA PageTurnsInv ==
  ASSUME Inv, open, PluginFrame, UNCHANGED <<disk, seen, ready>>, sequence' \in Nat,
         left' \in [turns : Nat, disturbances : Nat], commandTail' \in Seq(CommandRecords),
         NEW z \in Pages, page' = z, z.current = page.current \/ Visible, Heard(z, disk, seen.revision, epoch), Requested(z),
         IdsBelow(z, nextId), Dated(z, page, epoch), SaveUnderWay',
         \A b \in Range(commandTail') :
           /\ b \in CommandRecords /\ Sound(b)
           /\ SaveShown(b, z, disk) /\ Remembered(b, z, nextId),
         commandTail' # << >> =>
           \A b \in Range(Tail(commandTail')) : b.step = 0 /\ b.phase = "idle"
  PROVE  Inv'
<1>1. TypeOK'
  BY DEF Inv, TypeOK, PluginFrame
<1>2. SettingsKnown' /\ Present'
  BY FrameStays DEF Inv, SettingsKnown
<1>3. PageGood'
  BY DEF PageGood, PluginFrame
<1>4. ASSUME NEW b \in Range(commandTail') PROVE Sound(b)'
  <2>1. Good(b, page, disk, seen.revision, epoch) /\ Fenced(b.fence) /\ b.snapshot \in Snapshots
    BY <1>4 DEF Sound, CommandRecords
  <2>2. News(b.snapshot, z, disk, seen.revision, epoch)
    BY <2>1, Typed, NewsKept DEF Good
  <2>3. Good(b, z, disk, seen.revision, epoch)
    BY <1>4, <2>1, <2>2 DEF Good
  <2>4. Fenced(b.fence)'
    BY <2>1 DEF Fenced, Visible, PluginFrame
  <2> QED BY <1>4, <2>3, <2>4 DEF Sound, PluginFrame
<1>5. CommandsGood'
  BY <1>4 DEF CommandsGood
<1> QED BY <1>1, <1>2, <1>3, <1>5 DEF Inv

LEMMA UpdateInv ==
  ASSUME Inv, open, Visible, PluginFrame, UNCHANGED <<disk, seen, ready, commandTail>>,
         sequence' \in Nat, left' \in [turns : Nat, disturbances : Nat], NEW m, Message(m), ~Expected(m, page),
         News(m.snapshot, page, disk, seen.revision, epoch), page' = HandleMessage(page, m)
  PROVE  Inv'
<1>1. PICK z : z = page'
  OBVIOUS
<1>2. SaveIsLast(page)
  BY Typed DEF Requested
<1>3. z \in Pages /\ Heard(z, disk, seen.revision, epoch) /\ Dated(z, page, epoch)
      /\ Updated(z, page)
  BY <1>1, <1>2, Typed, MessageHandled
<1>4. Requested(z)
  BY <1>3, Typed, UpdatedRequested
<1>5. IdsBelow(z, nextId)
  BY <1>3, Typed DEF IdsBelow, Updated
<1>6. SaveUnderWay'
  <2> SUFFICES ASSUME shown = "reported", z.save # 0, z.current = epoch, ~destroyed
               PROVE  \E b \in Range(commandTail) : b.id = z.save /\ FenceCurrent(b.fence)'
    BY <1>1 DEF SaveUnderWay, PluginFrame
  <2>1. page.save = z.save /\ page.current = epoch
    BY <1>3 DEF Updated
  <2>2. PICK b \in Range(commandTail) : b.id = page.save /\ FenceCurrent(b.fence)
    BY <2>1 DEF Inv, SaveUnderWay
  <2>3. FenceCurrent(b.fence)'
    BY <2>2, FenceStays
  <2> QED BY <2>1, <2>2, <2>3
<1>7. ASSUME NEW b \in Range(commandTail)
      PROVE  /\ b \in CommandRecords /\ Sound(b)
             /\ SaveShown(b, z, disk) /\ Remembered(b, z, nextId)
  <2>1. b \in CommandRecords /\ Sound(b)
    BY RangeIs DEF Inv, TypeOK, CommandsGood
  <2>2. SaveShown(b, page, disk)
    BY <2>1 DEF Sound, Good
  <2>3. SaveShown(b, z, disk)
    BY <1>3, <2>1, <2>2, Typed, UpdatedShows
  <2>4. Remembered(b, z, nextId)
    BY <1>3, <2>1 DEF Sound, Remembered, Updated
  <2> QED BY <2>1, <2>3, <2>4
<1>8. commandTail # << >> =>
        \A b \in Range(Tail(commandTail)) : b.step = 0 /\ b.phase = "idle"
  BY DEF Inv, CommandsGood
<1>9. commandTail' \in Seq(CommandRecords) /\ commandTail' = commandTail
  BY DEF Inv, TypeOK
<1> QED BY <1>1, <1>3, <1>4, <1>5, <1>6, <1>7, <1>8, <1>9, PageTurnsInv

(* Without a page there is nobody to tell.                                  *)
LEMMA QuietInv ==
  ASSUME Inv, SettingsMove, PluginFrame, UNCHANGED <<commandTail, page>>, sequence' \in Nat
  PROVE  Inv'
<1>1. TypeOK'
  BY DEF Inv, TypeOK, PluginFrame, SettingsMove
<1>2. SettingsKnown' /\ Present' /\ PageGood'
  BY FrameStays, PageMoves DEF SettingsMove, PluginFrame
<1>3. SaveUnderWay'
  BY FenceStays DEF Inv, SaveUnderWay, PluginFrame
<1>4. ASSUME NEW b \in Range(commandTail) PROVE Sound(b)'
  <2>1. b \in CommandRecords /\ Sound(b)
    BY RangeIs DEF Inv, TypeOK, CommandsGood
  <2> QED BY <2>1, SoundMoves DEF PluginFrame
<1>5. CommandsGood'
  BY <1>4 DEF Inv, CommandsGood
<1> QED BY <1>1, <1>2, <1>3, <1>5 DEF Inv

LEMMA UnheardInv ==
  ASSUME Inv, PluginFrame, UNCHANGED <<disk, seen, ready, commandTail, page>>, sequence' \in Nat,
         left' \in [turns : Nat, disturbances : Nat]
  PROVE  Inv'
<1>1. SettingsMove
  BY Typed DEF Inv, TypeOK, SettingsKnown, SettingsMove, Moved
<1> QED BY <1>1, QuietInv

(* The page is told something it did not ask for.                           *)
Told ==
  /\ open /\ Visible
  /\ \E m : /\ Message(m) /\ ~Expected(m, page)
             /\ News(m.snapshot, page, disk, seen.revision, epoch)
             /\ page' = HandleMessage(page, m)

LEMMA ToldUpdates ==
  ASSUME Inv, Told
  PROVE  page' \in Pages /\ Updated(page', page)
<1>1. PICK m : /\ Message(m) /\ ~Expected(m, page)
               /\ News(m.snapshot, page, disk, seen.revision, epoch)
               /\ page' = HandleMessage(page, m)
  BY DEF Told
<1>2. PICK z : z = page'
  OBVIOUS
<1>3. SaveIsLast(page)
  BY Typed DEF Requested
<1>4. z \in Pages /\ Updated(z, page)
  BY <1>1, <1>2, <1>3, Typed, MessageHandled
<1> QED BY <1>2, <1>4

LEMMA SnapshotTells ==
  ASSUME Inv, open, Visible, NEW type \in {"settings/update", "diagnostics/update"},
         SafeSend([type |-> type, snapshot |-> Snapshot(sequence + 1, seen)])
  PROVE  Told
<1>1. PICK s : s = Snapshot(sequence + 1, seen)
  OBVIOUS
<1>2. PICK m : m = [type |-> type, snapshot |-> s]
  OBVIOUS
<1>3. page' = HandleMessage(page, m)
  BY <1>1, <1>2 DEF SafeSend, UiShown
<1>4. sequence + 1 \in Nat \ {0}
  BY Typed
<1>5. s \in RealSnapshots /\ News(s, page, disk, seen.revision, epoch)
  BY <1>1, <1>4, SnapshotIsNews
<1>6. Message(m) /\ ~Expected(m, page) /\ m.snapshot = s
  BY <1>2, <1>5 DEF Message, Expected
<1> QED BY <1>3, <1>5, <1>6 DEF Told

LEMMA ToldInv ==
  ASSUME Inv, UNCHANGED page \/ Told, PluginFrame, UNCHANGED <<disk, seen, ready, commandTail>>,
         sequence' \in Nat, left' \in [turns : Nat, disturbances : Nat]
  PROVE  Inv'
<1>1. CASE UNCHANGED page
  BY <1>1, UnheardInv
<1>2. CASE Told
  BY <1>2, UpdateInv DEF Told
<1> QED BY <1>1, <1>2

LEMMA GreetTells ==
  ASSUME Inv, NEW i, Greet(i)
  PROVE  UNCHANGED page \/ Told
BY SnapshotTells DEF Greet, SafeSend, UiShown

LEMMA GreetInv ==
  ASSUME Inv, NEW i, Greet(i)
  PROVE  Inv'
<1>1. /\ PluginFrame /\ UNCHANGED <<disk, seen, ready, commandTail, left>>
      /\ sequence' = sequence + IF ready THEN 1 ELSE 0
  BY DEF Greet, PluginFrame, settings
<1>2. sequence' \in Nat /\ left' \in [turns : Nat, disturbances : Nat]
  BY <1>1, Typed DEF Inv, TypeOK
<1> QED BY <1>1, <1>2, GreetTells, ToldInv

LEMMA PushTells ==
  ASSUME Inv, StartDiagnosticsPush
  PROVE  UNCHANGED page \/ Told
BY SnapshotTells DEF StartDiagnosticsPush, SafeSend, UiShown

LEMMA StartDiagnosticsPushInv ==
  ASSUME Inv, StartDiagnosticsPush
  PROVE  Inv'
<1>1. /\ PluginFrame /\ UNCHANGED <<disk, seen, ready, commandTail>>
      /\ sequence' = sequence + 1 /\ left' \in [turns : Nat, disturbances : Nat]
  BY SpendIs DEF StartDiagnosticsPush, PluginFrame, settings
<1>2. sequence' \in Nat
  BY <1>1, Typed
<1> QED BY <1>1, <1>2, PushTells, ToldInv

(* The save of the page is not answered without its being told.             *)
LEMMA SaveIsHeard ==
  ASSUME Inv, NEW c \in CommandRecords, Sound(c), page.save # 0, c.id = page.save,
         page.current = epoch
  PROVE  c.id \in DOMAIN page.pending /\ ~Outdated(page, page.pending[c.id], c.snapshot)
<1>1. /\ c.id \in DOMAIN page.pending /\ page.pending[c.id].epoch = epoch /\ epoch # 0
      /\ \A f \in page.retired : f < epoch
  BY Typed DEF Requested, SaveIsLast, Heard, HeardEpochs
<1>2. c.snapshot # NoSnapshot => c.snapshot.epoch = epoch
  BY DEF Sound, Good, News
<1>3. epoch \notin page.retired
  BY <1>1, Typed
<1> QED BY <1>1, <1>2, <1>3 DEF Outdated, Known

LEMMA AnswerHeard ==
  ASSUME Inv, commandTail # << >>, NEW m, m = AnswerOf(Head_), NEW z, z = HandleMessage(page, m)
  PROVE  /\ m.id = Head_.id /\ m.ok = Head_.ok /\ m.snapshot = Head_.snapshot
         /\ z \in Pages /\ Heard(z, disk, seen.revision, epoch) /\ Dated(z, page, epoch)
         /\ IF m.id \in DOMAIN page.pending
            THEN IF Outdated(page, page.pending[m.id], m.snapshot) THEN z = page
                 ELSE Taken(z, page, m.id, m.ok)
            ELSE Updated(z, page)
<1>1. Head_ \in CommandRecords /\ Sound(Head_)
  BY HeadSound
<1>2. /\ Message(m) /\ News(m.snapshot, page, disk, seen.revision, epoch)
      /\ m.id = Head_.id /\ m.ok = Head_.ok /\ m.snapshot = Head_.snapshot
      /\ m.type = "answer"
  BY <1>1 DEF AnswerOf, Message, CommandRecords, Sound, Good
<1>3. SaveIsLast(page)
  BY Typed DEF Requested
<1>4. Expected(m, page) <=> m.id \in DOMAIN page.pending
  BY <1>2 DEF Expected
<1>5. /\ z \in Pages /\ Heard(z, disk, seen.revision, epoch) /\ Dated(z, page, epoch)
      /\ IF Expected(m, page)
         THEN IF Outdated(page, page.pending[m.id], m.snapshot) THEN z = page
              ELSE Taken(z, page, m.id, m.ok)
         ELSE Updated(z, page)
  BY <1>2, <1>3, Typed, MessageHandled
<1> QED BY <1>2, <1>4, <1>5

LEMMA SendAnswerInv ==
  ASSUME Inv, SendAnswer
  PROVE  Inv'
<1>1. /\ commandTail # << >> /\ Head_.phase = "answer" /\ commandTail' = Tail(commandTail)
      /\ PluginFrame /\ UNCHANGED <<disk, seen, ready, left, sequence>> /\ SettingsMove
  BY StaysMoved DEF SendAnswer, CommandFrame, PluginFrame, settings
<1>2. /\ Head_ \in CommandRecords /\ Sound(Head_) /\ sequence' \in Nat
      /\ left' \in [turns : Nat, disturbances : Nat]
  BY <1>1, HeadSound DEF Inv, TypeOK
<1>3. CASE ~(open /\ Visible)
  <2>1. page' = page
    BY <1>3 DEF SendAnswer, Answer, SafeSend, UiShown
  <2>2. TypeOK'
    BY <1>1, <1>2, <2>1, RestGood DEF Inv, TypeOK, PluginFrame
  <2>3. SettingsKnown' /\ Present' /\ PageGood'
    BY <1>1, <2>1, FrameStays, PageMoves DEF SettingsMove, PluginFrame
  <2>4. SaveUnderWay'
    <3>1. shown = "reported" => destroyed
      BY <1>3 DEF Inv, TypeOK, Present, Visible
    <3> QED BY <1>1, <3>1 DEF SaveUnderWay, PluginFrame
  <2>5. ASSUME NEW b \in Range(commandTail') PROVE Sound(b)'
    <3>1. b \in CommandRecords /\ Sound(b)
      BY <1>1, RestGood
    <3> QED BY <1>1, <2>1, <3>1, SoundMoves DEF PluginFrame
  <2>6. CommandsGood'
    BY <1>1, <2>5, RestGood DEF CommandsGood
  <2> QED BY <2>2, <2>3, <2>4, <2>6 DEF Inv
<1>4. CASE open /\ Visible
  <2>1. PICK m : m = AnswerOf(Head_)
    OBVIOUS
  <2>2. PICK z : z = page'
    OBVIOUS
  <2>3. z = HandleMessage(page, m)
    BY <1>4, <2>1, <2>2 DEF SendAnswer, Answer, SafeSend, UiShown
  <2>4. /\ m.id = Head_.id /\ m.ok = Head_.ok /\ m.snapshot = Head_.snapshot
        /\ z \in Pages /\ Heard(z, disk, seen.revision, epoch) /\ Dated(z, page, epoch)
        /\ IF m.id \in DOMAIN page.pending
           THEN IF Outdated(page, page.pending[m.id], m.snapshot) THEN z = page
                ELSE Taken(z, page, m.id, m.ok)
           ELSE Updated(z, page)
    BY <1>1, <2>1, <2>3, AnswerHeard
  <2>5. Requested(z)
    BY <2>4, Typed, UpdatedRequested, TakenRequested
  <2>6. IdsBelow(z, nextId)
    BY <2>4, Typed DEF IdsBelow, Updated, Taken, Forgotten
  <2>7. SaveUnderWay'
    <3> SUFFICES ASSUME shown = "reported", z.save # 0, z.current = epoch, ~destroyed
                 PROVE  \E b \in Range(commandTail') : b.id = z.save /\ FenceCurrent(b.fence)'
      BY <1>1, <2>2 DEF SaveUnderWay, PluginFrame
    <3>1. page.save = z.save /\ page.current = epoch
      BY <2>4 DEF Updated, Taken
    <3>2. PICK b \in Range(commandTail) : b.id = page.save /\ FenceCurrent(b.fence)
      BY <1>4, <3>1 DEF Inv, SaveUnderWay
    <3>3. FenceCurrent(b.fence)'
      BY <1>1, <3>2, FenceStays
    <3>4. b # Head_
      <4> SUFFICES ASSUME b = Head_ PROVE FALSE
        OBVIOUS
      <4>1. m.id \in DOMAIN page.pending
            /\ ~Outdated(page, page.pending[m.id], m.snapshot)
        BY <1>2, <2>4, <3>1, <3>2, SaveIsHeard
      <4>2. Taken(z, page, m.id, m.ok)
        BY <2>4, <4>1
      <4> QED BY <2>4, <3>1, <3>2, <4>2 DEF Taken
    <3>5. b \in Range(commandTail')
      BY <1>1, <3>2, <3>4, HeadSound
    <3> QED BY <3>1, <3>2, <3>3, <3>5
  <2>8. ASSUME NEW b \in Range(commandTail')
        PROVE  /\ b \in CommandRecords /\ Sound(b)
               /\ SaveShown(b, z, disk) /\ Remembered(b, z, nextId)
    <3>1. b \in CommandRecords /\ Sound(b) /\ b.step = 0
      BY <1>1, RestGood
    <3>2. SaveShown(b, page, disk) /\ Remembered(b, page, nextId)
      BY <3>1 DEF Sound, Good
    <3>3. SaveShown(b, z, disk)
      BY <2>4, <3>1, <3>2, Typed, UpdatedShows, TakenShows
    <3>4. Remembered(b, z, nextId)
      BY <2>4, <3>2 DEF Remembered, Updated, Taken, Forgotten
    <3> QED BY <3>1, <3>3, <3>4
  <2>9. /\ commandTail' \in Seq(CommandRecords)
        /\ commandTail' # << >> =>
             \A b \in Range(Tail(commandTail')) : b.step = 0 /\ b.phase = "idle"
    BY <1>1, RestGood
  <2>10. UNCHANGED <<disk, seen, ready>> /\ page' = z
    BY <1>1, <2>2
  <2>11. z \in Pages /\ Heard(z, disk, seen.revision, epoch) /\ Dated(z, page, epoch)
    BY <2>4
  <2> QED BY <1>1, <1>2, <1>4, <2>5, <2>6, <2>7, <2>8, <2>9, <2>10, <2>11, PageTurnsInv
<1> QED BY <1>3, <1>4

-----------------------------------------------------------------------------
(* The inspector comes and goes.                                            *)

LEMMA FreshIsGood ==
  ASSUME NEW d \in SettingsValues, NEW n \in Nat, NEW e \in Nat, NEW next \in Nat \ {0}
  PROVE  /\ Heard(FreshPage, d, n, e) /\ Requested(FreshPage) /\ IdsBelow(FreshPage, next)
         /\ \A section \in Sections : FreshPage.lastOf[section] = 0
         /\ FreshPage.form = None
<1>1. FreshPage.lastOf = [section \in Sections |-> 0] /\ FreshPage.form = None
  BY DEF FreshPage, Sections
<1>2. Heard(FreshPage, d, n, e)
  BY FreshIsPage DEF Heard, HeardLatest, HeardEpochs, HeardSettings, SettingsValues
<1>3. Requested(FreshPage)
  BY <1>1, FreshIsPage DEF Requested, SaveIsLast, SecretsTyped, EditsCounted
<1>4. IdsBelow(FreshPage, next)
  BY <1>1, FreshIsPage DEF IdsBelow
<1> QED BY <1>1, <1>2, <1>3, <1>4

(* A page that knows nothing contradicts no command.                        *)
LEMMA FreshSuits ==
  ASSUME NEW c \in CommandRecords, NEW p, NEW d, NEW n, NEW e, Good(c, p, d, n, e),
         NEW z, z.applied = 0, z.revision = 0, c.id \notin DOMAIN z.pending
  PROVE  Good(c, z, d, n, e)
<1>1. c.snapshot.revision \in Nat
  BY Snapshotted DEF CommandRecords
<1>2. News(c.snapshot, z, d, n, e)
  BY <1>1 DEF Good, News
<1>3. SaveShown(c, z, d)
  BY DEF SaveShown
<1> QED BY <1>2, <1>3 DEF Good

(* The fences stand while the inspector that is there keeps its generation  *)
(* and a new one gets a new generation.                                     *)
LEMMA FencesHold ==
  ASSUME NEW f \in Fences, Fenced(f), TypeOK, TypeOK', destroyed' = destroyed,
         nextGeneration <= nextGeneration', tracked => tracked',
         Visible' => visit' = visit /\ tracked'
                     /\ \/ Visible /\ context'.generation = context.generation
                        \/ nextGeneration < context'.generation,
         tracked' \/ visit' = visit
  PROVE  Fenced(f)'
<1>1. /\ f.generation \in Nat /\ nextGeneration \in Nat /\ nextGeneration' \in Nat
      /\ context'.generation \in Nat
  BY DEF Fences, TypeOK
<1> QED BY <1>1 DEF Fenced

(* A command that is received stands at the end of the others.              *)
Received(type, fence, expected, preferences) ==
  [type |-> type, id |-> nextId, expected |-> expected, preferences |-> preferences,
   basis |-> page.basis, fence |-> fence, step |-> 0, phase |-> "idle", ok |-> TRUE,
   conflict |-> FALSE, snapshot |-> NoSnapshot]

Fresh(c, type, fence, expected, preferences) ==
  /\ c \in CommandRecords /\ c.type = type /\ c.id = nextId /\ c.expected = expected
  /\ c.preferences = preferences /\ c.basis = page.basis /\ c.fence = fence
  /\ c.step = 0 /\ c.phase = "idle" /\ c.ok = TRUE /\ c.conflict = FALSE
  /\ c.snapshot = NoSnapshot

LEMMA ReceivedIs ==
  ASSUME Inv, NEW type \in CommandTypes, NEW fence \in Fences, NEW expected \in Nat,
         NEW preferences \in FormValues
  PROVE  Fresh(Received(type, fence, expected, preferences), type, fence, expected, preferences)
<1>1. page.basis \in FormValues /\ nextId \in Nat
  BY Typed DEF Pages
<1> QED BY <1>1, Snapshotted DEF Fresh, Received, CommandRecords

LEMMA HandledIs ==
  ASSUME Inv, NEW type \in CommandTypes, NEW fence \in Fences, NEW expected \in Nat,
         NEW preferences \in FormValues, HandleCommand(type, fence, expected, preferences),
         NEW c, c = Received(type, fence, expected, preferences)
  PROVE  /\ commandTail' \in Seq(CommandRecords)
         /\ \A b \in Range(commandTail') :
              b \in Range(commandTail) \/ (b = c /\ ~destroyed)
         /\ \A b \in Range(commandTail) : b \in Range(commandTail')
         /\ ~destroyed => c \in Range(commandTail')
         /\ commandTail' # << >> =>
              \A b \in Range(Tail(commandTail')) : b.step = 0 /\ b.phase = "idle"
<1>1. commandTail \in Seq(CommandRecords)
      /\ (commandTail # << >> =>
            \A b \in Range(Tail(commandTail)) : b.step = 0 /\ b.phase = "idle")
  BY DEF Inv, TypeOK, CommandsGood
<1>2. c \in CommandRecords /\ c.step = 0 /\ c.phase = "idle"
  <2>1. Fresh(Received(type, fence, expected, preferences), type, fence, expected, preferences)
    BY ReceivedIs
  <2>2. Fresh(c, type, fence, expected, preferences)
    BY <2>1
  <2> QED BY <2>2 DEF Fresh
<1>3. CASE destroyed
  BY <1>1, <1>3 DEF HandleCommand
<1>4. CASE ~destroyed
  <2>1. PICK t : t = commandTail'
    OBVIOUS
  <2>2. t = Append(commandTail, c)
    BY <1>4, <2>1 DEF HandleCommand, Received
  <2>3. Append(commandTail, c) \in Seq(CommandRecords)
        /\ Appended(Append(commandTail, c), commandTail, c)
    BY <1>1, <1>2, AppendedIs
  <2>4. t \in Seq(CommandRecords) /\ Appended(t, commandTail, c)
    BY <2>2, <2>3
  <2> QED BY <1>1, <1>2, <1>4, <2>1, <2>4 DEF Appended
<1> QED BY <1>3, <1>4

LEMMA AppearIs ==
  ASSUME Inv, Appear, UNCHANGED <<destroyed, visit>>
  PROVE  /\ context' \in [appearances : Nat, generation : Nat] /\ nextGeneration' \in Nat
         /\ tracked' \in BOOLEAN /\ nextGeneration <= nextGeneration' /\ (tracked => tracked')
         /\ Visible' => ~destroyed /\ tracked' /\ context'.generation \in 1..nextGeneration'
         /\ ~destroyed =>
              /\ tracked' /\ Visible' /\ context'.appearances = context.appearances + 1
              /\ \/ Visible /\ context'.generation = context.generation
                 \/ nextGeneration < context'.generation
         /\ destroyed => UNCHANGED <<context, nextGeneration, tracked>>
<1>1. /\ context \in [appearances : Nat, generation : Nat] /\ nextGeneration \in Nat
      /\ tracked \in BOOLEAN
      /\ (Visible => ~destroyed /\ tracked /\ context.generation \in 1..nextGeneration)
  BY DEF Inv, TypeOK, Present
<1>2. CASE destroyed
  BY <1>1, <1>2 DEF Appear, Visible
<1>3. CASE ~destroyed
  <2>1. PICK g : g = IF Visible THEN context.generation ELSE nextGeneration + 1
    OBVIOUS
  <2>2. /\ context' = [appearances |-> context.appearances + 1, generation |-> g]
        /\ nextGeneration' = Later(nextGeneration, g) /\ tracked' = TRUE
    BY <1>3, <2>1 DEF Appear
  <2>3. g \in Nat /\ g \in 1..Later(nextGeneration, g) /\ nextGeneration <= Later(nextGeneration, g)
        /\ Later(nextGeneration, g) \in Nat
    BY <1>1, <2>1 DEF Later
  <2>4. context'.generation = g /\ context'.appearances = context.appearances + 1
        /\ context' \in [appearances : Nat, generation : Nat] /\ context'.appearances > 0
    BY <1>1, <2>2, <2>3
  <2>5. Visible' /\ tracked' = TRUE /\ nextGeneration' \in Nat
        /\ nextGeneration <= nextGeneration' /\ context'.generation \in 1..nextGeneration'
    BY <2>2, <2>3, <2>4 DEF Visible
  <2>6. \/ Visible /\ context'.generation = context.generation
        \/ nextGeneration < context'.generation
    BY <1>1, <2>1, <2>4
  <2> QED BY <1>3, <2>4, <2>5, <2>6
<1> QED BY <1>2, <1>3

LEMMA ConnectInv ==
  ASSUME Inv, Connect, open' = TRUE,
         \/ ~open /\ leaving' = leaving
         \/ /\ open /\ leaving = "no"
            /\ leaving' = IF shown = "reported" THEN "reported" ELSE "unreported"
  PROVE  Inv'
<1>1. /\ left' \in [turns : Nat, disturbances : Nat] /\ nextId' = nextId + 1 /\ Appear
      /\ UNCHANGED <<epoch, destroyed, sequence, visit, disk, seen, ready>>
      /\ shown' = "reported"
  BY SpendIs DEF Connect, settings
<1>2. PICK z : z = page'
  OBVIOUS
<1>3. "settings/request" \in CommandTypes /\ None \in FormValues /\ 0 \in Nat
      /\ nextId \in Nat \ {0}
  BY DEF CommandTypes, FormValues, Inv, TypeOK
<1>4. /\ FreshPage \in Pages /\ Heard(FreshPage, disk, seen.revision, epoch)
      /\ Requested(FreshPage) /\ IdsBelow(FreshPage, nextId)
  BY <1>3, Typed, FreshIsPage, FreshIsGood
<1>5. /\ z \in Pages /\ SameForm(z, FreshPage) /\ Sent(z, FreshPage, "settings/request", nextId)
      /\ z.secret = FreshPage.secret /\ z.secretEdits = FreshPage.secretEdits
      /\ z.edits = FreshPage.edits /\ z.current = FreshPage.current
      /\ z.retired = FreshPage.retired /\ z.latest = FreshPage.latest
  BY <1>2, <1>3, <1>4, SendIs DEF Connect
<1>6. Heard(z, disk, seen.revision, epoch)
  BY <1>4, <1>5, SameHeard
<1>7. Requested(z) /\ IdsBelow(z, nextId + 1)
  <2>1. FreshPage.secretEdits = 0
    BY FreshIsPage
  <2> QED BY <1>3, <1>4, <1>5, <2>1, SentRequested
<1>8. z.save = 0 /\ z.applied = 0 /\ z.revision = 0 /\ DOMAIN z.pending = {nextId}
      /\ z.pending[nextId] = RequestOf(FreshPage, "settings/request")
  BY <1>5, FreshIsPage DEF Sent, SameForm
<1>9. PICK f : f = [tracked |-> tracked', generation |-> context'.generation, visit |-> visit]
  OBVIOUS
<1>10. /\ f \in Fences /\ f.tracked = tracked' /\ f.generation = context'.generation
       /\ f.visit = visit
  BY <1>1, <1>9, AppearIs DEF Fences, Inv, TypeOK
<1>11. PICK c : c = Received("settings/request", f, 0, None)
  OBVIOUS
<1>12. /\ commandTail' \in Seq(CommandRecords)
       /\ \A b \in Range(commandTail') : b \in Range(commandTail) \/ (b = c /\ ~destroyed)
       /\ commandTail' # << >> =>
            \A b \in Range(Tail(commandTail')) : b.step = 0 /\ b.phase = "idle"
  <2>1. HandleCommand("settings/request", f, 0, None)
    BY <1>9 DEF Connect
  <2> QED BY <1>3, <1>10, <1>11, <2>1, HandledIs
<1>13. TypeOK'
  <2>1. context' \in [appearances : Nat, generation : Nat] /\ nextGeneration' \in Nat
        /\ tracked' \in BOOLEAN
    BY <1>1, AppearIs
  <2>2. /\ leaving' \in {"no", "reported", "unreported"} /\ open' \in BOOLEAN
        /\ nextId' \in Nat \ {0} /\ shown' \in {"reported", "unreported", "lost"}
    <3>1. nextId' \in Nat \ {0} /\ shown' \in {"reported", "unreported", "lost"}
      BY <1>1, <1>3
    <3>2. leaving' \in {"no", "reported", "unreported"} /\ open' \in BOOLEAN
      BY DEF Inv, TypeOK
    <3> QED BY <3>1, <3>2
  <2> QED BY <1>1, <1>2, <1>5, <1>12, <2>1, <2>2 DEF Inv, TypeOK
<1>14. SettingsKnown' /\ PageGood'
  BY <1>1, <1>2, <1>6, <1>7 DEF Inv, SettingsKnown, PageGood
<1>15. Present'
  <2>1. context.appearances \in Nat
    BY DEF Inv, TypeOK
  <2>2. leaving' = "reported" <=> shown = "reported"
    BY DEF Inv, TypeOK, Present
  <2>3. ASSUME ~destroyed
        PROVE  context'.appearances = 1 + (IF leaving' = "reported" THEN 1 ELSE 0)
    <3>1. context'.appearances = context.appearances + 1
      BY <1>1, <2>3, AppearIs
    <3>2. leaving # "reported"
      BY DEF Inv, Present
    <3> QED BY <2>1, <2>2, <2>3, <3>1, <3>2 DEF Inv, Present
  <2> QED BY <1>1, <2>3, AppearIs DEF Present
<1>16. SaveUnderWay'
  BY <1>2, <1>8 DEF SaveUnderWay
<1>17. ASSUME NEW b \in Range(commandTail) PROVE Sound(b)'
  <2>1. b \in CommandRecords /\ Sound(b) /\ b.fence \in Fences
    <3>1. b \in CommandRecords /\ Sound(b)
      BY RangeIs DEF Inv, TypeOK, CommandsGood
    <3> QED BY <3>1 DEF CommandRecords
  <2>2. b.id \in Nat /\ b.id < nextId
    BY <2>1 DEF Sound, Remembered, CommandRecords
  <2>3. b.id \notin DOMAIN z.pending
    BY <1>8, <2>2
  <2>4. Good(b, z, disk, seen.revision, epoch)
    BY <1>8, <2>1, <2>3, FreshSuits DEF Sound
  <2>5. Remembered(b, z, nextId + 1)
    BY <1>3, <2>2, <2>3 DEF Remembered
  <2>6. Fenced(b.fence)'
    <3>1. CASE destroyed
      BY <1>1, <3>1 DEF Fenced
    <3>2. CASE ~destroyed
      BY <1>1, <1>13, <2>1, <3>2, AppearIs, FencesHold DEF Sound, Inv
    <3> QED BY <3>1, <3>2
  <2> QED BY <1>1, <1>2, <2>4, <2>5, <2>6 DEF Sound
<1>18. ASSUME ~destroyed PROVE Sound(c)'
  <2>1. /\ c \in CommandRecords /\ c.type = "settings/request" /\ c.id = nextId
        /\ c.expected = 0 /\ c.preferences = None /\ c.fence = f /\ c.phase = "idle"
        /\ c.conflict = FALSE /\ c.snapshot = NoSnapshot
    <3>1. Fresh(Received("settings/request", f, 0, None), "settings/request", f, 0, None)
      BY <1>3, <1>10, ReceivedIs
    <3>2. Fresh(c, "settings/request", f, 0, None)
      BY <1>11, <3>1
    <3> QED BY <3>2 DEF Fresh
  <2>2. Good(c, z, disk, seen.revision, epoch)
    BY <2>1, Typed DEF Good, Based, Failing, News, SaveShown
  <2>3. Remembered(c, z, nextId + 1)
    BY <1>3, <1>8, <2>1, FreshIsGood, Typed DEF Remembered, RequestOf
  <2>4. Fenced(f)'
    BY <1>1, <1>10, <1>18, AppearIs DEF Fenced
  <2> QED BY <1>1, <1>2, <2>1, <2>2, <2>3, <2>4 DEF Sound
<1>19. CommandsGood'
  BY <1>12, <1>17, <1>18 DEF CommandsGood
<1> QED BY <1>13, <1>14, <1>15, <1>16, <1>19 DEF Inv

LEMMA OpenInv == ASSUME Inv, Open PROVE Inv'
BY ConnectInv DEF Open

LEMMA ReloadInv == ASSUME Inv, Reload PROVE Inv'
BY ConnectInv DEF Reload

(* The fence of a command stands for the inspector that is there.           *)
LEMMA CapturedIs ==
  ASSUME Inv
  PROVE  /\ CaptureFence \in Fences /\ Fenced(CaptureFence)
         /\ shown = "reported" /\ ~destroyed => FenceCurrent(CaptureFence)
<1>1. /\ tracked \in BOOLEAN /\ visit \in Nat /\ nextGeneration \in Nat
      /\ context \in [appearances : Nat, generation : Nat]
      /\ (Visible => context.generation \in 1..nextGeneration /\ tracked)
      /\ (shown = "reported" /\ ~destroyed => Visible)
  BY DEF Inv, TypeOK, Present, Visible
<1>2. PICK g : g = IF Visible THEN context.generation ELSE 0
  OBVIOUS
<1>3. PICK f : f = CaptureFence
  OBVIOUS
<1>4. f = [tracked |-> tracked, generation |-> g, visit |-> visit]
  BY <1>2, <1>3 DEF CaptureFence
<1>5. g \in Nat /\ g <= nextGeneration /\ (Visible => g = context.generation /\ g # 0)
  BY <1>1, <1>2
<1>6. f.tracked = tracked /\ f.generation = g /\ f.visit = visit
  BY <1>4
<1>7. f \in Fences
  BY <1>1, <1>4, <1>5 DEF Fences
<1>8. Fenced(f)
  BY <1>5, <1>6 DEF Fenced
<1>9. shown = "reported" /\ ~destroyed => FenceCurrent(f)
  BY <1>1, <1>5, <1>6 DEF FenceCurrent, IsCurrent
<1> QED BY <1>3, <1>7, <1>8, <1>9

(* A command already sent is another than the one that is being sent.       *)
LEMMA OtherSuits ==
  ASSUME Inv, NEW b \in CommandRecords, Sound(b), NEW type \in CommandTypes, NEW z \in Pages,
         SameForm(z, page), Sent(z, page, type, nextId), z.edits = page.edits
  PROVE  Good(b, z, disk, seen.revision, epoch) /\ Remembered(b, z, nextId + 1)
<1>1. b.id \in Nat /\ b.id < nextId /\ Good(b, page, disk, seen.revision, epoch)
  BY DEF Sound, Remembered, CommandRecords
<1>2. News(b.snapshot, z, disk, seen.revision, epoch)
  BY <1>1 DEF Good, News, SameForm
<1>3. b.id # nextId /\ nextId \in Nat
  BY <1>1, Typed
<1>4. b.id \in DOMAIN z.pending =>
        b.id \in DOMAIN page.pending /\ z.pending[b.id] = page.pending[b.id]
  BY <1>3 DEF Sent
<1>5. SaveShown(b, z, disk)
  <2>1. CASE type = "preferences/save"
    <3>1. z.lastOf["advanced"] = nextId
      BY <2>1, SectionTypes DEF Sent
    <3> QED BY <1>3, <3>1 DEF SaveShown
  <2>2. CASE type # "preferences/save"
    <3>1. z.lastOf["advanced"] = page.lastOf["advanced"] /\ z.save = page.save
      BY <2>2, SectionTypes DEF Sent
    <3>2. SaveShown(b, page, disk)
      BY <1>1 DEF Good
    <3> QED BY <1>4, <3>1, <3>2 DEF SaveShown, SameForm
  <2> QED BY <2>1, <2>2
<1>6. Good(b, z, disk, seen.revision, epoch)
  BY <1>1, <1>2, <1>5 DEF Good
<1>7. Remembered(b, z, nextId + 1)
  BY <1>1, <1>3, <1>4 DEF Sound, Remembered
<1> QED BY <1>6, <1>7

LEMMA CommandInv ==
  ASSUME Inv, NEW type \in Commands, Command(type)
  PROVE  Inv'
<1>1. /\ left' \in [turns : Nat, disturbances : Nat] /\ nextId' = nextId + 1 /\ open
      /\ UNCHANGED <<epoch, destroyed, context, tracked, nextGeneration, sequence, visit,
                     disk, seen, ready, leaving, open, shown>>
  BY SpendIs DEF Command, settings
<1>2. PICK z : z = page'
  OBVIOUS
<1>3. type \in CommandTypes /\ type # "settings/request" /\ nextId \in Nat \ {0}
      /\ nextId + 1 \in Nat \ {0}
  BY CommandsAssumption DEF Inv, TypeOK
<1>4. /\ z \in Pages /\ SameForm(z, page) /\ Sent(z, page, type, nextId)
      /\ z.secret = page.secret /\ z.secretEdits = page.secretEdits
      /\ z.edits = page.edits /\ z.current = page.current
      /\ z.retired = page.retired /\ z.latest = page.latest
  <2>1. z = SendCommand(page, type, nextId) /\ page \in Pages /\ nextId \in Nat
    BY <1>2, Typed DEF Command
  <2> QED BY <1>3, <2>1, SendIs
<1>5. Heard(z, disk, seen.revision, epoch)
  BY <1>4, Typed, SameHeard
<1>6. type = "preferences/save" =>
        page.authoritative # None /\ page.form # page.authoritative /\ page.form # None
  BY DEF Command, MaySave, Dirty
<1>7. Requested(z) /\ IdsBelow(z, nextId + 1)
  BY <1>3, <1>4, <1>6, Typed, SentRequested
<1>8. PICK f, x, r : /\ f = CaptureFence /\ x = ExpectedRevision(type) /\ r = page.form
  OBVIOUS
<1>9. f \in Fences /\ Fenced(f) /\ (shown = "reported" /\ ~destroyed => FenceCurrent(f))
  BY <1>1, <1>8, CapturedIs
<1>10. /\ x \in Nat /\ x <= page.revision /\ r \in FormValues
       /\ (type = "preferences/save" => x = page.basisRevision)
  BY <1>8, Typed DEF ExpectedRevision, Heard, HeardSettings, Pages
<1>11. HandleCommand(type, f, x, r)
  BY <1>8 DEF Command
<1>12. PICK c : c = Received(type, f, x, r)
  OBVIOUS
<1>13. /\ c \in CommandRecords /\ c.type = type /\ c.id = nextId /\ c.expected = x
       /\ c.preferences = r /\ c.basis = page.basis /\ c.fence = f
       /\ c.step = 0 /\ c.phase = "idle" /\ c.ok = TRUE /\ c.conflict = FALSE
       /\ c.snapshot = NoSnapshot
  <2>1. Fresh(Received(type, f, x, r), type, f, x, r)
    BY <1>3, <1>9, <1>10, ReceivedIs
  <2>2. Fresh(c, type, f, x, r)
    BY <1>12, <2>1
  <2> QED BY <2>2 DEF Fresh
<1>14. /\ commandTail' \in Seq(CommandRecords)
       /\ \A b \in Range(commandTail') : b \in Range(commandTail) \/ (b = c /\ ~destroyed)
       /\ \A b \in Range(commandTail) : b \in Range(commandTail')
       /\ ~destroyed => c \in Range(commandTail')
       /\ commandTail' # << >> =>
            \A b \in Range(Tail(commandTail')) : b.step = 0 /\ b.phase = "idle"
  BY <1>3, <1>9, <1>10, <1>11, <1>12, HandledIs
<1>15. TypeOK'
  BY <1>1, <1>2, <1>3, <1>4, <1>14 DEF Inv, TypeOK
<1>16. SettingsKnown' /\ PageGood'
  BY <1>1, <1>2, <1>5, <1>7 DEF Inv, SettingsKnown, PageGood
<1>17. Present'
  BY <1>1, <1>2, <1>4 DEF Inv, Present, Visible
<1>18. \A g : FenceCurrent(g) => FenceCurrent(g)'
  BY <1>1 DEF FenceCurrent, IsCurrent, Visible
<1>19. SaveUnderWay'
  <2> SUFFICES ASSUME shown = "reported", z.save # 0, z.current = epoch, ~destroyed
               PROVE  \E b \in Range(commandTail') : b.id = z.save /\ FenceCurrent(b.fence)'
    BY <1>1, <1>2 DEF SaveUnderWay
  <2>1. CASE type = "preferences/save"
    <3>1. c \in Range(commandTail') /\ c.id = z.save
      BY <1>4, <1>13, <1>14, <2>1 DEF Sent
    <3>2. FenceCurrent(c.fence)'
      BY <1>9, <1>13, <1>18
    <3> QED BY <3>1, <3>2
  <2>2. CASE type # "preferences/save"
    <3>1. page.save = z.save /\ page.current = epoch
      BY <1>4, <2>2 DEF Sent
    <3>2. PICK b \in Range(commandTail) : b.id = page.save /\ FenceCurrent(b.fence)
      BY <1>1, <3>1 DEF Inv, SaveUnderWay
    <3>3. FenceCurrent(b.fence)' /\ b \in Range(commandTail')
      BY <1>14, <1>18, <3>2
    <3> QED BY <3>1, <3>2, <3>3
  <2> QED BY <2>1, <2>2
<1>20. \A g \in Fences : Fenced(g) => Fenced(g)'
  BY <1>1 DEF Fenced, Visible
<1>21. ASSUME NEW b \in Range(commandTail) PROVE Sound(b)'
  <2>1. b \in CommandRecords /\ Sound(b)
    BY RangeIs DEF Inv, TypeOK, CommandsGood
  <2>2. Good(b, z, disk, seen.revision, epoch) /\ Remembered(b, z, nextId + 1)
    BY <1>3, <1>4, <2>1, OtherSuits
  <2>3. Fenced(b.fence)'
    BY <1>20, <2>1 DEF Sound, CommandRecords
  <2> QED BY <1>1, <1>2, <2>2, <2>3 DEF Sound
<1>22. Sound(c)'
  <2>1. /\ page.basisRevision \in Nat /\ page.basisRevision <= page.revision
        /\ page.revision \in Nat /\ page.revision <= seen.revision
        /\ seen.revision <= disk.revision /\ seen.revision \in Nat /\ disk.revision \in Nat
        /\ (page.revision = disk.revision /\ page.authoritative # None
              => page.authoritative = disk.preferences)
        /\ (page.basisRevision = disk.revision =>
              page.basis = disk.preferences \/ (disk.revision = 0 /\ page.basis = None))
    BY Typed DEF Heard, HeardSettings, Pages
  <2>2. Based(c, disk, seen.revision)
    BY <1>10, <1>13, <2>1 DEF Based
  <2>3. Failing(c, disk)
    BY <1>6, <1>8, <1>10, <1>13 DEF Failing, FormValues
  <2>4. SaveShown(c, z, disk)
    <3>1. CASE type = "preferences/save"
      <4>1. x <= z.revision /\ z.form = r
        BY <1>4, <1>8, <1>10 DEF SameForm
      <4>2. x = disk.revision => r # disk.preferences
        BY <1>6, <1>8, <1>10, <2>1, <3>1
      <4> QED BY <1>13, <4>1, <4>2 DEF SaveShown
    <3>2. CASE type # "preferences/save"
      BY <1>13, <3>2 DEF SaveShown
    <3> QED BY <3>1, <3>2
  <2>5. Good(c, z, disk, seen.revision, epoch)
    BY <1>13, <2>2, <2>3, <2>4 DEF Good, News
  <2>6. Remembered(c, z, nextId + 1)
    BY <1>3, <1>4, <1>8, <1>13 DEF Remembered, Sent, RequestOf
  <2>7. Fenced(c.fence)'
    BY <1>9, <1>13, <1>20
  <2> QED BY <1>1, <1>2, <2>5, <2>6, <2>7 DEF Sound
<1>23. CommandsGood'
  BY <1>14, <1>21, <1>22 DEF CommandsGood
<1> QED BY <1>15, <1>16, <1>17, <1>19, <1>23 DEF Inv

LEMMA EditInv ==
  ASSUME Inv, Edit
  PROVE  Inv'
<1>1. /\ left' \in [turns : Nat, disturbances : Nat] /\ open /\ PluginFrame
      /\ UNCHANGED <<disk, seen, ready, sequence, commandTail>>
  BY SpendIs DEF Edit, plugin, settings, PluginFrame
<1>2. PICK z : z = page'
  OBVIOUS
<1>3. z \in Pages /\ Turned(z, page)
  <2>1. CASE \E form \in FormValues : page' = EditPreferences(page, form)
    BY <1>2, <2>1, Typed, EditIs DEF Turned
  <2>2. CASE page' = TypeSecret(page, left.turns)
    <3>1. left.turns \in Nat
      BY DEF Inv, TypeOK
    <3>2. z = TypeSecret(page, left.turns) /\ page \in Pages
      BY <1>2, <2>2, Typed
    <3>3. /\ z \in Pages /\ z.pending = page.pending /\ z.lastOf = page.lastOf
          /\ z.save = page.save /\ z.current = page.current /\ z.retired = page.retired
          /\ z.latest = page.latest /\ SameForm(z, page) /\ z.edits = page.edits
          /\ z.secretEdits = page.secretEdits + 1
      BY <3>1, <3>2, TypeIs, ZenonT(40)
    <3> QED BY <3>3 DEF Turned, SameForm
  <2> QED BY <2>1, <2>2 DEF Edit, FormValues
<1>4. /\ Heard(z, disk, seen.revision, epoch) /\ Requested(z)
      /\ \A c \in CommandRecords :
           Good(c, page, disk, seen.revision, epoch) => Good(c, z, disk, seen.revision, epoch)
      /\ \A c \in CommandRecords :
           Remembered(c, page, nextId) => Remembered(c, z, nextId)
  BY <1>3, Typed, TurnedKeeps
<1>5. IdsBelow(z, nextId) /\ Dated(z, page, epoch) /\ z.current = page.current
  BY <1>3, Typed DEF IdsBelow, Dated, Turned
<1>6. SaveUnderWay'
  BY <1>1, <1>2, <1>3, FenceStays DEF Inv, SaveUnderWay, PluginFrame, Turned
<1>7. ASSUME NEW b \in Range(commandTail)
      PROVE  /\ b \in CommandRecords /\ Sound(b)
             /\ SaveShown(b, z, disk) /\ Remembered(b, z, nextId)
  <2>1. b \in CommandRecords /\ Sound(b)
    BY RangeIs DEF Inv, TypeOK, CommandsGood
  <2>2. Good(b, z, disk, seen.revision, epoch) /\ Remembered(b, z, nextId)
    BY <1>4, <2>1 DEF Sound
  <2> QED BY <2>1, <2>2 DEF Good
<1>8. commandTail # << >> =>
        \A b \in Range(Tail(commandTail)) : b.step = 0 /\ b.phase = "idle"
  BY DEF Inv, CommandsGood
<1>9. commandTail' \in Seq(CommandRecords) /\ commandTail' = commandTail /\ sequence' \in Nat
  BY <1>1 DEF Inv, TypeOK
<1> QED BY <1>1, <1>2, <1>3, <1>4, <1>5, <1>6, <1>7, <1>8, <1>9, PageTurnsInv

LEMMA DisappearIs ==
  ASSUME Inv, Disappear, UNCHANGED destroyed
  PROVE  /\ context' \in [appearances : Nat, generation : Nat] /\ nextGeneration' \in Nat
         /\ visit' \in Nat /\ tracked' = TRUE /\ nextGeneration <= nextGeneration'
         /\ Visible' => /\ Visible /\ context'.generation = context.generation /\ visit' = visit
         /\ context'.appearances =
              IF context.appearances > 1 THEN context.appearances - 1 ELSE 0
<1>1. /\ context \in [appearances : Nat, generation : Nat] /\ nextGeneration \in Nat
      /\ visit \in Nat
  BY DEF Inv, TypeOK
<1>2. CASE context.appearances > 1
  <2>1. context' = [context EXCEPT !.appearances = context.appearances - 1]
    BY <1>2 DEF Disappear
  <2>2. /\ context'.appearances = context.appearances - 1
        /\ context'.generation = context.generation
        /\ context' \in [appearances : Nat, generation : Nat]
    BY <1>1, <1>2, <2>1
  <2>3. context' # NoContext
    BY <1>1, <1>2, <2>2 DEF NoContext
  <2> QED BY <1>1, <1>2, <2>2, <2>3 DEF Disappear, Visible
<1>3. CASE ~(context.appearances > 1)
  <2>1. context' = NoContext /\ context'.appearances = 0
        /\ context' \in [appearances : Nat, generation : Nat]
    BY <1>3 DEF Disappear, NoContext
  <2> QED BY <1>1, <1>3, <2>1 DEF Disappear, Visible
<1> QED BY <1>2, <1>3

LEMMA GoneFences ==
  ASSUME Inv, Disappear, UNCHANGED destroyed, NEW f \in Fences, Fenced(f)
  PROVE  Fenced(f)'
<1>1. f.generation \in Nat /\ nextGeneration \in Nat
  BY DEF Fences, Inv, TypeOK
<1> QED BY <1>1, DisappearIs DEF Fenced

LEMMA OldPageGoneInv ==
  ASSUME Inv, OldPageGone
  PROVE  Inv'
<1>1. /\ leaving # "no" /\ leaving' = "no" /\ Disappear
      /\ shown' = IF leaving = "unreported" /\ shown = "reported" THEN "lost" ELSE shown
      /\ UNCHANGED <<epoch, destroyed, sequence, commandTail, disk, seen, ready, open, page,
                     nextId, left>>
  BY DEF OldPageGone, settings
<1>2. TypeOK'
  BY <1>1, DisappearIs DEF Inv, TypeOK
<1>3. SettingsKnown' /\ PageGood'
  BY <1>1 DEF Inv, SettingsKnown, PageGood
<1>4. Present'
  <2>1. context.appearances \in Nat /\ context.generation \in Nat /\ nextGeneration \in Nat
        /\ nextGeneration' \in Nat
    BY <1>1, DisappearIs DEF Inv, TypeOK
  <2>2. ASSUME Visible'
        PROVE  ~destroyed /\ tracked' /\ context'.generation \in 1..nextGeneration'
    <3>1. Visible /\ context'.generation = context.generation /\ tracked' = TRUE
          /\ nextGeneration <= nextGeneration'
      BY <1>1, <2>2, DisappearIs
    <3>2. ~destroyed /\ context.generation \in 1..nextGeneration
      BY <3>1 DEF Inv, Present
    <3> QED BY <2>1, <3>1, <3>2
  <2>3. ASSUME ~destroyed
        PROVE  context'.appearances = IF shown' = "reported" THEN 1 ELSE 0
    <3>1. context.appearances = (IF shown = "reported" THEN 1 ELSE 0)
                                + (IF leaving = "reported" THEN 1 ELSE 0)
          /\ (leaving = "reported" => shown = "reported")
      BY <2>3 DEF Inv, Present
    <3>2. leaving \in {"reported", "unreported"}
      BY <1>1 DEF Inv, TypeOK
    <3>3. context'.appearances =
            IF context.appearances > 1 THEN context.appearances - 1 ELSE 0
      BY <1>1, DisappearIs
    <3> QED BY <1>1, <3>1, <3>2, <3>3
  <2>4. /\ ~open => shown' = "unreported"
        /\ open /\ shown' = "unreported" => page.current # epoch
    BY <1>1 DEF Inv, Present
  <2> QED BY <1>1, <2>2, <2>3, <2>4 DEF Present
<1>5. SaveUnderWay'
  <2> SUFFICES ASSUME shown' = "reported", page.save # 0, page.current = epoch, ~destroyed
               PROVE  \E b \in Range(commandTail) : b.id = page.save /\ FenceCurrent(b.fence)'
    BY <1>1 DEF SaveUnderWay
  <2>1. shown = "reported" /\ leaving = "reported"
    BY <1>1 DEF Inv, TypeOK
  <2>2. PICK b \in Range(commandTail) : b.id = page.save /\ FenceCurrent(b.fence)
    BY <2>1 DEF Inv, SaveUnderWay
  <2>3. context.appearances = 2 /\ tracked
    BY <2>1 DEF Inv, Present, Visible
  <2>4. Visible' /\ context'.generation = context.generation /\ tracked'
    BY <1>1, <2>3, DisappearIs DEF Visible
  <2>5. FenceCurrent(b.fence)'
    BY <1>1, <2>2, <2>3, <2>4 DEF FenceCurrent, IsCurrent
  <2> QED BY <2>2, <2>5
<1>6. ASSUME NEW b \in Range(commandTail) PROVE Sound(b)'
  <2>1. b \in CommandRecords /\ Sound(b)
    BY RangeIs DEF Inv, TypeOK, CommandsGood
  <2>2. b.fence \in Fences /\ Fenced(b.fence)
    BY <2>1 DEF Sound, CommandRecords
  <2>3. Fenced(b.fence)'
    BY <1>1, <2>2, GoneFences
  <2> QED BY <1>1, <2>1, <2>3 DEF Sound
<1>7. CommandsGood'
  BY <1>1, <1>6 DEF Inv, CommandsGood
<1> QED BY <1>2, <1>3, <1>4, <1>5, <1>7 DEF Inv

LEMMA CloseInv ==
  ASSUME Inv, Close
  PROVE  Inv'
<1>1. /\ open /\ leaving = "no" /\ open' = FALSE /\ shown' = "unreported"
      /\ page' = FreshPage /\ Disappear
      /\ UNCHANGED <<epoch, destroyed, sequence, commandTail, disk, seen, ready, leaving,
                     nextId, left>>
  BY DEF Close, settings
<1>2. TypeOK'
  BY <1>1, DisappearIs, FreshIsPage DEF Inv, TypeOK
<1>3. SettingsKnown' /\ PageGood'
  <2>1. nextId \in Nat \ {0}
    BY DEF Inv, TypeOK
  <2>2. Heard(FreshPage, disk, seen.revision, epoch) /\ Requested(FreshPage)
        /\ IdsBelow(FreshPage, nextId)
    BY <2>1, Typed, FreshIsGood
  <2> QED BY <1>1, <2>2 DEF Inv, SettingsKnown, PageGood
<1>4. Present'
  <2>1. context.appearances \in Nat /\ context.generation \in Nat /\ nextGeneration \in Nat
        /\ nextGeneration' \in Nat
    BY <1>1, DisappearIs DEF Inv, TypeOK
  <2>2. ASSUME Visible'
        PROVE  ~destroyed /\ tracked' /\ context'.generation \in 1..nextGeneration'
    <3>1. Visible /\ context'.generation = context.generation /\ tracked' = TRUE
          /\ nextGeneration <= nextGeneration'
      BY <1>1, <2>2, DisappearIs
    <3>2. ~destroyed /\ context.generation \in 1..nextGeneration
      BY <3>1 DEF Inv, Present
    <3> QED BY <2>1, <3>1, <3>2
  <2>3. ASSUME ~destroyed PROVE context'.appearances = 0
    <3>1. context.appearances \in {0, 1}
      BY <1>1, <2>3 DEF Inv, Present
    <3> QED BY <1>1, <3>1, DisappearIs
  <2> QED BY <1>1, <2>2, <2>3 DEF Present
<1>5. SaveUnderWay'
  BY <1>1 DEF SaveUnderWay
<1>6. ASSUME NEW b \in Range(commandTail) PROVE Sound(b)'
  <2>1. b \in CommandRecords /\ Sound(b)
    BY RangeIs DEF Inv, TypeOK, CommandsGood
  <2>2. b.fence \in Fences /\ Fenced(b.fence) /\ Good(b, page, disk, seen.revision, epoch)
        /\ b.id < nextId
    BY <2>1 DEF Sound, CommandRecords, Remembered
  <2>3. Fenced(b.fence)'
    BY <1>1, <2>2, GoneFences
  <2>4. FreshPage.applied = 0 /\ FreshPage.revision = 0 /\ b.id \notin DOMAIN FreshPage.pending
    BY FreshIsPage
  <2>5. Good(b, FreshPage, disk, seen.revision, epoch)
    BY <2>1, <2>2, <2>4, FreshSuits
  <2>6. Remembered(b, FreshPage, nextId)
    BY <2>2, <2>4 DEF Remembered
  <2> QED BY <1>1, <2>3, <2>5, <2>6 DEF Sound
<1>7. CommandsGood'
  BY <1>1, <1>6 DEF Inv, CommandsGood
<1> QED BY <1>2, <1>3, <1>4, <1>5, <1>7 DEF Inv

LEMMA ReportInv ==
  ASSUME Inv, Report
  PROVE  Inv'
<1>1. /\ open /\ shown = "unreported" /\ shown' = "reported" /\ Appear
      /\ UNCHANGED <<epoch, destroyed, sequence, commandTail, visit, disk, seen, ready,
                     leaving, open, page, nextId, left>>
  BY DEF Report, settings
<1>2. TypeOK'
  BY <1>1, AppearIs DEF Inv, TypeOK
<1>3. SettingsKnown' /\ PageGood'
  BY <1>1 DEF Inv, SettingsKnown, PageGood
<1>4. Present'
  <2>1. context.appearances \in Nat
    BY DEF Inv, TypeOK
  <2>2. leaving # "reported"
    BY <1>1 DEF Inv, Present
  <2>3. ASSUME ~destroyed PROVE context'.appearances = 1
    <3>1. context'.appearances = context.appearances + 1
      BY <1>1, <2>3, AppearIs
    <3> QED BY <1>1, <2>1, <2>2, <2>3, <3>1 DEF Inv, Present
  <2> QED BY <1>1, <2>2, <2>3, AppearIs DEF Present
<1>5. SaveUnderWay'
  BY <1>1 DEF Inv, Present, SaveUnderWay
<1>6. ASSUME NEW b \in Range(commandTail) PROVE Sound(b)'
  <2>1. b \in CommandRecords /\ Sound(b)
    BY RangeIs DEF Inv, TypeOK, CommandsGood
  <2>2. b.fence \in Fences /\ Fenced(b.fence)
    BY <2>1 DEF Sound, CommandRecords
  <2>3. Fenced(b.fence)'
    <3>1. CASE destroyed
      BY <1>1, <3>1 DEF Fenced
    <3>2. CASE ~destroyed
      BY <1>1, <1>2, <2>2, <3>2, AppearIs, FencesHold DEF Inv
    <3> QED BY <3>1, <3>2
  <2> QED BY <1>1, <2>1, <2>3 DEF Sound
<1>7. CommandsGood'
  BY <1>1, <1>6 DEF Inv, CommandsGood
<1> QED BY <1>2, <1>3, <1>4, <1>5, <1>7 DEF Inv

-----------------------------------------------------------------------------
(* The settings change, the plugin ends.                                    *)

LEMMA RemoteChangeInv ==
  ASSUME Inv, RemoteChange
  PROVE  Inv'
<1>1. /\ left' \in [turns : Nat, disturbances : Nat] /\ seen' = seen /\ ready' = ready
      /\ UNCHANGED <<commandTail, page, sequence>> /\ PluginFrame
  BY SpendIs DEF RemoteChange, plugin, host, PluginFrame
<1>2. disk' \in SettingsValues /\ disk'.revision = disk.revision + 1
  <2>1. PICK preferences \in Preferences :
          disk' = [revision |-> disk.revision + 1, preferences |-> preferences]
    BY DEF RemoteChange
  <2> QED BY <2>1, Typed DEF SettingsValues
<1>3. SettingsKnown'
  BY <1>1, <1>2, Typed DEF SettingsKnown
<1>4. Moved(disk', seen'.revision, disk, seen.revision)
  BY <1>1, <1>2, Typed DEF Moved
<1>5. SettingsMove
  BY <1>1, <1>2, <1>3, <1>4, Typed DEF SettingsMove, Inv, TypeOK
<1> QED BY <1>1, <1>5, Typed, QuietInv

LEMMA AdoptInv ==
  ASSUME Inv, Adopt
  PROVE  Inv'
<1>1. /\ left' \in [turns : Nat, disturbances : Nat] /\ seen' = disk /\ ready' = TRUE
      /\ UNCHANGED <<disk, commandTail, page, sequence>> /\ PluginFrame
  BY DEF Adopt, plugin, host, PluginFrame, Inv, TypeOK
<1>2. SettingsMove
  BY <1>1, AdoptMoves
<1> QED BY <1>1, <1>2, Typed, QuietInv

LEMMA DestroyInv ==
  ASSUME Inv, Destroy
  PROVE  Inv'
<1>1. /\ destroyed' = TRUE /\ context' = NoContext /\ visit' = visit + 1 /\ ~Visible'
      /\ UNCHANGED <<epoch, tracked, nextGeneration, sequence, commandTail, disk, seen, ready,
                     leaving, open, shown, page, nextId, left>>
  BY DEF Destroy, settings, host, Visible, NoContext
<1>2. TypeOK'
  BY <1>1 DEF Inv, TypeOK, NoContext
<1>3. SettingsKnown' /\ PageGood' /\ Present' /\ SaveUnderWay'
  BY <1>1 DEF Inv, SettingsKnown, PageGood, Present, SaveUnderWay
<1>4. CommandsGood'
  BY <1>1 DEF Inv, CommandsGood, Sound, Fenced
<1> QED BY <1>2, <1>3, <1>4 DEF Inv

LEMMA RestartInv ==
  ASSUME Inv, Restart
  PROVE  Inv'
<1>1. /\ left' \in [turns : Nat, disturbances : Nat] /\ epoch' = epoch + 1
      /\ destroyed' = FALSE /\ context' = NoContext /\ tracked' = FALSE
      /\ nextGeneration' = 0 /\ sequence' = 0 /\ commandTail' = << >> /\ visit' = visit + 1
      /\ seen' = disk /\ ready' = TRUE /\ ~Visible' /\ context'.appearances = 0
      /\ leaving' \in {"no", "unreported"} /\ shown' = "unreported"
      /\ UNCHANGED <<disk, open, page, nextId>>
  BY SpendIs DEF Restart, Visible, NoContext
<1>2. TypeOK'
  <2>1. << >> \in Seq(CommandRecords) /\ NoContext \in [appearances : Nat, generation : Nat]
        /\ visit + 1 \in Nat /\ epoch + 1 \in Nat \ {0}
    BY DEF NoContext, Inv, TypeOK
  <2> QED BY <1>1, <2>1 DEF Inv, TypeOK
<1>3. SettingsKnown' /\ Present'
  <2>1. page.current # epoch'
    BY <1>1, Typed DEF Heard, HeardEpochs, Pages
  <2> QED BY <1>1, <2>1, Typed DEF SettingsKnown, Present
<1>4. Heard(page, disk, disk.revision, epoch + 1)
  <2>1. Moved(disk, disk.revision, disk, seen.revision)
    BY Typed DEF Moved
  <2>2. Heard(page, disk, disk.revision, epoch)
    BY <2>1, Typed, HeardMoves
  <2>3. page.current \in Nat /\ page.current <= epoch
    BY Typed DEF Heard, HeardEpochs, Pages
  <2> QED BY <2>2, <2>3, Typed DEF Heard, HeardEpochs
<1>5. PageGood'
  BY <1>1, <1>4 DEF Inv, PageGood
<1>6. SaveUnderWay'
  <2>1. page.current \in Nat /\ page.current <= epoch /\ epoch \in Nat
    BY Typed DEF Heard, HeardEpochs, Pages
  <2> QED BY <1>1, <2>1 DEF SaveUnderWay
<1>7. CommandsGood'
  BY <1>1 DEF CommandsGood, Range
<1> QED BY <1>2, <1>3, <1>5, <1>6, <1>7 DEF Inv

LEMMA InitInv ==
  ASSUME Init
  PROVE  Inv
<1>1. /\ epoch = 1 /\ destroyed = FALSE /\ context = NoContext /\ tracked = FALSE
      /\ nextGeneration = 0 /\ sequence = 0 /\ commandTail = << >>
      /\ seen = disk /\ ready = TRUE /\ leaving = "no" /\ open = FALSE
      /\ shown = "unreported" /\ page = FreshPage
      /\ nextId = 1 /\ visit = 0 /\ ~Visible /\ context.appearances = 0
  BY DEF Init, Visible, NoContext
<1>2. left \in [turns : Nat, disturbances : Nat]
  BY BoundsAssumption DEF Init
<1>3. disk \in SettingsValues
  BY DEF Init, SettingsValues
<1>4. TypeOK
  <2>1. << >> \in Seq(CommandRecords) /\ NoContext \in [appearances : Nat, generation : Nat]
    BY DEF NoContext
  <2>2. page \in Pages /\ nextId \in Nat \ {0} /\ epoch \in Nat \ {0}
    BY <1>1, FreshIsPage
  <2>3. context \in [appearances : Nat, generation : Nat] /\ commandTail \in Seq(CommandRecords)
    BY <1>1, <2>1
  <2> QED BY <1>1, <1>2, <1>3, <2>2, <2>3 DEF TypeOK
<1>5. SettingsKnown /\ Present /\ SaveUnderWay
  BY <1>1, <1>3, FreshIsPage DEF SettingsKnown, Present, SaveUnderWay, SettingsValues
<1>6. PageGood
  <2>1. Heard(FreshPage, disk, disk.revision, 1) /\ Requested(FreshPage)
        /\ IdsBelow(FreshPage, 1)
    BY <1>3, FreshIsGood DEF SettingsValues
  <2> QED BY <1>1, <2>1 DEF PageGood
<1>7. CommandsGood
  BY <1>1 DEF CommandsGood, Range
<1> QED BY <1>4, <1>5, <1>6, <1>7 DEF Inv

LEMMA StepOfNext ==
  ASSUME Inv, [Next]_vars
  PROVE  Inv'
<1>1. CASE Next
  BY <1>1, OpenInv, ReloadInv, OldPageGoneInv, ReportInv, CloseInv, EditInv, CommandInv, GreetInv,
     AbandonInv, StartStepInv, FinishStepInv, BuildAnswerInv, RecoverSnapshotInv, SendAnswerInv,
     StartDiagnosticsPushInv, RemoteChangeInv, AdoptInv, DestroyInv, RestartInv DEF Next
<1>2. CASE UNCHANGED vars
  <2>1. /\ PluginFrame /\ UNCHANGED <<commandTail, page, sequence, settings, left>>
    BY <1>2 DEF vars, plugin, settings, host, PluginFrame
  <2>2. SettingsMove /\ sequence' \in Nat
    BY <2>1, StaysMoved, Typed
  <2> QED BY <2>1, <2>2, QuietInv
<1> QED BY <1>1, <1>2

-----------------------------------------------------------------------------
(* The theorems.                                                            *)

(* The invariant all else follows from, for every number of values, edits,  *)
(* commands and disturbances.                                               *)
THEOREM InvariantHolds == Spec => []Inv
<1>1. Init => Inv
  BY InitInv
<1>2. Inv /\ [Next]_vars => Inv'
  BY StepOfNext
<1> QED BY <1>1, <1>2, PTL DEF Spec

(* A page of which the process was told, and of the end of no page but those *)
(* it had been told of, waits for the answer to its save only while the save *)
(* is under way (SaveIsAnswered).                                            *)
THEOREM WaitsForSomething == Spec => []SaveIsAnswered
<1>1. Inv => SaveIsAnswered
  BY DEF Inv, SaveUnderWay, SaveIsAnswered, Range
<1> QED BY <1>1, InvariantHolds, PTL

(* What comes with a conflict is newer than what the command was based on   *)
(* (ConflictExplained).                                                     *)
THEOREM ConflictIsShown == Spec => []ConflictExplained
<1>1. ASSUME Inv, NEW i \in DOMAIN commandTail, commandTail[i].conflict,
             commandTail[i].snapshot # NoSnapshot
      PROVE  commandTail[i].snapshot.revision > commandTail[i].expected
  <2>1. PICK c : c = commandTail[i]
    OBVIOUS
  <2>2. c \in Range(commandTail)
    BY <1>1, <2>1 DEF Range
  <2>3. c \in CommandRecords /\ Sound(c)
    BY <1>1, <2>2, RangeIs DEF Inv, TypeOK, CommandsGood
  <2>4. c.expected < c.snapshot.revision
    BY <1>1, <2>1, <2>3 DEF Sound, Good, Failing
  <2>5. c.expected \in Nat /\ c.snapshot.revision \in Nat
    BY <2>3, Snapshotted DEF CommandRecords
  <2> QED BY <2>1, <2>4, <2>5
<1>2. Inv => ConflictExplained
  BY <1>1 DEF ConflictExplained
<1> QED BY <1>2, InvariantHolds, PTL

(* Where a step changes the commands in their order.                        *)
LEMMA AddedIs ==
  ASSUME Inv, Connect \/ \E type \in Commands : Command(type)
  PROVE  nextId' # nextId /\ (commandTail' = commandTail \/ Len(commandTail') # Len(commandTail))
<1>1. nextId \in Nat /\ nextId' = nextId + 1
  BY Typed DEF Connect, Command
<1>2. commandTail \in Seq(CommandRecords)
  BY DEF Inv, TypeOK
<1>3. commandTail' = commandTail \/ \E c : commandTail' = Append(commandTail, c)
  BY DEF Connect, Command, HandleCommand
<1>4. ASSUME NEW c, commandTail' = Append(commandTail, c)
      PROVE  Len(commandTail') = Len(commandTail) + 1
  BY <1>2, <1>4
<1>5. Len(commandTail) \in Nat
  BY <1>2
<1> QED BY <1>1, <1>3, <1>4, <1>5

LEMMA EndedIs ==
  ASSUME Inv, commandTail # << >>, commandTail' = Tail(commandTail)
  PROVE  Len(commandTail') # Len(commandTail) /\ commandTail' # commandTail
<1>1. PICK s : s = commandTail
  OBVIOUS
<1>2. s \in Seq(CommandRecords) /\ s # << >>
  BY <1>1, HeadSound
<1>3. Len(s) \in Nat /\ Len(Tail(s)) = Len(s) - 1
  BY <1>2, TailIs
<1>4. Len(commandTail') = Len(s) - 1
  BY <1>1, <1>3
<1>5. Len(commandTail') # Len(s)
  BY <1>3, <1>4
<1> QED BY <1>1, <1>5

LEMMA HeadIs ==
  ASSUME NEW c, HeadTo(c)
  PROVE  Head(commandTail') = c
BY DEF HeadTo

(* A fence that is current is of this visit.                                *)
LEMMA CurrentIsOfVisit ==
  ASSUME NEW f, Fenced(f), FenceCurrent(f)
  PROVE  f.visit = visit /\ ~destroyed
BY DEF Fenced, FenceCurrent, IsCurrent

(* A save replaces only what its form was filled from                       *)
(* (SeenBeforeOverwritten).                                                 *)
THEOREM NothingUnseenIsLost == Spec => SeenBeforeOverwritten
<1> DEFINE A == commandTail # << >> /\ commandTail' # commandTail
                /\ Head_.type = "preferences/save" /\ disk' # disk
                => disk.preferences = Head_.basis \/ (disk.revision = 0 /\ Head_.basis = None)
<1>1. ASSUME Inv, [Next]_vars PROVE [A]_vars
  <2> SUFFICES ASSUME Next, commandTail # << >>, commandTail' # commandTail,
                      Head_.type = "preferences/save", disk' # disk
               PROVE  disk.preferences = Head_.basis \/ (disk.revision = 0 /\ Head_.basis = None)
    BY <1>1
  <2>1. FinishStep
    BY DEF Next, Open, Reload, OldPageGone, Report, Close, Edit, Command, Greet, Abandon, StartStep,
           BuildAnswer, RecoverSnapshot, ReadAgain, SettingsFault, SendAnswer,
           StartDiagnosticsPush, RemoteChange, Adopt, Destroy, Restart, Connect, plugin, settings
  <2>2. Head_.phase = "busy" /\ StepNow = "save" /\ SaveStep
    <3>1. Head_.phase = "busy"
      BY <2>1 DEF FinishStep
    <3>2. StepNow = "save"
      BY <1>1, <3>1, SaveStepDue
    <3> QED BY <2>1, <3>1, <3>2 DEF FinishStep
  <2>3. Head_.expected = disk.revision
    BY <2>2 DEF SaveStep, SettingsFault, Conflicts, settings
  <2>4. Based(Head_, disk, seen.revision)
    BY <1>1, HeadSound DEF Sound, Good
  <2> QED BY <2>3, <2>4 DEF Based
<1>2. Inv /\ [Next]_vars => [A]_vars
  BY <1>1
<1> QED BY <1>2, InvariantHolds, PTL DEF Spec, SeenBeforeOverwritten

(* Nothing is begun or answered for an inspector that has gone              *)
(* (OnlyForOpenInspector).                                                  *)
THEOREM OnlyForTheSender == Spec => OnlyForOpenInspector
<1> DEFINE B == commandTail # << >> /\ commandTail' # commandTail
                /\ \/ /\ Len(commandTail') = Len(commandTail)
                      /\ Head(commandTail').phase = "busy"
                   \/ Head_.phase = "answer" /\ Delivered
                => Head_.fence.visit = visit /\ ~destroyed
<1>1. ASSUME Inv, [Next]_vars PROVE [B]_vars
  <2> SUFFICES ASSUME Next, commandTail # << >>, commandTail' # commandTail,
                      \/ /\ Len(commandTail') = Len(commandTail)
                         /\ Head(commandTail').phase = "busy"
                      \/ Head_.phase = "answer" /\ Delivered
               PROVE  Head_.fence.visit = visit /\ ~destroyed
    BY <1>1
  <2>1. Head_ \in CommandRecords /\ Fenced(Head_.fence)
        /\ commandTail \in Seq(CommandRecords)
    BY <1>1, HeadSound DEF Sound
  <2>2. CASE StartStep \/ SendAnswer
    <3>1. FenceCurrent(Head_.fence)
      BY <2>2 DEF StartStep, SendAnswer, MayGoOn
    <3> QED BY <2>1, <3>1, CurrentIsOfVisit
  <2>3. CASE Connect \/ \E type \in Commands : Command(type)
    BY <1>1, <2>3, AddedIs DEF Delivered
  <2>4. CASE Abandon
    BY <1>1, <2>4, EndedIs DEF Abandon, Delivered
  <2>5. CASE FinishStep \/ BuildAnswer \/ RecoverSnapshot
    <3>1. page' = page
      BY <2>5 DEF FinishStep, BuildAnswer, RecoverSnapshot
    <3>2. \E c : HeadTo(c) /\ c.phase # "busy"
      <4>1. PICK h : h = Head_
        OBVIOUS
      <4>2. CASE NextStep
        <5>1. [h EXCEPT !.phase = "idle", !.step = h.step + 1].phase = "idle"
          BY <2>1, <4>1 DEF CommandRecords
        <5> QED BY <4>1, <4>2, <5>1 DEF NextStep
      <4>3. ASSUME NEW why, FailStep(why)
            PROVE  \E c : HeadTo(c) /\ c.phase # "busy"
        <5>1. PICK f, w : f = (IF why = "rejected" THEN "answer" ELSE "recover")
                          /\ w = (why = "conflict")
          OBVIOUS
        <5>2. PICK c : c = [h EXCEPT !.phase = f, !.ok = FALSE, !.conflict = w]
          OBVIOUS
        <5>3. HeadTo(c)
          BY <4>1, <4>3, <5>1, <5>2 DEF FailStep
        <5>4. c.phase = f /\ f # "busy"
          BY <2>1, <4>1, <5>1, <5>2 DEF CommandRecords
        <5> QED BY <5>3, <5>4
      <4>4. ASSUME NEW s, HeadTo([Head_ EXCEPT !.phase = "answer", !.snapshot = s])
            PROVE  \E c : HeadTo(c) /\ c.phase # "busy"
        <5>1. [h EXCEPT !.phase = "answer", !.snapshot = s].phase = "answer"
          BY <2>1, <4>1 DEF CommandRecords
        <5> QED BY <4>1, <4>4, <5>1
      <4>5. CASE HeadTo([Head_ EXCEPT !.phase = "answer"])
        <5>1. [h EXCEPT !.phase = "answer"].phase = "answer"
          BY <2>1, <4>1 DEF CommandRecords
        <5> QED BY <4>1, <4>5, <5>1
      <4> QED BY <2>5, <4>2, <4>3, <4>4, <4>5
              DEF FinishStep, CompareStep, SaveStep, StoreStep, ReconcileStep, ApproveStep,
                  BuildAnswer, RecoverSnapshot,
                  ReadAgain
    <3> QED BY <3>1, <3>2, HeadIs DEF Delivered
  <2>6. CASE Restart
    <3>1. commandTail' = << >> /\ page' = page
      BY <2>6 DEF Restart
    <3> QED BY <2>1, <3>1 DEF Delivered
  <2>7. CASE OldPageGone \/ Close \/ Edit \/ (\E i \in DOMAIN greetings : Greet(i))
             \/ Report \/ StartDiagnosticsPush \/ RemoteChange \/ Adopt \/ Destroy
    BY <2>7 DEF OldPageGone, Report, Close, Edit, Greet, StartDiagnosticsPush, RemoteChange, Adopt,
                Destroy, plugin
  <2> QED BY <2>2, <2>3, <2>4, <2>5, <2>6, <2>7 DEF Next, Open, Reload
<1>2. Inv /\ [Next]_vars => [B]_vars
  BY <1>1
<1> QED BY <1>2, InvariantHolds, PTL DEF Spec, OnlyForOpenInspector

(* What a message leaves of what the user typed.                            *)
Kept ==
  /\ page'.form # page.form =>
       \/ page.form = page.authoritative
       \/ page.authoritative = None /\ page.edits = 0
       \/ /\ Confirms({"preferences/save"})
          /\ page.pending[Head_.id].submitted = page.form
  /\ page'.secret # page.secret =>
       /\ Confirms({"credentials/save", "credentials/clear"})
       /\ page.pending[Head_.id].secret = page.secret

LEMMA UpdatedKeeps ==
  ASSUME Inv, Updated(page', page)
  PROVE  Kept
<1>1. page'.form # page.form => CanHydrate(page)
  BY DEF Updated
<1>2. page'.secret = page.secret
  BY Typed DEF Updated, Requested, SecretsTyped
<1> QED BY <1>1, <1>2 DEF Kept, CanHydrate, Dirty

LEMMA AnswerKeeps ==
  ASSUME Inv, SendAnswer
  PROVE  Kept
<1>1. commandTail # << >> /\ Head_.phase = "answer" /\ commandTail' = Tail(commandTail)
  BY DEF SendAnswer
<1>2. Head_ \in CommandRecords /\ Sound(Head_) /\ commandTail' # commandTail
  BY <1>1, HeadSound, EndedIs
<1>3. CASE page' = page
  BY <1>3 DEF Kept
<1>4. CASE open /\ Visible
  <2>1. PICK m : m = AnswerOf(Head_)
    OBVIOUS
  <2>2. PICK z : z = page'
    OBVIOUS
  <2>3. z = HandleMessage(page, m)
    BY <1>4, <2>1, <2>2 DEF SendAnswer, Answer, SafeSend, UiShown
  <2>4. /\ m.id = Head_.id /\ m.ok = Head_.ok
        /\ IF m.id \in DOMAIN page.pending
           THEN IF Outdated(page, page.pending[m.id], m.snapshot) THEN z = page
                ELSE Taken(z, page, m.id, m.ok)
           ELSE Updated(z, page)
    BY <1>1, <2>1, <2>3, AnswerHeard
  <2>5. CASE Updated(z, page)
    BY <2>2, <2>5, UpdatedKeeps
  <2>6. CASE m.id \in DOMAIN page.pending /\ Taken(z, page, m.id, m.ok) /\ ~SameTyped(z, page)
    <3>1. PICK r : r = page.pending[m.id]
      OBVIOUS
    <3>2. /\ r \in Requests /\ r.type = Head_.type /\ r.submitted = Head_.preferences
          /\ Head_.type \in CommandTypes
      BY <1>2, <2>4, <2>6, <3>1, PendingsAre, Typed DEF Sound, Remembered, Pages, CommandRecords
    <3>3. page.lastOf[SectionOf[r.type]] = m.id /\ Allowed(z, page, r, m.ok)
      BY <2>6, <3>1 DEF Taken
    <3>4. ASSUME NEW types, r.type \in types, m.ok = TRUE
          PROVE  Confirms(types)
      BY <1>1, <1>2, <2>4, <2>6, <3>2, <3>4 DEF Confirms
    <3>5. ASSUME z.form # page.form
          PROVE  \/ page.form = page.authoritative
                 \/ page.authoritative = None /\ page.edits = 0
                 \/ Confirms({"preferences/save"}) /\ r.submitted = page.form
      <4>1. CASE r.type = "preferences/save" /\ m.ok /\ r.edits = page.edits
        <5>1. page.lastOf["advanced"] = Head_.id
          BY <2>4, <3>3, <4>1, SectionTypes DEF CommandTypes
        <5>2. Head_.ok /\ Head_.type = "preferences/save" /\ Head_.step # 0
          BY <1>1, <1>2, <2>4, <3>2, <4>1 DEF Sound, Good, Failing
        <5>3. SaveShown(Head_, page, disk)
          BY <1>2 DEF Sound, Good
        <5>4. page.form = Head_.preferences \/ page.form = page.authoritative
          BY <2>4, <2>6, <3>1, <4>1, <5>1, <5>2, <5>3 DEF SaveShown
        <5>5. m.ok = TRUE
          BY <1>2, <2>4, <4>1 DEF CommandRecords
        <5>6. Confirms({"preferences/save"})
          BY <3>4, <4>1, <5>5
        <5> QED BY <3>2, <5>4, <5>6
      <4>2. CASE page.form = page.authoritative \/ (page.authoritative = None /\ page.edits = 0)
        BY <4>2
      <4> QED BY <3>3, <3>5, <4>1, <4>2 DEF Allowed
    <3>6. ASSUME z.secret # page.secret
          PROVE  /\ Confirms({"credentials/save", "credentials/clear"})
                 /\ r.secret = page.secret
      <4>1. CASE /\ r.type \in {"credentials/save", "credentials/clear"} /\ m.ok
                 /\ r.secretEdits = page.secretEdits
        <5>1. page.lastOf["credentials"] = m.id
          BY <3>2, <3>3, <4>1, SectionTypes
        <5>2. r.secret = page.secret
          BY <2>6, <3>1, <4>1, <5>1, Typed DEF Requested, SecretsTyped
        <5>3. m.ok = TRUE
          BY <1>2, <2>4, <4>1 DEF CommandRecords
        <5> QED BY <3>4, <4>1, <5>2, <5>3
      <4>2. CASE /\ r.type = "settings/request" /\ r.secretEdits = page.secretEdits
                 /\ z.secret = 0
        <5>1. page.secret = 0
          BY <2>6, <3>1, <4>2, Typed DEF Requested, SecretsTyped
        <5> QED BY <3>6, <4>2, <5>1
      <4> QED BY <3>3, <3>6, <4>1, <4>2 DEF Allowed
    <3> QED BY <2>2, <2>4, <3>1, <3>5, <3>6 DEF Kept
  <2>7. CASE z = page \/ SameTyped(z, page)
    BY <2>2, <2>7 DEF Kept, SameTyped
  <2> QED BY <2>4, <2>5, <2>6, <2>7
<1> QED BY <1>3, <1>4 DEF SendAnswer, Answer, SafeSend, UiShown

(* No message takes what the user typed and has not saved (TypedIsKept).    *)
THEOREM TypingIsKept == Spec => TypedIsKept
<1>1. ASSUME Inv, [Next]_vars PROVE [Delivered => Kept]_vars
  <2> SUFFICES ASSUME Next, Delivered PROVE Kept
    BY <1>1
  <2>1. CASE SendAnswer
    BY <1>1, <2>1, AnswerKeeps
  <2>2. CASE (\E i \in DOMAIN greetings : Greet(i)) \/ StartDiagnosticsPush
    <3>1. Told
      BY <1>1, <2>2, GreetTells, PushTells DEF Delivered
    <3> QED BY <1>1, <3>1, ToldUpdates, UpdatedKeeps
  <2>3. CASE Connect \/ \E type \in Commands : Command(type)
    BY <1>1, <2>3, AddedIs DEF Delivered
  <2>4. CASE Edit
    <3>1. left.turns \in Nat /\ left'.turns = left.turns - 1
      <4>1. left \in [turns : Nat, disturbances : Nat]
        BY <1>1 DEF Inv, TypeOK
      <4>2. left' = [left EXCEPT !["turns"] = left["turns"] - 1]
        BY <2>4 DEF Edit, Spend
      <4> QED BY <4>1, <4>2
    <3> QED BY <3>1 DEF Delivered
  <2>5. CASE Close
    BY <2>5 DEF Close, Delivered
  <2>6. CASE OldPageGone \/ Report \/ Abandon \/ StartStep \/ FinishStep \/ BuildAnswer
             \/ RecoverSnapshot \/ RemoteChange \/ Adopt \/ Destroy \/ Restart
    BY <2>6 DEF OldPageGone, Report, Abandon, StartStep, FinishStep, BuildAnswer, RecoverSnapshot,
                RemoteChange, Adopt, Destroy, Restart, Delivered, host
  <2> QED BY <2>1, <2>2, <2>3, <2>4, <2>5, <2>6 DEF Next, Open, Reload
<1>2. Inv /\ [Next]_vars => [Delivered => Kept]_vars
  BY <1>1
<1>3. TypedIsKept <=> [][Delivered => Kept]_vars
  BY PTL DEF TypedIsKept, Kept
<1> QED BY <1>2, <1>3, InvariantHolds, PTL DEF Spec

=============================================================================
