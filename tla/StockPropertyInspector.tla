------------------------ MODULE StockPropertyInspector ------------------------
(***************************************************************************)
(* The property inspector page (ui/stock-pi-shared.js) as operators on the *)
(* record of its state: what the page remembers of the snapshots the       *)
(* plugin sends, the preference controls and the secret the user types     *)
(* into, and the requests it still waits for.  PiController composes one   *)
(* such page with the plugin side.                                         *)
(*                                                                         *)
(* A snapshot is its epoch (one per plugin process), its sequence, the     *)
(* revision of the settings and the preferences as one value; keys, masks  *)
(* and diagnostics are left out.  Controls that do not parse to known      *)
(* preferences read as None (copyKnownPreferences).  Twelve retired epochs *)
(* are kept by the page, more than the bounded restarts make.              *)
(***************************************************************************)
EXTENDS Integers, Sequences

CONSTANTS
    Preferences, \* the values the four preference controls can have
    None         \* no (or no valid) preferences

ASSUME PreferencesAssumption == None \notin Preferences

CommandTypes ==
    { "settings/request", "credentials/save", "credentials/clear",
      "preferences/save", "auth/retry", "ws/reconnect", "quote/refresh",
      "diagnostics/request" }

(* The part of the page a command's answer is shown in (bindEvents). *)
SectionOf ==
    [ type \in CommandTypes |->
        CASE type = "settings/request" -> "settings"
          [] type \in {"credentials/save", "credentials/clear"} -> "credentials"
          [] type = "preferences/save" -> "advanced"
          [] type \in {"auth/retry", "ws/reconnect", "quote/refresh"} ->
                "troubleshooting"
          [] type = "diagnostics/request" -> "diagnostics" ]

NoSnapshot == [epoch |-> 0, sequence |-> 0, revision |-> 0, preferences |-> None]

FreshPage ==
    [ current |-> 0,            \* currentSnapshotEpoch
      applied |-> 0,            \* appliedSnapshotEpoch
      retired |-> {},           \* retiredSnapshotEpochs
      latest |-> NoSnapshot,    \* latestSafeSnapshot and its sequence
      revision |-> 0,           \* settingsRevision
      authoritative |-> None,   \* lastAuthoritativePreferences
      basis |-> None,           \* lastAppliedPreferences
      basisRevision |-> 0,      \* preferencesRevision
      form |-> None,            \* the interval's field starts empty
      edits |-> 0,              \* preferencesEditVersion
      save |-> 0,               \* preferenceSaveRequestId
      secret |-> 0,             \* which secret is typed in; 0: the field is empty
      secretEdits |-> 0,        \* credentialEditVersion
      pending |-> << >>,        \* pendingRequests
      lastOf |-> [section \in {SectionOf[t] : t \in CommandTypes} |-> 0] ]

Later(m, n) == IF m > n THEN m ELSE n

-----------------------------------------------------------------------------
(* The user's controls. *)

Dirty(p) == p.authoritative # None /\ p.form # p.authoritative

(* Mutant: whoever waits for a save may be overwritten by a snapshot. *)
HydrateWhilePending(p) ==
    IF p.authoritative = None THEN p.edits = 0 ELSE p.save # 0 \/ ~Dirty(p)

(* The controls may be overwritten only when they hold nothing unsaved. *)
CanHydrate(p) ==
    /\ p.save = 0
    /\ IF p.authoritative = None THEN p.edits = 0 ELSE ~Dirty(p)

EditPreferences(p, form) ==
    [p EXCEPT !.form = form, !.edits = @ + 1]

TypeSecret(p, secret) ==
    [p EXCEPT !.secret = secret, !.secretEdits = @ + 1]

MaySave(p) ==
    /\ p.save = 0
    /\ Dirty(p)
    /\ p.form # None

(* A request is remembered with what the page stood at when it was sent    *)
(* (the secret only as history).                                           *)
SendCommand(p, type, id) ==
    [p EXCEPT
        !.pending = [ i \in DOMAIN @ \cup {id} |->
            IF i # id THEN @[i]
            ELSE [ type |-> type, secret |-> p.secret,
                   secretEdits |-> p.secretEdits, edits |-> p.edits,
                   epoch |-> p.current, submitted |-> p.form ] ],
        !.lastOf[SectionOf[type]] = id,
        !.save = IF type = "preferences/save" THEN id ELSE @]

-----------------------------------------------------------------------------
(* Snapshots. *)

Known(p, s) == s.epoch \notin p.retired

(* Mutant: a save sent to a plugin that is gone stays pending. *)
InspectKeepingSave(p, s) ==
    IF ~Known(p, s) THEN p
    ELSE LET q == IF s.epoch = p.current THEN p
                  ELSE [p EXCEPT !.retired = @ \cup ({p.current} \ {0}),
                                 !.current = s.epoch, !.latest = NoSnapshot]
         IN  [q EXCEPT !.latest = IF s.sequence > @.sequence THEN s ELSE @]

(* A new epoch retires the one before it and gives up the save it was to   *)
(* answer; within an epoch only a greater sequence is newer.               *)
InspectSnapshot(p, s) ==
    IF ~Known(p, s) THEN p
    ELSE LET q == IF s.epoch = p.current THEN p
                  ELSE [p EXCEPT !.retired = @ \cup ({p.current} \ {0}),
                                 !.current = s.epoch,
                                 !.latest = NoSnapshot,
                                 !.save = 0]
         IN  [q EXCEPT !.latest = IF s.sequence > @.sequence THEN s ELSE @]

(* Mutant: every snapshot moves the revision a save is sent with. *)
ApplyRevisionAlways(p, s, prefsToo) ==
    [p EXCEPT !.form = IF prefsToo THEN s.preferences ELSE @,
              !.basis = IF prefsToo THEN s.preferences ELSE @,
              !.basisRevision = s.revision]

(* The revision a save is sent with moves only when the preferences it     *)
(* stands for are the ones the form was filled from.                       *)
ApplyPreferenceSnapshot(p, s, prefsToo) ==
    LET revision == IF s.epoch # p.applied THEN s.revision
                    ELSE Later(p.basisRevision, s.revision)
    IN  IF prefsToo
        THEN [p EXCEPT !.form = s.preferences,
                       !.basis = s.preferences,
                       !.basisRevision = revision]
        ELSE [p EXCEPT !.basisRevision =
                          IF s.preferences = p.basis THEN revision ELSE @]

Applies(p, s) ==
    /\ s = p.latest
    /\ s # NoSnapshot
    /\ s.epoch = p.applied => s.revision >= p.revision

ApplySafeSnapshot(p, s, secretToo, prefsToo) ==
    IF ~Applies(p, s) THEN p
    ELSE [ApplyPreferenceSnapshot(p, s, prefsToo) EXCEPT
            !.applied = s.epoch,
            !.revision = s.revision,
            !.authoritative = s.preferences,
            !.secret = IF secretToo THEN 0 ELSE @]

ApplySnapshot(p, s, secretToo, prefsToo) ==
    ApplySafeSnapshot(InspectSnapshot(p, s), s, secretToo, prefsToo)

(* A confirmed save takes the snapshot of its answer, or the newest one    *)
(* when a newer one overtook the answer.                                   *)
NewestOf(p, s) == IF Applies(p, s) THEN s ELSE p.latest

-----------------------------------------------------------------------------
(* Messages of the plugin. *)

(* Mutant: the answer clears the secret though it was typed anew. *)
ConfirmAnyEdit(p, request, s, ok) ==
    LET newest == NewestOf(p, s)
    IN  IF ok /\ Applies(p, newest)
        THEN [ApplySafeSnapshot(p, newest, TRUE, FALSE) EXCEPT !.secretEdits = 0]
        ELSE ApplySafeSnapshot(p, s, FALSE, FALSE)

CredentialsAnswered(p, request, s, ok) ==
    LET newest == NewestOf(p, s)
    IN  IF ok /\ request.secretEdits = p.secretEdits /\ Applies(p, newest)
        THEN [ApplySafeSnapshot(p, newest, TRUE, FALSE) EXCEPT !.secretEdits = 0]
        ELSE ApplySafeSnapshot(p, s, FALSE, FALSE)

(* Mutant: the answer to a save overwrites what was typed since. *)
SavedWhateverTyped(p, request, s, ok) ==
    LET newest == NewestOf(p, s)
    IN  IF ok /\ request.submitted = s.preferences /\ Applies(p, newest)
        THEN [ApplySafeSnapshot(p, newest, FALSE, TRUE) EXCEPT !.edits = 0]
        ELSE ApplySafeSnapshot(p, s, FALSE, FALSE)

PreferencesAnswered(p, request, s, ok) ==
    LET newest == NewestOf(p, s)
    IN  IF /\ ok
           /\ request.edits = p.edits
           /\ request.submitted = s.preferences
           /\ Applies(p, newest)
        THEN [ApplySafeSnapshot(p, newest, FALSE, TRUE) EXCEPT !.edits = 0]
        ELSE ApplySafeSnapshot(p, s, FALSE, FALSE)

SectionAnswered(p, request, s, ok) ==
    LET section == SectionOf[request.type]
    IN  CASE section = "credentials" -> CredentialsAnswered(p, request, s, ok)
          [] section = "advanced" -> PreferencesAnswered(p, request, s, ok)
          [] section = "settings" ->
                ApplySafeSnapshot(p, s, request.secretEdits = p.secretEdits,
                                  CanHydrate(p))
          [] OTHER -> ApplySafeSnapshot(p, s, FALSE, FALSE)

(* An answer of another epoch says nothing about the request. *)
Outdated(p, request, s) ==
    IF s = NoSnapshot THEN request.epoch \notin {0, p.current}
    ELSE ~Known(p, s)

Answered(p, m) ==
    LET request == p.pending[m.id]
        q == IF m.snapshot = NoSnapshot THEN p ELSE InspectSnapshot(p, m.snapshot)
        r == [q EXCEPT !.pending = [i \in DOMAIN @ \ {m.id} |-> @[i]]]
        a == IF m.snapshot = NoSnapshot THEN r
             ELSE SectionAnswered(r, request, m.snapshot, m.ok)
    IN  IF Outdated(p, request, m.snapshot) THEN p
        ELSE IF q.lastOf[SectionOf[request.type]] # m.id THEN r
        ELSE [a EXCEPT !.save = IF @ = m.id THEN 0 ELSE @]

(* handleMessage: whether the controls may be filled is read before the    *)
(* snapshot is looked at.                                                  *)
HandleMessage(p, m) ==
    CASE m.type = "diagnostics/update" ->
            ApplySnapshot(p, m.snapshot, FALSE, CanHydrate(p))
      [] m.type = "settings/update" ->
            ApplySnapshot(p, m.snapshot, p.secretEdits = 0, CanHydrate(p))
      [] m.type = "answer" /\ m.id \in DOMAIN p.pending -> Answered(p, m)
      [] m.type = "answer" /\ m.id \notin DOMAIN p.pending ->
            IF m.snapshot = NoSnapshot THEN p
            ELSE ApplySnapshot(p, m.snapshot, p.secretEdits = 0, CanHydrate(p))

=============================================================================
