-------------------------- MODULE StockActionWrapper --------------------------
(***************************************************************************)
(* The action wrapper (actions/stock-action-wrapper-runtime.ts): it passes *)
(* the host's events of one key on to the controller, and writes settings  *)
(* that had to be migrated back to the host.  Its writes race with the     *)
(* user's, and may come back as events like the user's, from which it      *)
(* tells them by a marker it keeps while a write is under way.             *)
(*                                                                         *)
(* Settings are raw or migrated values; Migrate maps a raw value to its    *)
(* migrated form, a migrated value to itself, and an unreadable one to     *)
(* None.  The writes of a key are queued on persistenceTail, so that one   *)
(* at a time is under way and at most one marker is kept; the limit of     *)
(* eight markers is never reached.                                         *)
(***************************************************************************)
EXTENDS Integers, Sequences, FiniteSets, SequencesExt

CONSTANTS
    Settings,  \* values of an action's settings
    Migrate,   \* the function migrateSettings
    None,      \* no settings
    MaxEvents  \* bound: changes by the user, appearances and disappearances

ASSUME MigrateAssumption ==
    /\ None \notin Settings
    /\ Migrate \in [Settings -> Settings \cup {None}]
    /\ \A s \in Settings : Migrate[s] # None => Migrate[Migrate[s]] = Migrate[s]

VARIABLES
    host,      \* the settings Stream Deck keeps for the key
    shown,     \* the key is visible
    events,    \* events of the host the plugin has not handled yet
    epoch,     \* state.epoch (and nextEpoch; 0: the key was never heard of)
    active,    \* state.active
    calls,     \* controller.appear and updateSettings calls under way
    tail,      \* persistenceTail: writes that wait
    writing,   \* the write under way, if any: <<settings>>
    marker,    \* internalWrites: its marker, if not taken by an event
    toHost,    \* writes on their way to the host
    given,     \* the settings of the controller's record; None without one
    appeared,  \* history: the latest appearance came with readable settings
    writes,    \* history: writes begun
    heard,     \* history: events of the user handled
    overtaken, \* history: a write reached the host after a change by the
               \* user that the plugin had not heard of
    swallowed, \* history: a change by the user was taken for a write
    changes,   \* history: changes by the user
    left       \* what remains of MaxEvents

user == <<host, shown, changes, left>>
wrapper == <<epoch, active, calls, tail, writing, marker, given>>
history == <<writes, heard, overtaken, swallowed, appeared>>
vars == <<user, events, wrapper, toHost, history>>

Init ==
    /\ host \in Settings
    /\ shown = FALSE
    /\ events = << >>
    /\ epoch = 0
    /\ active = FALSE
    /\ calls = {}
    /\ tail = << >>
    /\ writing = << >>
    /\ marker = << >>
    /\ toHost = << >>
    /\ given = None
    /\ appeared = FALSE
    /\ writes = 0
    /\ heard = 0
    /\ overtaken = FALSE
    /\ swallowed = FALSE
    /\ changes = 0
    /\ left = MaxEvents

-----------------------------------------------------------------------------
(* The user and the host. *)

(* An event carries, as history, whose it is and how many changes of the   *)
(* user it knows of.                                                       *)
Happens(kind, settings, own, version) ==
    events' = Append(events, [ kind |-> kind, settings |-> settings, own |-> own,
                               version |-> version ])

(* The key is shown or hidden. *)
WillAppearOrDisappear ==
    /\ left > 0
    /\ left' = left - 1
    /\ shown' = ~shown
    /\ Happens(IF shown THEN "disappear" ELSE "appear", host, FALSE, changes)
    /\ UNCHANGED <<host, changes, wrapper, toHost, history>>

(* The property inspector stores other settings for the key. *)
UserSets(settings) ==
    /\ left > 0 /\ shown
    /\ settings # host
    /\ host' = settings
    /\ left' = left - 1
    /\ changes' = changes + 1
    /\ Happens("settings", settings, FALSE, changes + 1)
    /\ UNCHANGED <<shown, wrapper, toHost, history>>

(* A write arrives; the host may tell the plugin of it as of a change.     *)
HostStores ==
    /\ toHost # << >>
    /\ toHost' = Tail(toHost)
    /\ host' = Head(toHost).settings
    /\ \/ UNCHANGED events
       \/ Happens("settings", Head(toHost).settings, TRUE, changes)
    /\ overtaken' = (overtaken \/ Head(toHost).version # changes)
    /\ UNCHANGED <<shown, changes, left, wrapper, writes, heard, swallowed, appeared>>

-----------------------------------------------------------------------------
(* The wrapper. *)

IsCurrent(e) == epoch = e /\ active

(* Every event makes what was begun for the ones before it out of date.    *)
Advance(on) == epoch' = epoch + 1 /\ active' = on

(* controller.appear makes the key's record; controller.updateSettings     *)
(* changes it, and drops settings of a key that has none.                  *)
Record(event) ==
    given' = IF event.kind = "appear" \/ given # None
             THEN Migrate[event.settings] ELSE None

(* The controller is called with the migrated settings; settings that      *)
(* cannot be read are given up, and with them the appearance they came in. *)
Delegate(event) ==
    IF Migrate[event.settings] = None
    THEN UNCHANGED <<calls, given>>
    ELSE /\ calls' = calls \cup {[ epoch |-> epoch', raw |-> event.settings,
                                   version |-> event.version ]}
         /\ Record(event)

Hears(event) ==
    /\ events # << >>
    /\ Head(events).kind = event
    /\ events' = Tail(events)

OfUser == heard' = heard + IF Head(events).own THEN 0 ELSE 1

Takes ==
    /\ Advance(TRUE)
    /\ Delegate(Head(events))
    /\ OfUser
    /\ UNCHANGED <<user, toHost, tail, writing, marker, writes, overtaken,
                   swallowed>>

Appear ==
    /\ Hears("appear")
    /\ Takes
    /\ appeared' = (Migrate[Head(events).settings] # None)

Disappear ==
    /\ Hears("disappear")
    /\ Advance(FALSE)
    /\ given' = None
    /\ appeared' = FALSE
    /\ UNCHANGED <<user, toHost, calls, tail, writing, marker, writes, heard,
                   overtaken, swallowed>>

(* Mutant: whatever comes while a write is under way is taken for it. *)
TakesAny(settings) == marker # << >>

(* consumeInternalWrite: an event with the settings of the write under way *)
(* is taken for that write.                                                *)
TakesMarker(settings) == marker = <<settings>>

SettingsConsumed ==
    /\ Hears("settings")
    /\ TakesMarker(Head(events).settings)
    /\ marker' = << >>
    /\ swallowed' =
         (swallowed \/ (~Head(events).own /\ writing = <<Head(events).settings>>))
    /\ OfUser
    /\ UNCHANGED <<user, toHost, epoch, active, calls, tail, writing, given,
                   writes, overtaken, appeared>>

(* An event for a key that has disappeared is dropped. *)
SettingsIgnored ==
    /\ Hears("settings")
    /\ ~TakesMarker(Head(events).settings)
    /\ epoch > 0 /\ ~active
    /\ OfUser
    /\ UNCHANGED <<user, toHost, wrapper, writes, overtaken, swallowed, appeared>>

SettingsChanged ==
    /\ Hears("settings")
    /\ ~TakesMarker(Head(events).settings)
    /\ epoch > 0 => active
    /\ Takes
    /\ UNCHANGED appeared

WriteOf(call) == [ epoch |-> call.epoch, version |-> call.version,
                   settings |-> Migrate[call.raw] ]

(* Mutant: settings are written back whether they were migrated or not. *)
PersistAlways(call) == tail' = Append(tail, WriteOf(call))

(* schedulePersistence: what migration did not change is not written.      *)
SchedulePersistence(call) ==
    tail' = IF call.raw = Migrate[call.raw] THEN tail
            ELSE Append(tail, WriteOf(call))

(* The controller's call returns, perhaps much later. *)
CallReturns(call) ==
    /\ calls' = calls \ {call}
    /\ IF IsCurrent(call.epoch) THEN SchedulePersistence(call) ELSE UNCHANGED tail
    /\ UNCHANGED <<user, events, epoch, active, writing, marker, toHost, given,
                   history>>

(* The write's turn comes: if it is still current it is sent. *)
BeginWrite ==
    /\ tail # << >> /\ writing = << >>
    /\ tail' = Tail(tail)
    /\ IF IsCurrent(Head(tail).epoch)
       THEN /\ writing' = <<Head(tail).settings>>
            /\ marker' = <<Head(tail).settings>>
            /\ toHost' = Append(toHost, Head(tail))
            /\ writes' = writes + 1
       ELSE UNCHANGED <<writing, marker, toHost, writes>>
    /\ UNCHANGED <<user, events, epoch, active, calls, given, heard, overtaken,
                   swallowed, appeared>>

(* Mutant: the marker outlives the write. *)
SettleKeepingMarker ==
    /\ writing # << >>
    /\ writing' = << >>
    /\ UNCHANGED <<user, events, epoch, active, calls, tail, marker, given, history>>

(* setSettings settles, before or after the host has stored the settings,  *)
(* and the marker is removed.                                              *)
Settle ==
    /\ writing # << >>
    /\ writing' = << >>
    /\ marker' = << >>
    /\ UNCHANGED <<user, events, epoch, active, calls, tail, given, history>>

WriteSettles == Settle /\ UNCHANGED toHost

(* An error is recorded; the settings did not reach the host.              *)
WriteFails == Settle /\ toHost # << >> /\ toHost' = Front(toHost)

Next ==
    \/ WillAppearOrDisappear \/ HostStores
    \/ \E settings \in Settings : UserSets(settings)
    \/ Appear \/ Disappear
    \/ SettingsConsumed \/ SettingsIgnored \/ SettingsChanged
    \/ \E call \in calls : CallReturns(call)
    \/ BeginWrite \/ WriteSettles \/ WriteFails

Spec == Init /\ [][Next]_vars

-----------------------------------------------------------------------------
(* Properties *)

AtRest ==
    events = << >> /\ calls = {} /\ tail = << >> /\ writing = << >> /\ toHost = << >>

(* When everything has come to rest, the controller works with the        *)
(* settings the host keeps for the key, however appearances, changes by    *)
(* the user, slow calls of the controller and writes with their echoes     *)
(* were interleaved (appear :56, settingsChanged :75, schedulePersistence  *)
(* :142), and whatever in between could not be read.  Excepted are a key   *)
(* whose appearance itself could not be read, of which the controller was  *)
(* never told and drops all later settings (stock-action-controller.ts     *)
(* :443), and two races out of the wrapper's hands: a write that was on    *)
(* its way when the user stored something else, and a change back to the   *)
(* very settings of a write that has not settled, taken for its echo.      *)
ShowsStored ==
    AtRest /\ active /\ appeared /\ ~overtaken /\ ~swallowed
        /\ Migrate[host] # None => given = Migrate[host]

(* Writing migrated settings never leads to another write: each write      *)
(* answers an event of the user or the host of its own, and an echo, which *)
(* is not always recognised, ends there.                                   *)
NoWriteLoop == writes <= heard

=============================================================================
