----------------------------- MODULE PiController -----------------------------
(***************************************************************************)
(* The plugin's side of the property inspector (pi/pi-controller.ts) and,  *)
(* through the Stream Deck host, one page of StockPropertyInspector.  The  *)
(* host delivers events and messages in order, and to whatever page is     *)
(* open for the action; a delivery on its way commutes with what the other *)
(* side does meanwhile and is one step with its sending.  Pages are        *)
(* opened, closed and reloaded, the settings are changed by others, writes *)
(* fail, and the plugin is destroyed, crashes and starts again with a new  *)
(* snapshot epoch while the page stays.  What the host reports of pages    *)
(* does not depend on what the process has heard: a new process may be     *)
(* told of the page shown, late or never, and of the end of a page whose   *)
(* appearance its predecessor was told of.                                 *)
(*                                                                         *)
(* One context: its entries in contexts and contextGenerations.  A command *)
(* runs step by step; each step starts only while the inspector that sent  *)
(* it is there, and once started it takes effect.  SettingsRepository's    *)
(* update is one read-modify-write here (its interleavings are modelled in *)
(* SettingsRepository).                                                    *)
(***************************************************************************)
EXTENDS StockPropertyInspector, SequencesExt

CONSTANTS
    Commands,    \* the commands the user sends besides settings/request
    MaxTurns,    \* bound: edits made and commands sent by the user, together
    MaxDisturbances \* bound: pages opened or reloaded, diagnostics pushes,
                 \* changes of the settings by others, reads and writes of
                 \* them that fail, and restarts of the plugin, together

ASSUME CommandsAssumption == Commands \subseteq CommandTypes \ {"settings/request"}
ASSUME BoundsAssumption == MaxTurns \in Nat /\ MaxDisturbances \in Nat

VARIABLES
    epoch,      \* snapshotEpoch: the plugin process
    destroyed,  \* destroy() was called
    context,    \* contexts' entry: appearances and generation; 0 appearances: none
    tracked,    \* contextGenerations has the context
    nextGeneration,
    sequence,   \* snapshotSequence
    interval,   \* the diagnostics interval is armed
    greetings,  \* propertyInspectorDidAppear calls under way
    commandTail,\* commands received and not answered; the head is running
    disk,       \* the settings Stream Deck keeps: revision and preferences
    seen,       \* the repository's snapshot of them
    ready,      \* baseKnown and not persistenceDegraded
    leaving,    \* a replaced page is not yet reported gone, and whether this
                \* process was told that it had appeared
    open,       \* the inspector of the action is shown
    shown,      \* whether this process was told of the page shown; lost: it
                \* was, and then of the end of a page it had not been told of
    page,       \* the page's state
    nextId,     \* the request id of the page's next command
    visit,      \* history: times the inspector went away, as the plugin heard
    left        \* what remains of the bounds

plugin == <<epoch, destroyed, context, tracked, nextGeneration, sequence,
            interval, greetings, commandTail, visit>>
settings == <<disk, seen, ready>>
host == <<leaving, open, shown, page, nextId>>
vars == <<plugin, settings, host, left>>

NoContext == [appearances |-> 0, generation |-> 0]
Visible == context.appearances > 0

(* The steps of execute() between two awaits, for each command; that the   *)
(* settings are ready, all the first two ask, is asked again for the       *)
(* answer's snapshot.                                                      *)
StepsOf ==
    [ type \in CommandTypes |->
        CASE type \in {"settings/request", "diagnostics/request"} -> << >>
          [] type \in {"credentials/save", "credentials/clear"} ->
                <<"compare", "store", "reconcile">>
          [] type = "preferences/save" -> <<"save">>
          [] type = "auth/retry" -> <<"reconcile", "token", "approve">>
          [] type \in {"ws/reconnect", "quote/refresh"} -> <<"start">> ]

Head_ == Head(commandTail)
Steps == StepsOf[Head_.type]
StepNow == Steps[Head_.step + 1]

-----------------------------------------------------------------------------
(* Fences and snapshots. *)

IsCurrent(generation) == Visible /\ context.generation = generation

CaptureFence ==
    [ tracked |-> tracked,
      generation |-> IF Visible THEN context.generation ELSE 0,
      visit |-> visit ]

(* Mutant: a fence only asks whether some inspector is visible. *)
FenceAnyVisible(fence) ==
    ~destroyed /\ IF fence.tracked THEN Visible ELSE ~tracked

(* A command sent before the context was ever known is current until it    *)
(* becomes known.                                                          *)
FenceCurrent(fence) ==
    /\ ~destroyed
    /\ IF fence.tracked
       THEN fence.generation # 0 /\ IsCurrent(fence.generation)
       ELSE ~tracked

Snapshot(number, settingsSeen) ==
    [ epoch |-> epoch, sequence |-> number,
      revision |-> settingsSeen.revision,
      preferences |-> settingsSeen.preferences ]

(* What plugin.ts asks before it sends, streamDeck.ui.action: the SDK      *)
(* counts the inspector's appearances in this process as the controller    *)
(* does while it is not destroyed, and a destroyed one sends nothing.      *)
UiShown == Visible

(* safeSend: nothing is sent unless this process was told of the           *)
(* inspector, nobody learns that nothing was sent, and a message for an    *)
(* action whose inspector is not shown reaches no page.                    *)
SafeSend(message) ==
    page' = IF open /\ UiShown THEN HandleMessage(page, message) ELSE page

Spend(bound) == left[bound] > 0 /\ left' = [left EXCEPT ![bound] = @ - 1]

Init ==
    /\ epoch = 1
    /\ destroyed = FALSE
    /\ context = NoContext
    /\ tracked = FALSE
    /\ nextGeneration = 0
    /\ sequence = 0
    /\ interval = FALSE
    /\ greetings = << >>
    /\ commandTail = << >>
    /\ disk \in [revision : {0}, preferences : Preferences]
    /\ seen = disk
    /\ ready = TRUE
    /\ leaving = "no"
    /\ open = FALSE
    /\ shown = "unreported"
    /\ page = FreshPage
    /\ nextId = 1
    /\ visit = 0
    /\ left = [turns |-> MaxTurns, disturbances |-> MaxDisturbances]

-----------------------------------------------------------------------------
(* The plugin hears of the inspector (propertyInspectorDidAppear,          *)
(* propertyInspectorDidDisappear).                                         *)

(* A context that is visible already keeps its generation. *)
Appear ==
    IF destroyed THEN UNCHANGED <<context, nextGeneration, tracked, interval, greetings>>
    ELSE LET generation == IF Visible THEN context.generation ELSE nextGeneration + 1
         IN  /\ context' = [ appearances |-> context.appearances + 1,
                             generation |-> generation ]
             /\ nextGeneration' = Later(nextGeneration, generation)
             /\ tracked' = TRUE
             /\ interval' = TRUE
             /\ greetings' = Append(greetings, generation)

(* Mutant: an inspector that is gone is gone, however many appeared. *)
DisappearAtOnce ==
    /\ context' = NoContext
    /\ nextGeneration' = nextGeneration + 1
    /\ tracked' = TRUE
    /\ interval' = FALSE
    /\ visit' = visit + 1

(* The last appearance gone, the context is forgotten and everything that  *)
(* was begun for it is out of date; so it is when an inspector goes that   *)
(* this process never heard of.                                            *)
Disappear ==
    /\ context' = IF context.appearances > 1
                  THEN [context EXCEPT !.appearances = @ - 1] ELSE NoContext
    /\ nextGeneration' = nextGeneration + IF context' = NoContext THEN 1 ELSE 0
    /\ tracked' = TRUE
    /\ interval' = (interval /\ context' # NoContext)
    /\ visit' = IF context' = NoContext THEN visit + 1 ELSE visit

(* A command waits for the ones before it; its fence is the inspector it   *)
(* came from.                                                              *)
HandleCommand(type, fence, expected, preferences) ==
    commandTail' =
        IF destroyed THEN commandTail
        ELSE Append(commandTail,
                [ type |-> type, id |-> nextId, expected |-> expected,
                  preferences |-> preferences, basis |-> page.basis,
                  fence |-> fence, step |-> 0, phase |-> "idle", ok |-> TRUE,
                  conflict |-> FALSE, snapshot |-> NoSnapshot ])

-----------------------------------------------------------------------------
(* The user and the host. *)

(* A page is shown, connects and asks for the settings (piDidConnect). *)
Connect ==
    /\ Spend("disturbances")
    /\ page' = SendCommand(FreshPage, "settings/request", nextId)
    /\ nextId' = nextId + 1
    /\ shown' = "reported"
    /\ Appear
    /\ HandleCommand("settings/request",
            [ tracked |-> tracked', generation |-> context'.generation,
              visit |-> visit ], 0, None)
    /\ UNCHANGED <<epoch, destroyed, sequence, visit, settings>>

Open ==
    /\ ~open
    /\ open' = TRUE
    /\ Connect
    /\ UNCHANGED leaving

(* The new page is shown before the old one is reported gone. *)
Reload ==
    /\ open /\ leaving = "no"
    /\ leaving' = IF shown = "reported" THEN "reported" ELSE "unreported"
    /\ Connect
    /\ UNCHANGED open

OldPageGone ==
    /\ leaving # "no"
    /\ leaving' = "no"
    /\ shown' = IF leaving = "unreported" /\ shown = "reported" THEN "lost" ELSE shown
    /\ Disappear
    /\ UNCHANGED <<epoch, destroyed, sequence, greetings, commandTail, settings,
                   open, page, nextId, left>>

(* After a restart the host may report the page that is still shown.       *)
Report ==
    /\ open /\ shown = "unreported"
    /\ shown' = "reported"
    /\ Appear
    /\ UNCHANGED <<epoch, destroyed, sequence, commandTail, visit, settings,
                   leaving, open, page, nextId, left>>

Close ==
    /\ open /\ leaving = "no"
    /\ open' = FALSE
    /\ shown' = "unreported"
    /\ page' = FreshPage
    /\ Disappear
    /\ UNCHANGED <<epoch, destroyed, sequence, greetings, commandTail, settings,
                   leaving, nextId, left>>

Edit ==
    /\ open
    /\ Spend("turns")
    /\ \/ \E form \in (Preferences \cup {None}) \ {page.form} :
            page' = EditPreferences(page, form)
       \/ page' = TypeSecret(page, left.turns)
    /\ UNCHANGED <<plugin, settings, leaving, open, shown, nextId>>

(* Mutant: a save is sent with the newest revision the page has heard of. *)
NewestRevision(type) == page.revision

(* The revision a command expects the settings to be at. *)
ExpectedRevision(type) ==
    IF type = "preferences/save" THEN page.basisRevision ELSE page.revision

Command(type) ==
    /\ open
    /\ Spend("turns")
    /\ type = "preferences/save" => MaySave(page)
    /\ page' = SendCommand(page, type, nextId)
    /\ HandleCommand(type, CaptureFence, ExpectedRevision(type), page.form)
    /\ nextId' = nextId + 1
    /\ UNCHANGED <<epoch, destroyed, context, tracked, nextGeneration, sequence,
                   interval, greetings, visit, settings, leaving, open,
                   shown>>

-----------------------------------------------------------------------------
(* The plugin: what an appearance is greeted with. *)

(* The settings read, the inspector is sent a snapshot, if it is there.    *)
Greet(i) ==
    /\ greetings' = RemoveAt(greetings, i)
    /\ sequence' = sequence + IF ready THEN 1 ELSE 0
    /\ IF ready /\ ~destroyed /\ IsCurrent(greetings[i])
       THEN SafeSend([type |-> "settings/update",
                      snapshot |-> Snapshot(sequence + 1, seen)])
       ELSE UNCHANGED page
    /\ UNCHANGED <<epoch, destroyed, context, tracked, nextGeneration, interval,
                   commandTail, visit, settings, leaving, open, shown,
                   nextId, left>>

-----------------------------------------------------------------------------
(* The plugin: commands, one after the other. *)

CommandFrame ==
    UNCHANGED <<epoch, destroyed, context, tracked, nextGeneration, interval,
                greetings, visit, leaving, open, shown, nextId>>

HeadTo(command) == commandTail' = <<command>> \o Tail(commandTail)

(* Mutant: the fence is asked once, when the command begins. *)
MayGoOnOnceBegun == Head_.step > 0 \/ FenceCurrent(Head_.fence)

(* Before each step and before the answer the fence is asked again. *)
MayGoOn == FenceCurrent(Head_.fence)

(* The inspector that sent the command is gone: nothing more happens. *)
Abandon ==
    /\ commandTail # << >>
    /\ Head_.phase # "busy"
    /\ ~MayGoOn
    /\ commandTail' = Tail(commandTail)
    /\ CommandFrame /\ UNCHANGED <<sequence, settings, page, left>>

StartStep ==
    /\ commandTail # << >>
    /\ Head_.phase = "idle"
    /\ Head_.step < Len(Steps)
    /\ MayGoOn
    /\ HeadTo([Head_ EXCEPT !.phase = "busy"])
    /\ CommandFrame /\ UNCHANGED <<sequence, settings, page, left>>

NextStep == HeadTo([Head_ EXCEPT !.phase = "idle", !.step = @ + 1])

(* Only errors of the settings are answered with a snapshot. *)
FailStep(why) ==
    HeadTo([Head_ EXCEPT !.phase = IF why = "rejected" THEN "answer" ELSE "recover",
                         !.ok = FALSE, !.conflict = (why = "conflict")])

(* A read or a write of the settings fails; after a failed write the       *)
(* repository stands at what it read.                                      *)
SettingsFault ==
    /\ Spend("disturbances")
    /\ ready' = FALSE
    /\ seen' \in {seen, disk}
    /\ UNCHANGED disk

(* A transaction that changes something is written with the next revision. *)
Write(preferences) ==
    /\ disk' = [revision |-> disk.revision + 1, preferences |-> preferences]
    /\ seen' = disk'
    /\ ready' = TRUE

(* A transaction that changes nothing adopts what is stored.               *)
AdoptStored == seen' = disk /\ ready' = TRUE /\ UNCHANGED disk

(* Mutant: a save is compared with the repository's own snapshot. *)
ConflictsWithSeen(expected) == seen.revision # expected

(* assertRevision, on the fresh copy inside the transaction. *)
Conflicts(expected) == disk.revision # expected

(* settingsRepository.update with the user's preferences: the revision is  *)
(* compared with the fresh copy, and preferences that are already there    *)
(* are not written again.                                                  *)
SaveStep ==
    \/ SettingsFault /\ FailStep("unavailable")
    \/ /\ Conflicts(Head_.expected)
       /\ FailStep("conflict")
       /\ UNCHANGED <<settings, left>>
    \/ /\ ~Conflicts(Head_.expected)
       /\ IF Head_.preferences = disk.preferences
          THEN AdoptStored
          ELSE Write(Head_.preferences)
       /\ NextStep
       /\ UNCHANGED left

(* saveCredentials and clearCredentials compare in the same way and leave  *)
(* the preferences as they are; credentials that are not complete are      *)
(* rejected first, and what is already stored, or cleared, is not written  *)
(* again.                                                                  *)
StoreStep ==
    \/ /\ Head_.type = "credentials/save"
       /\ FailStep("rejected")
       /\ UNCHANGED <<settings, left>>
    \/ SettingsFault /\ FailStep("unavailable")
    \/ /\ Conflicts(Head_.expected)
       /\ FailStep("conflict")
       /\ UNCHANGED <<settings, left>>
    \/ /\ ~Conflicts(Head_.expected)
       /\ AdoptStored \/ Write(disk.preferences)
       /\ NextStep
       /\ UNCHANGED left

(* reconcile: nothing to repair in settings that are ready, or a           *)
(* transaction that validates the stored credentials and writes only what  *)
(* it repairs of them (that others stored credentials to be repaired is a  *)
(* disturbance).                                                           *)
ReconcileStep ==
    \/ ready /\ NextStep /\ UNCHANGED <<settings, left>>
    \/ SettingsFault /\ FailStep("unavailable")
    \/ AdoptStored /\ NextStep /\ UNCHANGED left
    \/ Spend("disturbances") /\ Write(disk.preferences) /\ NextStep

(* refreshApprovalKey, and getAccessToken after it has reconciled: the     *)
(* credentials may be refused.                                             *)
ApproveStep ==
    /\ NextStep \/ FailStep("rejected")
    /\ UNCHANGED <<settings, left>>

(* readySnapshot, and the revision it must be at. *)
CompareStep ==
    /\ UNCHANGED <<settings, left>>
    /\ CASE ~ready -> FailStep("unavailable")
         [] ready /\ seen.revision # Head_.expected -> FailStep("conflict")
         [] OTHER -> NextStep

FinishStep ==
    /\ commandTail # << >>
    /\ Head_.phase = "busy"
    /\ \/ StepNow = "compare" /\ CompareStep
       \/ StepNow = "save" /\ SaveStep
       \/ StepNow = "store" /\ StoreStep
       \/ StepNow \in {"reconcile", "token"} /\ ReconcileStep
       \/ StepNow \in {"token", "approve", "start"} /\ ApproveStep
    /\ CommandFrame /\ UNCHANGED <<sequence, page>>

(* All steps done, the answer carries a snapshot. *)
BuildAnswer ==
    /\ commandTail # << >>
    /\ Head_.phase = "idle"
    /\ Head_.step = Len(Steps)
    /\ MayGoOn
    /\ IF ready
       THEN /\ sequence' = sequence + 1
            /\ HeadTo([Head_ EXCEPT !.phase = "answer",
                                    !.snapshot = Snapshot(sequence + 1, seen)])
       ELSE FailStep("unavailable") /\ UNCHANGED sequence
    /\ CommandFrame /\ UNCHANGED <<settings, page, left>>

(* Mutant: the answer to a failed command shows what the plugin knew. *)
RecoverWithoutReading ==
    /\ ready
    /\ sequence' = sequence + 1
    /\ HeadTo([Head_ EXCEPT !.phase = "answer",
                            !.snapshot = Snapshot(sequence + 1, seen)])
    /\ UNCHANGED <<settings, left>>

ReadAgain ==
    /\ seen' = disk /\ ready' = TRUE
    /\ sequence' = sequence + 1
    /\ HeadTo([Head_ EXCEPT !.phase = "answer",
                            !.snapshot = Snapshot(sequence + 1, disk)])
    /\ UNCHANGED <<disk, left>>

(* After a SETTINGS error a transaction without changes reads the settings *)
(* again, so that the answer shows what the command ran into.              *)
RecoverSnapshot ==
    /\ commandTail # << >>
    /\ Head_.phase = "recover"
    /\ MayGoOn
    /\ \/ /\ SettingsFault
          /\ HeadTo([Head_ EXCEPT !.phase = "answer"])
          /\ UNCHANGED sequence
       \/ ReadAgain
    /\ CommandFrame /\ UNCHANGED page

AnswerOf(command) ==
    [ type |-> "answer", id |-> command.id, ok |-> command.ok,
      snapshot |-> command.snapshot ]

(* Mutant: an error without a snapshot is not answered. *)
AnswerWithSnapshot ==
    IF Head_.snapshot # NoSnapshot THEN SafeSend(AnswerOf(Head_))
    ELSE UNCHANGED page

Answer == SafeSend(AnswerOf(Head_))

SendAnswer ==
    /\ commandTail # << >>
    /\ Head_.phase = "answer"
    /\ MayGoOn
    /\ Answer
    /\ commandTail' = Tail(commandTail)
    /\ CommandFrame /\ UNCHANGED <<sequence, settings, left>>

-----------------------------------------------------------------------------
(* The plugin: diagnostics. *)

(* Every two seconds, while an inspector is visible. *)
StartDiagnosticsPush ==
    /\ interval
    /\ Visible
    /\ Spend("disturbances")
    /\ ready
    /\ sequence' = sequence + 1
    /\ SafeSend([type |-> "diagnostics/update",
                 snapshot |-> Snapshot(sequence + 1, seen)])
    /\ UNCHANGED <<epoch, destroyed, context, tracked, nextGeneration, interval,
                   greetings, commandTail, visit, settings, leaving, open,
                   shown, nextId>>

-----------------------------------------------------------------------------
(* Others change the settings; the plugin ends and starts again. *)

(* The other inspectors, a new access token, an earlier plugin process. *)
RemoteChange ==
    /\ Spend("disturbances")
    /\ \E preferences \in Preferences :
         disk' = [revision |-> disk.revision + 1, preferences |-> preferences]
    /\ UNCHANGED <<plugin, seen, ready, host>>

(* refreshGlobalSettings, or any transaction, adopts what is stored. *)
Adopt ==
    /\ <<seen, ready>> # <<disk, TRUE>>
    /\ seen' = disk
    /\ ready' = TRUE
    /\ UNCHANGED <<plugin, disk, host, left>>

Destroy ==
    /\ ~destroyed
    /\ left.disturbances > 0
    /\ destroyed' = TRUE
    /\ context' = NoContext
    /\ interval' = FALSE
    /\ visit' = visit + 1
    /\ UNCHANGED <<epoch, tracked, nextGeneration, sequence, greetings,
                   commandTail, settings, host, left>>

(* With the process everything the plugin held is gone; what it had sent   *)
(* still arrives, and so do, at the new process, the events of the host.   *)
Restart ==
    /\ Spend("disturbances")
    /\ epoch' = epoch + 1
    /\ destroyed' = FALSE
    /\ context' = NoContext
    /\ tracked' = FALSE
    /\ nextGeneration' = 0
    /\ sequence' = 0
    /\ interval' = FALSE
    /\ greetings' = << >>
    /\ commandTail' = << >>
    /\ visit' = visit + 1
    /\ seen' = disk
    /\ ready' = TRUE
    /\ shown' = "unreported"
    /\ leaving' = IF leaving = "no" THEN "no" ELSE "unreported"
    /\ UNCHANGED <<disk, open, page, nextId>>

Next ==
    \/ Open \/ Reload \/ OldPageGone \/ Report \/ Close \/ Edit
    \/ \E type \in Commands : Command(type)
    \/ \E i \in DOMAIN greetings : Greet(i)
    \/ Abandon \/ StartStep \/ FinishStep
    \/ BuildAnswer \/ RecoverSnapshot \/ SendAnswer
    \/ StartDiagnosticsPush
    \/ RemoteChange \/ Adopt \/ Destroy \/ Restart

Spec == Init /\ [][Next]_vars

-----------------------------------------------------------------------------
(* Properties *)

(* A preferences save replaces only the preferences its form was filled    *)
(* from: whatever others stored since, and whatever snapshots the page has *)
(* or has not heard, what the user has not seen in the controls is never   *)
(* overwritten (preferencesRevision, :593, and assertRevision inside the   *)
(* transaction, pi-controller.ts :522).  The exception: controls edited     *)
(* before the first snapshot came are saved over settings that were never  *)
(* written, as both stand at revision 0.                                   *)
SeenBeforeOverwritten ==
    [][ /\ commandTail # << >> /\ commandTail' # commandTail
        /\ Head_.type = "preferences/save" /\ disk' # disk
        => \/ disk.preferences = Head_.basis
           \/ disk.revision = 0 /\ Head_.basis = None ]_vars

(* A message of the plugin changes the page. *)
Delivered == /\ page' # page
             /\ open /\ open' /\ nextId' = nextId /\ left'.turns = left.turns

(* The step confirms a command of one of the types to the page. *)
Confirms(types) ==
    /\ commandTail # << >>
    /\ commandTail' # commandTail
    /\ Head_.phase = "answer"
    /\ Head_.ok
    /\ Head_.id \in DOMAIN page.pending
    /\ Head_.type \in types

(* No message takes away what the user typed and has not saved: the        *)
(* controls change only from what the plugin last said, or from what it    *)
(* just confirmed as saved, and the secret is cleared only by the          *)
(* confirmation of the very command it was typed for (handleMessage :768,  *)
(* with edit versions that return to zero).                                *)
TypedIsKept ==
    [][ Delivered =>
        /\ page'.form # page.form =>
             \/ page.form = page.authoritative
             \/ page.authoritative = None /\ page.edits = 0
             \/ /\ Confirms({"preferences/save"})
                /\ page.pending[Head_.id].submitted = page.form
        /\ page'.secret # page.secret =>
             /\ Confirms({"credentials/save", "credentials/clear"})
             /\ page.pending[Head_.id].secret = page.secret ]_vars

(* After the inspector that sent a command has gone, no further step of    *)
(* the command starts and no answer to it is sent, even when the same      *)
(* action's inspector is open again (OperationFence, :433, :709).          *)
OnlyForOpenInspector ==
    [][ /\ commandTail # << >> /\ commandTail' # commandTail
        /\ \/ /\ Len(commandTail') = Len(commandTail)
              /\ Head(commandTail').phase = "busy"
           \/ Head_.phase = "answer" /\ Delivered
        => Head_.fence.visit = visit /\ ~destroyed ]_vars

(* A page waits for the answer to its save only as long as one is under    *)
(* way, so that the save button is not disabled for good: no fence drops   *)
(* the command of the page shown, once this process was told of it and of  *)
(* the end of no page it had not been told of, and a page that has heard   *)
(* of a new process gives up what it asked the old one (inspectSnapshot    *)
(* :674, preferenceSaveRequestId).  It is not so for every page that is    *)
(* open, which the hypothesis on shown leaves out: after a restart nothing *)
(* is sent before the host reports the page again (plugin.ts :21), and the *)
(* end of a page of which only the process before was told takes the       *)
(* context of the page that replaced it (:425-428), whose commands are     *)
(* then dropped (:439, :727).  Those pages wait until they are closed.     *)
SaveIsAnswered ==
    /\ open /\ shown = "reported"
    /\ page.save # 0 /\ page.current = epoch /\ ~destroyed
    => \E i \in DOMAIN commandTail : commandTail[i].id = page.save

(* The snapshot that comes with a revision conflict shows settings newer   *)
(* than the ones the command was based on, so that the user sees what it   *)
(* ran into (recoverSnapshot :631: the repository may not have adopted     *)
(* them when the conflict was thrown).                                     *)
ConflictExplained ==
    \A i \in DOMAIN commandTail :
        commandTail[i].conflict /\ commandTail[i].snapshot # NoSnapshot =>
            commandTail[i].snapshot.revision > commandTail[i].expected

=============================================================================
