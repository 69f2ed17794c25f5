--------------------------- MODULE LumalouEditors ---------------------------
(***************************************************************************)
(* Everyone who changes the saved profile of one entry, at the same time:  *)
(* option editors and the previewed read (config_flow.py), the actions     *)
(* set_routine, import and restore (services.py), the fix flow of the      *)
(* Repair (repairs.py) and the switches that save a setting in place.      *)
(*                                                                         *)
(* A client holds the revision it was based on from its form until it gets *)
(* the operation lock; meanwhile other clients, a power loss and a reload  *)
(* of the entry run.  A profile is cut to what the restore plan orders:    *)
(* the clock block (display, bright), the weekly plan (playlist, times,    *)
(* alarms, routines) and mode, the on/off flags.  Light and sound levels,  *)
(* verification, resets and recovery are in LumalouProfile.                *)
(***************************************************************************)
EXTENDS Naturals

CONSTANTS
    Clients,    \* flows, action calls and switches
    None,
    Values,     \* what a field can be
    Off,        \* the factory value
    MaxCalls,   \* bound: calls that clients make
    MaxFaults   \* bound: power losses, changes at the device, reloads, failures

ASSUME EditorsAssumption ==
    /\ Off \in Values
    /\ MaxCalls \in Nat /\ MaxFaults \in Nat

ClockFields == {"display", "bright"}
Fields == ClockFields \cup {"plan", "mode"}
Profiles == [Fields -> Values]
Factory == [f \in Fields |-> Off]
Same(v) == [f \in Fields |-> v]

ASSUME NoneIsNoProfile == None \notin Profiles

VARIABLES
    record,     \* _profile_record of the loaded coordinator
    stored,     \* the record in the Store
    unlocked,   \* protocol_verified
    loaded,     \* entry.runtime_data has a coordinator
    previewed,  \* _previewed_profile
    link,       \* the session is up
    device,     \* the settings of the device
    client,     \* what each client is doing
    answer,     \* history: what a client was told in the last step
    calls, faults

profile == <<record, stored, unlocked>>
editorVars == <<profile, loaded, previewed, link, device, client, answer,
                calls, faults>>

-----------------------------------------------------------------------------
(* Clients.                                                                *)

Calls == {"edit", "routine", "import", "read", "keep", "restore", "set"}
Phases == {"idle", "form", "shown", "queued", "reading", "saving", "writing",
           "verify", "setting"}
\* Awaits inside the operation lock.
Held == {"reading", "saving", "writing", "verify", "setting"}

\* base and revision are what the client was based on, want and fields what it
\* changes, todo the restore steps left, live whether the device takes part,
\* did whether this attempt changed the saved profile; lost (history) are the
\* steps the device has acknowledged in this restore and not applied.
NoCall == [call |-> "none", at |-> "idle", base |-> None, revision |-> 0,
           fields |-> {}, want |-> None, todo |-> {}, live |-> FALSE,
           did |-> FALSE, lost |-> {}]

At(c, phase) == client[c].at = phase
Free == \A c \in Clients : client[c].at \notin Held
Complete == record.desired # None

Silent == answer' = None
Goto(c, phase) ==
    /\ client' = [client EXCEPT ![c].at = phase]
    /\ Silent

\* A form of the options flow is shown again with an error; a call raises.
Again(c) ==
    IF client[c].call \in {"edit", "read"} /\ client[c].want # None
    THEN [client[c] EXCEPT !.at = "shown", !.todo = {}, !.live = FALSE,
                           !.did = FALSE, !.lost = {}]
    ELSE NoCall

Merged(c) ==
    [f \in Fields |-> IF f \in client[c].fields THEN client[c].want[f]
                                                ELSE record.desired[f]]
\* The edit changes the saved profile (not: what the device shows).
Edited_OnDevice(c) == Merged(c) # device
Edited(c) == Merged(c) # record.desired

Answer(c, told) ==
    answer' = [told |-> told, did |-> client[c].did,
               kept |-> record'.desired # None
                          /\ \A f \in client[c].fields :
                                record'.desired[f] = client[c].want[f]]
Refuse(c, told) ==
    /\ client' = [client EXCEPT ![c] = Again(c)]
    /\ answer' = [told |-> told, did |-> client[c].did, kept |-> FALSE]
Finish(c, told) ==
    /\ client' = [client EXCEPT ![c] = NoCall]
    /\ Answer(c, told)

Calling(c) ==
    /\ At(c, "idle") /\ calls < MaxCalls /\ calls' = calls + 1
    /\ UNCHANGED <<profile, loaded, previewed, link, device, faults>>
Fault == faults < MaxFaults /\ faults' = faults + 1 /\ UNCHANGED calls
NoFault == UNCHANGED <<calls, faults>>

Start(c, call, phase, fields, want) ==
    /\ client' = [client EXCEPT ![c] =
          [NoCall EXCEPT !.call = call, !.at = phase, !.base = record.desired,
                         !.revision = record.revision, !.fields = fields,
                         !.want = want]]
    /\ Silent

\* _ensure_draft: an editor captures the complete profile and its revision once.
OpenEditor(c, fields) ==
    /\ loaded /\ Complete
    /\ Calling(c) /\ Start(c, "edit", "form", fields, None)

\* async_export_profile: the caller of a later import learns the revision.
ExportProfile(c) ==
    /\ loaded /\ Free
    /\ Calling(c) /\ Start(c, "import", "form", Fields, None)

\* The user fills the form (the preview is shown), or the import is called.
Fill(c, want) ==
    /\ At(c, "form")
    /\ \/ /\ client[c].call = "edit"
          /\ \A f \in Fields \ client[c].fields : want[f] = client[c].base[f]
       \/ client[c].call = "import" /\ \E v \in Values : want = Same(v)
    /\ client' = [client EXCEPT ![c].want = want, ![c].at = "shown"]
    /\ Silent
    /\ UNCHANGED <<profile, loaded, previewed, link, device, calls, faults>>

\* _async_confirm with the confirmation ticked; the import action is called.
Confirm(c) ==
    /\ At(c, "shown")
    /\ IF loaded THEN Goto(c, "queued")
       ELSE /\ client' = [client EXCEPT ![c] = NoCall]
            /\ answer' = [told |-> "not_loaded", did |-> client[c].did,
                          kept |-> FALSE]
    /\ UNCHANGED <<profile, loaded, previewed, link, device, calls, faults>>

\* The user closes the form.
Abandon(c) ==
    /\ client[c].at \in {"form", "shown"}
    /\ client' = [client EXCEPT ![c] = NoCall] /\ Silent
    /\ UNCHANGED <<profile, loaded, previewed, link, device, calls, faults>>

\* async_set_routines builds the week from the saved one before the lock.
CallSetRoutine(c, v) ==
    /\ loaded /\ Complete
    /\ Calling(c)
    /\ Start(c, "routine", "queued", {"plan"}, [record.desired EXCEPT !.plan = v])

\* async_step_read_profile; a Repair, which keeps what it read at once, needs a
\* saved profile.
CallRead(c, call) ==
    /\ loaded /\ (call = "keep" => Complete /\ unlocked)
    /\ Calling(c) /\ Start(c, call, "queued", Fields, None)

\* The restore action defaults to the current revision; so does the Repair's.
CallRestore(c) ==
    /\ loaded /\ Calling(c) /\ Start(c, "restore", "queued", {}, None)

\* ProfileRestoreRepairFlow: the saved profile or the device's settings win.
RepairActs(c) == CallRestore(c) \/ CallRead(c, "keep")

\* async_set_clock_settings, async_set_routine_settings: want names one field.
CallSetting(c, f, v) ==
    /\ loaded /\ Calling(c)
    /\ Start(c, "set", "queued", {f}, [device EXCEPT ![f] = v])

-----------------------------------------------------------------------------
(* The lock is granted: the checks up to the first await.                  *)

Granted(c, call) ==
    /\ Free /\ loaded /\ At(c, "queued") /\ client[c].call \in call

\* RevisionConflictError.
Conflict_Never(c) == FALSE
Conflict(c) == client[c].revision # record.revision

BeginEdit(c) ==
    /\ Granted(c, {"edit", "routine"})
    /\ IF Conflict(c) THEN Refuse(c, "conflict")
       ELSE IF ~unlocked THEN Refuse(c, "failed") ELSE Goto(c, "reading")
    /\ UNCHANGED <<profile, loaded, previewed, link, device, calls, faults>>

BeginImport(c) ==
    /\ Granted(c, {"import"})
    /\ IF Conflict(c) THEN Refuse(c, "conflict") ELSE Goto(c, "saving")
    /\ UNCHANGED <<profile, loaded, previewed, link, device, calls, faults>>

BeginRead(c) ==
    /\ Granted(c, {"read", "keep"}) /\ client[c].want = None
    /\ Goto(c, "reading")
    /\ UNCHANGED <<profile, loaded, previewed, link, device, calls, faults>>

\* async_accept_device_profile.
BeginAccept(c) ==
    /\ Granted(c, {"read", "keep"}) /\ client[c].want # None
    /\ IF previewed # client[c].want THEN Refuse(c, "failed")
       ELSE IF Conflict(c) THEN Refuse(c, "conflict") ELSE Goto(c, "saving")
    /\ UNCHANGED <<profile, loaded, previewed, link, device, calls, faults>>

BeginRestore(c) ==
    /\ Granted(c, {"restore"})
    /\ IF unlocked /\ ~Conflict(c) /\ Complete THEN Goto(c, "reading")
                                               ELSE Refuse(c, "failed")
    /\ UNCHANGED <<profile, loaded, previewed, link, device, calls, faults>>

Block(f) == IF f \in ClockFields THEN ClockFields ELSE {f}

\* One command writes the whole clock block; the other fields come from the
\* device state.
BeginSetting(c) ==
    /\ Granted(c, {"set"})
    /\ IF unlocked /\ link
       THEN /\ \E f \in client[c].fields :
                 client' = [client EXCEPT
                     ![c].at = "setting", ![c].fields = Block(f),
                     ![c].want = [device EXCEPT ![f] = client[c].want[f]]]
            /\ previewed' = None /\ Silent
       ELSE Refuse(c, "failed") /\ UNCHANGED previewed
    /\ UNCHANGED <<profile, loaded, link, device, calls, faults>>

-----------------------------------------------------------------------------
(* The device.                                                             *)

\* build_restore_steps: only what differs, in this order.
Steps == {"clock", "plan", "mode"}
Rank_FlagsEarly(s) == CASE s = "clock" -> 1 [] s = "plan" -> 3 [] s = "mode" -> 2
Rank(s) == CASE s = "clock" -> 1 [] s = "plan" -> 2 [] s = "mode" -> 3
StepFields(s) == IF s = "clock" THEN ClockFields ELSE {s}
RestoreSteps(want, have) ==
    {s \in Steps : \E f \in StepFields(s) : want[f] # have[f]}
First(todo) == CHOOSE s \in todo : \A t \in todo : Rank(s) <= Rank(t)
Wrote(s) ==
    [f \in Fields |-> IF f \in StepFields(s) THEN record.desired[f]
                                             ELSE device[f]]

\* _async_restore: a plan without steps is verified by the read it comes from;
\* one with steps makes an older preview worthless.
Restore(c, todo) ==
    IF todo = {} THEN Finish(c, "saved") /\ UNCHANGED previewed
    ELSE /\ client' = [client EXCEPT ![c].at = "writing", ![c].todo = todo,
                                     ![c].did = record' # record]
         /\ previewed' = None /\ Silent

\* The fresh read of an edit or restore; a running routine refuses both.
ReadForWrite(c) ==
    /\ At(c, "reading") /\ client[c].call \in {"edit", "routine", "restore"}
    /\ UNCHANGED <<profile, loaded, device, calls, faults>>
    /\ link' = TRUE
    /\ \/ Refuse(c, "routine_running") /\ UNCHANGED previewed
       \/ LET todo == RestoreSteps(Merged(c), device)
          IN IF Edited(c)
             THEN /\ client' = [client EXCEPT ![c].at = "saving", ![c].todo = todo,
                                              ![c].live = TRUE]
                  /\ Silent /\ UNCHANGED previewed
             ELSE Restore(c, todo)

\* The read that is previewed; keep_device confirms it at once.
ReadForPreview(c) ==
    /\ At(c, "reading") /\ client[c].call \in {"read", "keep"}
    /\ link' = TRUE /\ previewed' = device
    /\ client' = [client EXCEPT
          ![c].want = device, ![c].base = record.desired,
          ![c].revision = record.revision,
          ![c].at = IF client[c].call = "read" THEN "shown" ELSE "queued"]
    /\ Silent
    /\ UNCHANGED <<profile, loaded, device, calls, faults>>

\* The device cannot be read, or maintenance is on: an edit is saved all the
\* same, as a pending revision.
ReadFails(c) ==
    /\ At(c, "reading") /\ link' = FALSE
    /\ UNCHANGED <<profile, loaded, previewed, device, calls, faults>>
    /\ IF client[c].call \in {"edit", "routine"}
       THEN IF Edited(c)
            THEN Goto(c, "saving")
            ELSE Finish(c, "saved_not_applied")
       ELSE Refuse(c, "failed")

\* The next step follows once this one is acknowledged, which on hardware does
\* not mean that it is applied; only the read after the last step shows it.
WriteStep(c) ==
    /\ At(c, "writing") /\ link
    /\ LET s == First(client[c].todo)
           todo == client[c].todo \ {s}
           Acknowledged(lost) == client' = [client EXCEPT
               ![c].todo = todo, ![c].lost = lost,
               ![c].at = IF todo = {} THEN "verify" ELSE "writing"]
       IN \/ device' = Wrote(s) /\ Acknowledged(client[c].lost) /\ NoFault
          \/ device' = device /\ Acknowledged(client[c].lost \cup {s}) /\ Fault
    /\ Silent
    /\ UNCHANGED <<profile, loaded, previewed, link>>

\* Read again: saved only if the device shows the whole profile.
Verify(c) ==
    /\ At(c, "verify") /\ link' = TRUE
    /\ UNCHANGED <<profile, loaded, previewed, device, calls, faults>>
    /\ IF device = record.desired THEN Finish(c, "saved")
                                  ELSE Finish(c, "saved_not_applied")

\* A step may have been applied although its acknowledgement is lost.
WriteFails(c) ==
    /\ client[c].at \in {"writing", "verify"}
    /\ UNCHANGED <<profile, loaded, previewed>>
    /\ IF At(c, "writing") /\ ~link THEN NoFault ELSE Fault
    /\ link' = FALSE
    /\ \/ UNCHANGED device
       \/ At(c, "writing") /\ link /\ device' = Wrote(First(client[c].todo))
    /\ Finish(c, "saved_not_applied")

\* _write_setting: the saved profile follows once a push confirms the write.
SettingConfirmed(c) ==
    /\ At(c, "setting") /\ link
    /\ UNCHANGED <<profile, loaded, previewed, link, calls, faults>>
    /\ device' = client[c].want
    /\ IF Complete /\ Edited(c)
       THEN Goto(c, "saving")
       ELSE Finish(c, "set")

\* The link is lost, or no push confirms the setting even after a second write.
SettingFails(c) ==
    /\ At(c, "setting")
    /\ IF link THEN Fault ELSE NoFault
    /\ link' \in {FALSE, link}
    /\ \/ UNCHANGED device
       \/ link /\ device' = client[c].want
    /\ Refuse(c, "failed")
    /\ UNCHANGED <<profile, loaded, previewed>>

-----------------------------------------------------------------------------
(* Saves: the Store first, then the record in memory.                      *)

EmptyRecord == [revision |-> 0, desired |-> None]
SavedRecord == [revision |-> 1, desired |-> Factory]

Saved(c) == IF client[c].fields = Fields THEN client[c].want ELSE Merged(c)
\* _new_revision; a setting keeps the revision.
Saving_SameRevision(c) == [revision |-> record.revision, desired |-> Saved(c)]
Saving_RoutineInPlace(c) ==
    [revision |-> record.revision
                    + (IF client[c].call \in {"set", "routine"} THEN 0 ELSE 1),
     desired  |-> Saved(c)]
Saving(c) ==
    [revision |-> record.revision + (IF client[c].call = "set" THEN 0 ELSE 1),
     desired  |-> Saved(c)]

SaveRecord(c) ==
    /\ At(c, "saving")
    /\ record' = Saving(c) /\ stored' = Saving(c)
    /\ UNCHANGED <<loaded, link, device, calls, faults>>

\* An edit whose device was read goes on to write it.
SavedEdit(c) ==
    /\ client[c].call \in {"edit", "routine"} /\ SaveRecord(c)
    /\ IF client[c].live
       THEN Restore(c, client[c].todo)
       ELSE Finish(c, "saved_not_applied") /\ UNCHANGED previewed
    /\ UNCHANGED unlocked

SavedImport(c) ==
    /\ client[c].call = "import" /\ SaveRecord(c)
    /\ Finish(c, "saved")
    /\ UNCHANGED <<unlocked, previewed>>

\* The kept read unlocks device control.
SavedAccept(c) ==
    /\ client[c].call \in {"read", "keep"} /\ SaveRecord(c)
    /\ previewed' = None /\ unlocked' = TRUE
    /\ Finish(c, "saved")

SavedSetting(c) ==
    /\ client[c].call = "set" /\ SaveRecord(c)
    /\ Finish(c, "set")
    /\ UNCHANGED <<unlocked, previewed>>

-----------------------------------------------------------------------------
(* The environment.                                                        *)

PowerLoss ==
    /\ Fault /\ device' = Factory /\ link' = FALSE /\ Silent
    /\ UNCHANGED <<profile, loaded, previewed, client>>

\* The vendor app holds the only connection meanwhile.
DeviceChange(f, v) ==
    /\ ~link /\ Fault /\ device' = [device EXCEPT ![f] = v] /\ Silent
    /\ UNCHANGED <<profile, loaded, previewed, link, client>>

\* A recovery pass that finds nothing to restore.
Reconnect ==
    /\ loaded /\ Free /\ ~link /\ link' = TRUE /\ Silent
    /\ UNCHANGED <<profile, loaded, previewed, device, client, calls, faults>>

\* async_shutdown cancels whoever holds or awaits the lock, at any await; the
\* forms of the options flow stay open.
Interrupted_NotWaited ==
    client' = client
Interrupted ==
    client' = [c \in Clients |->
        IF client[c].at \in Held \cup {"queued"} THEN Again(c) ELSE client[c]]
HalfSaved == {record} \cup {Saving(c) : c \in {d \in Clients : At(d, "saving")}}
HalfWritten ==
    {device}
        \cup {Wrote(First(client[c].todo)) :
                 c \in {d \in Clients : link /\ At(d, "writing")}}
        \cup {client[c].want : c \in {d \in Clients : link /\ At(d, "setting")}}
Stopped ==
    /\ loaded /\ loaded' = FALSE /\ link' = FALSE /\ previewed' = None
    /\ stored' \in HalfSaved /\ record' = stored'
    /\ device' \in HalfWritten
    /\ Interrupted /\ Silent
    /\ UNCHANGED unlocked
Unload == Stopped /\ Fault

\* async_setup_entry: a new coordinator reads the Store; without a saved
\* profile controls are locked.
Load ==
    /\ ~loaded /\ loaded' = TRUE
    /\ record' = stored /\ unlocked' = (unlocked /\ stored.revision # 0)
    /\ Silent
    /\ UNCHANGED <<stored, previewed, link, device, client, calls, faults>>

-----------------------------------------------------------------------------

EditorsInit ==
    /\ record \in {EmptyRecord, SavedRecord} /\ stored = record
    /\ unlocked = (record = SavedRecord) /\ loaded \in BOOLEAN
    /\ previewed = None /\ link = FALSE /\ device = Factory
    /\ client = [c \in Clients |-> NoCall]
    /\ answer = None /\ calls = 0 /\ faults = 0

\* What the editors change: clock_settings; playlist and routine; an on/off flag
\* of the routine settings; schedule or routine settings with their flag.
Blocks == {ClockFields, {"plan"}, {"mode"}, {"plan", "mode"}}

ClientActs(c) ==
    \/ \E fields \in Blocks : OpenEditor(c, fields)
    \/ ExportProfile(c)
    \/ \E want \in Profiles : Fill(c, want)
    \/ Confirm(c) \/ Abandon(c)
    \/ \E v \in Values : CallSetRoutine(c, v)
    \/ CallRead(c, "read") \/ RepairActs(c)
    \/ \E f \in ClockFields \cup {"mode"}, v \in Values : CallSetting(c, f, v)

LockGranted(c) ==
    \/ BeginEdit(c) \/ BeginImport(c) \/ BeginRead(c) \/ BeginAccept(c)
    \/ BeginRestore(c) \/ BeginSetting(c)

Holder(c) ==
    \/ ReadForWrite(c) \/ ReadForPreview(c) \/ ReadFails(c)
    \/ WriteStep(c) \/ Verify(c) \/ WriteFails(c)
    \/ SettingConfirmed(c) \/ SettingFails(c)
    \/ SavedEdit(c) \/ SavedImport(c) \/ SavedAccept(c) \/ SavedSetting(c)

EditorsNext ==
    \/ \E c \in Clients : ClientActs(c) \/ LockGranted(c) \/ Holder(c)
    \/ PowerLoss \/ Reconnect \/ Unload \/ Load
    \/ \E f \in Fields, v \in Values : DeviceChange(f, v)

EditorsSpec == EditorsInit /\ [][EditorsNext]_editorVars

-----------------------------------------------------------------------------
(* Properties.                                                             *)

\* A record has a profile from its first revision on.
Records == {EmptyRecord} \cup [revision : Nat \ {0}, desired : Profiles]
Client == [call : Calls \cup {"none"}, at : Phases,
           base : Profiles \cup {None}, revision : Nat,
           fields : SUBSET Fields, want : Profiles \cup {None},
           todo : SUBSET Steps, live : BOOLEAN, did : BOOLEAN,
           lost : SUBSET Steps]
Told == {"saved", "saved_not_applied", "set", "conflict", "failed",
         "routine_running", "not_loaded"}
Answers == [told : Told, did : BOOLEAN, kept : BOOLEAN]

\* Every variable keeps its type.
EditorsTypeOK ==
    /\ record \in Records /\ stored \in Records
    /\ unlocked \in BOOLEAN /\ loaded \in BOOLEAN /\ link \in BOOLEAN
    /\ previewed \in Profiles \cup {None} /\ device \in Profiles
    /\ client \in [Clients -> Client]
    /\ answer \in Answers \cup {None}
    /\ calls \in Nat /\ faults \in Nat

\* What a setting changes in place, without a new revision.
InPlace == ClockFields \cup {"mode"}

\* A save changes only fields its client means to change, and none whose saved
\* value is not the one the client was based on: nobody overwrites what he has
\* not seen.  Settings saved in place keep the revision, so they are the one
\* thing an editor, an import or another setting may still overwrite.
NothingOverwritten ==
    [][loaded /\ Complete /\ record'.desired # record.desired =>
          \E c \in Clients : At(c, "saving") /\ \A f \in Fields :
              record'.desired[f] # record.desired[f] =>
                  /\ f \in client[c].fields
                  /\ f \in InPlace \/ client[c].base[f] = record.desired[f]]_editorVars

\* A client that is told its change is saved finds it in the profile, also when
\* it is told that Lumalou does not have it yet; a client that is told of a
\* conflict, a failure or a running routine has changed nothing.
TruthfulReport ==
    answer # None =>
        IF answer.told \in {"saved", "saved_not_applied"} THEN answer.kept
        ELSE answer.told = "set" \/ ~answer.did

\* A restore, complete or cut off, switches a mode on the device only once the
\* device shows the saved weekly plan or has acknowledged it in this restore: the
\* steps follow each other without a read in between, so an acknowledged plan
\* that was not applied is found by the last read only (build_restore_steps,
\* _async_restore).
FlagAfterPlan ==
    [][\A c \in Clients :
          At(c, "writing") /\ link /\ device'.mode # device.mode
              /\ device' # Factory
          => \/ device'.plan = record.desired.plan
             \/ "plan" \in client[c].lost]_editorVars
=============================================================================
