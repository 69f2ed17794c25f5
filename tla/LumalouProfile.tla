--------------------------- MODULE LumalouProfile ---------------------------
(***************************************************************************)
(* Saved intent against the device: the revisioned profile record and its  *)
(* Store, the strict read, verification, the restore executor, reset       *)
(* detection with its bounded automatic restores, the previewed read that  *)
(* a user may keep, in-place settings and the one-off routine.             *)
(*                                                                         *)
(* A complete profile has two blocks here: live, the light and sound       *)
(* levels (compared only after a reset), and routine, every other block:   *)
(* the day that a one-off routine may replace, and the rest.               *)
(* Every operation holds the operation lock for its whole run, so one op   *)
(* runs at a time; op.at is the await (or, for decide, judge, restore and  *)
(* start_next, the point between two awaits) it has reached.  The device,  *)
(* the radio, cancellation and a crash of Home Assistant interleave.       *)
(* Maintenance, which refuses these operations, is in LumalouSession.      *)
(***************************************************************************)
EXTENDS Naturals, Sequences

CONSTANTS
    None,
    UserKinds,     \* the calls users make in this instance
    AutoRestore,   \* the entry's auto_restore option
    MaxAttempts,   \* AUTO_RESTORE_MAX_ATTEMPTS
    MaxFaults,     \* bound: power losses, failures, cancellations, restarts
    MaxCalls,      \* bound: user calls
    MaxChanges     \* bound: changes made at the device or in its app

Kinds == {"restore", "edit", "read", "accept", "import", "setting", "start"}
ASSUME KindsAssumption == UserKinds \subseteq Kinds

ASSUME ProfileAssumption ==
    /\ AutoRestore \in BOOLEAN
    /\ MaxAttempts \in Nat \ {0}
    /\ MaxFaults \in Nat /\ MaxCalls \in Nat /\ MaxChanges \in Nat

Levels == {"factory", "a", "b"}
Days == Levels \cup {"oneoff"}
Plans == [day : Days, rest : Levels]
Blocks == {"routine", "live"}
Profiles == [routine : Plans, live : Levels]
Uniform(v) == [routine |-> [day |-> v, rest |-> v], live |-> v]
Factory == Uniform("factory")

\* What a weekly plan is made of.
Parts(plan) == {plan.day, plan.rest}

Choices == {"a", "b"}     \* what users and the device's app choose

ASSUME NoneAssumption == None \notin Profiles

VARIABLES
    record,      \* _profile_record
    stored,      \* the record in the Store
    protocol_verified,
    need,        \* _restore_needed
    reset_seen,  \* _reset_seen
    previewed,   \* _previewed_profile
    paused,      \* clock_sync_paused
    due,         \* _routine_task: a one-off routine ended in this session
    waiting,     \* what the background loop saw before it waits for the lock
    op,          \* the operation that holds the lock
    form,        \* what a user who previewed a read may still confirm
    link,        \* the session is up
    device,      \* blocks, clock and routine mode of the device
    ghost,       \* history: see below
    faults, calls, changes

durable == <<record, stored, protocol_verified>>
memory  == <<need, reset_seen, previewed, paused, due, waiting>>
budget  == <<faults, calls, changes>>
vars == <<durable, memory, op, form, link, device, ghost, budget>>

(***************************************************************************)
(* ghost.loss      a power loss happened and is not resolved yet           *)
(* ghost.unread    there was a power loss since the last complete read     *)
(* ghost.tries     automatic restores since the last resolved event        *)
(* ghost.renewals  new revisions and restarts since the last resolved event *)
(* ghost.synced    the clock of a device that shows a reset was set since  *)
(*                 Home Assistant started ("now") or earlier ("before")    *)
(* ghost.dirty     Home Assistant wrote settings since the previewed read  *)
(* ghost.kept      what no choice made of the plans the user kept          *)
(* ghost.lost      the last write-back was acknowledged and not applied    *)
(***************************************************************************)
NoGhost == [loss |-> FALSE, unread |-> FALSE, tries |-> 0, renewals |-> 0,
            synced |-> "no", dirty |-> FALSE, kept |-> {}, lost |-> FALSE]

-----------------------------------------------------------------------------
(* The record and what is derived from it.                                 *)

EmptyRecord == [revision |-> 0, desired |-> None, verified |-> 0, key |-> FALSE,
                status |-> "empty", marker |-> FALSE]

\* key: verified_fingerprint is this device's.
IsVerified(r) == r.verified = r.revision /\ r.key
Complete == record.desired # None

NewRevision_SameNumber(r, profile) ==
    [r EXCEPT !.desired = profile, !.status = "pending"]
NewRevision(r, profile) ==
    [r EXCEPT !.revision = @ + 1, !.desired = profile, !.status = "pending"]
AsVerified(r) ==
    [r EXCEPT !.verified = r.revision, !.key = TRUE, !.status = "saved"]

\* restore_needed: a newer revision makes it obsolete.
RestoreNeeded ==
    IF need # None /\ need.revision = record.revision THEN need ELSE None

\* repair_needed: what automatic restore still handles needs no Repair.
RepairNeeded_NoReset == RestoreNeeded # None /\ ~need.reset
RepairNeeded ==
    RestoreNeeded # None
       /\ (need.reset /\ AutoRestore => need.exhausted)

\* profile_from_readback: the profile that a complete read of d shows.
Settings(d) == [routine |-> d.routine, live |-> d.live]

\* _is_reset: all settings at factory default, or the power-loss clock.
IsReset == Settings(device) = Factory \/ device.clock = "reset"

\* _with_saved_routine: the day of a one-off routine is not a profile change.
Observed ==
    IF record.marker /\ Complete
    THEN [op.snap EXCEPT !.routine.day = record.desired.routine.day]
    ELSE op.snap

Differing(want, have) == {b \in Blocks : want[b] # have[b]}

\* build_restore_steps writes the levels before the routines.
Steps(want, have) ==
    LET write(b) == IF b \in Differing(want, have) THEN <<b>> ELSE <<>>
    IN write("live") \o write("routine")

-----------------------------------------------------------------------------
(* Operations.                                                             *)

SavePhases == {"save_verified", "save_new", "save_offline", "save_applying",
               "save_ok", "save_error", "save_accept", "save_live", "mark",
               "unmark", "unmark_end"}
SendPhases == {"clock", "writeback", "write", "set", "start_back",
               "start_write", "start_go", "start_undo"}
ReadPhases == {"open", "verify"}
Decisions  == {"decide", "judge", "restore", "start_next"}
Phases == {"idle"} \cup SavePhases \cup SendPhases \cup ReadPhases
              \cup Decisions

\* snap is the read as the operation corrects it, read the read as it came.
NoOp == [kind |-> "none", at |-> "idle", snap |-> None, read |-> None,
         running |-> FALSE, todo |-> <<>>, target |-> None]
Idle == op.at = "idle"
Done == op' = NoOp
Goto(phase) == op' = [op EXCEPT !.at = phase]
Begin(kind, phase, target) ==
    /\ Idle
    /\ op' = [NoOp EXCEPT !.kind = kind, !.at = phase, !.target = target]

Fault ==
    /\ faults < MaxFaults /\ faults' = faults + 1
    /\ UNCHANGED <<calls, changes>>
NoFault == UNCHANGED budget
UserCall(kind) ==
    /\ kind \in UserKinds
    /\ calls < MaxCalls /\ calls' = calls + 1
    /\ UNCHANGED <<faults, changes>>

\* While an operation opens a fresh session there is none to show.
Available == link /\ op.at \notin ReadPhases

\* _async_background_refresh looks at the session, and _async_recover at the
\* lock on the controls, before they wait for the operation lock and not again.
RecoveryDue ==
    /\ ~Available /\ waiting = "no" /\ op.kind \notin {"recover", "look"}
    /\ waiting' = IF protocol_verified THEN "full" ELSE "bare"
    /\ UNCHANGED <<durable, need, reset_seen, previewed, paused, due, op, form,
                   link, device, ghost, budget>>

\* _async_recover gets the lock.
Recover ==
    /\ waiting # "no" /\ waiting' = "no"
    /\ Begin(IF waiting = "full" THEN "recover" ELSE "look", "open", None)
    /\ UNCHANGED <<durable, need, reset_seen, previewed, paused, due, form,
                   link, device, ghost, budget>>

\* async_restore_profile, async_read_profile_snapshot.
RestoreProfile ==
    /\ UserCall("restore")
    /\ protocol_verified /\ Complete
    /\ Begin("restore", "open", None)
    /\ UNCHANGED <<durable, memory, form, link, device, ghost>>

ReadProfile ==
    /\ UserCall("read")
    /\ Begin("read", "open", None)
    /\ UNCHANGED <<durable, memory, form, link, device, ghost>>

\* async_apply_profile_edit with the current revision.
ApplyEdit(part, v) ==
    /\ UserCall("edit")
    /\ protocol_verified /\ Complete
    /\ Begin("edit", "open", [record.desired EXCEPT !.routine[part] = v])
    /\ UNCHANGED <<durable, memory, form, link, device, ghost>>

\* async_import_profile.
ImportProfile(profile) ==
    /\ UserCall("import")
    /\ Begin("import", "save_new", profile)
    /\ UNCHANGED <<durable, memory, form, link, device, ghost>>

\* async_accept_device_profile: only the last read, and only while its revision
\* is still the current one.
MayAccept_AnyRead == form # None
MayAccept ==
    form # None /\ form.profile = previewed /\ form.revision = record.revision

AcceptProfile ==
    /\ UserCall("accept")
    /\ MayAccept
    /\ Begin("accept", "save_accept", form.profile)
    /\ ghost' = [ghost EXCEPT !.kept = @ \cup (Parts(form.profile.routine) \ Choices)]
    /\ UNCHANGED <<durable, memory, form, link, device>>

\* _write_setting of one light and sound level: brightness, volume, a timer.
SetLevel(level) ==
    /\ UserCall("setting")
    /\ protocol_verified
    /\ Begin("setting", "set", [routine |-> None, live |-> level])
    /\ previewed' = None
    /\ UNCHANGED <<durable, need, reset_seen, paused, due, waiting, form, link,
                   device, ghost>>

\* async_start_routine with tasks of its own: an earlier one-off routine is
\* written back first.
StartRoutine ==
    /\ UserCall("start")
    /\ protocol_verified /\ link /\ Complete /\ ~device.running
    /\ IF record.marker
       THEN Begin("start", "start_back", None) /\ previewed' = None
       ELSE Begin("start", "start_next", None) /\ UNCHANGED previewed
    /\ UNCHANGED <<durable, need, reset_seen, paused, due, waiting, form, link,
                   device, ghost>>

\* _async_end_temporary_routine gets the lock.
EndRoutine ==
    /\ due /\ Idle /\ due' = FALSE
    /\ IF record.marker /\ link /\ ~device.running /\ protocol_verified
       THEN Begin("end", "writeback", None) /\ previewed' = None
       ELSE UNCHANGED <<op, previewed>>
    /\ UNCHANGED <<durable, need, reset_seen, paused, waiting, form, link,
                   device, ghost, budget>>

-----------------------------------------------------------------------------
(* Reads.                                                                  *)

\* A reset once seen stays seen until it is resolved.
Seen_ThisReadOnly == IsReset
Seen == reset_seen \/ IsReset

\* _async_fresh_snapshot: a new session, one complete read, reset judged.  A
\* recovery that found the controls locked only reads GLOBAL_STATE.
ReadFresh ==
    /\ op.at = "open"
    /\ link' = TRUE
    /\ IF op.kind = "look"
       THEN Done /\ UNCHANGED <<reset_seen, previewed, form, ghost>>
       ELSE /\ reset_seen' = Seen
            /\ \/ /\ op.kind = "read" /\ Done
                  /\ previewed' = Settings(device)
                  /\ form' = [profile |-> Settings(device),
                              revision |-> record.revision]
                  /\ ghost' = [ghost EXCEPT !.dirty = FALSE, !.unread = FALSE]
               \/ /\ op.kind # "read"
                  /\ ghost' = [ghost EXCEPT !.unread = FALSE]
                  /\ op' = [op EXCEPT
                        !.snap = Settings(device), !.read = Settings(device),
                        !.running = device.running,
                        !.at = IF device.clock # "right"
                                  /\ ~(op.kind = "recover" /\ paused)
                               THEN "clock" ELSE "decide"]
                  /\ UNCHANGED <<previewed, form>>
    /\ UNCHANGED <<durable, need, paused, due, waiting, device, budget>>

\* The second read of a restore.  Levels that the device cannot show now are
\* not compared (_verifiable).
Comparable(hidden) ==
    IF hidden THEN [record.desired EXCEPT !.live = device.live]
              ELSE record.desired

\* _async_restore_failed: the last allowed automatic attempt raises the Repair.
Exhaust ==
    IF /\ op.kind = "recover" /\ RestoreNeeded # None
       /\ need.attempts >= MaxAttempts
    THEN [need EXCEPT !.exhausted = TRUE]
    ELSE need

\* Verified only if every comparable block matches.
Proven_Always(hidden) == TRUE
Proven(hidden) == Differing(Comparable(hidden), Settings(device)) = {}

ReadAgain ==
    /\ op.at = "verify"
    /\ link' = TRUE
    /\ reset_seen' = Seen
    /\ ghost' = [ghost EXCEPT !.unread = FALSE]
    /\ \E hidden \in BOOLEAN :
          IF Proven(hidden)
          THEN op' = [op EXCEPT !.at = "save_ok", !.read = Settings(device)]
               /\ UNCHANGED need
          ELSE Goto("save_error") /\ need' = Exhaust
    /\ UNCHANGED <<durable, previewed, paused, due, waiting, form, device,
                   budget>>

-----------------------------------------------------------------------------
(* Decisions between two awaits.                                           *)

\* After the read and the clock: what the operation does with the snapshot.
Decide ==
    /\ op.at = "decide"
    /\ \/ /\ op.kind = "recover"
          /\ IF record.marker /\ ~op.running
             THEN IF Complete
                     /\ op.snap.routine.day # record.desired.routine.day
                  THEN Goto("writeback") /\ previewed' = None
                  ELSE Goto("unmark") /\ UNCHANGED previewed
             ELSE Goto("judge") /\ UNCHANGED previewed
       \/ /\ op.kind \in {"restore", "edit"} /\ op.running
          /\ Done /\ UNCHANGED previewed
       \/ /\ op.kind = "restore" /\ ~op.running
          /\ Goto("restore") /\ UNCHANGED previewed
       \/ /\ op.kind = "edit" /\ ~op.running
          /\ LET target == [op.target EXCEPT !.live = op.snap.live]
             IN op' = [op EXCEPT !.target = target,
                          !.at = IF target # record.desired THEN "save_new"
                                                            ELSE "restore"]
          /\ UNCHANGED previewed
    /\ UNCHANGED <<durable, need, reset_seen, paused, due, waiting, form, link,
                   device, ghost, budget>>

\* Without a reset the levels are not compared.
Changed(reset) ==
    Differing(record.desired, Observed) \ (IF reset THEN {} ELSE {"live"})

\* _detect_restore_needed.
Detected ==
    LET reset == reset_seen \/ (RestoreNeeded # None /\ need.reset)
    IN IF ~(record.key /\ Complete) \/ Changed(reset) = {} THEN None
       ELSE IF RestoreNeeded # None THEN [need EXCEPT !.reset = reset]
       ELSE [revision |-> record.revision, reset |-> reset, attempts |-> 0,
             exhausted |-> FALSE]

AttemptsLeft_OneMore(n) == n.attempts <= MaxAttempts
AttemptsLeft(n) == n.attempts < MaxAttempts

\* Only a reset is restored automatically.
Automatic_Always(n) == AutoRestore
Automatic(n) == n.reset /\ AutoRestore

\* A power loss that still shows in the clock or the routines is not over.
Resolved(g) ==
    [g EXCEPT !.loss = @ /\ (g.unread \/ device.clock = "reset"
                              \/ "factory" \in Parts(device.routine)),
              !.tries = 0, !.renewals = 0, !.synced = "no"]

\* _async_recover after the read: a pending revision that the device already
\* matches becomes verified; then the mismatch is judged.
Judge ==
    /\ op.at = "judge"
    /\ IF ~IsVerified(record) /\ record.desired = Observed
       THEN Goto("save_verified") /\ UNCHANGED <<need, reset_seen, ghost>>
       ELSE LET found == Detected IN
            /\ reset_seen' = (reset_seen /\ found # None)
            /\ \/ /\ found = None
                  /\ need' = None /\ Done /\ ghost' = Resolved(ghost)
               \/ /\ found # None /\ ~Automatic(found)
                  /\ need' = found /\ Done /\ UNCHANGED ghost
               \/ /\ found # None /\ Automatic(found) /\ ~AttemptsLeft(found)
                  /\ need' = [found EXCEPT !.exhausted = TRUE]
                  /\ Done /\ UNCHANGED ghost
               \/ /\ found # None /\ Automatic(found) /\ AttemptsLeft(found)
                  /\ need' = [found EXCEPT !.attempts = @ + 1]
                  /\ Goto("restore")
                  /\ ghost' = [ghost EXCEPT !.tries = @ + 1]
    /\ UNCHANGED <<durable, previewed, paused, due, waiting, form, link,
                   device, budget>>

\* _async_restore: nothing to write is already proven.
StartRestore ==
    /\ op.at = "restore"
    /\ LET steps == Steps(record.desired, op.snap) IN
       IF steps = <<>>
       THEN Goto("save_ok") /\ UNCHANGED previewed
       ELSE /\ op' = [op EXCEPT !.at = "save_applying", !.todo = steps]
            /\ previewed' = None
    /\ UNCHANGED <<durable, need, reset_seen, paused, due, waiting, form, link,
                   device, ghost, budget>>

\* async_start_routine: the day is recorded before it is replaced.
MarkFirst_Not == Goto("start_write")
MarkFirst == Goto("mark")

StartNext ==
    /\ op.at = "start_next"
    /\ MarkFirst
    /\ UNCHANGED <<durable, memory, form, link, device, ghost, budget>>

-----------------------------------------------------------------------------
(* Awaited writes.                                                         *)

\* What the device does with the command it is sent.
Effect ==
    CASE op.at = "clock"       -> [device EXCEPT !.clock = "right"]
      [] op.at = "write"       -> [device EXCEPT
                             ![Head(op.todo)] = record.desired[Head(op.todo)]]
      [] op.at = "set"         -> [device EXCEPT !.live = op.target.live]
      [] op.at = "start_write" -> [device EXCEPT !.routine.day = "oneoff"]
      [] op.at = "start_go"    -> [device EXCEPT !.running = TRUE]
      [] OTHER -> [device EXCEPT !.routine.day = record.desired.routine.day]

\* A device that shows a reset gets its clock set.
Synced == [ghost EXCEPT !.synced = IF IsReset THEN "now" ELSE @]
\* A new one-off day is still to be given back, a plan that is written is.
Dirty == [ghost EXCEPT
             !.dirty = TRUE,
             !.lost = @ /\ op.at # "start_write"
                        /\ device'.routine = device.routine]

\* Seen on hardware: a setter is acknowledged but not applied.
Acknowledged == \/ device' = Effect /\ NoFault
                \/ device' = device /\ Fault

\* _async_sync_clock_if_needed.
SyncClock ==
    /\ op.at = "clock" /\ link
    /\ Acknowledged /\ paused' = FALSE
    /\ ghost' = Synced
    /\ Goto("decide")
    /\ UNCHANGED <<durable, need, reset_seen, previewed, due, waiting, form,
                   link>>

\* _async_write_back_routine, and the write-backs of async_start_routine.
WriteBack ==
    /\ op.at \in {"writeback", "start_back", "start_undo"} /\ link
    /\ \/ device' = Effect /\ ghost' = Dirty /\ NoFault
       \/ device' = device /\ ghost' = [Dirty EXCEPT !.lost = TRUE] /\ Fault
    /\ op' = [op EXCEPT
          !.at = IF op.at = "start_undo" \/ op.kind = "end" THEN "unmark_end"
                                                           ELSE "unmark",
          !.snap = IF op.kind = "recover"
                   THEN [@ EXCEPT !.routine.day = record.desired.routine.day]
                   ELSE @]
    /\ UNCHANGED <<durable, memory, form, link>>

\* One step of the restore executor; after the last one, the proof.
WriteStep ==
    /\ op.at = "write" /\ link
    /\ Acknowledged /\ ghost' = Dirty
    /\ op' = [op EXCEPT !.todo = Tail(@),
                        !.at = IF Len(op.todo) = 1 THEN "verify" ELSE "write"]
    /\ UNCHANGED <<durable, memory, form, link>>

\* _state_confirms: a push shows the level.
Confirmed == device'.live = op.target.live

\* _write_setting: kept once the device confirms it, unless the soother runs.
\* An unconfirmed setting is written once more before it is given up.
WriteLevel ==
    /\ op.at = "set" /\ link
    /\ Acknowledged /\ ghost' = Dirty
    /\ \/ Done
       \/ /\ Confirmed
          /\ Complete /\ record.desired.live # op.target.live
          /\ Goto("save_live")
    /\ UNCHANGED <<durable, memory, form, link>>

WriteOneOff ==
    /\ op.at = "start_write" /\ link
    /\ Acknowledged /\ ghost' = Dirty
    /\ Goto("start_go")
    /\ UNCHANGED <<durable, memory, form, link>>

\* The start is confirmed by a push, or the day is written back.
EnterRoutine ==
    /\ op.at = "start_go" /\ link
    /\ \/ device' = Effect /\ Done /\ NoFault
       \/ device' \in {device, Effect} /\ Goto("start_undo") /\ Fault
    /\ UNCHANGED <<durable, memory, form, link, ghost>>

\* An await on the device raises; a lost acknowledgement may have been applied.
Fallible == op.at \in ReadPhases \/ link
IoFails ==
    /\ op.at \in SendPhases \cup ReadPhases
    /\ IF Fallible THEN Fault ELSE NoFault
    /\ link' = FALSE
    /\ \/ UNCHANGED <<device, ghost>>
       \/ /\ op.at \in SendPhases /\ link /\ device' = Effect
          /\ ghost' = IF op.at = "clock"
                      THEN Synced
                      ELSE IF op.at = "start_go" THEN ghost ELSE Dirty
    /\ paused' = (paused \/ (op.at = "clock" /\ op.kind = "recover"))
    /\ \/ /\ op.at \in {"write", "verify"}
          /\ Goto("save_error") /\ need' = Exhaust
       \/ /\ op.kind = "edit" /\ op.at \in {"open", "clock"}
          /\ op.target # record.desired
          /\ Goto("save_offline") /\ UNCHANGED need
       \/ /\ op.at \notin {"write", "verify"}
          /\ ~(op.kind = "edit" /\ op.target # record.desired)
          /\ Done /\ UNCHANGED need
    /\ UNCHANGED <<durable, reset_seen, previewed, due, waiting, form>>

-----------------------------------------------------------------------------
(* Awaited saves: the Store first, then the record in memory.              *)

Saving ==
    CASE op.at \in {"save_verified", "save_ok"} -> AsVerified(record)
      [] op.at \in {"save_new", "save_offline"} ->
            NewRevision(record, op.target)
      [] op.at = "save_accept"   -> AsVerified(NewRevision(record, op.target))
      [] op.at = "save_applying" -> [record EXCEPT !.status = "applying"]
      [] op.at = "save_error"    -> [record EXCEPT !.status = "error"]
      [] op.at = "save_live" -> [record EXCEPT !.desired.live = op.target.live]
      [] op.at = "mark"          -> [record EXCEPT !.marker = TRUE]
      [] OTHER                   -> [record EXCEPT !.marker = FALSE]

Saved(phases) ==
    /\ op.at \in phases
    /\ record' = Saving /\ stored' = Saving
    /\ UNCHANGED <<form, device, budget>>

SavedMatch ==
    /\ Saved({"save_verified"})
    /\ Goto("judge")
    /\ UNCHANGED <<protocol_verified, memory, link, ghost>>

\* A new revision gets attempts of its own.
Renewed == [ghost EXCEPT !.renewals = @ + 1]

\* A new revision: an edit goes on to write it, an import or an edit that did
\* not reach the device stays pending.
SavedRevision ==
    /\ Saved({"save_new", "save_offline"})
    /\ IF op.kind = "edit" /\ op.at = "save_new" THEN Goto("restore") ELSE Done
    /\ ghost' = Renewed
    /\ UNCHANGED <<protocol_verified, memory, link>>

SavedApplying ==
    /\ Saved({"save_applying"})
    /\ Goto("write")
    /\ UNCHANGED <<protocol_verified, memory, link, ghost>>

\* _async_restore proved the profile: the event is resolved.
SavedRestored ==
    /\ Saved({"save_ok"})
    /\ need' = None /\ reset_seen' = FALSE /\ ghost' = Resolved(ghost)
    /\ IF record.marker THEN Goto("unmark_end") ELSE Done
    /\ UNCHANGED <<protocol_verified, previewed, paused, due, waiting, link>>

\* A failed automatic restore ends the session, so the next starts fresh.
SavedFailure ==
    /\ Saved({"save_error"})
    /\ Done /\ link' = (link /\ op.kind # "recover")
    /\ UNCHANGED <<protocol_verified, memory, ghost>>

SavedLevel ==
    /\ Saved({"save_live"})
    /\ Done
    /\ UNCHANGED <<protocol_verified, memory, link, ghost>>

\* A preview taken before the one-off routine no longer describes the device.
SavedMark ==
    /\ Saved({"mark"})
    /\ Goto("start_write") /\ previewed' = None
    /\ UNCHANGED <<protocol_verified, need, reset_seen, paused, due, waiting,
                   link, ghost>>

\* The kept read resolves the event and unlocks device control.
Keep == /\ reset_seen' = FALSE /\ protocol_verified' = TRUE
        /\ ghost' = Resolved(ghost)

SavedUnmark ==
    /\ Saved({"unmark", "unmark_end"})
    /\ IF op.at = "unmark_end" THEN Done
       ELSE IF op.kind = "recover" THEN Goto("judge") ELSE Goto("start_next")
    /\ IF op.kind = "accept" THEN Keep
       ELSE UNCHANGED <<reset_seen, protocol_verified, ghost>>
    /\ UNCHANGED <<need, previewed, paused, due, waiting, link>>

SavedAccepted ==
    /\ Saved({"save_accept"})
    /\ previewed' = None
    /\ IF record.marker
       THEN Goto("unmark_end")
            /\ ghost' = Renewed
            /\ UNCHANGED <<reset_seen, protocol_verified>>
       ELSE Done /\ Keep
    /\ UNCHANGED <<need, paused, due, waiting, link>>

\* A save that is interrupted may or may not have reached the Store.
Stores == {stored} \cup (IF op.at \in SavePhases THEN {Saving} ELSE {})

\* Cancellation ends the operation at an await; only a durable edit (accept)
\* keeps the session.
Cancelled ==
    /\ op.at \notin {"idle"} \cup Decisions /\ Fault
    /\ Done /\ link' = (link /\ op.kind = "accept")
    /\ stored' \in Stores
    /\ UNCHANGED <<record, protocol_verified, memory, form, device, ghost>>

\* Home Assistant stops and starts again: async_setup.
Crash ==
    /\ Fault /\ Done
    /\ stored' \in Stores /\ record' = stored'
    /\ protocol_verified' = (protocol_verified /\ stored'.revision # 0)
    /\ need' = None /\ reset_seen' = FALSE /\ previewed' = None
    /\ paused' = FALSE /\ due' = FALSE /\ waiting' = "no"
    /\ form' = None /\ link' = FALSE
    /\ ghost' = [Renewed EXCEPT
                    !.synced = IF @ = "now" THEN "before" ELSE @,
                    !.dirty = FALSE]
    /\ UNCHANGED device

-----------------------------------------------------------------------------
(* The device and the radio.                                               *)

\* A power loss resets the settings; a short outage leaves the clock running.
PowerLoss ==
    /\ Fault /\ link' = FALSE
    /\ \E clock \in {"reset", device.clock} :
          device' = [routine |-> Factory.routine, live |-> Factory.live,
                     clock |-> clock, running |-> FALSE]
    /\ ghost' = [ghost EXCEPT !.loss = TRUE, !.unread = TRUE, !.lost = FALSE]
    /\ UNCHANGED <<durable, memory, op, form>>

LinkDrop ==
    /\ Fault /\ link /\ link' = FALSE
    /\ UNCHANGED <<durable, memory, op, form, device, ghost>>

\* The device buttons and the vendor's app.
DeviceChange ==
    /\ changes < MaxChanges /\ changes' = changes + 1
    /\ \E v \in Choices :
          \/ device' = [device EXCEPT !.live = v]
          \/ device' = [device EXCEPT !.routine.day = v]
          \/ device' = [device EXCEPT !.routine.rest = v]
    /\ UNCHANGED <<durable, memory, op, form, link, ghost, faults, calls>>

\* The scheduled start of the routine of the day.
RoutineStarts ==
    /\ changes < MaxChanges /\ changes' = changes + 1
    /\ ~device.running /\ device' = [device EXCEPT !.running = TRUE]
    /\ UNCHANGED <<durable, memory, op, form, link, ghost, faults, calls>>

OneOffEnded_Missed == FALSE
OneOffEnded == link /\ record.marker

\* _routine_ended: the live session sees the device leave routine mode.
RoutineEnds ==
    /\ device.running /\ device' = [device EXCEPT !.running = FALSE]
    /\ due' = (due \/ OneOffEnded)
    /\ UNCHANGED <<durable, need, reset_seen, previewed, paused, waiting, op,
                   form, link, ghost, budget>>

\* The power-loss clock has run out of the window of is_factory_clock.
ClockAges ==
    /\ device.clock = "reset" /\ device' = [device EXCEPT !.clock = "off"]
    /\ UNCHANGED <<durable, memory, op, form, link, ghost, budget>>

\* CLOCK_SYNC_RETRY_INTERVAL has passed.
PauseEnds ==
    /\ paused /\ paused' = FALSE
    /\ UNCHANGED <<durable, need, reset_seen, previewed, due, waiting, op,
                   form, link, device, ghost, budget>>

-----------------------------------------------------------------------------
SavedRecord == [revision |-> 1, desired |-> Uniform("a"),
                verified |-> 1, key |-> TRUE, status |-> "saved",
                marker |-> FALSE]

\* A new entry, or one whose profile is saved and verified.
Init ==
    /\ record \in {EmptyRecord, SavedRecord} /\ stored = record
    /\ protocol_verified = (record = SavedRecord)
    /\ need = None /\ reset_seen = FALSE /\ previewed = None
    /\ paused = FALSE /\ due = FALSE /\ waiting = "no"
    /\ op = NoOp /\ form = None /\ link = FALSE
    /\ device = [routine |-> Uniform("a").routine, live |-> "a",
                 clock |-> "right", running |-> FALSE]
    /\ ghost = NoGhost
    /\ faults = 0 /\ calls = 0 /\ changes = 0

UserOperation ==
    \/ RestoreProfile
    \/ ReadProfile
    \/ \E part \in {"day", "rest"}, v \in Choices : ApplyEdit(part, v)
    \/ \E v \in Choices : ImportProfile(Uniform(v))
    \/ AcceptProfile
    \/ \E v \in Choices : SetLevel(v)
    \/ StartRoutine

\* The next step of the operation that holds the lock.
Progress ==
    \/ ReadFresh
    \/ ReadAgain
    \/ Decide
    \/ Judge
    \/ StartRestore
    \/ StartNext
    \/ SyncClock
    \/ WriteBack
    \/ WriteStep
    \/ WriteLevel
    \/ WriteOneOff
    \/ EnterRoutine
    \/ IoFails
    \/ SavedMatch
    \/ SavedRevision
    \/ SavedApplying
    \/ SavedRestored
    \/ SavedFailure
    \/ SavedLevel
    \/ SavedMark
    \/ SavedUnmark
    \/ SavedAccepted

Environment ==
    \/ Cancelled
    \/ Crash
    \/ PowerLoss
    \/ LinkDrop
    \/ DeviceChange
    \/ RoutineStarts
    \/ RoutineEnds
    \/ ClockAges
    \/ PauseEnds

Next ==
    \/ UserOperation
    \/ RecoveryDue
    \/ Recover
    \/ EndRoutine
    \/ Progress
    \/ Environment

Spec == Init /\ [][Next]_vars

\* Every await of the device is under a timeout and the Store answers, the
\* background loop retries recovery, and the lock is fair.
FairSpec ==
    /\ Spec
    /\ WF_vars(Progress)
    /\ WF_vars(RecoveryDue)
    /\ WF_vars(Recover)
    /\ WF_vars(EndRoutine)
    /\ WF_vars(RoutineEnds)

-----------------------------------------------------------------------------
(* Types.                                                                  *)

\* _validate_record: what the Store accepts back at the next start.
Records ==
    {r \in [revision : Nat, desired : Profiles \cup {None}, verified : Nat,
            key : BOOLEAN, marker : BOOLEAN,
            status : {"empty", "pending", "applying", "error", "saved"}] :
        r.verified <= r.revision}
Needs == [revision : Nat, reset : BOOLEAN, attempts : 0..MaxAttempts,
          exhausted : BOOLEAN]

ASSUME NeedsAssumption == None \notin Needs

Operations == [kind : Kinds \cup {"none", "recover", "look", "end"}, at : Phases,
               snap : Profiles \cup {None}, read : Profiles \cup {None},
               running : BOOLEAN, todo : Seq(Blocks),
               target : Profiles \cup {None}
                           \cup [routine : {None}, live : Levels]]

Forms == [profile : Profiles, revision : Nat]
Devices == [routine : Plans, live : Levels, running : BOOLEAN,
            clock : {"right", "off", "reset"}]
Ghosts == [loss : BOOLEAN, unread : BOOLEAN, tries : Nat, renewals : Nat,
           synced : {"no", "now", "before"}, dirty : BOOLEAN,
           kept : SUBSET (Days \ Choices), lost : BOOLEAN]

\* The variables stay in their types: a saved record is one the next start
\* accepts, and an automatic restore is counted at most
\* AUTO_RESTORE_MAX_ATTEMPTS times.
TypeOK ==
    /\ record \in Records /\ stored \in Records
    /\ protocol_verified \in BOOLEAN
    /\ need \in Needs \cup {None}
    /\ reset_seen \in BOOLEAN /\ paused \in BOOLEAN /\ due \in BOOLEAN
    /\ waiting \in {"no", "bare", "full"}
    /\ previewed \in Profiles \cup {None}
    /\ op \in Operations
    /\ form \in Forms \cup {None}
    /\ link \in BOOLEAN
    /\ device \in Devices
    /\ ghost \in Ghosts
    /\ faults \in 0..MaxFaults /\ calls \in 0..MaxCalls
    /\ changes \in 0..MaxChanges

-----------------------------------------------------------------------------
(* Safety.                                                                 *)

\* Whatever fails, is cancelled or restarts while a one-off routine is on the
\* device, the Store still says that a day must be given back, unless the user
\* kept that read, or the device acknowledged the write-back and did not apply
\* it, which nothing reads back (async_start_routine, _async_write_back_routine).
GivenUp == "oneoff" \in ghost.kept \/ ghost.lost
OneOffMarked == device.routine.day = "oneoff" => stored.marker \/ GivenUp

\* From one resolved event to the next, whatever sessions, failures and further
\* power losses come in between, the saved profile is restored automatically at
\* most AUTO_RESTORE_MAX_ATTEMPTS times, and as often again for each new
\* revision and each restart of Home Assistant, which forget the attempts
\* (_async_recover, restore_needed).
AutoRestoreBounded == ghost.tries <= MaxAttempts * (1 + ghost.renewals)

\* Nothing is restored automatically without a power loss: a change made at the
\* device or in its app is never overwritten on its own (_async_recover), as
\* long as the user did not keep factory settings, which look like a reset.
AutoRestoreOnlyReset ==
    op.kind = "recover" /\ op.at \in {"save_applying", "write", "verify"}
        => ghost.loss \/ "factory" \in ghost.kept

\* Once the clock of a device that lost power has been set, the reset cannot be
\* seen in the clock any more; as long as Home Assistant runs it stays pending
\* whatever fails afterwards, until it is resolved.  A restart forgets it: then
\* synced is "before" and nothing is claimed (_async_fresh_snapshot,
\* _detect_restore_needed).
ResetNotHidden == ghost.synced = "now" => reset_seen

\* A user can only keep a read that no command of Home Assistant has outdated
\* (_previewed_profile, async_accept_device_profile).
KeptReadIsCurrent == op.kind = "accept" => ~ghost.dirty

\* A profile that is verified neither in memory nor in the Store becomes so only
\* when a complete read of the operation, or the read the user keeps, shows its
\* routines; recovery alone may also count the day of a one-off routine, and only
\* that day, as the saved one, while it is marked or once it is written back
\* (_as_verified, _with_saved_routine).
OneOffHides == op.at = "save_verified" /\ (record.marker \/ op.snap # op.read)

VerifiedWasRead ==
    [][~IsVerified(record) /\ ~IsVerified(stored) /\ IsVerified(record') =>
          LET read == IF op.kind = "accept" THEN op.target ELSE op.read
              saved == record'.desired
          IN /\ read # None
             /\ saved.routine.rest = read.routine.rest
             /\ OneOffHides \/ saved.routine.day = read.routine.day]_vars

\* The record that memory and Store keep is the one RecordPromise describes:
\* whatever is cut off, cancelled or restarted, a revision number stands for one
\* saved routine plan and never comes back (_save, ProfileStore.async_save,
\* async_setup).
Plan(r) ==
    [revision |-> r.revision,
     plan |-> IF r.desired = None THEN None ELSE r.desired.routine]
Promise ==
    INSTANCE RecordPromise WITH memory <- Plan(record), file <- Plan(stored),
                                NoPlan <- None, Removable <- FALSE
ImplementsRecordPromise == Promise!Spec

-----------------------------------------------------------------------------
(* Liveness.                                                               *)

\* The day of a one-off routine is given back, unless the device acknowledges
\* the write-back and does not apply it (_routine_ended,
\* _async_end_temporary_routine, _async_recover).
OneOffReturned ==
    device.routine.day = "oneoff" ~> (device.routine.day # "oneoff" \/ GivenUp)

\* A verified device that lost power does not stay on factory routines: it gets
\* the saved ones back, unless the app chooses others first, or the user is told
\* (_async_recover, repair_needed).
ResetHandled ==
    (ghost.loss /\ IsReset /\ ~link /\ record.key /\ Complete)
        ~> \/ ~ghost.loss \/ RepairNeeded \/ ghost.lost
           \/ "factory" \notin Parts(device.routine)
           \/ Complete /\ device.routine = record.desired.routine

=============================================================================
