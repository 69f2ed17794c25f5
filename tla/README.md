# Verification of the Lumalou integration

TLA+ specifications of the Home Assistant integration in
`src/custom_components/lumalou`, the TLC configurations that check them and the
TLAPS proofs about them. Line numbers below are those of
`custom_components/lumalou/coordinator.py` unless another file is named.

## The system

One Lumalou device (a night light with music, alarms and child routines) is
reached over Bluetooth LE. Per config entry one `LumalouCoordinator` owns the
connection and everything that is known about the device. It runs on one event
loop: a callback is atomic, a task is atomic between two awaits.

| Component | State | Operations | Talks to |
|---|---|---|---|
| Session lifecycle (`coordinator.py`) | `_generation`, `_client`, `_detached`, `_lock`, `_reconnect_at`, `_recovery_task`, `present`, `available`, `maintenance`, `_stopped`, silence timer | advertisement / unavailable / session-lost callbacks, connect with retries, disconnect, background close, recovery with backoff, live commands that wait for a session, maintenance, shutdown | transport, Bluetooth manager, every other component through the lock |
| Saved profile and restore (`coordinator.py`, `models.py`, `restore.py`, `storage.py`) | `_profile_record` (revision, desired profile, verified revision and key, one-off marker), the Store, `protocol_verified`, `_restore_needed`, `_reset_seen`, `_previewed_profile` | recover, read and preview, accept, edit, import, restore, settings saved in place, one-off routine | a session, the Store, Repairs |
| Routine progress (`coordinator.py`, `event.py`) | `routine_status`, `_running_status`, `_routine_finished`, `_cancel_sent` | pushes of GLOBAL_STATE and ROUTINE_TASK_STATUS, the read that resumes progress, control commands, four events | sessions; a routine's end starts the write-back of a one-off day |
| Power-loss clock (`coordinator.py`, `restore.py`) | `_last_frame_at`, `last_clock_sync`, `_clock_sync_retry_at` | judge a fresh read, set the clock in recovery, on a push, with the button | sets `_reset_seen` of the profile component |
| Config flow (`config_flow.py` 100-330) | claimed address, probed key of each flow; the entries | discovery, user and reconfigure steps, probe of the signed key, create, rebind | transport (probe), the entry registry, reloads |
| Options flow and editors (`config_flow.py`) | draft, base revision, previewed read of each flow | edit a block, preview, confirm; read from Lumalou and keep | coordinator: edit, read, accept |
| Services, Repairs (`services.py`, `repairs.py`) | none that outlives the call | export, import, restore, set_routine, start_routine; the Repair's two choices | coordinator |
| Entry setup (`__init__.py`, `storage.py`) | `entry.runtime_data`, the Store | set-up, unload, reload at a new address, deletion | coordinator, Bluetooth manager |
| Entities, diagnostics | none | show the coordinator's state, call live commands | coordinator listeners |
| Transport (`transport.py`) | one BLE client | allowlisted GATT operations with timeouts | lumalou library, bleak |

How the parts interact: every operation that talks to the device, and every
edit of the profile, runs inside `_locked` (450-474). Recovery runs `_async_recover`, which
reads the profile, judges the clock, sets it, writes a one-off day back,
verifies or restores. Frames and the session-lost notice are callbacks and run
between any two awaits of the lock holder.

What is hard here: callbacks of sessions that are over; a check before an await
and its use after it; cancellation and unload at any await; a close that fails;
a device that refuses a connection soon after the last one; a link that stays
up without pushing; writes that are applied without an acknowledgement or
acknowledged without being applied; a reset whose evidence (the clock) is
erased by the pass that repairs it; a process restart between a Store write and
the device write it announces; a read that takes a dozen requests while the
device changes; forms that stay open while the profile, the device or the
entry they are about changes. `PROJECT.json` lists these hazards at their lines, with the
properties that would show each going wrong.

What makes each component correct:

* Session: one link at a time; only the live session's state is shown and only
  its timer ends it; the gap before each connect; whatever fails, the device
  comes back; nothing is left after unload and nothing runs in maintenance.
* Profile: `verified` follows only from a complete read; a reset that was seen
  stays pending until it is resolved and is not confused with an ordinary change;
  automatic restores are bounded and end in success or a Repair; a one-off day is
  given back.
* Routine: no event is invented; an outcome is reported once and attributed
  correctly.
* Editors and services: nobody overwrites what he has not seen, everyone is told
  what became of his change, and a restore that is cut short has not sent a mode
  before the plan it runs on.
* Config flow and entries: one entry per device, bound to an address at which
  that device proved its key; nothing of an entry outlives its deletion.
* Clock: every power loss within the window is seen, DST and drift never are.

## Modules

| Module | Models |
|---|---|
| `LumalouSession` | the session lifecycle: every task that takes the lock, every callback, unload |
| `SessionPromise` | what the rest of the integration relies on: none -> live -> ending -> none, state shown only while live, and the rest (the reconnect gap) before the next session |
| `LumalouSessionProofs` | TLAPS proofs about `LumalouSession` |
| `LumalouProfile` | record, Store, read, verification, restore, reset, preview, settings, one-off routine |
| `RecordPromise`, `RecordPromiseProofs` | what holders of a revision number rely on: it stands for one weekly plan until the entry is deleted, over cut-off saves and restarts; `LumalouProfile` and `LumalouFlows` implement it |
| `LumalouRoutine` | routine progress and its events |
| `LumalouClock` | the power-loss clock and clock writes |
| `LumalouEditors` | everyone who changes the saved profile of one entry: option editors, previewed read, services, Repair, settings saved in place |
| `LumalouEnroll` | config flows: claim, probe, create, rebind; devices that move |
| `LumalouFlows` | the composition of the two: set-up, reload at a new address, unload and deletion of the entry that is being edited |
| `LumalouProfileProofs`, `LumalouRoutineProofs`, `LumalouClockProofs`, `LumalouEditorsProofs`, `LumalouEnrollProofs`, `LumalouFlowsProofs` | TLAPS proofs about the module of the same name |
| `MCSession`, `MCProfile`, `MCRoutine`, `MCClock`, `MCFlows` | the bounded instances TLC runs |

A definition named `X_Something` in front of `X` is `X` with a plausible
programming mistake. It is not used by the specification; `PROJECT.json`
("mutants") says which property it must break when it replaces `X`.

### LumalouSession

`pc[t]` is the await at which a user or recovery task is suspended (`wait` for
the lock, `prepare` closing earlier sessions, `gap`, `connect`, `io`, `save`,
`leave` and `cancel` for the two error paths of `_locked`, `sleep` for the
backoff, `await` for the 15 s wait of live commands). A session is named by the
generation number its callbacks captured. `linkUp` and `mute` say which links
exist and which of them no longer push; a link of a failed teardown is given up
as `_close_client` gives it up. Actions are the stretches of code between two
awaits (`RecoveryWakes`, `BeginFresh`, `Open`, `Connected`, `CloseEnds`,
`Finish`, ...), the callbacks (`Advertisement`, `Unavailable`, `SessionLost`,
`Receive`, `Silent`), cancellation at each await (`CancelWaiting`,
`CancelClosing`, `CancelHolder`, `CancelEnds`) and unload (`UnloadStarts`,
`UnloadCloses`, `UnloadEnds`). `_generation` counts only invalidations of a
generation that something captured; the others cannot be told apart.
Backoff, the 15 s wait and GATT timeouts are arbitrary finite delays; only the
reconnect gap is counted. Behaviors start with maintenance mode on or off.

A call is a `read` (`async_read_profile_snapshot`), a `restore` (and the edits,
which use the session alike), a `live` command, a change of maintenance mode, or
a `background` task: `_async_correct_pushed_clock` and
`_async_end_temporary_routine`, which a push of the open session creates and
which use the session they find when they get the lock, or do nothing without
one. What they write is in `LumalouClock` (`PushedClock`) and `LumalouProfile`
(`EndRoutine`). That maintenance mode cancels a waiting clock correction is one
of the cancellations of `UserCancelled`.

### LumalouProfile

All operations hold the lock, so one `op` runs at a time; `op.at` is the await
it has reached. A profile has two blocks: `live`, light and sound, which the
code compares only after a reset, and `routine`, everything else, in two parts:
the `day` that a one-off routine may replace and the `rest`. The marker hides
only the day from the comparison (`_with_saved_routine`), and a write-back
writes only the day. Values are factory, two choices, and for the day the
one-off. `device.clock` is what `LumalouClock` would say of it (right, off,
reset). `record` and `stored` are the record in memory and in the Store; a save
that is cancelled or interrupted by a crash leaves either. Writes can fail
before or after they are applied, and every setter, the write-back included, can
be acknowledged without being applied. `waiting` is the recovery loop between
what it checks outside the lock and the lock: `available` in the loop
(`RecoveryDue`; there is no session to show while an operation opens a fresh
one) and whether controls are unlocked (735), which makes it a full pass or one
that only looks at GLOBAL_STATE. It may so queue behind any operation.

`ghost` holds history only, and no step of the program reads it:

* `loss`, `unread`: a power loss that is not resolved, and not read yet; `loss`
  lasts as long as the device still looks reset.
* `tries`, `renewals`: automatic restores, and new revisions and restarts of
  Home Assistant, since the last resolved event. The code's own counter starts
  anew at each revision and each start (`need` belongs to a revision and is not
  stored); `tries` does not, it goes back to zero only when the event is
  resolved.
* `synced`: the clock of a device that showed a reset was set since Home
  Assistant started (`now`) or earlier (`before`).
* `dirty`: commands after a preview. `kept`: what no choice made of the plans a
  user kept from a read. `lost`: the last write-back was acknowledged and not
  applied.

Simplifications: the device key does not change while the entry exists, time is
trusted, a caller's expected revision is current (stale ones are in
`LumalouEditors`), the push that confirms a setting comes with its
acknowledgement or not at all, and while a power loss is unresolved a change
made in the vendor's app is not told apart from the loss
(`AutoRestoreOnlyReset` looks at `loss`).

What the properties exempt, by name: `ResetNotHidden` and a restart
(`_reset_seen` is not stored, so the sentence of `docs/architecture.md:154-156`,
"a reset once seen stays pending until it is resolved", holds within one run of
Home Assistant; afterwards the factory settings or, for the routines, the
ordinary comparison still show the loss); `OneOffMarked` and `OneOffReturned`
and a plan the user kept or a write-back that was acknowledged and not applied
(`GivenUp`; the code does not read it back); `VerifiedWasRead` and the marked
day (`OneOffHides`). `AutoRestoreBounded` allows `MaxAttempts` for each revision
and each start: "at most twice per event" (`docs/architecture.md:159`) is what
remains of it without new revisions and restarts.

### LumalouRoutine

A routine of `Tasks` tasks has the steps 0 (preview), k (task k current) and
`Tasks + 1` (all done); GLOBAL_STATE is whether `operationMode` is 7. `air`
carries the frames of the open session in order, may lose some, and is dropped
with the session. The read of a new session asks for the state, then the status, and
writes the status as baseline when it ends. The first frame with the awaited
opcode answers a request. It is assumed that a completed task does not change
GLOBAL_STATE by itself (otherwise the read fails its own comparison at 1333)
and that "back one task" does nothing after the last step. The device may
ignore a control command. `CancelledIsOurs` counts cancels and reports over the
whole behavior; it does not match each report with its cancel.

### LumalouClock

Times are minutes, the constants those of the code. `captured` is the age of
the last frame when the session was opened, `unseen` that of the last frame
now; the difference between them is the point of `_async_fresh_snapshot`. Time
is trusted, the entry is verified, maintenance is off.
`Judge` judges first and then sets the clock, as recovery and restore do, or
leaves it, as a read for the user does. The device's clock may run a minute
fast in each passage of time.

### LumalouEditors

The other side of `LumalouProfile`: many callers, and the order in which they
get the lock. `client[c]` is a flow, a service call, a Repair or a switch:
`call` says which, `at` where it is (`form` and `shown` are open forms, `queued`
waits for the lock, the rest are awaits inside it), `base` and `revision` what
it was based on (`_ensure_draft`, the exported revision, the previewed read),
`fields` and `want` what it changes, `todo` the restore steps left. Each caller
passes its checks when the lock is granted (`BeginEdit`, `BeginImport`,
`BeginAccept`, `BeginRestore`, `BeginSetting`), in the order of the code:
revision, unlocked, read, routine running, save, steps, verifying read. An edit
that cannot read the device is saved as a pending revision. A restore step is
acknowledged before the next one is sent, which does not mean that the device
applied it (1482-1484, 2036-2039); `lost` remembers the steps it did not apply.
`FlagAfterPlan` is therefore about the order of the steps: a mode is switched on
only over the saved plan or one acknowledged before. A mode over a plan that was
acknowledged and not applied does occur, and the verifying read reports it
(`TruthfulReport`). `Stopped` is
`async_shutdown`: it interrupts whoever holds or awaits the lock, with the save
done or not and the step written or not; forms stay open. A Store write that is
cancelled counts as finished then, although the executor's write may end a
little later. A profile is cut to
what the restore plan orders (`build_restore_steps`): the clock block of two
fields, the weekly plan, the mode flags; `RestoreSteps` takes the blocks that
differ, `Rank` their order. Verification, resets, recovery's own restores and
levels are left to `LumalouProfile`, where one caller runs at a time. `RepairActs` are the two choices of
`repairs.py`.

`NothingOverwritten` exempts the settings saved in place by name: they keep the
revision on purpose (`_write_setting`), so an open editor cannot notice them.

The exemption covers one thing a reader should know of: a clock command writes
the whole block with the other fields as the device shows them (1567), and the
save in place takes all of them over (1501). A display switch can so put a
brightness that an import or an offline edit saved, and that is still pending,
back to the device's old value, although the editor's message says that it
"stays pending" (`custom_components/lumalou/strings.json:472`).

### LumalouEnroll

`where` is the address at which each device answers and `been` all it had. A
flow is a record: its source, where it is, the address it claimed, the unique
id it has in Home Assistant's registry, the key the probe read. Aborts on a
configured address and on a flow in progress are guards of the submit steps.
`Enroll` is `_async_create_verified`: abort, rebind of a known entry, or a new
one; `Rebind` is the reconfigure flow. Between the probe's answer and the
step that uses it anything may happen. Rebinding schedules a reload.

### LumalouFlows

The entry with id `Own` has the coordinator of `LumalouEditors`; other entries
are only addresses and keys. `bound` is the address the coordinator was set up
with. A session opens only if the device with the entry's key is there
(`Reachable`; the key is compared when the session opens). `SetUp`, `Reloads`,
`RemoveStarts` and `RemoveEnds` are `async_setup_entry`, the reload,
`async_unload_entry` and `async_remove_entry`; between the last two the entry
is unloaded and its Store still there. `MaxWork` and `MaxTroubles` bound the
two components together.

## Runs

| Run | Specification | Question | States |
|---|---|---|---|
| `session_operations` | `Spec` | every safety property of the session and the refinement of `SessionPromise`, all kinds of calls, two faults | 471 000 |
| `session_fair` | `FairSpec` | liveness of session and unload, unload at any point | 43 000 |
| `session_kept` | `Spec` | finding 1 | |
| `profile_operations` | `Spec` | safety of record, Store, reset and one-off day with all seven calls, two faults; the refinement of `RecordPromise` | 4 709 000 |
| `profile_liveness` | `FairSpec` | a reset is repaired or reported with bounded attempts, and the one-off day comes back, three faults; no call that keeps a session | 823 000 |
| `profile_oneoff`, `profile_read` | `FairSpec` | findings 2 and 3 | |
| `routine_events` | `Spec` | events and outcomes | 1 140 000 |
| `routine_task`, `routine_expired` | `Spec` | findings 4 and 5 | |
| `clock_reset` | `Spec` | which reads are judged a power loss | 3 167 000 |
| `flows` | `FlowsSpec` | config flows, editors, reloads and deletion of one entry at once; the refinement of `RecordPromise` | 280 000 |

Each run finishes within about three minutes on two cores.

### Bounds and why they are enough

* Session: one user task against two recovery task objects: the code can have
  one cancelled and one current recovery task, and two users differ from one
  only in queueing for the lock (a proof covers any number). `ConnectAttempts`
  2 has a first and a last attempt; gap 1 has before and after. Two faults
  (a dropped link, silence, device loss, a failed request, a cancelled call)
  suffice for an old and a new session to fail in one behaviour.
* Profile: `MaxAttempts` is the code's 2 where attempts are counted, 1 in
  `profile_operations`, where it only bounds the state space. Two user calls
  allow preview and accept, or a call against an earlier one's result.
* Routine: two tasks have a first, a middle and a last step; two routines and
  two sessions let knowledge leak from one into the other; three frames in
  flight let a mode change, a status and an answer race.
* Clock: three passages of 20 min, 1 h and 11 h cover both sides of the
  one-hour and twelve-hour limits, starting on Sunday 10:00 (whole hours from
  the power-loss clock) and Saturday 23:40 (the week wraps). One outage, one
  DST or zone change, drift up to the tolerance of the whole-hour test. The
  sync, reset and retry limits are crossed in both directions.

* Flows: two clients give every pair of callers against one lock, two config
  flows every pair of probes; three addresses let two devices swap through a
  free one; two values tell changed from not. Two pieces of work and one
  trouble in all keep the product small: a race has two sides and an event in
  between. Clients, flows, devices and addresses are interchangeable, hence the
  symmetry; the run has no liveness property.

`CHECK_DEADLOCK FALSE` stands in every configuration because the bounded counters
stop the environment and a quiet system legitimately has nothing to do.

### Fairness

Weak fairness only, of steps the event loop will run: a task that is ready
(`TaskStep`), a recovery task whose sleep is over, background closers, the
silence timer, the reconnect gap's timer, unload, and advertisements of a
present device (Home Assistant's Bluetooth manager repeats them). Every GATT
operation ends by its timeout (`_gatt`, `transport.py:129`), so an operation at
`io` always ends, with success or failure. Nothing is fair about users, faults, or
frames. `LumalouProfile` assumes in the same way that the operation in progress
goes on (`Progress`), the recovery loop runs, a finished routine is noticed, and
that a running routine ends (the device ends it after about two hours).

## Findings

Each is a behaviour found by TLC that contradicts a sentence of the repository.

1. `session_kept`: a recovery pass that queued behind a profile read ends the
   healthy session that the read kept (697; `tests/test_coordinator.py:549`).
2. `profile_oneoff`: the write of a one-off day is applied, its acknowledgement
   is lost and the session drops; the user's next read keeps its session, no
   recovery is due, and the saved day is not given back as long as that session
   lasts (1955). The comment at 1709-1710 says "Recorded first: whatever happens
   next, the saved routine is written back", and `README.md:319` "on the next
   connection". A restore or an edit whose proof fails keeps its session in the
   same way.
3. `profile_read`: when a user's read is the reconnect after a power loss, the
   kept session suppresses the comparison with the saved profile (1955;
   `README.md:206`). The same happens after a restore or an edit that is refused
   or ends with a mismatch, which also keep their session.
4. `routine_task`: the read overwrites a newer task status, and
   `task_completed` fires twice (1347; `README.md:331`).
5. `routine_expired`: after a reconnect at the last step a routine is reported
   expired (1346; `README.md:333`).

`ResetHandled` and `OneOffReturned` pass in `profile_liveness` and fail in
`profile_read` and `profile_oneoff`. The instances differ in the calls users
make: `profile_liveness` leaves out the read, the restore and the edit, the calls
that can keep a session of their own without the pass that recovery makes. What
it shows is that nothing else loses the reset or the one-off day.

## Proofs

`LumalouSessionProofs` proves for all values of the constants (any number of
users and recovery tasks, any number of faults and calls) everything
`session_operations` checks on its instance and the two safety properties of
unload: `TypeOK`, `OneSession`, `ShownIsWatched`, `OpenSessionServes`,
`OneRecovery`, `MaintenanceQuiet`, `NothingForgotten`, `UnloadLeavesNothing`,
the action properties `ConnectAfterGap`, `StoppedOpensNothing`, `HealthyKept`,
and that `LumalouSession` implements `SessionPromise`; `ConnectAfterGap` is in no
run of its own, the rest that `SessionPromise` demands before a session opens is
what TLC checks of it. The assumptions are the
module's ASSUMEs: the task sets are disjoint, the other lock holders are not
tasks, and the numbers are natural numbers, `ConnectAttempts` and
`ReconnectGap` positive.

None of these is inductive by itself. The inductive invariant `IInv` adds to
`TypeOK`:

* `Numbering`: no session has a number above the generation, and the one that
  has the current number is the live one, so a captured number identifies one
  session for ever. Without it a late callback could match a new session
  (`ShownIsWatched`, `HealthyKept`).
* `Locking`: exactly the lock holder is inside a critical section, and only it
  waits for closes. Without it two tasks could be connecting (`OneSession`).
* `Clearing`: a live session excludes detached ones, whoever waits out the gap
  has closed everything, and the delay it computed once still covers the gap
  (`OneSession`, `ConnectAfterGap`).
* `Halting`: after unload began whoever could still open or use a session is
  cancelled, and in maintenance nobody could.
* `NothingForgotten`, itself, and `Serving`: a live session that shows nothing
  yet is being read by the lock holder (`OpenSessionServes`).
* `Recovering`: `OneRecovery` with the fact that a cancelled task still runs.
* `Unloaded`: once unload closes the session it detached, nothing else runs.

Each has one lemma (`NumberingStep` and so on) that shows that every action
preserves it; `IInv` held as an invariant of the small instances before it was proved. The action properties and the refinement follow
step by step from `IInv`.

The other proof modules prove, for all values of their constants:

* `LumalouProfileProofs`: `TypeOK`, `OneOffMarked`, `AutoRestoreBounded`,
  `AutoRestoreOnlyReset`, `ResetNotHidden`, `KeptReadIsCurrent` and
  `VerifiedWasRead`. `ProfileInv` says what each await of an operation has
  settled (`Shape`), that a routine nobody chose is saved only if the user kept
  it (`Keeping`), who may not run while a one-off day is out (`Marking`), that
  commands drop the preview (`Previewing`), that what was restored before the
  current `need` is paid for by the revisions and restarts since (`Counting`: the
  code forgets its attempts only there or when the event is resolved), that
  everything that looks like a reset follows a loss (`Losing`), and what the
  snapshots of an operation prove of the day and the rest (`Proving`).
* `LumalouRoutineProofs`: all that `routine_events` checks: `TypeOK`,
  `NothingInferred`, `CancelledIsOurs`, `CompletedOnce`, `OneOutcome`.
  `RoutineInv` adds to the types `Unlinked` (a session that is over leaves
  nothing), `Cancelling` (a flag that is set accounts for one cancel), and
  `Following`: as long as task t was not done in this session, a status at or
  before t that anybody holds - the progress, the read, a frame - is followed by
  none beyond t, in the air or on the device. That is why the older status the
  read puts back (finding 4) cannot invent a task.
  `OutcomeInv` is the second inductive invariant, for the outcomes of a routine.
  Frames come in the order of the routines (`InOrder`). A routine that this
  session reported is `Settled`: it is marked finished and every frame on its
  way belongs to it or a later one, or its end was seen and no frame shows it
  running again (`SettledOnce`, for `OneOutcome`). A routine that was reported
  completed is done on the device, and is either settled in this session or
  `Safe`: a frame that shows it all done finds only baselines that show it too
  (`DoneOnce`, for `CompletedOnce`). A new session begins with an empty baseline
  and an empty air, so the last step it then finds is only its baseline; in the
  session of the completion the mark `finished` holds against the older status
  that the read puts back.
* `LumalouClockProofs`: `TypeOK`, `PowerLossSeen` (assuming that the drift is
  at most the reset threshold, which is the slack the code gives the window),
  `DstIsNoReset`. `ClockInv` says that since power came back the clock ran from
  its restart (`Restarting`) and otherwise is ahead by its drift and whole hours
  (`Aligned`); lemmas about remainders carry it over the end of the week.
* `LumalouEditorsProofs`, `LumalouEnrollProofs` and `LumalouFlowsProofs`: every
  property of `flows`. `EnrollInv` adds what a probe proved (`Probed`) and that
  the unique id is the key (`Named`). `EditorsInv` adds the shape of a call, that
  a client whose revision is current was based on the saved plan (`BasedOn`),
  what the lock holder knows from its checks (`LockedOn`), and that there is one
  holder and only under a loaded coordinator (`Exclusive`). It has a parameter,
  whether the entry lasts, so that the composition can use the same lemmas
  after a deletion; `FlowsInv` joins the two.

Two theorems are refinements of `RecordPromise`. In `LumalouProfileProofs` a
save is `Save`, a cancelled one `CutOff`, a crash `Restart` and every other step
a stutter: only `NewRevision` changes the routines of a record and it counts the
revision on, while the levels that a setting changes in place are not part of
the plan (`SavingPromised`). In `LumalouFlowsProofs` the steps are those of all
clients, of a coordinator stopped in the middle of a save, and of the deletion,
the only step that may forget the number; there the clock block and the mode
are the settings saved in place. `RecordPromiseProofs` proves
once, from the abstract steps alone and the invariant that the Store has the
record in use or its successor (`Ahead`), that no number ever stands for another
plan and none comes back; `RevisionsNamePlans` and `FlowsRevisionsNamePlans`
take this over to the two models. It is what makes the comparison of revision
numbers, by which the code decides whether a form, a caller or a failed restore
is out of date, mean what it is meant to. The promise speaks of an
entry whose Store can be read (see "Not modelled").

Only model-checked: all liveness properties (`OperationsEnd`, `ComesBack`,
`DeadSessionReplaced`, `ResetHandled`, `OneOffReturned`), because
fairness and ENABLED are beyond the prover. Every invariant, action property and
refinement of the passing runs is a theorem. The bounds named MaxX are in the
theorems too, but as arbitrary numbers.

## Not modelled

* Transport allowlists, fingerprint reads, GATT caching: I/O whose outcomes
  (success, failure, timeout) are the failures of the models.
* Entities, diagnostics, translations: one coordinator call or one view each.
* Validation of profile fields, form schemas, import and export envelopes and the
  payload bytes: pure checks of single values.
* Playing audio and the playing source, and the levels and timers beyond the one
  setting of `LumalouProfile`.
* A Store that cannot be read at a reload: the record starts again at revision 0,
  so that an editor that is still open could meet its revision number again.
* The exact recovery backoff, untrusted time, and a device key that changes.

## Plan

Done, in this order: `SessionPromise` and `LumalouSession` (the lock and the
session carry everything else) with their proofs, `LumalouProfile`,
`LumalouRoutine`, `LumalouClock`, `LumalouEditors`, `LumalouEnroll` and their
composition, and the proofs about all of them.

Left:

1. A composition of clock and profile, where `device.clock` is no longer a value
   of the environment, and an abstract specification of verification (pending,
   verified, error) beside `RecordPromise`.
2. Validation and migration of records (`models.py`, `storage.py`) as operators
   checked against a reference definition.
3. Untrusted time in the clock, and a user's clock synchronization beside the
   other calls of the profile.
