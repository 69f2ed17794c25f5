--------------------------- MODULE LumalouSession ---------------------------
(***************************************************************************)
(* The Bluetooth session of one config entry, as LumalouCoordinator owns   *)
(* it: the operation lock, the generation number, the live client and the  *)
(* detached ones still to be closed, the reconnect gap, the recovery task, *)
(* maintenance mode and unload.                                            *)
(*                                                                         *)
(* The coordinator runs on one event loop: a callback is one atomic step,  *)
(* and a task runs atomically between two awaits.  pc[t] is the await at   *)
(* which task t is suspended:                                              *)
(*                                                                         *)
(*   idle     no task            prepare  closing the earlier sessions     *)
(*   sleep    recovery backoff   gap      waiting out the reconnect gap    *)
(*   await    live command that  connect  client.connect                   *)
(*            waits for a session io      requests and writes              *)
(*   wait     waiting for the    save     Store.async_save                 *)
(*            operation lock     leave    _disconnect, then an error       *)
(*                               cancel   _disconnect, then CancelledError *)
(*                                                                         *)
(* A session is named by the generation number its callbacks captured.     *)
(* next_recovery_at, the 15 s wait of live commands and the timeouts of    *)
(* GATT operations are arbitrary finite delays here; only the reconnect    *)
(* gap is counted, in ticks.                                               *)
(***************************************************************************)
EXTENDS Naturals

CONSTANTS
    Users,            \* tasks of service calls, entities and flows
    Recoveries,       \* task objects of _async_background_refresh
    Closer,           \* a task of _async_close_detached, as lock holder
    Unload,           \* async_shutdown, as lock holder
    None,
    ConnectAttempts,  \* SESSION_CONNECT_ATTEMPTS
    ReconnectGap,     \* RECONNECT_DELAY in ticks
    MaxFaults,        \* bound: faults of the device, the radio and HA
    MaxCalls,         \* bound: user calls
    CallKinds,        \* the calls users make in this instance
    MayUnload         \* whether this instance is ever unloaded

Tasks == Users \cup Recoveries

\* A "background" call is a task that a push of the session creates: the clock
\* correction or the write-back of a one-off routine.
Calls == {"read", "restore", "live", "background", "maintenance_on",
          "maintenance_off"}
ASSUME CallsAssumption == CallKinds \subseteq Calls

ASSUME TasksAssumption ==
    /\ Users \cap Recoveries = {}
    /\ {Closer, Unload, None} \cap Tasks = {}
    /\ Closer # Unload /\ None # Closer /\ None # Unload

ASSUME NumbersAssumption ==
    /\ ConnectAttempts \in Nat \ {0}
    /\ ReconnectGap \in Nat \ {0}
    /\ MaxFaults \in Nat
    /\ MaxCalls \in Nat
    /\ MayUnload \in BOOLEAN
    /\ None \notin Nat

VARIABLES
    generation,  \* _generation
    client,      \* _client: the session it talks to, or None
    detached,    \* _detached: sessions whose link is not closed yet
    data,        \* session whose GLOBAL_STATE is shown; None = not available
    silence,     \* session the silence timer was armed for, or None
    gap,         \* ticks until _reconnect_at
    present, maintenance, stopped,
    recovery,    \* _recovery_task, or None
    pc,          \* where each task is suspended
    call,        \* what each user task was last called for
    lock,        \* holder of _lock, or None
    cancelled,   \* tasks whose CancelledError is not delivered yet
    closers,     \* sessions a waiting _async_close_detached task will close
    unload,      \* no | gather | closing | done
    leftover,    \* the session async_shutdown detached, or None
    \* locals of the lock holder
    using,       \* the session it reads and writes
    toClose,     \* sessions its current close has to wait for
    delay,       \* ticks its sleep still lasts
    attempt,     \* connect attempt
    reads,       \* sessions this operation opened
    \* the radio, and history
    sessions,    \* every session ever opened
    linkUp,      \* sessions whose link is physically up
    mute,        \* sessions with a link that no longer push anything
    quiet,       \* ticks since the last close ended (up to ReconnectGap)
    faults, calls

coordinatorVars == <<generation, client, detached, data, silence>>
taskVars   == <<pc, recovery, cancelled, closers>>
holderVars == <<lock, using, toClose, delay, attempt, reads>>
modeVars   == <<present, maintenance, stopped, unload, leftover>>
radioVars  == <<sessions, linkUp, mute>>
timeVars   == <<gap, quiet>>
budgetVars == <<faults, calls, call>>

vars == <<coordinatorVars, taskVars, holderVars, modeVars, radioVars,
          timeVars, budgetVars>>

Phases == {"idle", "sleep", "await", "wait", "prepare", "gap", "connect",
           "io", "save", "leave", "cancel"}
LockedPhases == Phases \ {"idle", "sleep", "await", "wait"}

Init ==
    /\ generation = 0 /\ client = None /\ detached = {}
    /\ data = None /\ silence = None /\ gap = 0 /\ quiet = ReconnectGap
    /\ present = FALSE /\ maintenance \in BOOLEAN /\ stopped = FALSE
    /\ recovery = None /\ lock = None /\ cancelled = {} /\ closers = {}
    /\ pc = [t \in Tasks |-> "idle"] /\ call \in [Users -> {"read"}]
    /\ unload = "no" /\ leftover = None
    /\ using = None /\ toClose = {} /\ delay = 0 /\ attempt = 0 /\ reads = 0
    /\ sessions = {} /\ linkUp = {} /\ mute = {}
    /\ faults = 0 /\ calls = 0

-----------------------------------------------------------------------------
(* Building blocks.  A definition named X_Y before X is X with a plausible *)
(* mistake; the model checker must see it break a property.                *)

Available == data # None
Live == IF client = None THEN {} ELSE {client}
Pushing(c) == c \in linkUp \ mute
Kind(t) == IF t \in Recoveries THEN "recover" ELSE call[t]
Holds(t, phase) == lock = t /\ pc[t] = phase
Runs(t, phase) == Holds(t, phase) /\ t \notin cancelled

Fault == faults < MaxFaults /\ faults' = faults + 1 /\ UNCHANGED <<calls, call>>
NoFault == UNCHANGED budgetVars

\* A callback of a stopped coordinator or of an old session is ignored.
Stale_WhenStopped(g) == stopped
Stale(g) == stopped \/ g # generation

\* A state frame is shown and re-arms the silence timer.
Heard_NoTimer(g) == data' = g /\ UNCHANGED silence
Heard(g) == data' = g /\ silence' = g

\* _invalidate, from a set of detached sessions that may just have shrunk.
\* The code always increments; a number that no session captured is not told
\* apart from its successor, so only a captured one is retired here.
Invalidated(stillDetached) ==
    /\ generation' = IF generation \in sessions THEN generation + 1
                                                ELSE generation
    /\ data' = None
    /\ silence' = None
    /\ client' = None
    /\ detached' = stillDetached \cup Live

\* A detached live client also moves _reconnect_at.
Invalidate ==
    /\ Invalidated(detached)
    /\ gap' = IF client = None THEN gap ELSE ReconnectGap
    /\ UNCHANGED quiet

\* The end of a close moves _reconnect_at again.
CloseArmsGap_Not == UNCHANGED gap /\ quiet' = 0
CloseArmsGap == gap' = ReconnectGap /\ quiet' = 0

\* The detached live session is closed by a background task.
CloseLater_Never == UNCHANGED closers
CloseLater == closers' = closers \cup Live

\* _schedule_recovery, evaluated on the values the step leaves behind: p is
\* the program counter without the new task.  Bound: a free task object.
MayRecover_Twice(shown) == ~stopped' /\ present' /\ ~maintenance' /\ ~shown
MayRecover(shown) ==
    ~stopped' /\ present' /\ ~maintenance' /\ ~shown /\ recovery = None

Schedule(p, shown) ==
    IF MayRecover(shown)
    THEN \E r \in {q \in Recoveries : p[q] = "idle"} :
            pc' = [p EXCEPT ![r] = "sleep"] /\ recovery' = r
    ELSE pc' = p /\ UNCHANGED recovery

\* _recovery_done, the done callback of a recovery task.
RecoveryDone_Never(t) == UNCHANGED recovery
RecoveryDone(t) == recovery' = IF recovery = t THEN None ELSE recovery

\* _cancel_recovery: the task ends later, when its CancelledError arrives.
CancelRecovery ==
    /\ recovery' = None
    /\ cancelled' = IF recovery = None THEN cancelled
                                       ELSE cancelled \cup {recovery}

\* The lock holder t leaves its critical section and is suspended at next.
Release_KeepsLock(t, next) ==
    /\ pc' = [pc EXCEPT ![t] = next]
    /\ UNCHANGED holderVars
Release(t, next) ==
    /\ lock' = None
    /\ pc' = [pc EXCEPT ![t] = next]
    /\ using' = None /\ toClose' = {} /\ delay' = 0
    /\ attempt' = 0 /\ reads' = 0

ReleaseAndSchedule(t, shown) ==
    /\ lock' = None
    /\ using' = None /\ toClose' = {} /\ delay' = 0
    /\ attempt' = 0 /\ reads' = 0
    /\ Schedule([pc EXCEPT ![t] = "idle"], shown)

\* A recovery pass that raised sleeps again; any other call is over.
AfterError(t) == IF t \in Recoveries THEN "sleep" ELSE "idle"

\* The holder starts closing the sessions in s and is then at phase.
CloseThen(t, s, phase) ==
    /\ lock' = t
    /\ toClose' = s
    /\ pc' = [pc EXCEPT ![t] = phase]
    /\ UNCHANGED <<delay, using>>

\* _disconnect closes the live session; _async_close_all also every detached
\* session that is still open.
Disconnect_KeepsSession(t, phase) ==
    CloseThen(t, {}, phase) /\ UNCHANGED <<coordinatorVars, timeVars>>
Disconnect(t, phase) == Invalidate /\ CloseThen(t, Live, phase)

EverySession_LiveOnly == Live
EverySession == detached \cup Live
CloseAll(t, phase) == Invalidate /\ CloseThen(t, EverySession, phase)

-----------------------------------------------------------------------------
(* Calls and the operation lock.                                           *)

\* A service call, an entity command or a flow step.  A live command waits
\* outside the lock while a present device has no session; maintenance cancels
\* the background work before it queues for the lock (that of a clock
\* correction is left to UserCancelled).
UserCall(u, kind) ==
    /\ pc[u] = "idle" /\ ~stopped
    /\ kind = "background" => Available
    /\ calls < MaxCalls /\ calls' = calls + 1
    /\ call' = [call EXCEPT ![u] = kind]
    /\ pc' = [pc EXCEPT ![u] = IF kind = "live" /\ ~Available /\ present
                               THEN "await" ELSE "wait"]
    /\ IF kind = "maintenance_on" THEN CancelRecovery
       ELSE UNCHANGED <<recovery, cancelled>>
    /\ UNCHANGED <<coordinatorVars, holderVars, modeVars, radioVars, timeVars,
                   closers, faults>>

\* _available_event was set, or LIVE_SESSION_WAIT ran out.
LiveWaitOver(u) ==
    /\ pc[u] = "await" /\ u \notin cancelled
    /\ pc' = [pc EXCEPT ![u] = IF stopped THEN "idle" ELSE "wait"]
    /\ UNCHANGED <<coordinatorVars, holderVars, modeVars, radioVars, timeVars,
                   budgetVars, recovery, cancelled, closers>>

\* _async_background_refresh after its sleep: nothing left to recover, or on
\* to the operation lock.
RecoveryWakes(r) ==
    /\ pc[r] = "sleep" /\ r \notin cancelled
    /\ IF stopped \/ ~present \/ maintenance \/ Available
       THEN pc' = [pc EXCEPT ![r] = "idle"] /\ RecoveryDone(r)
       ELSE pc' = [pc EXCEPT ![r] = "wait"] /\ UNCHANGED recovery
    /\ UNCHANGED <<coordinatorVars, holderVars, modeVars, radioVars, timeVars,
                   budgetVars, cancelled, closers>>

\* _async_new_session up to its first await: close every earlier session, or
\* fail (and disconnect) when maintenance is on or nothing advertises.
NewSession(t) ==
    IF maintenance \/ ~present
    THEN Disconnect(t, "leave") /\ UNCHANGED <<attempt, reads>>
    ELSE CloseAll(t, "prepare") /\ attempt' = 1 /\ reads' = reads + 1

\* _locked is entered by an operation that opens a session of its own.
BeginFresh(t) ==
    /\ lock = None /\ pc[t] = "wait" /\ t \notin cancelled
    /\ Kind(t) \in {"recover", "restore", "read"}
    /\ IF stopped \/ (maintenance /\ Kind(t) # "read")
       THEN /\ pc' = [pc EXCEPT ![t] = AfterError(t)]
            /\ UNCHANGED <<coordinatorVars, holderVars, timeVars>>
       ELSE NewSession(t)
    /\ UNCHANGED <<modeVars, radioVars, budgetVars, recovery, cancelled,
                   closers>>

\* _live_write_operation and _write: the open session is used as it is; with
\* none, or with a lost link, the command fails and disconnects.  A background
\* task has nothing to do once its session is gone.
BeginLive(u) ==
    /\ lock = None /\ pc[u] = "wait" /\ u \notin cancelled
    /\ call[u] \in {"live", "background"}
    /\ \/ /\ \/ stopped \/ maintenance
             \/ call[u] = "background" /\ client = None
          /\ pc' = [pc EXCEPT ![u] = "idle"]
          /\ UNCHANGED <<coordinatorVars, holderVars, timeVars>>
       \/ /\ ~stopped /\ ~maintenance
          /\ client # None /\ client \in linkUp
          /\ lock' = u /\ using' = client
          /\ pc' = [pc EXCEPT ![u] = "io"]
          /\ UNCHANGED <<coordinatorVars, timeVars, toClose, delay, attempt,
                         reads>>
       \/ /\ ~stopped /\ ~maintenance
          /\ client = None => call[u] = "live"
          /\ client \notin linkUp
          /\ Disconnect(u, "leave")
          /\ UNCHANGED <<attempt, reads>>
    /\ UNCHANGED <<modeVars, radioVars, budgetVars, recovery, cancelled,
                   closers>>

\* async_set_maintenance gets the lock and saves the record.
BeginMaintenance(u) ==
    /\ lock = None /\ pc[u] = "wait" /\ u \notin cancelled
    /\ call[u] \in {"maintenance_on", "maintenance_off"}
    /\ IF stopped
       THEN pc' = [pc EXCEPT ![u] = "idle"] /\ UNCHANGED lock
       ELSE pc' = [pc EXCEPT ![u] = "save"] /\ lock' = u
    /\ UNCHANGED <<coordinatorVars, modeVars, radioVars, timeVars, budgetVars,
                   recovery, cancelled, closers, using, toClose, delay,
                   attempt, reads>>

\* The record is stored: enabling cancels recovery again (a callback may have
\* scheduled one meanwhile) and disconnects; disabling schedules recovery.
MaintenanceSaved(u) ==
    /\ Runs(u, "save")
    /\ maintenance' = (call[u] = "maintenance_on")
    /\ UNCHANGED <<present, stopped, unload, leftover>>
    /\ \/ /\ maintenance'
          /\ CancelRecovery
          /\ Disconnect(u, "leave")
          /\ UNCHANGED <<attempt, reads>>
       \/ /\ ~maintenance'
          /\ ReleaseAndSchedule(u, Available)
          /\ UNCHANGED <<coordinatorVars, timeVars, cancelled>>
    /\ UNCHANGED <<radioVars, budgetVars, closers>>

-----------------------------------------------------------------------------
(* The lock holder: close, wait, connect, read and write.                  *)

\* One awaited _close_client ends.  A teardown that failed or timed out counts
\* as closed for the coordinator although the link may stay up.
CloseEnds ==
    /\ lock # None /\ lock \notin cancelled
    /\ \E c \in toClose :
          /\ detached' = detached \ {c}
          /\ toClose' = toClose \ {c}
          /\ \/ linkUp' = linkUp \ {c} /\ mute' = mute \ {c} /\ NoFault
             \/ c \in linkUp /\ Fault /\ UNCHANGED <<linkUp, mute>>
    /\ CloseArmsGap
    /\ UNCHANGED <<taskVars, modeVars, generation, client, data, silence, lock,
                   using, delay, attempt, reads, sessions>>

\* Everything is closed: sleep until _reconnect_at (computed once).
StartGap(t) ==
    /\ Holds(t, "prepare") /\ toClose = {}
    /\ pc' = [pc EXCEPT ![t] = "gap"]
    /\ delay' = gap
    /\ UNCHANGED <<coordinatorVars, modeVars, radioVars, timeVars, budgetVars,
                   recovery, cancelled, closers, lock, using, toClose,
                   attempt, reads>>

\* _async_connect: the new client is installed before connect is awaited.
Open(t) ==
    /\ Runs(t, "gap") /\ delay = 0
    /\ client' = generation /\ using' = generation
    /\ sessions' = sessions \cup {generation}
    /\ linkUp' = linkUp \cup {generation}
    /\ pc' = [pc EXCEPT ![t] = "connect"]
    /\ UNCHANGED <<modeVars, timeVars, budgetVars, generation, detached, data,
                   silence, mute, recovery, cancelled, closers, lock,
                   toClose, delay, attempt, reads>>

\* No connectable device is known: fails at once.
NoDevice(t) ==
    /\ Runs(t, "gap") /\ delay = 0
    /\ IF present THEN Fault ELSE NoFault
    /\ CloseAll(t, "leave")
    /\ UNCHANGED <<modeVars, radioVars, recovery, cancelled, closers,
                   attempt, reads>>

Connected(t) ==
    /\ Runs(t, "connect") /\ Pushing(using)
    /\ pc' = [pc EXCEPT ![t] = "io"]
    /\ UNCHANGED <<coordinatorVars, holderVars, modeVars, radioVars, timeVars,
                   budgetVars, recovery, cancelled, closers>>

LastAttempt_OneMore == attempt > ConnectAttempts
LastAttempt == attempt = ConnectAttempts

\* DisconnectedError or BleakError: close and try again, or give up after the
\* last attempt.  The loop's own close then finds nothing left to close.
ConnectDropped(t) ==
    /\ Runs(t, "connect")
    /\ IF Pushing(using) THEN Fault ELSE NoFault
    /\ IF LastAttempt
       THEN CloseAll(t, "leave") /\ UNCHANGED attempt
       ELSE CloseAll(t, "prepare") /\ attempt' = attempt + 1
    /\ UNCHANGED <<modeVars, radioVars, recovery, cancelled, closers, reads>>

\* Any other connect error (a device with another key, a timeout).
ConnectRefused(t) ==
    /\ Runs(t, "connect") /\ Fault
    /\ CloseAll(t, "leave")
    /\ UNCHANGED <<modeVars, radioVars, recovery, cancelled, closers,
                   attempt, reads>>

\* A restore, the user's or the automatic one, verifies in a second session.
OpenAnother(t) ==
    /\ Runs(t, "io") /\ Kind(t) \in {"restore", "recover"} /\ reads = 1
    /\ NewSession(t)
    /\ UNCHANGED <<modeVars, radioVars, budgetVars, recovery, cancelled,
                   closers>>

\* The operation succeeds.  An operation in a session of its own has read
\* GLOBAL_STATE, which _receive took if the session is still the current one;
\* a profile read then schedules recovery (a no-op while it is available).
Finish(t) ==
    /\ Runs(t, "io")
    /\ IF Kind(t) \in {"live", "background"}
       THEN using \in linkUp /\ UNCHANGED <<data, silence>>
       ELSE /\ Pushing(using)
            /\ IF using = generation THEN Heard(using)
                                     ELSE UNCHANGED <<data, silence>>
    /\ UNCHANGED <<modeVars, generation, client, detached, timeVars, radioVars,
                   budgetVars, cancelled, closers>>
    /\ IF Kind(t) = "read"
       THEN ReleaseAndSchedule(t, data' # None)
       ELSE Release(t, "idle") /\ RecoveryDone(t)

\* A request or a write fails: disconnect, then raise.
IoFails(t) ==
    /\ Runs(t, "io")
    /\ IF Pushing(using) THEN Fault ELSE NoFault
    /\ Disconnect(t, "leave")
    /\ UNCHANGED <<modeVars, radioVars, recovery, cancelled, closers,
                   attempt, reads>>

\* The failed operation releases the lock; recovery backs off and retries.
Leave(t) ==
    /\ Holds(t, "leave") /\ toClose = {}
    /\ Release(t, AfterError(t))
    /\ cancelled' = IF t \in Users THEN cancelled \ {t} ELSE cancelled
    /\ UNCHANGED <<coordinatorVars, modeVars, radioVars, timeVars, budgetVars,
                   recovery, closers>>

-----------------------------------------------------------------------------
(* Cancellation.                                                           *)

\* Home Assistant cancels the task of a user call.
UserCancelled(u) ==
    /\ pc[u] # "idle" /\ u \notin cancelled /\ Fault
    /\ cancelled' = cancelled \cup {u}
    /\ UNCHANGED <<coordinatorVars, holderVars, modeVars, radioVars, timeVars,
                   pc, recovery, closers>>

\* CancelledError reaches a task outside its critical section: it ends.
CancelWaiting(t) ==
    /\ t \in cancelled /\ pc[t] \in {"sleep", "await", "wait"}
    /\ pc' = [pc EXCEPT ![t] = "idle"]
    /\ RecoveryDone(t)
    /\ cancelled' = cancelled \ {t}
    /\ UNCHANGED <<coordinatorVars, holderVars, modeVars, radioVars, timeVars,
                   budgetVars, closers>>

\* It reaches the holder while a session is being closed: that session is
\* forgotten (finally: pop) whether or not its link is down.
CancelClosing(t) ==
    /\ lock = t /\ t \in cancelled
    /\ pc[t] \in {"prepare", "leave", "cancel"} /\ toClose # {}
    /\ \E c \in toClose :
          /\ Invalidated(detached \ {c})
          /\ \/ linkUp' = linkUp \ {c} /\ mute' = mute \ {c}
             \/ UNCHANGED <<linkUp, mute>>
    /\ CloseArmsGap
    /\ CloseThen(t, Live, "cancel")
    /\ cancelled' = cancelled \ {t}
    /\ UNCHANGED <<modeVars, budgetVars, recovery, closers, attempt,
                   reads, sessions>>

\* It reaches the holder anywhere else: _locked disconnects; a connect that
\* was awaited closes everything first.
CancelHolder(t) ==
    /\ lock = t /\ t \in cancelled
    /\ pc[t] \in {"gap", "connect", "io", "save"}
    /\ IF pc[t] = "connect" THEN CloseAll(t, "cancel") ELSE Disconnect(t, "cancel")
    /\ cancelled' = cancelled \ {t}
    /\ UNCHANGED <<modeVars, radioVars, budgetVars, recovery, closers,
                   attempt, reads>>

\* The cancelled task ends and releases the lock.
CancelEnds(t) ==
    /\ Holds(t, "cancel") /\ toClose = {}
    /\ Release(t, "idle")
    /\ cancelled' = cancelled \ {t}
    /\ RecoveryDone(t)
    /\ UNCHANGED <<coordinatorVars, modeVars, radioVars, timeVars, budgetVars,
                   closers>>

-----------------------------------------------------------------------------
(* Callbacks.                                                              *)

\* _async_handle_advertisement.
Advertisement ==
    /\ ~stopped
    /\ present' = TRUE
    /\ UNCHANGED <<maintenance, stopped, unload, leftover>>
    /\ Schedule(pc, Available)
    /\ UNCHANGED <<coordinatorVars, holderVars, radioVars, timeVars, budgetVars,
                   cancelled, closers>>

\* _async_handle_unavailable.
Unavailable ==
    /\ ~stopped /\ present /\ Fault
    /\ present' = FALSE
    /\ UNCHANGED <<maintenance, stopped, unload, leftover>>
    /\ CancelRecovery
    /\ Invalidate /\ CloseLater
    /\ UNCHANGED <<holderVars, radioVars, pc>>

\* _async_handle_session_lost, called by session g (late, or twice) once its
\* link is down.
SessionLost(g) ==
    /\ g \in sessions \ linkUp
    /\ UNCHANGED modeVars
    /\ IF Stale(g)
       THEN UNCHANGED <<coordinatorVars, timeVars, pc, recovery>>
       ELSE Invalidate /\ Schedule(pc, FALSE)
    /\ UNCHANGED <<holderVars, radioVars, budgetVars, cancelled, closers>>

\* _receive, with a frame of session g that may have been queued for long.
Receive(g) ==
    /\ g \in sessions
    /\ IF Stale(g) THEN UNCHANGED <<data, silence>> ELSE Heard(g)
    /\ UNCHANGED <<generation, client, detached, taskVars, holderVars, modeVars,
                   radioVars, timeVars, budgetVars>>

\* _session_silent: the timer armed by the last frame runs out.
Silent ==
    /\ silence # None /\ ~Pushing(silence)
    /\ UNCHANGED modeVars
    /\ IF Stale(silence) \/ client = None
       THEN /\ silence' = None
            /\ UNCHANGED <<generation, client, detached, data, timeVars, pc,
                           recovery, closers>>
       ELSE Invalidate /\ CloseLater /\ Schedule(pc, FALSE)
    /\ UNCHANGED <<holderVars, radioVars, budgetVars, cancelled>>

\* _async_close_detached gets the lock; an already closed session is skipped.
CloserRuns(c) ==
    /\ c \in closers /\ lock = None
    /\ closers' = closers \ {c}
    /\ IF c \in detached
       THEN lock' = Closer /\ toClose' = {c}
       ELSE UNCHANGED <<lock, toClose>>
    /\ UNCHANGED <<coordinatorVars, modeVars, radioVars, timeVars, budgetVars,
                   pc, recovery, cancelled, using, delay, attempt, reads>>

CloserEnds ==
    /\ lock = Closer /\ toClose = {}
    /\ lock' = None
    /\ UNCHANGED <<coordinatorVars, taskVars, modeVars, radioVars, timeVars,
                   budgetVars, using, toClose, delay, attempt, reads>>

-----------------------------------------------------------------------------
(* Unload.                                                                 *)

\* The operations in _tasks (queued for the lock or holding it) and the
\* current recovery task.
Tracked_None == {}
Tracked == {t \in Tasks : pc[t] = "wait" \/ pc[t] \in LockedPhases \/ t = recovery}

\* async_shutdown up to its first await: callbacks stop, the session is
\* detached, and every tracked operation and the recovery task are cancelled.
UnloadStarts ==
    /\ MayUnload /\ unload = "no"
    /\ unload' = "gather" /\ stopped' = TRUE /\ present' = FALSE
    /\ leftover' = client
    /\ recovery' = None
    /\ cancelled' = cancelled \cup Tracked
    /\ Invalidate
    /\ UNCHANGED <<maintenance, holderVars, radioVars, budgetVars, pc,
                   closers>>

Leftover_None == {}
Leftover == {leftover} \cap detached

\* Operations and background tasks are gone: close what unload detached.
UnloadCloses ==
    /\ unload = "gather" /\ lock = None /\ closers = {}
    /\ \A t \in Tasks : pc[t] \in {"idle", "await"}
    /\ unload' = "closing" /\ lock' = Unload
    /\ toClose' = Leftover
    /\ UNCHANGED <<coordinatorVars, taskVars, radioVars, timeVars, budgetVars,
                   present, maintenance, stopped, leftover, using, delay,
                   attempt, reads>>

UnloadEnds ==
    /\ lock = Unload /\ toClose = {}
    /\ unload' = "done" /\ lock' = None
    /\ UNCHANGED <<coordinatorVars, taskVars, radioVars, timeVars, budgetVars,
                   present, maintenance, stopped, leftover, using, toClose,
                   delay, attempt, reads>>

-----------------------------------------------------------------------------
(* The radio and time.                                                     *)

\* The remote end drops a link (power loss, out of range).
LinkDrops(c) ==
    /\ c \in linkUp /\ Fault
    /\ linkUp' = linkUp \ {c} /\ mute' = mute \ {c}
    /\ UNCHANGED <<coordinatorVars, taskVars, holderVars, modeVars, timeVars,
                   sessions>>

\* A link stays up but the device stops pushing state, clock and routine.
GoesMute(c) ==
    /\ c \in linkUp \ mute /\ Fault
    /\ mute' = mute \cup {c}
    /\ UNCHANGED <<coordinatorVars, taskVars, holderVars, modeVars, timeVars,
                   sessions, linkUp>>

Minus1(n) == IF n = 0 THEN 0 ELSE n - 1

Tick ==
    /\ gap' = Minus1(gap)
    /\ delay' = Minus1(delay)
    /\ quiet' = IF quiet < ReconnectGap THEN quiet + 1 ELSE quiet
    /\ UNCHANGED <<coordinatorVars, taskVars, modeVars, radioVars, budgetVars,
                   lock, using, toClose, attempt, reads>>

-----------------------------------------------------------------------------
(* The next-state relation.                                                *)

UserStarts == \E u \in Users, k \in CallKinds : UserCall(u, k)

TaskStep(t) ==
    \/ BeginFresh(t) \/ StartGap(t) \/ Open(t) \/ NoDevice(t) \/ Connected(t)
    \/ ConnectDropped(t) \/ ConnectRefused(t) \/ OpenAnother(t) \/ Finish(t)
    \/ IoFails(t) \/ Leave(t)
    \/ CancelWaiting(t) \/ CancelClosing(t) \/ CancelHolder(t) \/ CancelEnds(t)

UserStep(u) ==
    LiveWaitOver(u) \/ BeginLive(u) \/ BeginMaintenance(u) \/ MaintenanceSaved(u)

Callback ==
    \/ Advertisement \/ Unavailable \/ Silent
    \/ \E g \in sessions : SessionLost(g) \/ Receive(g)

Radio == \E c \in linkUp : LinkDrops(c) \/ GoesMute(c)

Background == CloseEnds \/ CloserEnds \/ \E c \in closers : CloserRuns(c)

Unloading == UnloadStarts \/ UnloadCloses \/ UnloadEnds

Next ==
    \/ UserStarts
    \/ \E t \in Tasks : TaskStep(t)
    \/ \E u \in Users : UserStep(u) \/ UserCancelled(u)
    \/ \E r \in Recoveries : RecoveryWakes(r)
    \/ Callback \/ Background \/ Unloading \/ Radio \/ Tick

Spec == Init /\ [][Next]_vars

(***************************************************************************)
(* Fairness.  Every await of a task ends: GATT operations, connect and     *)
(* close have timeouts, sleeps and the live wait are timers, Store.save    *)
(* returns, and asyncio.Lock wakes its waiters in order.  The loop runs    *)
(* the silence timer.  A powered device in range keeps advertising.        *)
(* Nothing is assumed of session-lost notices, which may never come, nor   *)
(* of faults and calls, which need not happen.                             *)
(***************************************************************************)
Fairness ==
    /\ \A t \in Tasks : WF_vars(TaskStep(t))
    /\ \A u \in Users : WF_vars(UserStep(u))
    /\ \A r \in Recoveries : WF_vars(RecoveryWakes(r))
    /\ WF_vars(Background)
    /\ WF_vars(Silent) /\ WF_vars(Advertisement) /\ WF_vars(Tick)
    /\ WF_vars(UnloadCloses \/ UnloadEnds)

FairSpec == Spec /\ Fairness

-----------------------------------------------------------------------------
(* Properties.                                                             *)

SessionOrNone == Nat \cup {None}

ClientTypes ==
    /\ generation \in Nat
    /\ client \in SessionOrNone /\ data \in SessionOrNone
    /\ silence \in SessionOrNone /\ using \in SessionOrNone
    /\ detached \subseteq Nat /\ toClose \subseteq Nat

RadioTypes ==
    /\ leftover \in SessionOrNone /\ closers \subseteq Nat
    /\ sessions \subseteq Nat /\ linkUp \subseteq sessions /\ mute \subseteq linkUp

TaskTypes ==
    /\ present \in BOOLEAN /\ maintenance \in BOOLEAN /\ stopped \in BOOLEAN
    /\ recovery \in Recoveries \cup {None}
    /\ lock \in Tasks \cup {Closer, Unload, None}
    /\ pc \in [Tasks -> Phases] /\ call \in [Users -> Calls]
    /\ cancelled \subseteq Tasks
    /\ unload \in {"no", "gather", "closing", "done"}
    /\ gap \in 0..ReconnectGap /\ delay \in 0..ReconnectGap
    /\ quiet \in 0..ReconnectGap
    /\ attempt \in 0..ConnectAttempts /\ reads \in 0..2
    /\ faults \in Nat /\ calls \in Nat

\* Types; a connect loop never exceeds its attempts, no operation opens more
\* than two sessions, the gap is never longer than RECONNECT_DELAY.
TypeOK == ClientTypes /\ RadioTypes /\ TaskTypes

\* There is never a second session: while one is live every earlier one is
\* closed, and at most one detached session waits for its close, whatever
\* callbacks and cancellations detached it (_async_close_all before connect).
OneSession ==
    /\ client # None => detached = {}
    /\ \A c, d \in detached : c = d

\* Whatever state entities show was pushed by the session that is live now,
\* and the silence timer watches exactly that session (_receive, _invalidate,
\* _heard_from_device): no frame of an old session is ever shown.
ShownIsWatched == data # None => data = client /\ silence = client

\* In maintenance mode no session exists and no operation is on its way to
\* one, whatever was queued or scheduled when it was switched on.
MaintenanceQuiet ==
    maintenance =>
        /\ client = None
        /\ \A t \in Tasks : pc[t] \notin {"gap", "connect", "io"}

\* A detached session with a link that is still up always has someone who
\* will close it: a background closer, the lock holder's close, or unload.
NothingForgotten ==
    \A c \in detached \cap linkUp :
        \/ c \in closers
        \/ c \in toClose
        \/ c = leftover /\ unload = "gather"

\* Between operations an open session is one that serves state: no failure,
\* cancellation or late callback leaves a connected session nobody reads.
OpenSessionServes == lock = None /\ client # None => Available

\* Recovery is coalesced: every recovery task that was not cancelled is the
\* one _schedule_recovery looks at, and that one is running.
OneRecovery ==
    /\ \A r \in Recoveries :
          pc[r] \notin {"idle", "cancel"} /\ r \notin cancelled => r = recovery
    /\ recovery # None => pc[recovery] # "idle" /\ recovery \notin cancelled

\* After unload no task, session or open link of this entry is left (a link
\* whose teardown failed is given up by _close_client and is not in detached).
UnloadLeavesNothing ==
    unload = "done" =>
        /\ client = None /\ lock = None /\ closers = {}
        /\ detached \cap linkUp = {}
        /\ \A t \in Tasks : pc[t] \in {"idle", "await"}

\* A connect starts no sooner than the reconnect gap after the last close
\* ended, however the close came about (the device refuses it otherwise).
ConnectAfterGap ==
    [][client' # client /\ client' # None => quiet >= ReconnectGap]_vars

\* Once unload began, no session is opened, not even by an operation that was
\* sleeping, waiting for the lock or about to retry.
StoppedOpensNothing == [][stopped => sessions' = sessions]_vars

\* A healthy session of a present device is dropped only by an operation that
\* holds (or just took) the lock or by unload: late frames and late or
\* repeated session-lost notices of old sessions cannot end it.
HealthyKept ==
    [][client # None /\ client' # client /\ Pushing(client)
          => lock # None \/ lock' # None \/ ~present']_vars

\* A present device without a session gets one again (or disappears, or
\* maintenance or unload intervene): no failure, cancellation or lost notice
\* leaves the coordinator without a recovery task for ever.
ComesBack ==
    ~Available /\ present /\ ~maintenance /\ ~stopped
        ~> Available \/ ~present \/ maintenance \/ stopped

\* A recovery pass never starts by ending a healthy session that already
\* serves state: the tests of a profile read say that its session stays open
\* instead of being replaced by an immediate reconnect.  The code breaks it: a
\* pass that queued for the lock behind the read reconnects when it gets it.
ServingSessionKept ==
    [][lock = None /\ lock' \in Recoveries /\ Available /\ Pushing(client)
          => client' = client]_vars

\* A session whose link died or went mute, even without any notice, does not
\* stay the live session.
DeadSessionReplaced ==
    client # None /\ ~Pushing(client) ~> client = None \/ Pushing(client)

\* Nobody waits for ever: every operation gives the lock back, also when it is
\* cancelled while it disconnects, and unload ends, which waits for the
\* operations it cancelled (_locked, async_shutdown).
OperationsEnd ==
    /\ \A t \in Tasks : lock = t ~> lock # t
    /\ stopped ~> unload = "done"

\* The session as the rest of the integration sees it.
Promise == INSTANCE SessionPromise WITH
    RestTicks <- ReconnectGap,
    mode <- IF client # None THEN "live"
            ELSE IF detached # {} THEN "ending" ELSE "none",
    shown <- Available,
    rest <- quiet

\* The detailed lifecycle implements the promise of one session at a time,
\* shown only while live, closed before the next, and the gap in between.
ImplementsPromise == Promise!Spec

=============================================================================
