--------------------------- MODULE LumalouRoutine ---------------------------
(***************************************************************************)
(* Routine progress: the events task_completed, routine_completed,         *)
(* routine_cancelled and routine_expired that the coordinator derives from *)
(* the frames of one session, next to the strict read that resumes the     *)
(* progress and the control commands.                                      *)
(*                                                                         *)
(* GLOBAL_STATE is only whether operationMode is 7.  A routine has Tasks   *)
(* tasks, and a task status is its step: 0 the preview, k task k current   *)
(* and the earlier ones done, Tasks + 1 all done.  Frames arrive in order; *)
(* those of an ended session are dropped (LumalouSession, ShownIsWatched). *)
(* A response is a frame like any other, and the first frame of the opcode *)
(* a request waits for answers it.                                         *)
(***************************************************************************)
EXTENDS Naturals, Sequences, FiniteSets

CONSTANTS
    None,
    Tasks,        \* tasks of the routine
    MaxRuns,      \* bound: routines the device starts
    MaxSessions,  \* bound: sessions opened
    MaxFrames,    \* bound: frames in flight
    MaxLost,      \* bound: frames lost
    MaxCalls      \* bound: control commands

ASSUME RoutineAssumption ==
    /\ Tasks \in Nat \ {0} /\ MaxRuns \in Nat \ {0}
    /\ MaxSessions \in Nat /\ MaxFrames \in Nat
    /\ MaxLost \in Nat /\ MaxCalls \in Nat
    /\ None \notin Nat

Steps == 0..Tasks + 1
Runs == 1..MaxRuns
Outcomes == [event : {"routine_completed", "routine_cancelled",
                      "routine_expired"}, session : Nat]

\* The control codes of async_routine_control.
Controls == {"complete", "previous", "cancel"}   \* 0, 1 and 4

VARIABLES
    data,            \* routine mode as last shown, or None
    routine_status,
    running_status,  \* _running_status
    finished,        \* _routine_finished
    cancel_sent,     \* _cancel_sent
    pushed,          \* a task status was delivered in this session
    read,            \* _read_snapshot: where it is and what it keeps
    write,           \* the control command being written, "sent" or None
    link,            \* a session is open
    air,             \* its frames in flight
    device,          \* routine number, routine mode, step
    tasksDone,       \* history, since the session opened: see below
    tasksFired,
    outcomes,        \* history: outcome events of each routine
    cancels,         \* history: cancel commands, and cancelled events, so far
    final,           \* history: routines that reached their final step
    sessions, lost, calls

progress == <<routine_status, running_status, finished, cancel_sent, pushed>>
history  == <<tasksDone, tasksFired, outcomes, cancels, final>>
budget   == <<sessions, lost, calls>>
vars == <<data, progress, read, write, link, air, device, history, budget>>

NoRead == [at |-> "no", state |-> None, status |-> None]
NoTasks == [t \in 1..Tasks |-> 0]

Init ==
    /\ data = None /\ routine_status = None /\ running_status = None
    /\ finished = FALSE /\ cancel_sent = FALSE /\ pushed = FALSE
    /\ read = NoRead /\ write = None
    /\ link = FALSE /\ air = <<>>
    /\ device = [run |-> 0, mode |-> FALSE, step |-> 0]
    /\ tasksDone = NoTasks /\ tasksFired = NoTasks
    /\ outcomes = [r \in Runs |-> <<>>]
    /\ cancels = [sent |-> 0, fired |-> 0] /\ final = {}
    /\ sessions = 0 /\ lost = 0 /\ calls = 0

-----------------------------------------------------------------------------
(* Frames.                                                                 *)

State(d)  == [kind |-> "state", value |-> d.mode, run |-> d.run]
Status(d) == [kind |-> "status", value |-> d.step, run |-> d.run]

\* The device pushes frames on an open session only.
Push(frames) ==
    /\ air' = IF link THEN air \o frames ELSE air
    /\ Len(air') <= MaxFrames

-----------------------------------------------------------------------------
(* The session, as LumalouSession has it, and what it forgets.             *)

\* _invalidate: progress is only compared within one session.
Forget_NotRunning ==
    /\ routine_status' = None /\ UNCHANGED running_status
    /\ finished' = FALSE /\ cancel_sent' = FALSE /\ pushed' = FALSE
Forget_NotCancel ==
    /\ routine_status' = None /\ running_status' = None
    /\ finished' = FALSE /\ UNCHANGED cancel_sent /\ pushed' = FALSE
Forget ==
    /\ routine_status' = None /\ running_status' = None
    /\ finished' = FALSE /\ cancel_sent' = FALSE /\ pushed' = FALSE

\* The link drops, an operation fails or another one opens a new session.
SessionEnds ==
    /\ link /\ link' = FALSE
    /\ data' = None /\ Forget
    /\ read' = NoRead /\ write' = None /\ air' = <<>>
    /\ UNCHANGED <<device, history, budget>>

\* A new session; a fresh read, or one GLOBAL_STATE only, follows.
Connect ==
    /\ ~link /\ link' = TRUE
    /\ sessions < MaxSessions /\ sessions' = sessions + 1
    /\ read' = [NoRead EXCEPT !.at = "open"]
    /\ tasksDone' = NoTasks /\ tasksFired' = NoTasks
    /\ UNCHANGED <<data, progress, write, air, device, outcomes, cancels,
                   final, lost, calls>>

-----------------------------------------------------------------------------
(* Events.                                                                 *)

Fire(event, run) ==
    /\ outcomes' = [outcomes EXCEPT ![run] = Append(@, [event |-> event, session |-> sessions])]
    /\ cancels' = IF event = "routine_cancelled"
                  THEN [cancels EXCEPT !.fired = @ + 1] ELSE cancels
NoOutcome == UNCHANGED <<outcomes, cancels>>

Unfinished_Always == TRUE
Unfinished == ~finished

\* What _routine_ended leaves behind.
Ended_KeepsCancel ==
    /\ finished' = FALSE /\ UNCHANGED cancel_sent
    /\ routine_status' = None /\ running_status' = None
Ended ==
    /\ finished' = FALSE /\ cancel_sent' = FALSE
    /\ routine_status' = None /\ running_status' = None

\* _receive: leaving routine mode ends the routine.
TakeState(frame) ==
    /\ data' = frame.value
    /\ IF data = TRUE /\ ~frame.value
       THEN /\ Ended
            /\ IF Unfinished
               THEN Fire(IF cancel_sent THEN "routine_cancelled"
                                        ELSE "routine_expired", frame.run)
               ELSE NoOutcome
       ELSE UNCHANGED <<routine_status, running_status, finished, cancel_sent>>
            /\ NoOutcome
    /\ UNCHANGED <<tasksFired, pushed>>

AllDone(step) == step = Tasks + 1

\* The first status seen in a session is only a baseline.
Baseline_Zero == IF running_status = None THEN 0 ELSE running_status
Baseline == running_status

\* The task that went from current to done.
Completed(before, after) ==
    IF before = None THEN {} ELSE {t \in 1..Tasks : t = before /\ t < after}

\* _take_routine_status: only statuses seen while a routine runs count.
TakeStatus(frame) ==
    LET before == Baseline IN
    /\ routine_status' = frame.value /\ pushed' = TRUE
    /\ IF data # TRUE
       THEN UNCHANGED <<running_status, finished, tasksFired>> /\ NoOutcome
       ELSE /\ running_status' = frame.value
            /\ tasksFired' = [t \in 1..Tasks |->
                  tasksFired[t] + Cardinality(Completed(before, frame.value)
                                                  \cap {t})]
            /\ IF /\ ~finished /\ before # None
                  /\ AllDone(frame.value) /\ ~AllDone(before)
               THEN finished' = TRUE /\ Fire("routine_completed", frame.run)
               ELSE UNCHANGED finished /\ NoOutcome
    /\ UNCHANGED <<data, cancel_sent>>

\* A request that waits for this opcode takes the frame as its response.
Answer(frame) ==
    read' = CASE read.at = "state" /\ frame.kind = "state" ->
                    [read EXCEPT !.at = "clock", !.state = frame.value]
              [] read.at = "status" /\ frame.kind = "status" ->
                    [read EXCEPT !.at = "rest", !.status = frame.value]
              [] OTHER -> read

\* _on_response and _receive of the live session.
Deliver ==
    /\ air # <<>>
    /\ air' = Tail(air)
    /\ LET frame == Head(air) IN
       /\ Answer(frame)
       /\ IF frame.kind = "state" THEN TakeState(frame) ELSE TakeStatus(frame)
    /\ UNCHANGED <<write, link, device, tasksDone, final, budget>>

-----------------------------------------------------------------------------
(* _read_snapshot.                                                         *)

ReadState ==
    /\ read.at = "open"
    /\ read' = [read EXCEPT !.at = "state"]
    /\ Push(<<State(device)>>)
    /\ UNCHANGED <<data, progress, write, link, device, history, budget>>

\* An entry without verified controls reads nothing else.
OnlyState ==
    /\ read.at = "clock"
    /\ read' = NoRead
    /\ UNCHANGED <<data, progress, write, link, air, device, history, budget>>

\* In routine mode the task status is requested, unless a status was pushed
\* before (FreshSessionRequiredError): then that one is used.
ReadStatus ==
    /\ read.at = "clock"
    /\ \/ /\ ~read.state
          /\ read' = [read EXCEPT !.at = "rest"]
          /\ UNCHANGED air
       \/ /\ read.state /\ pushed
          /\ read' = [read EXCEPT !.at = "rest", !.status = routine_status]
          /\ UNCHANGED air
       \/ /\ read.state /\ ~pushed
          /\ read' = [read EXCEPT !.at = "status"]
          /\ Push(<<Status(device)>>)
    /\ UNCHANGED <<data, progress, write, link, device, history, budget>>

\* After the other blocks: the mode must not have changed (else the read fails,
\* SessionEnds), and the status read before them becomes the progress.
ReadEnds ==
    /\ read.at = "rest" /\ data = read.state
    /\ IF read.status = None THEN UNCHANGED <<routine_status, running_status>>
       ELSE routine_status' = read.status /\ running_status' = read.status
    /\ read' = NoRead
    /\ UNCHANGED <<data, finished, cancel_sent, pushed, write, link, air,
                   device, history, budget>>

-----------------------------------------------------------------------------
(* Control commands: the lock keeps them out of a read.                    *)

RoutineControl(control) ==
    /\ link /\ read = NoRead /\ write = None /\ data = TRUE
    /\ calls < MaxCalls /\ calls' = calls + 1
    /\ cancel_sent' = (control = "cancel")
    /\ write' = control
    /\ cancels' = IF control = "cancel"
                THEN [cancels EXCEPT !.sent = @ + 1] ELSE cancels
    /\ UNCHANGED <<data, routine_status, running_status, finished, pushed, read,
                   link, air, device, tasksDone, tasksFired, outcomes, final,
                   sessions, lost>>

Acknowledged ==
    /\ write = "sent" /\ write' = None
    /\ UNCHANGED <<data, progress, read, link, air, device, history, budget>>

-----------------------------------------------------------------------------
(* The device.                                                             *)

\* It pushes a status on every change of the step.
Forward ==
    /\ device.mode /\ device.step <= Tasks
    /\ device' = [device EXCEPT !.step = @ + 1]
    /\ tasksDone' = [t \in 1..Tasks |->
                        tasksDone[t] + (IF t = device.step THEN 1 ELSE 0)]
    /\ final' = IF AllDone(device'.step) THEN final \cup {device.run} ELSE final
    /\ Push(<<Status(device')>>)

Back ==
    /\ device.mode /\ device.step \in 2..Tasks
    /\ device' = [device EXCEPT !.step = @ - 1]
    /\ UNCHANGED <<tasksDone, final>>
    /\ Push(<<Status(device')>>)

\* The end resets the status and leaves routine mode.
End ==
    /\ device.mode
    /\ device' = [device EXCEPT !.mode = FALSE, !.step = 0]
    /\ Push(<<State(device')>>) \/ Push(<<Status(device'), State(device')>>)
    /\ UNCHANGED <<tasksDone, final>>

\* The child uses the remote, or the device ends an untouched routine.
DeviceMoves ==
    /\ Forward \/ End
    /\ UNCHANGED <<data, progress, read, write, link, tasksFired, outcomes,
                   cancels, budget>>

\* The scheduled start, a manual one, or Home Assistant's.
RoutineStarts ==
    /\ ~device.mode /\ device.run < MaxRuns
    /\ device' = [run |-> device.run + 1, mode |-> TRUE, step |-> 0]
    /\ Push(<<State(device')>>) \/ Push(<<State(device'), Status(device')>>)
    /\ UNCHANGED <<data, progress, read, write, link, history, budget>>

\* A control command reaches the device.
Obeys ==
    /\ write \in Controls /\ write' = "sent"
    /\ \/ write = "complete" /\ Forward
       \/ write = "previous" /\ Back
       \/ write = "cancel" /\ End
       \/ UNCHANGED <<device, air, tasksDone, final>>
    /\ UNCHANGED <<data, progress, read, link, tasksFired, outcomes, cancels,
                   budget>>

FrameLost ==
    /\ air # <<>> /\ lost < MaxLost /\ lost' = lost + 1
    /\ air' = Tail(air)
    /\ UNCHANGED <<data, progress, read, write, link, device, history, sessions,
                   calls>>

Next ==
    \/ Connect
    \/ SessionEnds
    \/ Deliver
    \/ ReadState
    \/ OnlyState
    \/ ReadStatus
    \/ ReadEnds
    \/ \E control \in Controls : RoutineControl(control)
    \/ Acknowledged
    \/ DeviceMoves
    \/ RoutineStarts
    \/ Obeys
    \/ FrameLost

Spec == Init /\ [][Next]_vars

-----------------------------------------------------------------------------
Frames == [kind : {"state"}, value : BOOLEAN, run : 0..MaxRuns]
              \cup [kind : {"status"}, value : Steps, run : 0..MaxRuns]

\* Types; without a session nothing of its progress is left (_invalidate).
TypeOK ==
    /\ data \in BOOLEAN \cup {None}
    /\ routine_status \in Steps \cup {None}
    /\ running_status \in Steps \cup {None}
    /\ finished \in BOOLEAN /\ cancel_sent \in BOOLEAN /\ pushed \in BOOLEAN
    /\ link \in BOOLEAN /\ air \in Seq(Frames)
    /\ read \in [at : {"no", "open", "state", "clock", "status", "rest"},
                 state : BOOLEAN \cup {None}, status : Steps \cup {None}]
    /\ write \in Controls \cup {None, "sent"}
    /\ device \in [run : 0..MaxRuns, mode : BOOLEAN, step : Steps]
    /\ tasksDone \in [1..Tasks -> Nat] /\ tasksFired \in [1..Tasks -> Nat]
    /\ outcomes \in [Runs -> Seq(Outcomes)] /\ final \subseteq Runs
    /\ cancels \in [sent : 0..MaxCalls, fired : Nat]
    /\ sessions \in 0..MaxSessions /\ lost \in 0..MaxLost /\ calls \in 0..MaxCalls
    /\ ~link => <<data, routine_status, finished, cancel_sent>>
                    = <<None, None, FALSE, FALSE>>

Count(run, event) == Cardinality({i \in DOMAIN outcomes[run] :
                                     outcomes[run][i].event = event})

\* Nothing is inferred across a reconnect: task_completed is fired only for a
\* task that the device completed after this session opened, whatever the read
\* resumes and whatever frame is lost (_take_routine_status, _invalidate).
NothingInferred == \A t \in 1..Tasks : tasksFired[t] > 0 => tasksDone[t] > 0

\* A routine is never reported cancelled unless Home Assistant sent a cancel for
\* it: one command accounts for one routine (_routine_ended, _cancel_sent).
CancelledIsOurs == cancels.fired <= cancels.sent

\* A routine is reported completed at most once over all the sessions that see
\* parts of it: a completed status that a new session finds is only its baseline
\* (_take_routine_status, _read_snapshot).
CompletedOnce ==
    \A r \in Runs : Count(r, "routine_completed") <= 1

\* One session reports at most one outcome of a routine: not completed and then
\* cancelled or expired, and no end twice, even when frames are lost or a read
\* puts an older status back (_routine_finished).
OneOutcome ==
    \A r \in Runs : \A i, j \in DOMAIN outcomes[r] :
        i # j => outcomes[r][i].session # outcomes[r][j].session

\* task_completed is fired once for each time the child completes the task (the
\* README: "when the child completes a task").  The code breaks it: a status
\* pushed while the read goes on is taken, and then the read puts the older one
\* back as the baseline of the next comparison.
TaskFiredOnce == \A t \in 1..Tasks : tasksFired[t] <= tasksDone[t]

\* routine_expired means that the device ended the routine before its last task
\* (the README).  The code breaks it after a reconnect at the final step, which
\* a new session takes as its baseline without setting _routine_finished.
ExpiredUnfinished ==
    \A r \in final : Count(r, "routine_expired") = 0

=============================================================================
