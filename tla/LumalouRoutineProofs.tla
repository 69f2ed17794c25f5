------------------------ MODULE LumalouRoutineProofs ------------------------
(***************************************************************************)
(* Proofs about LumalouRoutine, for any number of tasks, routines,         *)
(* sessions, lost frames and control commands: types, that no completed    *)
(* task is inferred across a reconnect, that a cancelled routine was       *)
(* cancelled by Home Assistant, and that a session reports one outcome of  *)
(* a routine and only one session reports it completed.                    *)
(***************************************************************************)
EXTENDS LumalouRoutine, SequenceTheorems, FiniteSetTheorems, TLAPS

\* A routine that runs has a number.
Numbered == device.mode => device.run \in Runs

\* Nothing of a session is left when it is over.
Unlinked == ~link => air = <<>> /\ running_status = None /\ read = NoRead

\* A cancel that was sent is not used up yet.
Cancelling ==
    /\ cancels.fired + (IF cancel_sent THEN 1 ELSE 0) <= cancels.sent
    /\ cancels.sent <= calls

\* Statuses in flight that show the routine no further than task t.
Below(t, frames) ==
    \A i \in DOMAIN frames : frames[i].kind = "status" => frames[i].value <= t

\* As long as task t is not done in this session, a routine once seen at or
\* before it stays there: in every frame behind and on the device.
Stays(t, status) ==
    status # None /\ status <= t => Below(t, air) /\ device.step <= t
StaysInAir(t) ==
    \A i, j \in DOMAIN air :
       air[i].kind = "status" /\ air[i].value <= t =>
          /\ device.step <= t
          /\ i <= j /\ air[j].kind = "status" => air[j].value <= t
Following ==
    \A t \in 1..Tasks : tasksDone[t] = 0 =>
        /\ Stays(t, running_status) /\ Stays(t, routine_status)
        /\ Stays(t, read.status) /\ StaysInAir(t)
        /\ tasksFired[t] = 0

RoutineInv ==
    /\ TypeOK /\ Numbered /\ Unlinked /\ Cancelling /\ Following

-----------------------------------------------------------------------------
(* Frames in flight.                                                       *)

LEMMA TailKeeps ==
    ASSUME air \in Seq(Frames), air # <<>>, NEW t \in Nat
    PROVE  /\ Tail(air) \in Seq(Frames) /\ Head(air) \in Frames
           /\ Below(t, air) => Below(t, Tail(air))
           /\ Below(t, air) /\ Head(air).kind = "status" =>
                 Head(air).value <= t
           /\ StaysInAir(t) =>
                 /\ \A i, j \in DOMAIN Tail(air) :
                       Tail(air)[i].kind = "status" /\ Tail(air)[i].value <= t =>
                          /\ device.step <= t
                          /\ i <= j /\ Tail(air)[j].kind = "status" =>
                                Tail(air)[j].value <= t
                 /\ Head(air).kind = "status" /\ Head(air).value <= t =>
                       Below(t, Tail(air)) /\ device.step <= t
<1>1. /\ Tail(air) \in Seq(Frames) /\ Head(air) \in Frames
      /\ Len(Tail(air)) = Len(air) - 1 /\ Len(air) \in Nat /\ Len(air) > 0
      /\ \A i \in 1..Len(Tail(air)) : Tail(air)[i] = air[i + 1]
      /\ Head(air) = air[1]
  BY HeadTailProperties, EmptySeq
<1>2. DOMAIN air = 1..Len(air) /\ DOMAIN Tail(air) = 1..Len(Tail(air))
  BY <1>1
<1>3. \A i \in DOMAIN Tail(air) : i + 1 \in DOMAIN air /\ i \in Nat
                                  /\ Tail(air)[i] = air[i + 1]
  BY <1>1, <1>2
<1>4. Below(t, air) => Below(t, Tail(air))
  BY <1>3 DEF Below
<1>5. ASSUME StaysInAir(t), NEW i \in DOMAIN Tail(air),
             NEW j \in DOMAIN Tail(air),
             Tail(air)[i].kind = "status", Tail(air)[i].value <= t
      PROVE  /\ device.step <= t
             /\ i <= j /\ Tail(air)[j].kind = "status" =>
                   Tail(air)[j].value <= t
  BY <1>3, <1>5 DEF StaysInAir
<1>6. ASSUME StaysInAir(t), Head(air).kind = "status", Head(air).value <= t
      PROVE  Below(t, Tail(air)) /\ device.step <= t
  <2>1. 1 \in DOMAIN air /\ air[1].kind = "status" /\ air[1].value <= t
    BY <1>1, <1>2, <1>6
  <2>2. device.step <= t
    BY <1>6, <2>1 DEF StaysInAir
  <2>3. ASSUME NEW j \in DOMAIN Tail(air), Tail(air)[j].kind = "status"
        PROVE  Tail(air)[j].value <= t
    BY <1>3, <1>6, <2>1, <2>3 DEF StaysInAir
  <2> QED
    BY <2>2, <2>3 DEF Below
<1>7. Below(t, air) /\ Head(air).kind = "status" => Head(air).value <= t
  BY <1>1, <1>2 DEF Below
<1> QED
  BY <1>1, <1>4, <1>5, <1>6, <1>7

\* Frames of the device as it is now.
Current(frames) ==
    /\ frames \in Seq(Frames)
    /\ \A i \in DOMAIN frames : frames[i].kind = "status" =>
          frames[i].value = device'.step

LEMMA PushKeeps ==
    ASSUME air \in Seq(Frames), NEW frames, Push(frames), Current(frames),
           NEW t \in Nat, device.step <= t => device'.step <= t
    PROVE  /\ air' \in Seq(Frames)
           /\ Below(t, air) /\ device'.step <= t => Below(t, air')
           /\ StaysInAir(t) => StaysInAir(t)'
<1>1. CASE air' = air
  BY <1>1 DEF Below, StaysInAir
<1>2. CASE air' = air \o frames
  <2>1. /\ air' \in Seq(Frames) /\ Len(air) \in Nat /\ Len(frames) \in Nat
        /\ Len(air') = Len(air) + Len(frames)
        /\ DOMAIN air = 1..Len(air) /\ DOMAIN air' = 1..Len(air')
        /\ DOMAIN frames = 1..Len(frames)
        /\ \A i \in 1..Len(air') :
              air'[i] = IF i <= Len(air) THEN air[i] ELSE frames[i - Len(air)]
    BY <1>2, ConcatProperties DEF Current
  <2>2. ASSUME NEW i \in DOMAIN air', air'[i].kind = "status"
        PROVE  \/ i \in DOMAIN air /\ air'[i] = air[i]
               \/ i \notin DOMAIN air /\ air'[i].value = device'.step
    <3>1. CASE i <= Len(air)
      BY <2>1, <3>1
    <3>2. CASE i > Len(air)
      <4>1. i - Len(air) \in DOMAIN frames /\ air'[i] = frames[i - Len(air)]
        BY <2>1, <3>2
      <4> QED
        BY <2>1, <2>2, <3>2, <4>1 DEF Current
    <3> QED
      BY <2>1, <3>1, <3>2
  <2>3. Below(t, air) /\ device'.step <= t => Below(t, air')
    BY <2>2 DEF Below
  <2>4. ASSUME StaysInAir(t), NEW i \in DOMAIN air', NEW j \in DOMAIN air',
               air'[i].kind = "status", air'[i].value <= t
        PROVE  /\ device'.step <= t
               /\ i <= j /\ air'[j].kind = "status" => air'[j].value <= t
    <3>1. device'.step <= t
      BY <2>2, <2>4 DEF StaysInAir
    <3>2. ASSUME i <= j, air'[j].kind = "status" PROVE air'[j].value <= t
      <4>1. CASE j \notin DOMAIN air
        BY <2>2, <3>1, <3>2, <4>1
      <4>2. CASE j \in DOMAIN air
        <5>1. i \in DOMAIN air
          BY <2>1, <3>2, <4>2
        <5> QED
          BY <2>2, <2>4, <3>2, <4>2, <5>1 DEF StaysInAir
      <4> QED
        BY <4>1, <4>2
    <3> QED
      BY <3>1, <3>2
  <2>5. StaysInAir(t) => StaysInAir(t)'
    BY <2>4 DEF StaysInAir
  <2> QED
    BY <2>1, <2>3, <2>5
<1> QED
  BY <1>1, <1>2 DEF Push

LEMMA CurrentFrames ==
    ASSUME device' \in [run : 0..MaxRuns, mode : BOOLEAN, step : Steps]
    PROVE  /\ Current(<<State(device')>>) /\ Current(<<Status(device')>>)
           /\ Current(<<State(device'), Status(device')>>)
           /\ Current(<<Status(device'), State(device')>>)
<1>1. State(device') \in Frames /\ State(device').kind = "state"
  BY DEF State, Frames
<1>2. /\ Status(device') \in Frames /\ Status(device').kind = "status"
      /\ Status(device').value = device'.step
  BY DEF Status, Frames
<1> HIDE DEF Frames
<1> DEFINE a == State(device')
           b == Status(device')
<1> HIDE DEF a, b
<1>3. /\ a \in Frames /\ a.kind = "state" /\ b \in Frames /\ b.kind = "status"
      /\ b.value = device'.step
  BY <1>1, <1>2 DEF a, b
<1>4. Current(<<a>>) /\ Current(<<b>>)
  BY <1>3 DEF Current
<1>5. Current(<<a, b>>) /\ Current(<<b, a>>)
  BY <1>3 DEF Current
<1> QED
  BY <1>4, <1>5 DEF a, b

-----------------------------------------------------------------------------
(* The types in parts.                                                     *)

Progress ==
    /\ data \in BOOLEAN \cup {None}
    /\ routine_status \in Steps \cup {None}
    /\ running_status \in Steps \cup {None}
    /\ finished \in BOOLEAN /\ cancel_sent \in BOOLEAN /\ pushed \in BOOLEAN
    /\ link \in BOOLEAN
    /\ ~link => <<data, routine_status, finished, cancel_sent>>
                    = <<None, None, FALSE, FALSE>>
Requests ==
    /\ read \in [at : {"no", "open", "state", "clock", "status", "rest"},
                 state : BOOLEAN \cup {None}, status : Steps \cup {None}]
    /\ write \in Controls \cup {None, "sent"}
Devices == [run : 0..MaxRuns, mode : BOOLEAN, step : Steps]
Tallies == tasksDone \in [1..Tasks -> Nat] /\ tasksFired \in [1..Tasks -> Nat]
Told ==
    /\ outcomes \in [Runs -> Seq(Outcomes)] /\ final \subseteq Runs
    /\ cancels \in [sent : 0..MaxCalls, fired : Nat]
Bounds == /\ sessions \in 0..MaxSessions /\ lost \in 0..MaxLost
          /\ calls \in 0..MaxCalls

LEMMA TypeParts ==
    TypeOK <=> /\ Progress /\ Requests /\ Tallies /\ Told /\ Bounds
               /\ air \in Seq(Frames) /\ device \in Devices
BY DEF TypeOK, Progress, Requests, Tallies, Told, Bounds, Devices

LEMMA TypePartsNext ==
    ASSUME Progress', Requests', Tallies', Told', Bounds',
           air' \in Seq(Frames), device' \in Devices
    PROVE  TypeOK'
BY DEF TypeOK, Progress, Requests, Tallies, Told, Bounds, Devices


\* The variables that say nothing about frames.
LEMMA DeviceStep ==
    ASSUME RoutineInv, NEW frames, Push(frames), Current(frames),
           device' \in [run : 0..MaxRuns, mode : BOOLEAN, step : Steps],
           UNCHANGED <<routine_status, running_status, link, tasksFired>>,
           read'.status = read.status, ~link => read' = read,
           \A t \in 1..Tasks : tasksDone'[t] = 0 =>
               tasksDone[t] = 0 /\ (device.step <= t => device'.step <= t)
    PROVE  Following' /\ Unlinked' /\ air' \in Seq(Frames)
<1>1. air \in Seq(Frames)
  BY DEF RoutineInv, TypeOK
<1>2. Unlinked'
  BY DEF RoutineInv, Unlinked, Push
<1>3. air' \in Seq(Frames)
  <2>1. CASE air' = air
    BY <1>1, <2>1
  <2>2. CASE air' = air \o frames
    BY <1>1, <2>2, ConcatProperties DEF Current
  <2> QED
    BY <2>1, <2>2 DEF Push
<1>4. ASSUME NEW t \in 1..Tasks, tasksDone'[t] = 0
      PROVE  /\ Stays(t, running_status)' /\ Stays(t, routine_status)'
             /\ Stays(t, read.status)' /\ StaysInAir(t)'
             /\ tasksFired'[t] = 0
  <2>1. /\ Stays(t, running_status) /\ Stays(t, routine_status)
        /\ Stays(t, read.status) /\ StaysInAir(t)
        /\ tasksFired[t] = 0 /\ t \in Nat
        /\ device.step <= t => device'.step <= t
    BY <1>4, RoutineAssumption DEF RoutineInv, Following
  <2>2. /\ Below(t, air) /\ device'.step <= t => Below(t, air')
        /\ StaysInAir(t)'
    BY <1>1, <2>1, PushKeeps
  <2> QED
    BY <2>1, <2>2 DEF Stays
<1>5. Following'
  BY <1>4 DEF Following
<1> QED
  BY <1>2, <1>3, <1>5

\* Nothing that the invariant compares changes, or it is forgotten.
LEMMA QuietStep ==
    ASSUME RoutineInv, UNCHANGED <<air, device>>,
           running_status' \in {running_status, routine_status, read.status, None},
           routine_status' \in {routine_status, read.status, None},
           read'.status \in {read.status, routine_status, None},
           \A t \in 1..Tasks : tasksDone'[t] = 0 =>
               \/ tasksDone[t] = 0 /\ tasksFired'[t] = tasksFired[t]
               \/ /\ tasksFired'[t] = 0 /\ air = <<>>
                  /\ running_status' = None /\ routine_status' = None
                  /\ read'.status = None
    PROVE  Following'
<1>1. ASSUME NEW t \in 1..Tasks, tasksDone'[t] = 0
      PROVE  /\ Stays(t, running_status)' /\ Stays(t, routine_status)'
             /\ Stays(t, read.status)' /\ StaysInAir(t)'
             /\ tasksFired'[t] = 0
  <2>1. CASE tasksDone[t] = 0 /\ tasksFired'[t] = tasksFired[t]
    <3>1. /\ Stays(t, running_status) /\ Stays(t, routine_status)
          /\ Stays(t, read.status) /\ StaysInAir(t)
          /\ tasksFired[t] = 0
      BY <2>1 DEF RoutineInv, Following
    <3> QED
      BY <2>1, <3>1 DEF Stays, StaysInAir, Below
  <2>2. CASE /\ tasksFired'[t] = 0 /\ air = <<>>
             /\ running_status' = None /\ routine_status' = None
             /\ read'.status = None
    BY <2>2 DEF Stays, StaysInAir
  <2> QED
    BY <1>1, <2>1, <2>2
<1> QED
  BY <1>1 DEF Following

-----------------------------------------------------------------------------
(* Steps.                                                                  *)

LEMMA ConnectStep ==
    ASSUME RoutineInv, Connect
    PROVE  RoutineInv'
<1>1. NoTasks \in [1..Tasks -> Nat] /\ \A t \in 1..Tasks : NoTasks[t] = 0
  BY DEF NoTasks
<1>2. /\ read' = [at |-> "open", state |-> None, status |-> None]
      /\ tasksDone' = NoTasks /\ tasksFired' = NoTasks /\ ~link /\ link'
      /\ sessions' \in 0..MaxSessions
  <2>1. read' = [at |-> "open", state |-> None, status |-> None]
    BY DEF Connect, NoRead
  <2>2. sessions' \in 0..MaxSessions
    BY RoutineAssumption DEF Connect, RoutineInv, TypeOK
  <2> QED
    BY <2>1, <2>2 DEF Connect
<1>3. TypeOK'
  <2>1. UNCHANGED <<data, routine_status, running_status, finished,
          cancel_sent, pushed, write, air, device, outcomes, cancels, final, lost, calls>>
    BY DEF Connect, progress
  <2>2. Progress'
    BY <1>2, <2>1, TypeParts DEF RoutineInv, Progress
  <2>3. Requests'
    BY <1>2, <2>1, TypeParts DEF RoutineInv, Requests
  <2>4. Tallies' /\ Told' /\ Bounds'
    BY <1>1, <1>2, <2>1, TypeParts DEF RoutineInv, Tallies, Told, Bounds
  <2> QED
    BY <2>1, <2>2, <2>3, <2>4, TypeParts, TypePartsNext DEF RoutineInv
<1>4. /\ air = <<>> /\ running_status = None /\ routine_status = None
      /\ read'.status = None
  BY <1>2 DEF RoutineInv, Unlinked, TypeOK
<1>5. Following'
  <2>1. UNCHANGED <<air, device, running_status, routine_status>>
    BY DEF Connect, progress
  <2> QED
    BY <1>1, <1>2, <1>4, <2>1, QuietStep
<1>6. Numbered' /\ Cancelling' /\ Unlinked'
  BY <1>2 DEF Connect, RoutineInv, Numbered, Cancelling, Unlinked, progress
<1> QED
  BY <1>3, <1>5, <1>6 DEF RoutineInv

LEMMA SessionEndsStep ==
    ASSUME RoutineInv, SessionEnds
    PROVE  RoutineInv'
<1>1. /\ air' = <<>> /\ read' = NoRead /\ ~link' /\ running_status' = None
      /\ routine_status' = None /\ cancel_sent' = FALSE /\ finished' = FALSE
      /\ pushed' = FALSE /\ link' = FALSE /\ write' = None /\ data' = None
      /\ UNCHANGED <<device, tasksDone, tasksFired, outcomes, cancels, final,
                     sessions, lost, calls>>
  BY DEF SessionEnds, Forget, history, budget
<1>2. read' = [at |-> "no", state |-> None, status |-> None] /\ air' \in Seq(Frames)
  BY <1>1, EmptySeq DEF NoRead
<1>3. TypeOK'
  <2>1. Progress'
    BY <1>1 DEF Progress
  <2>2. Requests'
    BY <1>1, <1>2 DEF Requests
  <2>3. Tallies' /\ Told' /\ Bounds'
    BY <1>1, TypeParts DEF RoutineInv, Tallies, Told, Bounds
  <2> QED
    BY <1>1, <1>2, <2>1, <2>2, <2>3, TypeParts, TypePartsNext DEF RoutineInv
<1>4. Following'
  <2>1. ASSUME NEW t \in 1..Tasks, tasksDone'[t] = 0
        PROVE  /\ Stays(t, running_status)' /\ Stays(t, routine_status)'
               /\ Stays(t, read.status)' /\ StaysInAir(t)'
               /\ tasksFired'[t] = 0
    BY <1>1, <1>2, <2>1 DEF RoutineInv, Following, Stays, StaysInAir
  <2> QED
    BY <2>1 DEF Following
<1>5. Numbered' /\ Unlinked'
  BY <1>1 DEF RoutineInv, Numbered, Unlinked
<1>6. Cancelling'
  BY <1>1 DEF RoutineInv, Cancelling, TypeOK
<1> QED
  BY <1>3, <1>4, <1>5, <1>6 DEF RoutineInv

\* The events a frame fires.
LEMMA FireFacts ==
    ASSUME RoutineInv, NEW event \in {"routine_completed", "routine_cancelled",
                                      "routine_expired"},
           NEW run, Fire(event, run)
    PROVE  /\ outcomes' \in [Runs -> Seq(Outcomes)]
           /\ cancels' \in [sent : 0..MaxCalls, fired : Nat]
           /\ cancels'.sent = cancels.sent
           /\ cancels'.fired = cancels.fired
                 + (IF event = "routine_cancelled" THEN 1 ELSE 0)
<1>1. cancels \in [sent : 0..MaxCalls, fired : Nat]
      /\ outcomes \in [Runs -> Seq(Outcomes)] /\ sessions \in Nat
  BY RoutineAssumption DEF RoutineInv, TypeOK
<1>2. [event |-> event, session |-> sessions] \in Outcomes
  BY <1>1 DEF Outcomes
<1>3. outcomes' \in [Runs -> Seq(Outcomes)]
  <2> DEFINE o == [event |-> event, session |-> sessions]
  <2> HIDE DEF o
  <2>1. outcomes' = [outcomes EXCEPT ![run] = Append(@, o)] /\ o \in Outcomes
    BY <1>2 DEF Fire, o
  <2>2. ASSUME NEW r \in Runs PROVE outcomes'[r] \in Seq(Outcomes)
    <3>1. outcomes[r] \in Seq(Outcomes) /\ Append(outcomes[r], o) \in Seq(Outcomes)
      BY <1>1, <2>1
    <3>2. outcomes'[r] = IF r = run THEN Append(outcomes[r], o) ELSE outcomes[r]
      BY <1>1, <2>1
    <3> QED
      BY <3>1, <3>2
  <2>3. DOMAIN outcomes' = Runs
        /\ outcomes' = [r \in DOMAIN outcomes' |-> outcomes'[r]]
    BY <1>1, <2>1
  <2> QED
    BY <2>2, <2>3
<1>4. CASE event = "routine_cancelled"
  BY <1>1, <1>3, <1>4 DEF Fire
<1>5. CASE event # "routine_cancelled"
  BY <1>1, <1>3, <1>5 DEF Fire
<1> QED
  BY <1>4, <1>5

LEMMA ReadStateStep ==
    ASSUME RoutineInv, ReadState
    PROVE  RoutineInv'
<1>1. /\ read' = [read EXCEPT !.at = "state"] /\ read.at = "open"
      /\ Push(<<State(device)>>)
      /\ UNCHANGED <<data, routine_status, running_status, finished,
                     cancel_sent, pushed, write, link, device, tasksDone,
                     tasksFired, outcomes, cancels, final, sessions, lost,
                     calls>>
  BY DEF ReadState, progress, history, budget
<1>2. read \in [at : {"no", "open", "state", "clock", "status", "rest"},
                state : BOOLEAN \cup {None}, status : Steps \cup {None}]
  BY TypeParts DEF RoutineInv, Requests
<1>3. link
  BY <1>1 DEF RoutineInv, Unlinked, NoRead
<1>4. Current(<<State(device)>>)
  <2>1. device' \in Devices /\ device' = device
    BY <1>1, TypeParts DEF RoutineInv
  <2> QED
    BY <2>1, CurrentFrames DEF Devices
<1>5. Following' /\ Unlinked' /\ air' \in Seq(Frames)
  BY <1>1, <1>2, <1>3, <1>4, TypeParts, DeviceStep DEF RoutineInv, Devices
<1>6. TypeOK'
  <2>1. Progress' /\ Tallies' /\ Told' /\ Bounds'
    BY <1>1, TypeParts DEF RoutineInv, Progress, Tallies, Told, Bounds
  <2>2. Requests'
    BY <1>1, <1>2, TypeParts DEF RoutineInv, Requests
  <2> QED
    BY <1>1, <1>5, <2>1, <2>2, TypeParts, TypePartsNext DEF RoutineInv
<1>7. Numbered' /\ Cancelling'
  BY <1>1 DEF RoutineInv, Numbered, Cancelling
<1> QED
  BY <1>5, <1>6, <1>7 DEF RoutineInv

\* A read that goes on or ends, with what it has seen as the progress.
LEMMA OnlyStateStep ==
    ASSUME RoutineInv, OnlyState
    PROVE  RoutineInv'
<1>1. /\ read' = NoRead
      /\ UNCHANGED <<data, routine_status, running_status, finished,
                     cancel_sent, pushed, write, link, air, device, tasksDone,
                     tasksFired, outcomes, cancels, final, sessions, lost,
                     calls>>
  BY DEF OnlyState, progress, history, budget
<1>2. TypeOK'
  <2>1. Progress' /\ Tallies' /\ Told' /\ Bounds'
    BY <1>1, TypeParts DEF RoutineInv, Progress, Tallies, Told, Bounds
  <2>2. Requests'
    BY <1>1, TypeParts DEF RoutineInv, Requests, NoRead
  <2> QED
    BY <1>1, <2>1, <2>2, TypeParts, TypePartsNext DEF RoutineInv
<1>3. Following'
  BY <1>1, QuietStep DEF NoRead
<1>4. Numbered' /\ Cancelling' /\ Unlinked'
  BY <1>1 DEF RoutineInv, Numbered, Cancelling, Unlinked
<1> QED
  BY <1>2, <1>3, <1>4 DEF RoutineInv

LEMMA ReadStatusStep ==
    ASSUME RoutineInv, ReadStatus
    PROVE  RoutineInv'
<1>1. /\ read.at = "clock"
      /\ UNCHANGED <<data, routine_status, running_status, finished,
                     cancel_sent, pushed, write, link, device, tasksDone,
                     tasksFired, outcomes, cancels, final, sessions, lost,
                     calls>>
  BY DEF ReadStatus, progress, history, budget
<1>2. /\ read \in [at : {"no", "open", "state", "clock", "status", "rest"},
                   state : BOOLEAN \cup {None}, status : Steps \cup {None}]
      /\ routine_status \in Steps \cup {None}
  BY TypeParts DEF RoutineInv, Requests, Progress
<1>3. link
  BY <1>1 DEF RoutineInv, Unlinked, NoRead
<1>4. /\ read' \in [at : {"no", "open", "state", "clock", "status", "rest"},
                    state : BOOLEAN \cup {None}, status : Steps \cup {None}]
      /\ read'.status \in {read.status, routine_status}
  BY <1>2 DEF ReadStatus
<1>5. Following' /\ Unlinked' /\ air' \in Seq(Frames)
  <2>1. CASE air' = air
    <3>1. Following'
      BY <1>1, <1>4, <2>1, QuietStep DEF RoutineInv, Following
    <3> QED
      BY <1>1, <1>3, <2>1, <3>1, TypeParts DEF RoutineInv, Unlinked
  <2>2. CASE Push(<<Status(device)>>) /\ read' = [read EXCEPT !.at = "status"]
    <3>1. device' \in Devices /\ device' = device
      BY <1>1, TypeParts DEF RoutineInv
    <3>2. Current(<<Status(device)>>)
      BY <3>1, CurrentFrames DEF Devices
    <3>3. read'.status = read.status
      BY <1>2, <2>2
    <3> QED
      BY <1>1, <1>3, <2>2, <3>1, <3>2, <3>3, DeviceStep DEF RoutineInv, Devices
  <2> QED
    BY <2>1, <2>2 DEF ReadStatus
<1>6. TypeOK'
  <2>1. Progress' /\ Tallies' /\ Told' /\ Bounds'
    BY <1>1, TypeParts DEF RoutineInv, Progress, Tallies, Told, Bounds
  <2>2. Requests'
    BY <1>1, <1>4, TypeParts DEF RoutineInv, Requests
  <2> QED
    BY <1>1, <1>5, <2>1, <2>2, TypeParts, TypePartsNext DEF RoutineInv
<1>7. Numbered' /\ Cancelling'
  BY <1>1 DEF RoutineInv, Numbered, Cancelling
<1> QED
  BY <1>5, <1>6, <1>7 DEF RoutineInv

LEMMA ReadEndsStep ==
    ASSUME RoutineInv, ReadEnds
    PROVE  RoutineInv'
<1>1. /\ read.at = "rest" /\ read' = NoRead
      /\ UNCHANGED <<data, finished, cancel_sent, pushed, write, link, air,
                     device, tasksDone, tasksFired, outcomes, cancels, final,
                     sessions, lost, calls>>
      /\ \/ UNCHANGED <<routine_status, running_status>>
         \/ routine_status' = read.status /\ running_status' = read.status
  BY DEF ReadEnds, history, budget
<1>2. read \in [at : {"no", "open", "state", "clock", "status", "rest"},
                state : BOOLEAN \cup {None}, status : Steps \cup {None}]
  BY TypeParts DEF RoutineInv, Requests
<1>3. link
  BY <1>1 DEF RoutineInv, Unlinked, NoRead
<1>4. TypeOK'
  <2>1. Progress'
    BY <1>1, <1>2, <1>3, TypeParts DEF RoutineInv, Progress
  <2>2. Tallies' /\ Told' /\ Bounds'
    BY <1>1, TypeParts DEF RoutineInv, Tallies, Told, Bounds
  <2>3. Requests'
    BY <1>1, TypeParts DEF RoutineInv, Requests, NoRead
  <2> QED
    BY <1>1, <2>1, <2>2, <2>3, TypeParts, TypePartsNext DEF RoutineInv
<1>5. Following'
  BY <1>1, QuietStep DEF NoRead
<1>6. Numbered' /\ Cancelling' /\ Unlinked'
  BY <1>1, <1>3 DEF RoutineInv, Numbered, Cancelling, Unlinked
<1> QED
  BY <1>4, <1>5, <1>6 DEF RoutineInv

LEMMA RoutineControlStep ==
    ASSUME RoutineInv, NEW control \in Controls, RoutineControl(control)
    PROVE  RoutineInv'
<1>1. /\ link /\ write' = control /\ cancel_sent' = (control = "cancel")
      /\ calls < MaxCalls /\ calls' = calls + 1
      /\ UNCHANGED <<data, routine_status, running_status, finished, pushed,
                     read, link, air, device, tasksDone, tasksFired, outcomes,
                     final, sessions, lost>>
  BY DEF RoutineControl
<1>2. /\ cancels \in [sent : 0..MaxCalls, fired : Nat] /\ calls \in 0..MaxCalls
      /\ MaxCalls \in Nat /\ calls' \in 0..MaxCalls
  BY <1>1, TypeParts, RoutineAssumption DEF RoutineInv, Told, Bounds
<1>3. cancels' = IF control = "cancel"
                 THEN [cancels EXCEPT !.sent = @ + 1] ELSE cancels
  BY DEF RoutineControl
<1>4. /\ cancels' \in [sent : 0..MaxCalls, fired : Nat]
      /\ cancels'.fired = cancels.fired
      /\ cancels'.sent = cancels.sent + (IF control = "cancel" THEN 1 ELSE 0)
      /\ cancels'.sent <= calls' /\ cancels.sent \in Nat /\ cancels.fired \in Nat
  <2>1. cancels.sent \in Nat /\ cancels.sent <= calls /\ cancels.fired \in Nat
        /\ cancels.sent + 1 \in 0..MaxCalls
    BY <1>1, <1>2 DEF RoutineInv, Cancelling
  <2> QED
    BY <1>1, <1>2, <1>3, <2>1
<1>5. Cancelling'
  <2>1. cancels.fired <= cancels.sent
    <3>1. cancels.fired + (IF cancel_sent THEN 1 ELSE 0) <= cancels.sent
      BY DEF RoutineInv, Cancelling
    <3> QED
      BY <1>4, <3>1
  <2>2. CASE control = "cancel"
    <3>1. cancels'.fired = cancels.fired /\ cancels'.sent = cancels.sent + 1
      BY <1>4, <2>2
    <3>2. cancels'.fired + (IF cancel_sent' THEN 1 ELSE 0) <= cancels'.sent
      BY <1>4, <2>1, <3>1
    <3> QED
      BY <1>4, <3>2 DEF Cancelling
  <2>3. CASE control # "cancel"
    <3>1. ~cancel_sent'
      BY <1>1, <2>3
    <3>2. cancels'.fired = cancels.fired /\ cancels'.sent = cancels.sent
      BY <1>4, <2>3
    <3> QED
      BY <1>4, <2>1, <3>1, <3>2 DEF Cancelling
  <2> QED
    BY <2>2, <2>3
<1>6. TypeOK'
  <2>1. Progress'
    BY <1>1, TypeParts DEF RoutineInv, Progress
  <2>2. Tallies' /\ Told' /\ Bounds'
    BY <1>1, <1>2, <1>4, TypeParts DEF RoutineInv, Tallies, Told, Bounds
  <2>3. Requests'
    BY <1>1, TypeParts DEF RoutineInv, Requests
  <2> QED
    BY <1>1, <2>1, <2>2, <2>3, TypeParts, TypePartsNext DEF RoutineInv
<1>7. Following'
  BY <1>1, QuietStep
<1>8. Numbered' /\ Unlinked'
  BY <1>1 DEF RoutineInv, Numbered, Unlinked
<1> QED
  BY <1>5, <1>6, <1>7, <1>8 DEF RoutineInv

LEMMA AcknowledgedStep ==
    ASSUME RoutineInv, Acknowledged
    PROVE  RoutineInv'
<1>1. /\ write' = None
      /\ UNCHANGED <<data, routine_status, running_status, finished,
                     cancel_sent, pushed, read, link, air, device, tasksDone,
                     tasksFired, outcomes, cancels, final, sessions, lost,
                     calls>>
  BY DEF Acknowledged, progress, history, budget
<1>2. TypeOK'
  <2>1. Progress'
    BY <1>1, TypeParts DEF RoutineInv, Progress
  <2>2. Tallies' /\ Told' /\ Bounds'
    BY <1>1, TypeParts DEF RoutineInv, Tallies, Told, Bounds
  <2>3. Requests'
    BY <1>1, TypeParts DEF RoutineInv, Requests
  <2> QED
    BY <1>1, <2>1, <2>2, <2>3, TypeParts, TypePartsNext DEF RoutineInv
<1>3. Following'
  BY <1>1, QuietStep
<1>4. Numbered' /\ Cancelling' /\ Unlinked'
  BY <1>1 DEF RoutineInv, Numbered, Cancelling, Unlinked
<1> QED
  BY <1>2, <1>3, <1>4 DEF RoutineInv

LEMMA FrameLostStep ==
    ASSUME RoutineInv, FrameLost
    PROVE  RoutineInv'
<1>1. /\ air # <<>> /\ air' = Tail(air) /\ lost < MaxLost /\ lost' = lost + 1
      /\ UNCHANGED <<data, routine_status, running_status, finished,
                     cancel_sent, pushed, read, write, link, device, tasksDone,
                     tasksFired, outcomes, cancels, final, sessions, calls>>
  BY DEF FrameLost, progress, history
<1>2. air \in Seq(Frames) /\ lost \in 0..MaxLost /\ MaxLost \in Nat
  BY TypeParts, RoutineAssumption DEF RoutineInv, Bounds
<1>3. TypeOK'
  <2>1. Progress'
    BY <1>1, TypeParts DEF RoutineInv, Progress
  <2>4. Tallies' /\ Told' /\ Requests'
    <3>1. Tallies' /\ Told'
      BY <1>1, TypeParts DEF RoutineInv, Tallies, Told
    <3>2. Requests'
      BY <1>1, TypeParts DEF RoutineInv, Requests
    <3> QED
      BY <3>1, <3>2
  <2>2. Bounds'
    BY <1>1, <1>2, TypeParts DEF RoutineInv, Bounds
  <2>3. air' \in Seq(Frames)
    BY <1>1, <1>2, HeadTailProperties
  <2> QED
    BY <1>1, <2>1, <2>2, <2>3, <2>4, TypeParts, TypePartsNext
       DEF RoutineInv
<1>4. Following'
  <2>1. ASSUME NEW t \in 1..Tasks, tasksDone'[t] = 0
        PROVE  /\ Stays(t, running_status)' /\ Stays(t, routine_status)'
               /\ Stays(t, read.status)' /\ StaysInAir(t)'
               /\ tasksFired'[t] = 0
    <3>1. /\ Stays(t, running_status) /\ Stays(t, routine_status)
          /\ Stays(t, read.status) /\ StaysInAir(t)
          /\ tasksFired[t] = 0 /\ t \in Nat
      BY <1>1, <2>1, RoutineAssumption DEF RoutineInv, Following
    <3>2. /\ Below(t, air) => Below(t, Tail(air))
          /\ StaysInAir(t)'
      BY <1>1, <1>2, <3>1, TailKeeps DEF StaysInAir
    <3> QED
      BY <1>1, <3>1, <3>2 DEF Stays
  <2> QED
    BY <2>1 DEF Following
<1>5. Numbered' /\ Cancelling' /\ Unlinked'
  BY <1>1 DEF RoutineInv, Numbered, Cancelling, Unlinked
<1> QED
  BY <1>3, <1>4, <1>5 DEF RoutineInv

-----------------------------------------------------------------------------
(* The device.                                                             *)

\* What the device may do to the step of its routine.
LEMMA MoveFacts ==
    ASSUME RoutineInv, Forward \/ Back \/ End
    PROVE  /\ device' \in Devices /\ Numbered' /\ final' \subseteq Runs
           /\ tasksDone' \in [1..Tasks -> Nat]
           /\ \A t \in 1..Tasks : tasksDone'[t] = 0 =>
                 tasksDone[t] = 0 /\ (device.step <= t => device'.step <= t)
           /\ \E frames : Push(frames) /\ Current(frames)
<1>1. /\ device \in [run : 0..MaxRuns, mode : BOOLEAN, step : Steps]
      /\ device.mode => device.run \in Runs
      /\ final \subseteq Runs /\ tasksDone \in [1..Tasks -> Nat]
      /\ Tasks \in Nat /\ device.step \in Nat
  BY TypeParts, RoutineAssumption
     DEF RoutineInv, Numbered, Told, Tallies, Devices, Steps
<1>2. CASE Forward
  <2>1. /\ device.mode /\ device.step <= Tasks
        /\ device' = [device EXCEPT !.step = @ + 1]
        /\ tasksDone' = [t \in 1..Tasks |->
                            tasksDone[t] + (IF t = device.step THEN 1 ELSE 0)]
        /\ final' \in {final, final \cup {device.run}}
        /\ Push(<<Status(device')>>)
    BY <1>2 DEF Forward
  <2>2. device.step + 1 \in Steps
    BY <1>1, <2>1 DEF Steps
  <2>3. /\ device' \in [run : 0..MaxRuns, mode : BOOLEAN, step : Steps]
        /\ device'.step = device.step + 1 /\ device'.run = device.run
    BY <1>1, <2>1, <2>2
  <2>4. final' \subseteq Runs /\ Numbered'
    BY <1>1, <2>1, <2>3 DEF Numbered
  <2>5. tasksDone' \in [1..Tasks -> Nat]
    BY <1>1, <2>1
  <2>6. ASSUME NEW t \in 1..Tasks, tasksDone'[t] = 0
        PROVE  tasksDone[t] = 0 /\ (device.step <= t => device'.step <= t)
    <3>1. tasksDone[t] \in Nat
          /\ tasksDone[t] + (IF t = device.step THEN 1 ELSE 0) = 0
      BY <1>1, <2>1, <2>6
    <3>2. t # device.step /\ tasksDone[t] = 0
      BY <3>1
    <3> QED
      BY <1>1, <2>3, <3>2
  <2> QED
    BY <2>1, <2>3, <2>4, <2>5, <2>6, CurrentFrames DEF Devices
<1>3. CASE Back
  <2>1. /\ device.mode /\ device.step \in 2..Tasks
        /\ device' = [device EXCEPT !.step = @ - 1]
        /\ tasksDone' = tasksDone /\ final' = final
        /\ Push(<<Status(device')>>)
    BY <1>3 DEF Back
  <2>2. device.step - 1 \in Steps /\ device.step - 1 <= device.step
    BY <1>1, <2>1 DEF Steps
  <2>3. /\ device' \in [run : 0..MaxRuns, mode : BOOLEAN, step : Steps]
        /\ device'.step = device.step - 1 /\ device'.run = device.run
    BY <1>1, <2>1, <2>2
  <2>4. \A t \in 1..Tasks : device.step <= t => device'.step <= t
    BY <1>1, <2>1, <2>3
  <2> QED
    BY <1>1, <2>1, <2>3, <2>4, CurrentFrames DEF Devices, Numbered
<1>4. CASE End
  <2>1. /\ device' = [device EXCEPT !.mode = FALSE, !.step = 0]
        /\ tasksDone' = tasksDone /\ final' = final
        /\ \/ Push(<<State(device')>>)
           \/ Push(<<Status(device'), State(device')>>)
    BY <1>4 DEF End
  <2>2. /\ device' \in [run : 0..MaxRuns, mode : BOOLEAN, step : Steps]
        /\ device'.step = 0 /\ ~device'.mode
    <3>1. 0 \in Steps
      BY <1>1 DEF Steps
    <3> QED
      BY <1>1, <2>1, <3>1
  <2>3. \A t \in 1..Tasks : device'.step <= t
    BY <2>2
  <2> QED
    BY <1>1, <2>1, <2>2, <2>3, CurrentFrames DEF Devices, Numbered
<1> QED
  BY <1>2, <1>3, <1>4

LEMMA DeviceMovesStep ==
    ASSUME RoutineInv, DeviceMoves
    PROVE  RoutineInv'
<1>1. UNCHANGED <<data, routine_status, running_status, finished, cancel_sent,
                  pushed, read, write, link, tasksFired, outcomes, cancels,
                  sessions, lost, calls>>
  BY DEF DeviceMoves, progress, budget
<1>2. /\ device' \in Devices /\ Numbered' /\ final' \subseteq Runs
      /\ tasksDone' \in [1..Tasks -> Nat]
      /\ \A t \in 1..Tasks : tasksDone'[t] = 0 =>
            tasksDone[t] = 0 /\ (device.step <= t => device'.step <= t)
      /\ \E frames : Push(frames) /\ Current(frames)
  BY MoveFacts DEF DeviceMoves
<1>3. Following' /\ Unlinked' /\ air' \in Seq(Frames)
  <2>1. PICK frames : Push(frames) /\ Current(frames)
    BY <1>2
  <2> QED
    BY <1>1, <1>2, <2>1, DeviceStep DEF Devices
<1>4. TypeOK'
  <2>1. Progress'
    BY <1>1, TypeParts DEF RoutineInv, Progress
  <2>2. Tallies' /\ Told' /\ Bounds'
    BY <1>1, <1>2, TypeParts DEF RoutineInv, Tallies, Told, Bounds
  <2>3. Requests'
    BY <1>1, TypeParts DEF RoutineInv, Requests
  <2> QED
    BY <1>2, <1>3, <2>1, <2>2, <2>3, TypePartsNext
<1>5. Cancelling'
  BY <1>1 DEF RoutineInv, Cancelling
<1> QED
  BY <1>2, <1>3, <1>4, <1>5 DEF RoutineInv

LEMMA ObeysStep ==
    ASSUME RoutineInv, Obeys
    PROVE  RoutineInv'
<1>1. /\ write' = "sent"
      /\ UNCHANGED <<data, routine_status, running_status, finished,
                     cancel_sent, pushed, read, link, tasksFired, outcomes,
                     cancels, sessions, lost, calls>>
  BY DEF Obeys, progress, budget
<1>2. /\ device' \in Devices /\ Numbered' /\ final' \subseteq Runs
      /\ tasksDone' \in [1..Tasks -> Nat]
      /\ Following' /\ Unlinked' /\ air' \in Seq(Frames)
  <2>1. CASE Forward \/ Back \/ End
    <3>1. /\ device' \in Devices /\ Numbered' /\ final' \subseteq Runs
          /\ tasksDone' \in [1..Tasks -> Nat]
          /\ \A t \in 1..Tasks : tasksDone'[t] = 0 =>
                tasksDone[t] = 0 /\ (device.step <= t => device'.step <= t)
          /\ \E frames : Push(frames) /\ Current(frames)
      BY <2>1, MoveFacts
    <3>2. PICK frames : Push(frames) /\ Current(frames)
      BY <3>1
    <3> QED
      BY <1>1, <3>1, <3>2, DeviceStep DEF Devices
  <2>2. CASE UNCHANGED <<device, air, tasksDone, final>>
    <3>1. Following'
      BY <1>1, <2>2, QuietStep
    <3>2. Numbered' /\ Unlinked'
      BY <1>1, <2>2 DEF RoutineInv, Numbered, Unlinked
    <3> QED
      BY <2>2, <3>1, <3>2, TypeParts DEF RoutineInv, Tallies, Told
  <2> QED
    BY <2>1, <2>2 DEF Obeys
<1>3. TypeOK'
  <2>1. Progress'
    BY <1>1, TypeParts DEF RoutineInv, Progress
  <2>2. Tallies' /\ Told' /\ Bounds'
    BY <1>1, <1>2, TypeParts DEF RoutineInv, Tallies, Told, Bounds
  <2>3. Requests'
    BY <1>1, TypeParts DEF RoutineInv, Requests
  <2> QED
    BY <1>2, <2>1, <2>2, <2>3, TypePartsNext
<1>4. Cancelling'
  BY <1>1 DEF RoutineInv, Cancelling
<1> QED
  BY <1>2, <1>3, <1>4 DEF RoutineInv

LEMMA RoutineStartsStep ==
    ASSUME RoutineInv, RoutineStarts
    PROVE  RoutineInv'
<1>1. /\ device.run < MaxRuns
      /\ device' = [run |-> device.run + 1, mode |-> TRUE, step |-> 0]
      /\ UNCHANGED <<data, routine_status, running_status, finished,
                     cancel_sent, pushed, read, write, link, tasksDone,
                     tasksFired, outcomes, cancels, final, sessions, lost,
                     calls>>
      /\ \/ Push(<<State(device')>>)
         \/ Push(<<State(device'), Status(device')>>)
  BY DEF RoutineStarts, progress, history, budget
<1>2. device' \in Devices /\ Numbered' /\ device'.step = 0
  <2>1. device.run + 1 \in Runs /\ device.run + 1 \in 0..MaxRuns /\ 0 \in Steps
    BY <1>1, TypeParts, RoutineAssumption DEF RoutineInv, Devices, Runs, Steps
  <2> QED
    BY <1>1, <2>1 DEF Devices, Numbered
<1>3. Following' /\ Unlinked' /\ air' \in Seq(Frames)
  <2>1. PICK frames : Push(frames) /\ Current(frames)
    BY <1>1, <1>2, CurrentFrames DEF Devices
  <2> QED
    BY <1>1, <1>2, <2>1, DeviceStep DEF Devices
<1>4. TypeOK'
  <2>1. Progress'
    BY <1>1, TypeParts DEF RoutineInv, Progress
  <2>2. Tallies' /\ Told' /\ Bounds'
    BY <1>1, TypeParts DEF RoutineInv, Tallies, Told, Bounds
  <2>3. Requests'
    BY <1>1, TypeParts DEF RoutineInv, Requests
  <2> QED
    BY <1>2, <1>3, <2>1, <2>2, <2>3, TypePartsNext
<1>5. Cancelling'
  BY <1>1 DEF RoutineInv, Cancelling
<1> QED
  BY <1>2, <1>3, <1>4, <1>5 DEF RoutineInv

-----------------------------------------------------------------------------
(* Frames that arrive.                                                     *)

\* A frame may answer the request that waits for it.
LEMMA AnswerFacts ==
    ASSUME RoutineInv, NEW frame \in Frames, Answer(frame)
    PROVE  /\ read' \in [at : {"no", "open", "state", "clock", "status", "rest"},
                         state : BOOLEAN \cup {None},
                         status : Steps \cup {None}]
           /\ \/ read'.status = read.status
              \/ frame.kind = "status" /\ read'.status = frame.value
<1>1. read \in [at : {"no", "open", "state", "clock", "status", "rest"},
                state : BOOLEAN \cup {None}, status : Steps \cup {None}]
  BY TypeParts DEF RoutineInv, Requests
<1>2. /\ frame.kind \in {"state", "status"}
      /\ frame.kind = "state" => frame.value \in BOOLEAN
      /\ frame.kind = "status" => frame.value \in Steps
  BY DEF Frames
<1>3. CASE read.at = "state" /\ frame.kind = "state"
  <2>1. read' = [read EXCEPT !.at = "clock", !.state = frame.value]
    BY <1>3 DEF Answer
  <2> QED
    BY <1>1, <1>2, <1>3, <2>1
<1>4. CASE read.at = "status" /\ frame.kind = "status"
  <2>1. read' = [read EXCEPT !.at = "rest", !.status = frame.value]
    BY <1>4 DEF Answer
  <2> QED
    BY <1>1, <1>2, <1>4, <2>1
<1>5. CASE ~(read.at = "state" /\ frame.kind = "state")
           /\ ~(read.at = "status" /\ frame.kind = "status")
  <2>1. read' = read
    BY <1>5 DEF Answer
  <2> QED
    BY <1>1, <2>1
<1> QED
  BY <1>3, <1>4, <1>5

\* Only a task that was current and is done is counted.
LEMMA CompletedFacts ==
    ASSUME NEW before, NEW after \in Nat, NEW t \in 1..Tasks
    PROVE  /\ Cardinality(Completed(before, after) \cap {t}) \in Nat
           /\ before = None \/ before # t \/ after <= t =>
                 Cardinality(Completed(before, after) \cap {t}) = 0
<1>1. Completed(before, after) \cap {t} \in {{}, {t}}
  OBVIOUS
<1>2. Cardinality({}) = 0 /\ Cardinality({t}) = 1
  BY FS_EmptySet, FS_Singleton
<1>3. ASSUME before = None \/ before # t \/ after <= t
      PROVE  t \notin Completed(before, after)
  <2>1. SUFFICES ASSUME t \in Completed(before, after) PROVE FALSE
    OBVIOUS
  <2>2. before # None /\ t = before /\ t < after
    BY <2>1 DEF Completed
  <2> QED
    BY <1>3, <2>2
<1> QED
  BY <1>1, <1>2, <1>3

LEMMA DeliverStep ==
    ASSUME RoutineInv, Deliver
    PROVE  RoutineInv'
<1> DEFINE frame == Head(air)
<1>1. /\ air # <<>> /\ air' = Tail(air) /\ Answer(frame)
      /\ frame.kind = "state" => TakeState(frame)
      /\ frame.kind # "state" => TakeStatus(frame)
      /\ UNCHANGED <<write, link, device, tasksDone, final, sessions, lost,
                     calls>>
  BY DEF Deliver, budget
<1>2. air \in Seq(Frames) /\ frame \in Frames /\ air' \in Seq(Frames)
  BY <1>1, TypeParts, HeadTailProperties DEF RoutineInv
<1>3. link
  BY <1>1 DEF RoutineInv, Unlinked
<1> HIDE DEF frame
<1>4. /\ frame.kind \in {"state", "status"}
      /\ frame.kind = "state" => frame.value \in BOOLEAN
      /\ frame.kind = "status" => frame.value \in Steps
  BY <1>2 DEF Frames
<1>5. /\ read' \in [at : {"no", "open", "state", "clock", "status", "rest"},
                    state : BOOLEAN \cup {None}, status : Steps \cup {None}]
      /\ \/ read'.status = read.status
         \/ frame.kind = "status" /\ read'.status = frame.value
  BY <1>1, <1>2, AnswerFacts
<1>6. /\ data \in BOOLEAN \cup {None} /\ routine_status \in Steps \cup {None}
      /\ running_status \in Steps \cup {None} /\ finished \in BOOLEAN
      /\ cancel_sent \in BOOLEAN /\ pushed \in BOOLEAN
      /\ tasksFired \in [1..Tasks -> Nat]
      /\ outcomes \in [Runs -> Seq(Outcomes)]
      /\ cancels \in [sent : 0..MaxCalls, fired : Nat]
      /\ Steps \subseteq Nat
  BY TypeParts, RoutineAssumption DEF RoutineInv, Progress, Tallies, Told, Steps
\* What the frame makes of the progress.
<1>7. /\ data' \in BOOLEAN \cup {None} /\ finished' \in BOOLEAN
      /\ cancel_sent' \in BOOLEAN /\ pushed' \in BOOLEAN
      /\ \/ routine_status' \in {routine_status, None}
         \/ frame.kind = "status" /\ routine_status' = frame.value
      /\ \/ running_status' \in {running_status, None}
         \/ frame.kind = "status" /\ running_status' = frame.value
  <2>1. CASE frame.kind = "state"
    BY <1>1, <1>4, <1>6, <2>1 DEF TakeState, Ended
  <2>2. CASE frame.kind = "status"
    BY <1>1, <1>4, <1>6, <2>2 DEF TakeStatus
  <2> QED
    BY <1>4, <2>1, <2>2
<1>8. /\ tasksFired' \in [1..Tasks -> Nat]
      /\ \A t \in 1..Tasks :
            \/ tasksFired'[t] = tasksFired[t]
            \/ frame.kind = "status" /\ running_status = t
                  /\ frame.value > t
  <2>1. CASE tasksFired' = tasksFired
    BY <1>6, <2>1
  <2>2. CASE /\ frame.kind = "status"
             /\ tasksFired' = [t \in 1..Tasks |->
                   tasksFired[t]
                     + Cardinality(Completed(running_status, frame.value) \cap {t})]
    <3>1. ASSUME NEW t \in 1..Tasks
          PROVE  /\ tasksFired'[t] \in Nat
                 /\ \/ tasksFired'[t] = tasksFired[t]
                    \/ running_status = t /\ frame.value > t
      <4>1. tasksFired[t] \in Nat /\ frame.value \in Nat /\ t \in Nat
        <5>1. tasksFired[t] \in Nat
          BY <1>6
        <5>2. frame.value \in Nat
          BY <1>4, <1>6, <2>2
        <5> QED
          BY <5>1, <5>2, RoutineAssumption
      <4>2. tasksFired'[t] = tasksFired[t]
               + Cardinality(Completed(running_status, frame.value) \cap {t})
        BY <2>2
      <4>3. /\ Cardinality(Completed(running_status, frame.value) \cap {t}) \in Nat
            /\ running_status = None \/ running_status # t \/ frame.value <= t =>
                 Cardinality(Completed(running_status, frame.value) \cap {t}) = 0
        BY <4>1, CompletedFacts
      <4> QED
        BY <4>1, <4>2, <4>3
    <3>2. tasksFired' \in [1..Tasks -> Nat]
      BY <2>2, <3>1
    <3> QED
      BY <2>2, <3>1, <3>2
  <2>3. CASE frame.kind = "state"
    BY <1>1, <2>1, <2>3 DEF TakeState
  <2>4. CASE frame.kind = "status"
    BY <1>1, <2>1, <2>2, <2>4 DEF TakeStatus, Baseline
  <2> QED
    BY <1>4, <2>3, <2>4
<1>9. /\ outcomes' \in [Runs -> Seq(Outcomes)]
      /\ cancels' \in [sent : 0..MaxCalls, fired : Nat]
      /\ cancels'.sent = cancels.sent
      /\ \/ cancels'.fired = cancels.fired
               /\ (cancel_sent' = FALSE \/ cancel_sent' = cancel_sent)
         \/ /\ cancels'.fired = cancels.fired + 1
            /\ cancel_sent = TRUE /\ cancel_sent' = FALSE
  <2>1. CASE NoOutcome /\ cancel_sent' \in {FALSE, cancel_sent}
    BY <1>6, <2>1 DEF NoOutcome
  <2>2. CASE /\ Fire("routine_completed", frame.run)
             /\ cancel_sent' = cancel_sent
    <3>1. /\ outcomes' \in [Runs -> Seq(Outcomes)]
          /\ cancels' \in [sent : 0..MaxCalls, fired : Nat]
          /\ cancels'.sent = cancels.sent
          /\ cancels'.fired = cancels.fired + 0
      BY <2>2, FireFacts
    <3>2. cancels.fired + 0 = cancels.fired
      BY <1>6
    <3> QED
      BY <2>2, <3>1, <3>2
  <2>3. CASE /\ Fire("routine_expired", frame.run)
             /\ cancel_sent' = FALSE
    <3>1. /\ outcomes' \in [Runs -> Seq(Outcomes)]
          /\ cancels' \in [sent : 0..MaxCalls, fired : Nat]
          /\ cancels'.sent = cancels.sent
          /\ cancels'.fired = cancels.fired + 0
      BY <2>3, FireFacts
    <3>2. cancels.fired + 0 = cancels.fired
      BY <1>6
    <3> QED
      BY <2>3, <3>1, <3>2
  <2>4. CASE /\ Fire("routine_cancelled", frame.run)
             /\ cancel_sent = TRUE /\ cancel_sent' = FALSE
    <3>1. /\ outcomes' \in [Runs -> Seq(Outcomes)]
          /\ cancels' \in [sent : 0..MaxCalls, fired : Nat]
          /\ cancels'.sent = cancels.sent
          /\ cancels'.fired = cancels.fired + 1
      BY <2>4, FireFacts
    <3>2. cancels.fired + 0 = cancels.fired
      BY <1>6
    <3> QED
      BY <2>4, <3>1, <3>2
  <2>5. CASE frame.kind = "state"
    <3>1. \/ NoOutcome /\ cancel_sent' \in {FALSE, cancel_sent}
          \/ cancel_sent' = FALSE
             /\ Fire(IF cancel_sent THEN "routine_cancelled"
                     ELSE "routine_expired", frame.run)
      BY <1>1, <2>5 DEF TakeState, Ended
    <3>2. CASE cancel_sent
      BY <1>6, <2>1, <2>4, <3>1, <3>2
    <3>3. CASE ~cancel_sent
      BY <2>1, <2>3, <3>1, <3>3
    <3> QED
      BY <3>2, <3>3
  <2>6. CASE frame.kind = "status"
    <3>1. cancel_sent' = cancel_sent
          /\ (NoOutcome \/ Fire("routine_completed", frame.run))
      BY <1>1, <2>6 DEF TakeStatus
    <3> QED
      BY <2>1, <2>2, <3>1
  <2> QED
    BY <1>4, <2>5, <2>6
<1>10. Cancelling'
  <2>1. /\ cancels.fired + (IF cancel_sent THEN 1 ELSE 0) <= cancels.sent
        /\ cancels.sent <= calls
        /\ cancels.fired \in Nat /\ cancels.sent \in Nat
    BY <1>6 DEF RoutineInv, Cancelling
  <2>2. CASE cancels'.fired = cancels.fired /\ cancel_sent' = FALSE
    BY <1>1, <1>9, <2>1, <2>2 DEF Cancelling
  <2>3. CASE cancels'.fired = cancels.fired /\ cancel_sent' = cancel_sent
    BY <1>1, <1>9, <2>1, <2>3 DEF Cancelling
  <2>4. CASE /\ cancels'.fired = cancels.fired + 1
             /\ cancel_sent = TRUE /\ cancel_sent' = FALSE
    <3>1. cancels.fired + 1 <= cancels.sent
      BY <2>1, <2>4
    <3> QED
      BY <1>1, <1>9, <2>1, <2>4, <3>1 DEF Cancelling
  <2> QED
    BY <1>9, <2>2, <2>3, <2>4
<1>11. Following'
  <2>1. ASSUME NEW t \in 1..Tasks, tasksDone'[t] = 0
        PROVE  /\ Stays(t, running_status)' /\ Stays(t, routine_status)'
               /\ Stays(t, read.status)' /\ StaysInAir(t)'
               /\ tasksFired'[t] = 0
    <3>1. /\ Stays(t, running_status) /\ Stays(t, routine_status)
          /\ Stays(t, read.status) /\ StaysInAir(t)
          /\ tasksFired[t] = 0 /\ t \in Nat
      BY <1>1, <2>1, RoutineAssumption DEF RoutineInv, Following
    <3>2. /\ Below(t, air) => Below(t, air')
          /\ Below(t, air) /\ frame.kind = "status" => frame.value <= t
          /\ frame.kind = "status" /\ frame.value <= t =>
                Below(t, air') /\ device'.step <= t
          /\ StaysInAir(t)'
      BY <1>1, <1>2, <3>1, TailKeeps DEF StaysInAir, frame
    <3>3. Stays(t, running_status)'
      BY <1>1, <1>7, <3>1, <3>2 DEF Stays
    <3>4. Stays(t, routine_status)'
      BY <1>1, <1>7, <3>1, <3>2 DEF Stays
    <3>5. Stays(t, read.status)'
      BY <1>1, <1>5, <3>1, <3>2 DEF Stays
    <3>6. ASSUME frame.kind = "status", running_status = t, frame.value > t
          PROVE  FALSE
      <4>1. Below(t, air)
        <5>1. running_status # None
          BY <3>1, <3>6, RoutineAssumption
        <5> QED
          BY <3>1, <3>6, <5>1 DEF Stays
      <4>2. frame.value <= t /\ frame.value \in Nat
        BY <1>4, <1>6, <3>2, <3>6, <4>1
      <4> QED
        BY <3>1, <3>6, <4>2
    <3>7. tasksFired'[t] = 0
      BY <1>8, <3>1, <3>6
    <3> QED
      BY <3>2, <3>3, <3>4, <3>5, <3>7
  <2> QED
    BY <2>1 DEF Following
<1>12. TypeOK'
  <2>1. Progress'
    BY <1>1, <1>3, <1>4, <1>6, <1>7 DEF Progress
  <2>2. Tallies' /\ Told' /\ Bounds'
    BY <1>1, <1>8, <1>9, TypeParts DEF RoutineInv, Tallies, Told, Bounds
  <2>3. Requests'
    BY <1>1, <1>5, TypeParts DEF RoutineInv, Requests
  <2> QED
    BY <1>1, <1>2, <2>1, <2>2, <2>3, TypeParts, TypePartsNext DEF RoutineInv
<1>13. Numbered' /\ Unlinked'
  BY <1>1, <1>3 DEF RoutineInv, Numbered, Unlinked
<1> QED
  BY <1>10, <1>11, <1>12, <1>13 DEF RoutineInv

LEMMA RoutineInit == Init => RoutineInv
<1> SUFFICES ASSUME Init PROVE RoutineInv
  OBVIOUS
<1>1. TypeOK
  <2>1. outcomes \in [Runs -> Seq(Outcomes)]
    BY DEF Init
  <2>2. tasksDone \in [1..Tasks -> Nat] /\ tasksFired \in [1..Tasks -> Nat]
    BY DEF Init, NoTasks
  <2>3. device \in [run : 0..MaxRuns, mode : BOOLEAN, step : Steps]
    BY RoutineAssumption DEF Init, Steps
  <2>4. cancels \in [sent : 0..MaxCalls, fired : Nat]
    BY RoutineAssumption DEF Init
  <2>5. /\ sessions \in 0..MaxSessions /\ lost \in 0..MaxLost
        /\ calls \in 0..MaxCalls
    BY RoutineAssumption DEF Init
  <2>6. air \in Seq(Frames)
    BY DEF Init
  <2>7. Progress /\ Requests
    BY DEF Init, Progress, Requests, NoRead
  <2>8. Tallies /\ Told /\ Bounds
    <3>1. Tallies
      BY <2>2 DEF Tallies
    <3>2. Told
      BY <2>1, <2>4 DEF Init, Told
    <3>3. Bounds
      BY <2>5 DEF Bounds
    <3> QED
      BY <3>1, <3>2, <3>3
  <2> QED
    BY <2>3, <2>6, <2>7, <2>8, TypeParts DEF Devices
<1>2. Numbered /\ Unlinked
  BY DEF Init, Numbered, Unlinked
<1>3. Cancelling
  BY DEF Init, Cancelling
<1>4. Following
  <2>1. DOMAIN air = {}
    BY DEF Init
  <2>2. \A t \in 1..Tasks : tasksFired[t] = 0
    BY DEF Init, NoTasks
  <2> QED
    BY <2>1, <2>2 DEF Init, Following, Stays, StaysInAir, NoRead
<1> QED
  BY <1>1, <1>2, <1>3, <1>4 DEF RoutineInv

LEMMA RoutineStutters ==
    ASSUME RoutineInv, UNCHANGED vars
    PROVE  RoutineInv'
<1>1. /\ UNCHANGED <<data, routine_status, running_status, finished,
                     cancel_sent, pushed, read, write, link, air, device>>
      /\ UNCHANGED <<tasksDone, tasksFired, outcomes, cancels, final, sessions,
                     lost, calls>>
  BY DEF vars, progress, history, budget
<1>2. TypeOK'
  <2>1. TypeOK
    BY DEF RoutineInv
  <2>2. Progress' /\ Requests'
    <3>1. Progress'
      BY <1>1, <2>1, TypeParts DEF Progress
    <3>2. Requests'
      BY <1>1, <2>1, TypeParts DEF Requests
    <3> QED
      BY <3>1, <3>2
  <2>3. Tallies' /\ Told' /\ Bounds'
    <3>1. Tallies'
      BY <1>1, <2>1, TypeParts DEF Tallies
    <3>2. Told'
      BY <1>1, <2>1, TypeParts DEF Told
    <3>3. Bounds'
      BY <1>1, <2>1, TypeParts DEF Bounds
    <3> QED
      BY <3>1, <3>2, <3>3
  <2>4. air' \in Seq(Frames)
    BY <1>1, <2>1, TypeParts
  <2> QED
    BY <1>1, <2>1, <2>2, <2>3, <2>4, TypeParts, TypePartsNext
<1>3. Numbered' /\ Unlinked' /\ Cancelling'
  BY <1>1 DEF RoutineInv, Numbered, Unlinked, Cancelling
<1>4. Following'
  BY <1>1 DEF RoutineInv, Following, Stays, StaysInAir, Below
<1> QED
  BY <1>2, <1>3, <1>4 DEF RoutineInv

LEMMA RoutineIsInductive == Spec => []RoutineInv
<1>1. RoutineInv /\ [Next]_vars => RoutineInv'
  <2> SUFFICES ASSUME RoutineInv, [Next]_vars PROVE RoutineInv'
    OBVIOUS
  <2>1. CASE Connect
    BY <2>1, ConnectStep
  <2>2. CASE SessionEnds
    BY <2>2, SessionEndsStep
  <2>3. CASE Deliver
    BY <2>3, DeliverStep
  <2>4. CASE ReadState
    BY <2>4, ReadStateStep
  <2>5. CASE OnlyState
    BY <2>5, OnlyStateStep
  <2>6. CASE ReadStatus
    BY <2>6, ReadStatusStep
  <2>7. CASE ReadEnds
    BY <2>7, ReadEndsStep
  <2>8. ASSUME NEW control \in Controls, RoutineControl(control)
        PROVE  RoutineInv'
    BY <2>8, RoutineControlStep
  <2>9. CASE Acknowledged
    BY <2>9, AcknowledgedStep
  <2>10. CASE DeviceMoves
    BY <2>10, DeviceMovesStep
  <2>11. CASE RoutineStarts
    BY <2>11, RoutineStartsStep
  <2>12. CASE Obeys
    BY <2>12, ObeysStep
  <2>13. CASE FrameLost
    BY <2>13, FrameLostStep
  <2>14. CASE UNCHANGED vars
    BY <2>14, RoutineStutters
  <2> QED
    BY <2>1, <2>2, <2>3, <2>4, <2>5, <2>6, <2>7, <2>8, <2>9, <2>10, <2>11,
       <2>12, <2>13, <2>14 DEF Next
<1> QED
  BY <1>1, RoutineInit, PTL DEF Spec

-----------------------------------------------------------------------------
(* The theorems.                                                           *)

\* The state of the routine progress keeps its types, and a session that is
\* over leaves no routine mode, status, finished mark or sent cancel behind
\* (_invalidate), for every number of tasks, runs, sessions and frames.
THEOREM RoutineTypes == Spec => []TypeOK
<1>1. RoutineInv => TypeOK
  BY DEF RoutineInv
<1> QED
  BY <1>1, RoutineIsInductive, PTL

\* task_completed is fired only for a task that the device completed after the
\* session opened, whatever the read resumes, whatever frame is lost and however
\* many frames are in flight (_take_routine_status, _read_snapshot).
THEOREM OnlySeenTasksFire == Spec => []NothingInferred
<1>1. RoutineInv => NothingInferred
  <2> SUFFICES ASSUME RoutineInv, NEW t \in 1..Tasks, tasksFired[t] > 0
               PROVE  tasksDone[t] > 0
    BY DEF NothingInferred
  <2>1. tasksDone[t] \in Nat
    BY DEF RoutineInv, TypeOK
  <2>2. tasksDone[t] # 0
    BY DEF RoutineInv, Following
  <2> QED
    BY <2>1, <2>2
<1> QED
  BY <1>1, RoutineIsInductive, PTL

\* Cancelled is never reported more often than Home Assistant sent a cancel
\* command, across sessions and routines (_routine_ended, _cancel_sent).
THEOREM CancelsAreOurs == Spec => []CancelledIsOurs
<1>1. RoutineInv => CancelledIsOurs
  <2> SUFFICES ASSUME RoutineInv PROVE CancelledIsOurs
    OBVIOUS
  <2>1. cancels.fired \in Nat /\ cancels.sent \in Nat
    BY DEF RoutineInv, TypeOK
  <2>2. cancels.fired + (IF cancel_sent THEN 1 ELSE 0) <= cancels.sent
    BY DEF RoutineInv, Cancelling
  <2> QED
    BY <2>1, <2>2 DEF CancelledIsOurs
<1> QED
  BY <1>1, RoutineIsInductive, PTL

-----------------------------------------------------------------------------
(* The outcomes of a routine.                                              *)

IsFinal(frame) == frame.kind = "status" /\ AllDone(frame.value)

\* The device is through with a routine: it has ended, or shows all tasks done.
Over(r) == device.run > r \/ (device.run = r /\ ~device.mode)
Done(r) == Over(r) \/ (device.run = r /\ AllDone(device.step))

\* Frames come in the order in which the device ran its routines, and never
\* show routine mode again for a routine that they showed ended.
Before(a, b) ==
    /\ a.run <= b.run
    /\ a.kind = "state" /\ ~a.value /\ b.kind = "state" /\ b.value =>
          a.run < b.run
Sent(a) ==
    /\ a.run <= device.run
    /\ a.kind = "state" /\ ~a.value => Over(a.run)
    /\ IsFinal(a) => Done(a.run)
InOrder ==
    /\ \A i \in DOMAIN air : Sent(air[i])
    /\ \A i, j \in DOMAIN air : i < j => Before(air[i], air[j])

\* No frame on its way makes this session report routine r again: the session
\* has marked it finished, or has seen its end.
Settled(r) ==
    \/ /\ finished /\ r <= device.run
       /\ \A i \in DOMAIN air : r <= air[i].run
    \/ /\ Over(r)
       /\ data = TRUE => r < device.run
       /\ \A i \in DOMAIN air :
             /\ r <= air[i].run
             /\ data = TRUE => r < air[i].run
             /\ air[i].kind = "state" /\ air[i].value => r < air[i].run

\* A frame that shows routine r all done finds only baselines that do so too.
OnlyAllDone ==
    \A s \in {running_status, routine_status, read.status} :
       s # None => AllDone(s)
Safe(r) ==
    /\ device.run = r /\ AllDone(device.step) =>
          /\ OnlyAllDone
          /\ \A i \in DOMAIN air : air[i].kind = "status" => IsFinal(air[i])
    /\ \A j \in DOMAIN air : IsFinal(air[j]) /\ air[j].run = r =>
          /\ OnlyAllDone
          /\ \A i \in DOMAIN air :
                i < j /\ air[i].kind = "status" => IsFinal(air[i])

Reported(r) ==
    \E i \in DOMAIN outcomes[r] : outcomes[r][i].session = sessions
Completion(r, i) == outcomes[r][i].event = "routine_completed"

SettledOnce == link => \A r \in Runs : Reported(r) => Settled(r)
DoneOnce ==
    \A r \in Runs : \A i \in DOMAIN outcomes[r] :
       Completion(r, i) => Done(r) /\ (Safe(r) \/ (link /\ Settled(r)))
OneCompletion ==
    \A r \in Runs : \A i, j \in DOMAIN outcomes[r] :
       Completion(r, i) /\ Completion(r, j) => i = j
Past ==
    \A r \in Runs : \A i \in DOMAIN outcomes[r] :
       outcomes[r][i].session <= sessions
OutcomeInv ==
    InOrder /\ SettledOnce /\ DoneOnce /\ OneCompletion /\ Past /\ OneOutcome

LEMMA FrameParts ==
    ASSUME NEW frame \in Frames
    PROVE  /\ frame.run \in Nat /\ frame.kind \in {"state", "status"}
           /\ frame.kind = "state" => frame.value \in BOOLEAN
           /\ frame.kind = "status" => frame.value \in Nat
BY RoutineAssumption DEF Frames, Steps

LEMMA DeviceParts ==
    ASSUME NEW d \in Devices
    PROVE  d.run \in Nat /\ d.mode \in BOOLEAN /\ d.step \in Nat
BY RoutineAssumption DEF Devices, Steps

\* What the device does to its routine: nothing, a step or its end, a new one.
Moved ==
    \/ device' = device
    \/ /\ device.mode /\ device'.run = device.run
       /\ AllDone(device.step) => ~device'.mode
       /\ ~device'.mode => ~AllDone(device'.step)
    \/ /\ ~device.mode /\ device'.run = device.run + 1
       /\ device'.mode /\ ~AllDone(device'.step)

\* A frame of the device as it is now, and such frames behind those in flight.
Fresh(frame) ==
    /\ frame.run = device'.run
    /\ frame.kind = "state" => frame.value = device'.mode
    /\ frame.kind = "status" => frame.value = device'.step
Grown ==
    \A i \in DOMAIN air' :
       /\ air'[i] \in Frames
       /\ \/ i \in DOMAIN air /\ air'[i] = air[i]
          \/ i \notin DOMAIN air /\ Fresh(air'[i])
       /\ i \notin DOMAIN air =>
             \A j \in DOMAIN air' : i < j => j \notin DOMAIN air

LEMMA PushGrows ==
    ASSUME air \in Seq(Frames), NEW frames \in Seq(Frames), Push(frames),
           \A i \in DOMAIN frames : Fresh(frames[i])
    PROVE  Grown
<1>1. CASE air' = air
  BY <1>1 DEF Grown
<1>2. CASE air' = air \o frames
  <2>1. /\ Len(air) \in Nat /\ Len(frames) \in Nat
        /\ Len(air') = Len(air) + Len(frames)
        /\ DOMAIN air = 1..Len(air) /\ DOMAIN air' = 1..Len(air')
        /\ DOMAIN frames = 1..Len(frames)
        /\ \A i \in 1..Len(air') :
              air'[i] = IF i <= Len(air) THEN air[i] ELSE frames[i - Len(air)]
    BY <1>2, ConcatProperties
  <2>2. ASSUME NEW i \in DOMAIN air'
        PROVE  /\ air'[i] \in Frames
               /\ \/ i \in DOMAIN air /\ air'[i] = air[i]
                  \/ i \notin DOMAIN air /\ Fresh(air'[i])
    <3>1. CASE i <= Len(air)
      <4>1. i \in DOMAIN air /\ air'[i] = air[i]
        BY <2>1, <3>1
      <4> QED
        BY <4>1
    <3>2. CASE i > Len(air)
      <4>1. i - Len(air) \in DOMAIN frames /\ air'[i] = frames[i - Len(air)]
            /\ i \notin DOMAIN air
        BY <2>1, <3>2
      <4>2. frames[i - Len(air)] \in Frames
        BY <4>1
      <4> QED
        BY <4>1, <4>2
    <3> QED
      BY <2>1, <3>1, <3>2
  <2>3. \A i, j \in DOMAIN air' : i \notin DOMAIN air /\ i < j => j \notin DOMAIN air
    BY <2>1
  <2> QED
    BY <2>2, <2>3 DEF Grown
<1> QED
  BY <1>1, <1>2 DEF Push

LEMMA FreshFrames ==
    ASSUME device' \in Devices
    PROVE  \A frames \in {<<State(device')>>, <<Status(device')>>,
                          <<State(device'), Status(device')>>,
                          <<Status(device'), State(device')>>} :
              /\ frames \in Seq(Frames)
              /\ \A i \in DOMAIN frames : Fresh(frames[i])
<1>1. State(device') \in Frames /\ Fresh(State(device'))
  BY DEF State, Frames, Fresh, Devices
<1>2. Status(device') \in Frames /\ Fresh(Status(device'))
  BY DEF Status, Frames, Fresh, Devices
<1> DEFINE a == State(device')
           b == Status(device')
<1> HIDE DEF a, b
<1>3. a \in Frames /\ Fresh(a) /\ b \in Frames /\ Fresh(b)
  BY <1>1, <1>2 DEF a, b
<1> HIDE DEF Frames, Fresh
<1>4. /\ <<a>> \in Seq(Frames) /\ \A i \in DOMAIN <<a>> : Fresh(<<a>>[i])
      /\ <<b>> \in Seq(Frames) /\ \A i \in DOMAIN <<b>> : Fresh(<<b>>[i])
  BY <1>3
<1>5. /\ <<a, b>> \in Seq(Frames)
      /\ \A i \in DOMAIN <<a, b>> : Fresh(<<a, b>>[i])
  BY <1>3
<1>6. /\ <<b, a>> \in Seq(Frames)
      /\ \A i \in DOMAIN <<b, a>> : Fresh(<<b, a>>[i])
  BY <1>3
<1> QED
  BY <1>4, <1>5, <1>6 DEF a, b

LEMMA DoneStays ==
    ASSUME device \in Devices, device' \in Devices, Moved, NEW r \in Nat
    PROVE  /\ Over(r) => Over(r)'
           /\ Done(r) => Done(r)'
           /\ device.run <= device'.run
           /\ Over(r) /\ device'.mode => r < device'.run
           /\ Done(r) /\ device'.run = r /\ AllDone(device'.step) =>
                 device' = device
<1>1. /\ device.run \in Nat /\ device'.run \in Nat
      /\ device.mode \in BOOLEAN /\ device'.mode \in BOOLEAN
  BY DeviceParts
<1> QED
  BY <1>1 DEF Moved, Over, Done

-----------------------------------------------------------------------------
(* Frames that the device pushes, and frames that are taken.               *)

LEMMA GrownOrder ==
    ASSUME air \in Seq(Frames), device \in Devices, device' \in Devices,
           Moved, Grown, InOrder
    PROVE  InOrder'
<1>1. ASSUME NEW i \in DOMAIN air' PROVE Sent(air[i])'
  <2>1. air'[i].run \in Nat
    BY FrameParts DEF Grown
  <2>2. CASE i \in DOMAIN air /\ air'[i] = air[i]
    <3>1. Sent(air[i])
      BY <2>2 DEF InOrder
    <3> QED
      BY <2>1, <2>2, <3>1, DoneStays, DeviceParts DEF Sent, IsFinal
  <2>3. CASE Fresh(air'[i])
    BY <2>1, <2>3, DeviceParts DEF Sent, Fresh, Over, Done, IsFinal
  <2> QED
    BY <2>2, <2>3 DEF Grown
<1>2. ASSUME NEW i \in DOMAIN air', NEW j \in DOMAIN air', i < j
      PROVE  Before(air'[i], air'[j])
  <2>1. /\ air'[i] \in Frames /\ air'[j] \in Frames
        /\ air'[i].run \in Nat /\ air'[j].run \in Nat
    BY FrameParts DEF Grown
  <2>2. CASE j \in DOMAIN air
    <3>1. i \in DOMAIN air /\ air'[i] = air[i] /\ air'[j] = air[j]
      BY <1>2, <2>2 DEF Grown
    <3> QED
      BY <1>2, <2>2, <3>1 DEF InOrder
  <2>3. CASE j \notin DOMAIN air
    <3>1. Fresh(air'[j])
      BY <2>3 DEF Grown
    <3>2. CASE i \in DOMAIN air /\ air'[i] = air[i]
      <4>1. Sent(air[i])
        BY <3>2 DEF InOrder
      <4>2. air'[i].run <= device'.run
        BY <2>1, <3>2, <4>1, DoneStays, DeviceParts DEF Sent
      <4>3. Over(air'[i].run) /\ device'.mode => air'[i].run < device'.run
        BY <2>1, DoneStays
      <4> QED
        BY <3>1, <3>2, <4>1, <4>2, <4>3 DEF Sent, Fresh, Before
    <3>3. CASE Fresh(air'[i])
      BY <2>1, <3>1, <3>3 DEF Fresh, Before
    <3> QED
      BY <3>2, <3>3 DEF Grown
  <2> QED
    BY <2>2, <2>3
<1> QED
  BY <1>1, <1>2 DEF InOrder

LEMMA GrownSettled ==
    ASSUME device \in Devices, device' \in Devices, Moved, Grown,
           UNCHANGED <<finished, data>>, NEW r \in Nat, Settled(r)
    PROVE  Settled(r)'
<1>1. /\ device.run \in Nat /\ device'.run \in Nat
      /\ device.run <= device'.run
  BY DoneStays, DeviceParts
<1>2. ASSUME NEW i \in DOMAIN air'
      PROVE  /\ air'[i].run \in Nat
             /\ \/ i \in DOMAIN air /\ air'[i] = air[i]
                \/ Fresh(air'[i])
  BY FrameParts DEF Grown
<1>3. CASE /\ finished /\ r <= device.run
           /\ \A i \in DOMAIN air : r <= air[i].run
  <2>1. \A i \in DOMAIN air' : r <= air'[i].run
    BY <1>1, <1>2, <1>3 DEF Fresh
  <2> QED
    BY <1>1, <1>3, <2>1 DEF Settled
<1>4. CASE /\ Over(r)
           /\ data = TRUE => r < device.run
           /\ \A i \in DOMAIN air :
                 /\ r <= air[i].run
                 /\ data = TRUE => r < air[i].run
                 /\ air[i].kind = "state" /\ air[i].value => r < air[i].run
  <2>1. /\ Over(r)' /\ r <= device.run /\ device'.mode => r < device'.run
        /\ data' = TRUE => r < device'.run
    BY <1>1, <1>4, DoneStays DEF Over
  <2>2. Over(r)' /\ (device'.mode => r < device'.run) /\ r <= device'.run
    BY <1>1, <1>4, DoneStays DEF Over
  <2>3. ASSUME NEW i \in DOMAIN air'
        PROVE  /\ r <= air'[i].run
               /\ data' = TRUE => r < air'[i].run
               /\ air'[i].kind = "state" /\ air'[i].value => r < air'[i].run
    <3>1. CASE i \in DOMAIN air /\ air'[i] = air[i]
      BY <1>4, <3>1
    <3>2. CASE Fresh(air'[i])
      BY <1>1, <1>2, <2>1, <2>2, <3>2 DEF Fresh
    <3> QED
      BY <1>2, <3>1, <3>2
  <2> QED
    BY <2>1, <2>2, <2>3 DEF Settled
<1> QED
  BY <1>3, <1>4 DEF Settled

LEMMA GrownSafe ==
    ASSUME device \in Devices, device' \in Devices, Moved, Grown,
           OnlyAllDone => OnlyAllDone', NEW r \in Nat, Done(r), Safe(r)
    PROVE  Safe(r)'
<1>1. ASSUME device'.run = r, AllDone(device'.step)
      PROVE  /\ OnlyAllDone'
             /\ \A i \in DOMAIN air' : air'[i].kind = "status" => IsFinal(air'[i])
  <2>1. device' = device
    BY <1>1, DoneStays
  <2> QED
    BY <1>1, <2>1 DEF Safe, Grown, Fresh, IsFinal
<1>2. ASSUME NEW j \in DOMAIN air', IsFinal(air'[j]), air'[j].run = r
      PROVE  /\ OnlyAllDone'
             /\ \A i \in DOMAIN air' :
                   i < j /\ air'[i].kind = "status" => IsFinal(air'[i])
  <2>1. CASE j \in DOMAIN air
    <3>1. air'[j] = air[j]
      BY <2>1 DEF Grown
    <3>2. \A i \in DOMAIN air' : i < j => i \in DOMAIN air /\ air'[i] = air[i]
      BY <2>1 DEF Grown
    <3> QED
      BY <1>2, <2>1, <3>1, <3>2 DEF Safe
  <2>2. CASE j \notin DOMAIN air
    <3>1. device'.run = r /\ AllDone(device'.step)
      BY <1>2, <2>2 DEF Grown, Fresh, IsFinal
    <3> QED
      BY <1>1, <3>1
  <2> QED
    BY <2>1, <2>2
<1> QED
  BY <1>1, <1>2 DEF Safe

\* A frame leaves: the ones behind it keep their order.
LEMMA TailFacts ==
    ASSUME air \in Seq(Frames), air # <<>>, air' = Tail(air)
    PROVE  /\ 1 \in DOMAIN air /\ Head(air) = air[1] /\ air[1] \in Frames
           /\ \A i \in DOMAIN air' :
                 /\ i + 1 \in DOMAIN air /\ air'[i] = air[i + 1]
                 /\ i \in Nat /\ 1 < i + 1 /\ air'[i] \in Frames
<1>1. /\ Tail(air) \in Seq(Frames) /\ Head(air) \in Frames
      /\ Len(Tail(air)) = Len(air) - 1 /\ Len(air) \in Nat /\ Len(air) > 0
      /\ \A i \in 1..Len(Tail(air)) : Tail(air)[i] = air[i + 1]
      /\ Head(air) = air[1]
  BY HeadTailProperties, EmptySeq
<1>2. DOMAIN air = 1..Len(air) /\ DOMAIN Tail(air) = 1..Len(Tail(air))
  BY <1>1
<1>3. \A i \in DOMAIN Tail(air) :
         i + 1 \in DOMAIN air /\ Tail(air)[i] = air[i + 1] /\ i \in Nat
         /\ 1 < i + 1 /\ Tail(air)[i] \in Frames
  BY <1>1, <1>2
<1> QED
  BY <1>1, <1>2, <1>3

LEMMA TailOrder ==
    ASSUME air \in Seq(Frames), air # <<>>, air' = Tail(air),
           device' = device, InOrder
    PROVE  InOrder'
<1>1. \A i \in DOMAIN air' : i + 1 \in DOMAIN air /\ air'[i] = air[i + 1]
                             /\ i \in Nat
  BY TailFacts
<1>2. ASSUME NEW i \in DOMAIN air' PROVE Sent(air[i])'
  BY <1>1 DEF InOrder, Sent, Over, Done, IsFinal
<1>3. ASSUME NEW i \in DOMAIN air', NEW j \in DOMAIN air', i < j
      PROVE  Before(air'[i], air'[j])
  BY <1>1, <1>3 DEF InOrder
<1> QED
  BY <1>2, <1>3 DEF InOrder

LEMMA TailSettled ==
    ASSUME air \in Seq(Frames), air # <<>>, air' = Tail(air),
           UNCHANGED <<device, finished, data>>, NEW r \in Nat, Settled(r)
    PROVE  Settled(r)'
<1>1. \A i \in DOMAIN air' : i + 1 \in DOMAIN air /\ air'[i] = air[i + 1]
  BY TailFacts
<1>2. CASE /\ finished /\ r <= device.run
           /\ \A i \in DOMAIN air : r <= air[i].run
  BY <1>1, <1>2 DEF Settled
<1>3. CASE /\ Over(r)
           /\ data = TRUE => r < device.run
           /\ \A i \in DOMAIN air :
                 /\ r <= air[i].run
                 /\ data = TRUE => r < air[i].run
                 /\ air[i].kind = "state" /\ air[i].value => r < air[i].run
  <2>1. Over(r)' /\ (data' = TRUE => r < device'.run)
    BY <1>3 DEF Over
  <2>2. \A i \in DOMAIN air' :
           /\ r <= air'[i].run
           /\ data' = TRUE => r < air'[i].run
           /\ air'[i].kind = "state" /\ air'[i].value => r < air'[i].run
    BY <1>1, <1>3
  <2> QED
    BY <2>1, <2>2 DEF Settled
<1> QED
  BY <1>2, <1>3 DEF Settled

\* A status that leaves becomes a baseline, or was lost.
LEMMA TailSafe ==
    ASSUME air \in Seq(Frames), air # <<>>, air' = Tail(air),
           device' = device, NEW r,
           OnlyAllDone /\ (Head(air).kind = "status" => IsFinal(Head(air)))
              => OnlyAllDone',
           Safe(r)
    PROVE  Safe(r)'
<1>1. /\ \A i \in DOMAIN air' :
            /\ i + 1 \in DOMAIN air /\ air'[i] = air[i + 1]
            /\ i \in Nat /\ 1 < i + 1
      /\ 1 \in DOMAIN air /\ Head(air) = air[1]
  BY TailFacts
<1>2. ASSUME device'.run = r, AllDone(device'.step)
      PROVE  /\ OnlyAllDone'
             /\ \A i \in DOMAIN air' : air'[i].kind = "status" => IsFinal(air'[i])
  <2>1. /\ OnlyAllDone
        /\ \A i \in DOMAIN air : air[i].kind = "status" => IsFinal(air[i])
    BY <1>2 DEF Safe
  <2> QED
    BY <1>1, <2>1
<1>3. ASSUME NEW j \in DOMAIN air', IsFinal(air'[j]), air'[j].run = r
      PROVE  /\ OnlyAllDone'
             /\ \A i \in DOMAIN air' :
                   i < j /\ air'[i].kind = "status" => IsFinal(air'[i])
  <2>1. /\ OnlyAllDone
        /\ \A i \in DOMAIN air :
              i < j + 1 /\ air[i].kind = "status" => IsFinal(air[i])
    BY <1>1, <1>3 DEF Safe
  <2>2. OnlyAllDone'
    BY <1>1, <2>1
  <2>3. ASSUME NEW i \in DOMAIN air', i < j, air'[i].kind = "status"
        PROVE  IsFinal(air'[i])
    <3>1. i + 1 \in DOMAIN air /\ i + 1 < j + 1 /\ air[i + 1].kind = "status"
      BY <1>1, <2>3
    <3> QED
      BY <1>1, <2>1, <3>1
  <2> QED
    BY <2>2, <2>3
<1> QED
  BY <1>2, <1>3 DEF Safe

-----------------------------------------------------------------------------
(* What a step may make of the outcomes of a session that goes on.         *)

\* An event for a routine that this session has not reported yet, and that no
\* session has reported completed if the event says so.
Reports ==
    \E event, q :
       /\ outcomes' = [outcomes EXCEPT
                          ![q] = Append(@, [event |-> event, session |-> sessions])]
       /\ q \in Runs =>
             /\ ~Reported(q) /\ Settled(q)'
             /\ event = "routine_completed" =>
                   Done(q)' /\ \A i \in DOMAIN outcomes[q] : ~Completion(q, i)

LEMMA OutcomesKept ==
    ASSUME OutcomeInv, Told, Bounds, InOrder',
           UNCHANGED <<link, sessions>>, link \/ outcomes' = outcomes,
           \A r \in Runs : /\ Done(r) => Done(r)'
                           /\ Settled(r) => Settled(r)'
                           /\ Done(r) /\ Safe(r) => Safe(r)',
           outcomes' = outcomes \/ Reports
    PROVE  OutcomeInv'
<1>1. sessions \in Nat /\ outcomes \in [Runs -> Seq(Outcomes)]
  BY RoutineAssumption DEF Told, Bounds
<1>2. CASE outcomes' = outcomes
  <2>1. SettledOnce'
    BY <1>2 DEF OutcomeInv, SettledOnce, Reported
  <2>2. DoneOnce'
    BY <1>2 DEF OutcomeInv, DoneOnce, Completion
  <2> QED
    BY <1>2, <2>1, <2>2
       DEF OutcomeInv, OneCompletion, Completion, Past, OneOutcome
<1>3. CASE link /\ Reports
  <2>1. PICK event, q :
           /\ outcomes' = [outcomes EXCEPT
                 ![q] = Append(@, [event |-> event, session |-> sessions])]
           /\ q \in Runs =>
                 /\ ~Reported(q) /\ Settled(q)'
                 /\ event = "routine_completed" =>
                       Done(q)' /\ \A i \in DOMAIN outcomes[q] : ~Completion(q, i)
    BY <1>3 DEF Reports
  <2>2. CASE q \notin Runs
    <3>1. outcomes' = outcomes
      BY <1>1, <2>1, <2>2
    <3> QED
      BY <1>2, <3>1
  <2>3. CASE q \in Runs
    <3> DEFINE new == [event |-> event, session |-> sessions]
    <3>1. new.event = event /\ new.session = sessions
      OBVIOUS
    <3>2. outcomes' = [outcomes EXCEPT ![q] = Append(@, new)]
      BY <2>1
    <3> HIDE DEF new
    \* One entry is new.
    <3>3. ASSUME NEW r \in Runs, NEW i \in DOMAIN outcomes'[r]
          PROVE  \/ i \in DOMAIN outcomes[r] /\ outcomes'[r][i] = outcomes[r][i]
                 \/ /\ r = q /\ i = Len(outcomes[q]) + 1
                    /\ outcomes'[r][i] = new
      <4>1. CASE r # q
        BY <1>1, <3>2, <4>1
      <4>2. CASE r = q
        <5>1. outcomes[q] \in Seq(Outcomes) /\ outcomes'[q] = Append(outcomes[q], new)
          BY <1>1, <2>3, <3>2
        <5>2. /\ DOMAIN outcomes[q] = 1..Len(outcomes[q])
              /\ DOMAIN Append(outcomes[q], new) = 1..Len(outcomes[q]) + 1
              /\ Append(outcomes[q], new)[Len(outcomes[q]) + 1] = new
              /\ \A k \in 1..Len(outcomes[q]) :
                    Append(outcomes[q], new)[k] = outcomes[q][k]
              /\ Len(outcomes[q]) \in Nat
          BY <5>1
        <5>3. i \in 1..Len(outcomes[q]) + 1
          BY <4>2, <5>1, <5>2
        <5> QED
          BY <4>2, <5>1, <5>2, <5>3
      <4> QED
        BY <4>1, <4>2
    <3>4. ASSUME NEW r \in Runs, Reported(r)' PROVE Settled(r)'
      <4>1. CASE Reported(r)
        BY <1>3, <4>1 DEF OutcomeInv, SettledOnce
      <4>2. CASE ~Reported(r)
        <5>1. r = q
          BY <1>1, <3>3, <3>4, <4>2 DEF Reported
        <5> QED
          BY <2>1, <2>3, <5>1
      <4> QED
        BY <4>1, <4>2
    <3>5. SettledOnce'
      BY <3>4 DEF SettledOnce
    <3>6. DoneOnce'
      <4>1. ASSUME NEW r \in Runs, NEW i \in DOMAIN outcomes'[r],
                   outcomes'[r][i].event = "routine_completed"
            PROVE  Done(r)' /\ (Safe(r)' \/ (link' /\ Settled(r)'))
        <5>1. CASE i \in DOMAIN outcomes[r] /\ outcomes'[r][i] = outcomes[r][i]
          BY <1>3, <4>1, <5>1 DEF OutcomeInv, DoneOnce, Completion
        <5>2. CASE r = q /\ outcomes'[r][i] = new
          BY <1>3, <2>1, <2>3, <3>1, <4>1, <5>2
        <5> QED
          BY <3>3, <5>1, <5>2
      <4> QED
        BY <4>1 DEF DoneOnce, Completion
    <3>7. OneCompletion'
      <4>1. ASSUME NEW r \in Runs, NEW i \in DOMAIN outcomes'[r],
                   NEW j \in DOMAIN outcomes'[r],
                   outcomes'[r][i].event = "routine_completed",
                   outcomes'[r][j].event = "routine_completed"
            PROVE  i = j
        BY <2>1, <2>3, <3>1, <3>3, <4>1 DEF OutcomeInv, OneCompletion, Completion
      <4> QED
        BY <4>1 DEF OneCompletion, Completion
    <3>8. Past'
      BY <1>1, <3>1, <3>3 DEF OutcomeInv, Past
    <3>9. OneOutcome'
      <4>1. ASSUME NEW r \in Runs, NEW i \in DOMAIN outcomes'[r],
                   NEW j \in DOMAIN outcomes'[r], i # j
            PROVE  outcomes'[r][i].session # outcomes'[r][j].session
        BY <2>1, <2>3, <3>1, <3>3, <4>1 DEF OutcomeInv, OneOutcome, Reported
      <4> QED
        BY <4>1 DEF OneOutcome
    <3> QED
      BY <3>5, <3>6, <3>7, <3>8, <3>9 DEF OutcomeInv
  <2> QED
    BY <2>2, <2>3
<1> QED
  BY <1>2, <1>3

-----------------------------------------------------------------------------
(* Steps of which no frame is taken.                                       *)

\* The progress of before, or less.
Baselines ==
    {running_status', routine_status', read'.status}
        \subseteq {running_status, routine_status, read.status, None}

LEMMA BaselinesKept ==
    ASSUME Baselines, OnlyAllDone
    PROVE  OnlyAllDone'
BY DEF Baselines, OnlyAllDone

LEMMA RunsAreNumbers == \A r \in Runs : r \in Nat
BY RoutineAssumption DEF Runs

LEMMA OutcomesPushed ==
    ASSUME RoutineInv, device' \in Devices, OutcomeInv, Moved, Grown, Baselines,
           UNCHANGED <<finished, data, link, sessions, outcomes>>
    PROVE  OutcomeInv'
<1>1. /\ air \in Seq(Frames) /\ device \in Devices /\ Told /\ Bounds
      /\ OnlyAllDone => OnlyAllDone'
  BY TypeParts, BaselinesKept DEF RoutineInv
<1>2. InOrder'
  BY <1>1, GrownOrder DEF OutcomeInv
<1>3. ASSUME NEW r \in Runs
      PROVE  /\ Done(r) => Done(r)'
             /\ Settled(r) => Settled(r)'
             /\ Done(r) /\ Safe(r) => Safe(r)'
  BY <1>1, RunsAreNumbers, DoneStays, GrownSettled, GrownSafe
<1> QED
  BY <1>1, <1>2, <1>3, OutcomesKept

\* Nothing that the outcomes rest on changes.
LEMMA OutcomesQuiet ==
    ASSUME RoutineInv, OutcomeInv, Baselines,
           UNCHANGED <<finished, data, link, air, device, sessions, outcomes>>
    PROVE  OutcomeInv'
<1>1. air \in Seq(Frames) /\ device' \in Devices
  BY TypeParts DEF RoutineInv
<1>2. Grown
  <2>1. \A i \in DOMAIN air : air[i] \in Frames
    BY <1>1
  <2> QED
    BY <2>1 DEF Grown
<1> QED
  BY <1>1, <1>2, OutcomesPushed DEF Moved

\* The pushes of the actions that do not move the device.
LEMMA OutcomesAsked ==
    ASSUME RoutineInv, OutcomeInv, Baselines, NEW frames, Push(frames),
           frames \in {<<State(device)>>, <<Status(device)>>},
           UNCHANGED <<finished, data, link, device, sessions, outcomes>>
    PROVE  OutcomeInv'
<1>1. air \in Seq(Frames) /\ device' \in Devices /\ device' = device
  BY TypeParts DEF RoutineInv
<1>2. /\ frames \in Seq(Frames)
      /\ \A i \in DOMAIN frames : Fresh(frames[i])
  BY <1>1, FreshFrames
<1>3. Grown
  BY <1>1, <1>2, PushGrows
<1> QED
  BY <1>1, <1>3, OutcomesPushed DEF Moved

LEMMA ReadOutcomes ==
    ASSUME RoutineInv, OutcomeInv,
           ReadState \/ OnlyState \/ ReadStatus \/ ReadEnds
    PROVE  OutcomeInv'
<1>1. /\ UNCHANGED <<finished, data, link, device, sessions, outcomes>>
      /\ read \in [at : {"no", "open", "state", "clock", "status", "rest"},
                   state : BOOLEAN \cup {None}, status : Steps \cup {None}]
  BY TypeParts DEF RoutineInv, Requests, ReadState, OnlyState, ReadStatus,
                   ReadEnds, progress, history, budget
<1>2. Baselines
  <2>1. CASE ReadState
    BY <1>1, <2>1 DEF ReadState, progress, Baselines
  <2>2. CASE OnlyState
    BY <1>1, <2>2 DEF OnlyState, progress, Baselines, NoRead
  <2>3. CASE ReadStatus
    BY <1>1, <2>3 DEF ReadStatus, progress, Baselines
  <2>4. CASE ReadEnds
    BY <1>1, <2>4 DEF ReadEnds, Baselines, NoRead
  <2> QED
    BY <2>1, <2>2, <2>3, <2>4
<1>3. CASE UNCHANGED air
  BY <1>1, <1>2, <1>3, OutcomesQuiet
<1>4. CASE Push(<<State(device)>>) \/ Push(<<Status(device)>>)
  BY <1>1, <1>2, <1>4, OutcomesAsked
<1> QED
  BY <1>3, <1>4 DEF ReadState, OnlyState, ReadStatus, ReadEnds

LEMMA CommandOutcomes ==
    ASSUME RoutineInv, OutcomeInv,
           Acknowledged \/ \E control \in Controls : RoutineControl(control)
    PROVE  OutcomeInv'
<1>1. UNCHANGED <<finished, data, link, air, device, sessions, outcomes, read,
                  running_status, routine_status>>
  BY DEF Acknowledged, RoutineControl, progress, history, budget
<1>2. Baselines
  BY <1>1 DEF Baselines
<1> QED
  BY <1>1, <1>2, OutcomesQuiet

\* What the device does, by itself or on a command, and what it then pushes.
LEMMA DeviceMoved ==
    ASSUME RoutineInv, device' \in Devices,
           Forward \/ Back \/ End \/ RoutineStarts
    PROVE  Moved /\ Grown
<1>1. /\ air \in Seq(Frames) /\ device \in [run : 0..MaxRuns, mode : BOOLEAN, step : Steps]
      /\ Tasks \in Nat \ {0} /\ device.step \in Nat
  BY TypeParts, RoutineAssumption DEF RoutineInv, Devices, Steps
<1>2. Moved
  <2>1. CASE Forward
    <3>1. /\ device.mode /\ device.step <= Tasks
          /\ device'.run = device.run /\ device'.mode = device.mode
      BY <1>1, <2>1 DEF Forward
    <3> QED
      BY <1>1, <3>1 DEF Moved, AllDone
  <2>2. CASE Back
    <3>1. /\ device.mode /\ device.step \in 2..Tasks
          /\ device' = [device EXCEPT !.step = @ - 1]
      BY <2>2 DEF Back
    <3>2. device'.run = device.run /\ device'.mode = device.mode
      BY <1>1, <3>1
    <3>3. device.step # Tasks + 1
      BY <1>1, <3>1
    <3> QED
      BY <3>1, <3>2, <3>3 DEF Moved, AllDone
  <2>3. CASE End
    <3>1. /\ device.mode /\ device'.run = device.run /\ ~device'.mode
          /\ device'.step = 0
      BY <1>1, <2>3 DEF End
    <3> QED
      BY <1>1, <3>1 DEF Moved, AllDone
  <2>4. CASE RoutineStarts
    <3>1. /\ ~device.mode /\ device'.run = device.run + 1 /\ device'.mode
          /\ device'.step = 0
      BY <1>1, <2>4 DEF RoutineStarts
    <3> QED
      BY <1>1, <3>1 DEF Moved, AllDone
  <2> QED
    BY <2>1, <2>2, <2>3, <2>4
<1>3. \E frames \in {<<State(device')>>, <<Status(device')>>,
                     <<State(device'), Status(device')>>,
                     <<Status(device'), State(device')>>} : Push(frames)
  BY DEF Forward, Back, End, RoutineStarts
<1>4. Grown
  BY <1>1, <1>3, FreshFrames, PushGrows
<1> QED
  BY <1>2, <1>4

LEMMA DeviceOutcomes ==
    ASSUME RoutineInv, device' \in Devices, OutcomeInv,
           DeviceMoves \/ RoutineStarts \/ Obeys
    PROVE  OutcomeInv'
<1>1. UNCHANGED <<finished, data, link, sessions, outcomes, read,
                  running_status, routine_status>>
  BY DEF DeviceMoves, RoutineStarts, Obeys, progress, history, budget
<1>2. Baselines
  BY <1>1 DEF Baselines
<1>3. CASE Forward \/ Back \/ End \/ RoutineStarts
  BY <1>1, <1>2, <1>3, DeviceMoved, OutcomesPushed
<1>4. CASE UNCHANGED <<device, air>>
  BY <1>1, <1>2, <1>4, OutcomesQuiet
<1> QED
  BY <1>3, <1>4 DEF DeviceMoves, Obeys

-----------------------------------------------------------------------------
(* Sessions, and frames that leave.                                        *)

LEMMA SessionOutcomes ==
    ASSUME RoutineInv, OutcomeInv, Connect \/ SessionEnds
    PROVE  OutcomeInv'
<1>1. /\ air' = <<>> /\ UNCHANGED <<device, outcomes>>
      /\ running_status' = None /\ routine_status' = None /\ read'.status = None
  <2>1. CASE Connect
    <3>1. ~link /\ read'.status = None /\ air' = air /\ device' = device
          /\ outcomes' = outcomes /\ running_status' = running_status
          /\ routine_status' = routine_status
      BY <2>1 DEF Connect, NoRead, progress
    <3>2. air = <<>> /\ running_status = None /\ routine_status = None
      BY <3>1 DEF RoutineInv, Unlinked, TypeOK
    <3> QED
      BY <3>1, <3>2
  <2>2. CASE SessionEnds
    BY <2>2 DEF SessionEnds, Forget, NoRead, history
  <2> QED
    BY <2>1, <2>2
<1>2. DOMAIN air' = {}
  BY <1>1
<1>3. sessions \in Nat /\ outcomes \in [Runs -> Seq(Outcomes)]
  BY RoutineAssumption DEF RoutineInv, TypeOK
<1>4. InOrder'
  BY <1>2 DEF InOrder
<1>5. \A r : Safe(r)'
  BY <1>1, <1>2 DEF Safe, OnlyAllDone
<1>6. \A r : Done(r) => Done(r)'
  BY <1>1 DEF Done, Over
<1>7. DoneOnce'
  BY <1>1, <1>5, <1>6 DEF OutcomeInv, DoneOnce, Completion
<1>8. OneCompletion' /\ OneOutcome'
  BY <1>1 DEF OutcomeInv, OneCompletion, OneOutcome, Completion
<1>9. SettledOnce' /\ Past'
  <2>1. CASE Connect
    <3>1. sessions' = sessions + 1
      BY <2>1 DEF Connect
    <3>2. \A r \in Runs : \A i \in DOMAIN outcomes[r] :
             outcomes[r][i].session <= sessions /\ outcomes[r][i].session \in Nat
      <4>1. ASSUME NEW r \in Runs, NEW i \in DOMAIN outcomes[r]
            PROVE  outcomes[r][i].session \in Nat
        <5>1. outcomes[r] \in Seq(Outcomes)
          BY <1>3
        <5>2. outcomes[r][i] \in Outcomes
          BY <5>1
        <5> QED
          BY <5>2 DEF Outcomes
      <4> QED
        BY <4>1 DEF OutcomeInv, Past
    <3>3. \A r \in Runs : ~Reported(r)'
      BY <1>1, <1>3, <3>1, <3>2 DEF Reported
    <3> QED
      BY <1>1, <1>3, <3>1, <3>2, <3>3 DEF SettledOnce, Past
  <2>2. CASE SessionEnds
    BY <1>1, <2>2 DEF SessionEnds, budget, OutcomeInv, SettledOnce, Past
  <2> QED
    BY <2>1, <2>2
<1> QED
  BY <1>4, <1>7, <1>8, <1>9 DEF OutcomeInv

LEMMA FrameLostOutcomes ==
    ASSUME RoutineInv, OutcomeInv, FrameLost
    PROVE  OutcomeInv'
<1>1. /\ air # <<>> /\ air' = Tail(air)
      /\ UNCHANGED <<finished, data, link, device, sessions, outcomes, read,
                     running_status, routine_status>>
  BY DEF FrameLost, progress, history
<1>2. air \in Seq(Frames) /\ Told /\ Bounds
  BY TypeParts DEF RoutineInv
<1>3. InOrder'
  BY <1>1, <1>2, TailOrder DEF OutcomeInv
<1>4. ASSUME NEW r \in Runs
      PROVE  /\ Done(r) => Done(r)'
             /\ Settled(r) => Settled(r)'
             /\ Safe(r) => Safe(r)'
  <2>1. Done(r) => Done(r)'
    BY <1>1 DEF Done, Over
  <2>2. Settled(r) => Settled(r)'
    BY <1>1, <1>2, RunsAreNumbers, TailSettled
  <2>3. OnlyAllDone => OnlyAllDone'
    BY <1>1 DEF OnlyAllDone
  <2>4. Safe(r) => Safe(r)'
    BY <1>1, <1>2, <2>3, TailSafe
  <2> QED
    BY <2>1, <2>2, <2>4
<1> QED
  BY <1>1, <1>2, <1>3, <1>4, OutcomesKept

\* The frame that arrives was sent of a routine that the device ran, and those
\* behind it are of the same routine or of later ones.
LEMMA HeadFacts ==
    ASSUME air \in Seq(Frames), air # <<>>, air' = Tail(air),
           device \in Devices, InOrder
    PROVE  /\ Head(air) \in Frames /\ Head(air).run \in Nat
           /\ Head(air).run <= device.run
           /\ Head(air).kind = "state" /\ ~Head(air).value =>
                 Over(Head(air).run)
           /\ IsFinal(Head(air)) => Done(Head(air).run)
           /\ \A i \in DOMAIN air' :
                 /\ air'[i].run \in Nat /\ Head(air).run <= air'[i].run
                 /\ Head(air).kind = "state" /\ ~Head(air).value =>
                       (air'[i].kind = "state" /\ air'[i].value =>
                           Head(air).run < air'[i].run)
<1>1. /\ 1 \in DOMAIN air /\ Head(air) = air[1] /\ air[1] \in Frames
      /\ \A i \in DOMAIN air' :
            /\ i + 1 \in DOMAIN air /\ air'[i] = air[i + 1]
            /\ i \in Nat /\ 1 < i + 1 /\ air'[i] \in Frames
  BY TailFacts
<1>2. Sent(air[1])
  BY <1>1 DEF InOrder
<1>3. ASSUME NEW i \in DOMAIN air'
      PROVE  Before(air[1], air'[i]) /\ air'[i].run \in Nat
  <2>1. Before(air[1], air[i + 1])
    BY <1>1 DEF InOrder
  <2> QED
    BY <1>1, <2>1, FrameParts
<1>4. /\ air[1] \in Frames /\ air[1].run \in Nat /\ air[1].run <= device.run
      /\ air[1].kind = "state" /\ ~air[1].value => Over(air[1].run)
      /\ IsFinal(air[1]) => Done(air[1].run)
  BY <1>1, <1>2, FrameParts DEF Sent
<1>5. \A i \in DOMAIN air' :
         /\ air'[i].run \in Nat /\ air[1].run <= air'[i].run
         /\ air[1].kind = "state" /\ ~air[1].value =>
               (air'[i].kind = "state" /\ air'[i].value =>
                   air[1].run < air'[i].run)
  BY <1>3 DEF Before
<1>6. Head(air) = air[1]
  BY <1>1
<1>7. /\ Head(air) \in Frames /\ Head(air).run \in Nat
      /\ Head(air).run <= device.run
      /\ Head(air).kind = "state" /\ ~Head(air).value => Over(Head(air).run)
      /\ IsFinal(Head(air)) => Done(Head(air).run)
  BY <1>4, <1>6, Zenon
<1>8. \A i \in DOMAIN air' :
         /\ air'[i].run \in Nat /\ Head(air).run <= air'[i].run
         /\ Head(air).kind = "state" /\ ~Head(air).value =>
               (air'[i].kind = "state" /\ air'[i].value =>
                   Head(air).run < air'[i].run)
  BY <1>5, <1>6
<1> QED
  BY <1>7, <1>8

\* What a routine already settled forbids of the frame that arrives.
LEMMA HeadOfSettled ==
    ASSUME air \in Seq(Frames), air # <<>>, NEW r \in Nat, Settled(r)
    PROVE  /\ r <= Head(air).run
           /\ ~finished /\ data = TRUE => r < Head(air).run
           /\ ~finished /\ Head(air).kind = "state" /\ Head(air).value =>
                 r < Head(air).run
<1>1. 1 \in DOMAIN air /\ Head(air) = air[1]
  BY HeadTailProperties, EmptySeq
<1> QED
  BY <1>1 DEF Settled

LEMMA DeliverSettles ==
    ASSUME RoutineInv, OutcomeInv, Deliver, NEW r \in Nat, Settled(r)
    PROVE  Settled(r)'
<1> DEFINE frame == Head(air)
<1>1. /\ air # <<>> /\ air' = Tail(air) /\ UNCHANGED device
      /\ frame.kind = "state" => TakeState(frame)
      /\ frame.kind # "state" => TakeStatus(frame)
  BY DEF Deliver
<1>2. air \in Seq(Frames) /\ device \in Devices /\ InOrder
  BY TypeParts DEF RoutineInv, OutcomeInv
<1>3. /\ frame \in Frames /\ frame.run \in Nat /\ frame.run <= device.run
      /\ frame.kind = "state" /\ ~frame.value => Over(frame.run)
      /\ device.run \in Nat /\ device.mode \in BOOLEAN
      /\ frame.kind = "state" => frame.value \in BOOLEAN
      /\ \A i \in DOMAIN air' :
            /\ air'[i].run \in Nat /\ frame.run <= air'[i].run
            /\ frame.kind = "state" /\ ~frame.value =>
                  (air'[i].kind = "state" /\ air'[i].value =>
                      frame.run < air'[i].run)
  BY <1>1, <1>2, HeadFacts, DeviceParts, FrameParts
<1>4. /\ \A i \in DOMAIN air' : i + 1 \in DOMAIN air /\ air'[i] = air[i + 1]
      /\ 1 \in DOMAIN air /\ frame = air[1]
  BY <1>1, <1>2, TailFacts
<1> HIDE DEF frame
<1>5. CASE data' = data /\ finished' = finished
  BY <1>1, <1>2, <1>5, TailSettled
\* The routine ends: what was settled by a mark is settled by the end.
<1>6. CASE frame.kind = "state" /\ ~frame.value /\ data' = FALSE
  <2>1. r <= frame.run /\ Over(r)
    <3>1. r <= frame.run
      BY <1>4 DEF Settled
    <3> QED
      BY <1>3, <1>6, <3>1 DEF Over
  <2>2. \A i \in DOMAIN air' :
           /\ r <= air'[i].run
           /\ air'[i].kind = "state" /\ air'[i].value => r < air'[i].run
    BY <1>3, <1>6, <2>1
  <2>3. Over(r)'
    BY <1>1, <2>1 DEF Over
  <2> QED
    BY <1>6, <2>2, <2>3 DEF Settled
<1>7. CASE frame.kind = "state" /\ frame.value /\ data' = TRUE
           /\ finished' = finished
  <2>1. CASE /\ finished /\ r <= device.run
             /\ \A i \in DOMAIN air : r <= air[i].run
    BY <1>1, <1>4, <1>7, <2>1 DEF Settled
  <2>2. CASE /\ Over(r)
             /\ \A i \in DOMAIN air :
                   air[i].kind = "state" /\ air[i].value => r < air[i].run
    <3>1. r < frame.run
      BY <1>4, <1>7, <2>2
    <3>2. Over(r)' /\ r < device'.run
      BY <1>1, <1>3, <2>2, <3>1 DEF Over
    <3>3. \A i \in DOMAIN air' : r < air'[i].run /\ r <= air'[i].run
      BY <1>3, <3>1
    <3> QED
      BY <3>2, <3>3 DEF Settled
  <2> QED
    BY <2>1, <2>2 DEF Settled
<1>8. CASE data' = data /\ finished' = TRUE
  <2>1. CASE finished
    BY <1>5, <1>8, <2>1 DEF RoutineInv, TypeOK
  <2>2. r <= device'.run /\ \A i \in DOMAIN air' : r <= air'[i].run
    <3>1. r <= device.run /\ \A i \in DOMAIN air : r <= air[i].run
      BY <1>3 DEF Settled, Over
    <3> QED
      BY <1>1, <1>4, <3>1
  <2> QED
    BY <1>8, <2>2 DEF Settled
<1>9. CASE frame.kind = "state"
  BY <1>1, <1>3, <1>6, <1>7, <1>9 DEF TakeState
<1>10. CASE frame.kind # "state"
  BY <1>1, <1>5, <1>8, <1>10 DEF TakeStatus
<1> QED
  BY <1>9, <1>10

LEMMA DeliverSafe ==
    ASSUME RoutineInv, Deliver, NEW r, Safe(r)
    PROVE  Safe(r)'
<1> DEFINE frame == Head(air)
<1>1. /\ air # <<>> /\ air' = Tail(air) /\ UNCHANGED device /\ Answer(frame)
      /\ frame.kind = "state" => TakeState(frame)
      /\ frame.kind # "state" => TakeStatus(frame)
  BY DEF Deliver
<1>2. air \in Seq(Frames) /\ frame \in Frames
  BY <1>1, TypeParts, HeadTailProperties DEF RoutineInv
<1>3. /\ frame.kind \in {"state", "status"}
      /\ \/ read'.status = read.status
         \/ frame.kind = "status" /\ read'.status = frame.value
  BY <1>1, <1>2, FrameParts, AnswerFacts
<1>4. /\ \/ routine_status' \in {routine_status, None}
         \/ frame.kind = "status" /\ routine_status' = frame.value
      /\ \/ running_status' \in {running_status, None}
         \/ frame.kind = "status" /\ running_status' = frame.value
  <2> HIDE DEF frame
  <2>1. CASE frame.kind = "state"
    BY <1>1, <2>1 DEF TakeState, Ended
  <2>2. CASE frame.kind = "status"
    BY <1>1, <2>2 DEF TakeStatus
  <2> QED
    BY <1>3, <2>1, <2>2
<1>5. OnlyAllDone /\ (frame.kind = "status" => IsFinal(frame)) => OnlyAllDone'
  BY <1>3, <1>4 DEF OnlyAllDone, IsFinal
<1> QED
  BY <1>1, <1>2, <1>5, TailSafe

\* An event is for a routine that this session had not reported, and completed
\* for one that no session had reported completed.
LEMMA DeliverReports ==
    ASSUME RoutineInv, OutcomeInv, Deliver
    PROVE  outcomes' = outcomes \/ Reports
<1> DEFINE frame == Head(air)
<1>1. /\ air # <<>> /\ air' = Tail(air) /\ UNCHANGED device
      /\ frame.kind = "state" => TakeState(frame)
      /\ frame.kind # "state" => TakeStatus(frame)
  BY DEF Deliver
<1>2. /\ air \in Seq(Frames) /\ device \in Devices /\ InOrder /\ link
      /\ finished \in BOOLEAN
  BY <1>1, TypeParts DEF RoutineInv, OutcomeInv, Unlinked, Progress
<1>3. /\ frame \in Frames /\ frame.run \in Nat /\ frame.run <= device.run
      /\ frame.kind = "state" /\ ~frame.value => Over(frame.run)
      /\ IsFinal(frame) => Done(frame.run)
      /\ \A i \in DOMAIN air' :
            /\ frame.run <= air'[i].run
            /\ frame.kind = "state" /\ ~frame.value =>
                  (air'[i].kind = "state" /\ air'[i].value =>
                      frame.run < air'[i].run)
  BY <1>1, <1>2, HeadFacts
<1>4. 1 \in DOMAIN air /\ frame = air[1]
  BY <1>1, <1>2, TailFacts
<1>5. frame.kind \in {"state", "status"} /\ device.run \in Nat
  BY <1>2, <1>3, FrameParts, DeviceParts
<1>6. PICK q : q = frame.run
  OBVIOUS
<1>7. ~finished /\ data = TRUE => ~Settled(q)
  BY <1>1, <1>2, <1>3, <1>6, HeadOfSettled
<1>8. ~finished /\ data = TRUE /\ q \in Runs => ~Reported(q)
  BY <1>2, <1>7 DEF OutcomeInv, SettledOnce
<1> HIDE DEF frame
\* A routine that ends without having been marked finished.
<1>9. ASSUME frame.kind = "state", outcomes' # outcomes
      PROVE  Reports
  <2>1. /\ data = TRUE /\ ~frame.value /\ ~finished /\ data' = FALSE
        /\ Fire(IF cancel_sent THEN "routine_cancelled" ELSE "routine_expired",
                q)
    BY <1>1, <1>9, <1>6 DEF TakeState, NoOutcome, Unfinished
  <2>4. PICK event : event = IF cancel_sent THEN "routine_cancelled"
                                            ELSE "routine_expired"
    OBVIOUS
  <2>2. /\ outcomes' = [outcomes EXCEPT ![q] =
                           Append(@, [event |-> event, session |-> sessions])]
        /\ event # "routine_completed"
    BY <2>1, <2>4 DEF Fire
  <2>3. Settled(q)'
    <3>1. Over(q)'
      BY <1>1, <1>3, <1>9, <1>6, <2>1 DEF Over
    <3> QED
      BY <1>3, <1>9, <1>6, <2>1, <3>1 DEF Settled
  <2> QED
    BY <1>8, <2>1, <2>2, <2>3 DEF Reports
\* A status that shows all done after one that did not.
<1>10. ASSUME frame.kind = "status", outcomes' # outcomes
      PROVE  Reports
  <2>1. /\ data = TRUE /\ ~finished /\ finished' = TRUE
        /\ running_status # None /\ ~AllDone(running_status)
        /\ AllDone(frame.value)
        /\ Fire("routine_completed", q)
    BY <1>1, <1>10, <1>6 DEF TakeStatus, NoOutcome, Baseline
  <2>2. outcomes' = [outcomes EXCEPT ![q] =
                       Append(@, [event |-> "routine_completed",
                                  session |-> sessions])]
    BY <2>1 DEF Fire
  <2>3. IsFinal(frame) /\ ~OnlyAllDone
    BY <1>10, <2>1 DEF IsFinal, OnlyAllDone
  <2>4. Settled(q)' /\ Done(q)'
    <3>1. Done(q)'
      BY <1>1, <1>3, <1>6, <2>3 DEF Done, Over
    <3> QED
      BY <1>1, <1>3, <1>6, <2>1, <3>1 DEF Settled
  <2>5. ~Safe(q)
    BY <1>4, <1>6, <2>3 DEF Safe
  <2>6. q \in Runs =>
           \A i \in DOMAIN outcomes[q] : ~Completion(q, i)
    BY <1>7, <2>1, <2>5 DEF OutcomeInv, DoneOnce
  <2> QED
    BY <1>8, <2>1, <2>2, <2>4, <2>6 DEF Reports
<1> QED
  BY <1>5, <1>9, <1>10

LEMMA DeliverOutcomes ==
    ASSUME RoutineInv, OutcomeInv, Deliver
    PROVE  OutcomeInv'
<1>1. /\ air # <<>> /\ air' = Tail(air) /\ link
      /\ UNCHANGED <<link, device, sessions>>
  BY DEF Deliver, RoutineInv, Unlinked, budget
<1>2. air \in Seq(Frames) /\ Told /\ Bounds /\ InOrder
  BY TypeParts DEF RoutineInv, OutcomeInv
<1>3. InOrder'
  BY <1>1, <1>2, TailOrder
<1>4. ASSUME NEW r \in Runs
      PROVE  /\ Done(r) => Done(r)'
             /\ Settled(r) => Settled(r)'
             /\ Safe(r) => Safe(r)'
  <2>1. Done(r) => Done(r)'
    BY <1>1 DEF Done, Over
  <2> QED
    BY <2>1, RunsAreNumbers, DeliverSettles, DeliverSafe
<1> QED
  BY <1>1, <1>2, <1>3, <1>4, DeliverReports, OutcomesKept

LEMMA OutcomeInit == Init => OutcomeInv
<1> SUFFICES ASSUME Init PROVE OutcomeInv
  OBVIOUS
<1>1. DOMAIN air = {} /\ ~link
  BY DEF Init
<1>2. \A r \in Runs : outcomes[r] = <<>>
  BY DEF Init
<1>3. \A r \in Runs : DOMAIN outcomes[r] = {}
  BY <1>2
<1> QED
  BY <1>1, <1>3 DEF OutcomeInv, InOrder, SettledOnce, DoneOnce, OneCompletion,
                    Past, OneOutcome

LEMMA OutcomeIsInductive == Spec => []OutcomeInv
<1>1. RoutineInv /\ RoutineInv' /\ OutcomeInv /\ [Next]_vars => OutcomeInv'
  <2> SUFFICES ASSUME RoutineInv, RoutineInv', OutcomeInv, [Next]_vars
               PROVE  OutcomeInv'
    OBVIOUS
  <2>1. device' \in Devices
    BY DEF RoutineInv, TypeOK, Devices
  <2>2. CASE Connect \/ SessionEnds
    BY <2>2, SessionOutcomes
  <2>3. CASE Deliver
    BY <2>3, DeliverOutcomes
  <2>4. CASE ReadState \/ OnlyState \/ ReadStatus \/ ReadEnds
    BY <2>4, ReadOutcomes
  <2>5. CASE Acknowledged \/ \E control \in Controls : RoutineControl(control)
    BY <2>5, CommandOutcomes
  <2>6. CASE DeviceMoves \/ RoutineStarts \/ Obeys
    BY <2>1, <2>6, DeviceOutcomes
  <2>7. CASE FrameLost
    BY <2>7, FrameLostOutcomes
  <2>8. CASE UNCHANGED vars
    <3>1. UNCHANGED <<finished, data, link, air, device, sessions, outcomes,
                      read, running_status, routine_status>>
      BY <2>8 DEF vars, progress, history, budget
    <3> QED
      BY <3>1, OutcomesQuiet DEF Baselines
  <2> QED
    BY <2>2, <2>3, <2>4, <2>5, <2>6, <2>7, <2>8 DEF Next
<1> QED
  BY <1>1, OutcomeInit, RoutineIsInductive, PTL DEF Spec

\* One session reports at most one outcome of a routine, for any number of
\* routines, sessions, frames in flight and frames lost: the end of a routine is
\* silent after its completion, and a completed mark that the read outruns is not
\* set twice (_routine_finished, _routine_ended, _take_routine_status).
THEOREM OneOutcomeASession == Spec => []OneOutcome
<1>1. OutcomeInv => OneOutcome
  BY DEF OutcomeInv
<1> QED
  BY <1>1, OutcomeIsInductive, PTL

\* A routine is reported completed at most once over all sessions, however often
\* the connection is lost: the first status of a session is only its baseline
\* (_take_routine_status, _read_snapshot, _invalidate).
THEOREM RoutineCompletesOnce == Spec => []CompletedOnce
<1>1. OutcomeInv => CompletedOnce
  <2> SUFFICES ASSUME OutcomeInv, NEW r \in Runs
               PROVE  Count(r, "routine_completed") <= 1
    BY DEF CompletedOnce
  <2> DEFINE C == {i \in DOMAIN outcomes[r] :
                     outcomes[r][i].event = "routine_completed"}
  <2>1. \A i, j \in C : i = j
    BY DEF OutcomeInv, OneCompletion, Completion
  <2>2. C = {} \/ \E i : C = {i}
    <3> HIDE DEF C
    <3> QED
      BY <2>1
  <2>3. Cardinality(C) \in {0, 1}
    <3> HIDE DEF C
    <3> QED
      BY <2>2, FS_EmptySet, FS_Singleton
  <2> QED
    BY <2>3 DEF Count
<1> QED
  BY <1>1, OutcomeIsInductive, PTL

=============================================================================
