------------------------ MODULE LumalouSessionProofs ------------------------
(***************************************************************************)
(* Proofs about LumalouSession, for every set of tasks, every reconnect    *)
(* gap and any number of faults and calls.                                 *)
(***************************************************************************)
EXTENDS LumalouSession, TLAPS

-----------------------------------------------------------------------------
(* The inductive invariant.                                                *)

\* A captured generation number is never ahead of the counter, and only the
\* live session has the current one; what is shown comes from it.
Numbering ==
    /\ \A g \in sessions : g <= generation
    /\ generation \in sessions => client = generation
    /\ client # None => client = generation /\ client \in sessions
    /\ data # None => data = client /\ silence = client

\* Exactly the lock holder is inside a critical section; it waits for detached
\* sessions only, and only while it is closing.
Locking ==
    /\ \A t \in Tasks : pc[t] \in LockedPhases <=> lock = t
    /\ lock \notin Tasks => reads = 0
    /\ toClose \subseteq detached
    /\ toClose # {} =>
          \/ lock \in {Closer, Unload}
          \/ lock \in Tasks /\ pc[lock] \in {"prepare", "leave", "cancel"}

\* An operation on its way to a connect has closed, or is closing, everything,
\* and the delay it computed once is enough for the gap.
Clearing ==
    /\ client # None => detached = {}
    /\ \A c, d \in detached : c = d
    /\ \A t \in Tasks : pc[t] = "prepare" => client = None /\ toClose = detached
    /\ \A t \in Tasks :
          pc[t] = "gap" => client = None /\ detached = {} /\ delay >= gap
    /\ gap + quiet >= ReconnectGap

\* Whoever could still open or use a session after unload began is cancelled,
\* and in maintenance mode nobody could.
Halting ==
    /\ stopped =>
          /\ client = None
          /\ \A t \in Tasks :
                pc[t] \in {"wait", "prepare", "gap", "connect", "io", "save"}
                   => t \in cancelled
    /\ maintenance =>
          /\ client = None
          /\ \A t \in Tasks : pc[t] \notin {"prepare", "gap", "connect", "io"}

\* A live session serves state, unless the operation that opened it is still
\* reading in it.
Serving ==
    /\ \A t \in Tasks :
          /\ pc[t] \in {"connect", "io"} /\ client # None => using = client
          /\ pc[t] \in {"leave", "cancel"} => client = None
          /\ pc[t] \in {"prepare", "gap", "connect"} => Kind(t) \notin {"live", "background"}
    /\ client # None /\ data = None =>
          \E t \in Tasks : /\ lock = t /\ pc[t] \in {"connect", "io"}
                          /\ Kind(t) \notin {"live", "background"}

\* A cancelled task is still running, and only users wait for a session.
Recovering ==
    /\ \A t \in cancelled : pc[t] # "idle"
    /\ \A r \in Recoveries : pc[r] # "await"
    /\ OneRecovery

\* Once unload closes the session it detached, nothing else runs.
Unloaded ==
    /\ stopped <=> unload # "no"
    /\ lock = Unload => unload = "closing"
    /\ unload \in {"closing", "done"} =>
          /\ closers = {} /\ lock \in {Unload, None}
          /\ \A t \in Tasks : pc[t] \in {"idle", "await"}
    /\ unload = "done" => lock = None

IInv ==
    /\ TypeOK
    /\ Numbering /\ Locking /\ Clearing /\ Halting
    /\ NothingForgotten /\ Serving /\ Recovering /\ Unloaded

-----------------------------------------------------------------------------
(* What the building blocks do to the variables.                           *)

\* _invalidate leaves no session: the live one is detached, and the number
\* that the next session gets was never captured.
Retired ==
    /\ generation' \in Nat /\ generation' >= generation
    /\ generation' \notin sessions
    /\ client' = None /\ data' = None /\ silence' = None

LEMMA InvalidatedEffect ==
    ASSUME ClientTypes, Numbering, NEW s \in SUBSET Nat, Invalidated(s)
    PROVE  Retired /\ detached' = s \cup Live /\ detached' \in SUBSET Nat
BY NumbersAssumption
   DEF ClientTypes, SessionOrNone, Numbering, Invalidated, Retired, Live

LEMMA InvalidateEffect ==
    ASSUME ClientTypes, Numbering, Invalidate
    PROVE  /\ Retired /\ detached' = detached \cup Live
           /\ detached' \in SUBSET Nat
           /\ gap' = IF client = None THEN gap ELSE ReconnectGap
           /\ quiet' = quiet
BY InvalidatedEffect DEF Invalidate, ClientTypes

\* The holder t detaches the live session and starts closing at phase p.
Closes(t, p) ==
    /\ Retired /\ detached' = detached \cup Live /\ detached' \in SUBSET Nat
    /\ gap' = IF client = None THEN gap ELSE ReconnectGap
    /\ quiet' = quiet
    /\ lock' = t /\ pc' = [pc EXCEPT ![t] = p]
    /\ delay' = delay /\ using' = using
    /\ toClose' \in SUBSET detached' /\ Live \subseteq toClose'

LEMMA DisconnectEffect ==
    ASSUME ClientTypes, Numbering, NEW t, NEW p, Disconnect(t, p)
    PROVE  Closes(t, p)
<1>1. Live \in SUBSET (detached \cup Live)
    OBVIOUS
<1> QED
    BY <1>1, InvalidateEffect DEF Disconnect, CloseThen, Closes

LEMMA CloseAllEffect ==
    ASSUME ClientTypes, Numbering, NEW t, NEW p, CloseAll(t, p)
    PROVE  Closes(t, p) /\ toClose' = detached'
BY InvalidateEffect DEF CloseAll, CloseThen, Closes, EverySession

LEMMA NewSessionEffect ==
    ASSUME ClientTypes, Numbering, NEW t, NewSession(t)
    PROVE  \/ /\ maintenance \/ ~present
              /\ Closes(t, "leave")
              /\ attempt' = attempt /\ reads' = reads
           \/ /\ ~maintenance /\ present
              /\ Closes(t, "prepare") /\ toClose' = detached'
              /\ attempt' = 1 /\ reads' = reads + 1
BY DisconnectEffect, CloseAllEffect DEF NewSession

LEMMA ClosesForgetsNothing ==
    ASSUME ClientTypes, NothingForgotten, NEW t, NEW p, Closes(t, p),
           toClose = {}, UNCHANGED <<linkUp, closers, leftover, unload>>
    PROVE  NothingForgotten'
BY DEF NothingForgotten, Closes, Live

-----------------------------------------------------------------------------
(* Every step preserves each part of the inductive invariant.              *)

LEMMA ClientTypesStep ==
    ASSUME ClientTypes, Numbering, Locking, [Next]_vars
    PROVE  ClientTypes'
<1> USE TasksAssumption, NumbersAssumption DEF ClientTypes, SessionOrNone,
    coordinatorVars, taskVars, holderVars, modeVars, radioVars, timeVars,
    budgetVars
<1>1. ASSUME NEW u \in Users, NEW k \in CallKinds, UserCall(u, k)
     PROVE  ClientTypes'
    BY <1>1 DEF UserCall
<1>2. ASSUME NEW t \in Tasks, StartGap(t) \/ Connected(t) \/ CancelWaiting(t)
     PROVE  ClientTypes'
    BY <1>2 DEF StartGap, Connected, CancelWaiting
<1>3. ASSUME NEW u \in Users, LiveWaitOver(u) \/ BeginMaintenance(u) \/
        UserCancelled(u)
     PROVE  ClientTypes'
    BY <1>3 DEF LiveWaitOver, BeginMaintenance, UserCancelled
<1>4. ASSUME NEW r \in Recoveries, RecoveryWakes(r) PROVE ClientTypes'
    BY <1>4 DEF RecoveryWakes
<1>5. ASSUME Advertisement \/ CloserEnds \/ UnloadEnds \/ Tick
     PROVE  ClientTypes'
    BY <1>5 DEF Advertisement, CloserEnds, UnloadEnds, Tick
<1>6. ASSUME NEW c \in linkUp, LinkDrops(c) \/ GoesMute(c) PROVE ClientTypes'
    BY <1>6 DEF LinkDrops, GoesMute
<1>7. ASSUME NEW t \in Tasks, BeginFresh(t) PROVE ClientTypes'
    BY <1>7, NewSessionEffect DEF BeginFresh, Kind, AfterError, Closes, Retired
<1>8. ASSUME NEW t \in Tasks, Open(t) PROVE ClientTypes'
    BY <1>8 DEF Open, Runs, Holds
<1>9. ASSUME NEW t \in Tasks, NoDevice(t) PROVE ClientTypes'
    BY <1>9, CloseAllEffect DEF NoDevice, Runs, Fault, NoFault, Holds, Closes,
        Retired
<1>10. ASSUME NEW t \in Tasks, ConnectDropped(t) PROVE ClientTypes'
    BY <1>10, CloseAllEffect DEF ConnectDropped, Runs, Pushing, Fault, NoFault,
        LastAttempt, Holds, Closes, Retired
<1>11. ASSUME NEW t \in Tasks, ConnectRefused(t) PROVE ClientTypes'
    BY <1>11, CloseAllEffect DEF ConnectRefused, Runs, Fault, Holds, Closes,
        Retired
<1>12. ASSUME NEW t \in Tasks, OpenAnother(t) PROVE ClientTypes'
    BY <1>12, NewSessionEffect DEF OpenAnother, Runs, Kind, Holds, Closes, Retired
<1>13. ASSUME NEW t \in Tasks, Finish(t) PROVE ClientTypes'
    BY <1>13 DEF Finish, Runs, Kind, Pushing, Heard, ReleaseAndSchedule,
        Release, RecoveryDone, Holds, Schedule, MayRecover
<1>14. ASSUME NEW t \in Tasks, IoFails(t) PROVE ClientTypes'
    BY <1>14, DisconnectEffect DEF IoFails, Runs, Pushing, Fault, NoFault, Holds,
        Closes, Retired
<1>15. ASSUME NEW t \in Tasks, Leave(t) PROVE ClientTypes'
    BY <1>15 DEF Leave, Holds, Release, AfterError
<1>16. ASSUME NEW t \in Tasks, CancelClosing(t) PROVE ClientTypes'
    BY <1>16 DEF CancelClosing, Invalidated, CloseArmsGap, CloseThen, Live
<1>17. ASSUME NEW t \in Tasks, CancelHolder(t) PROVE ClientTypes'
    BY <1>17, DisconnectEffect, CloseAllEffect DEF CancelHolder, Closes, Retired
<1>18. ASSUME NEW t \in Tasks, CancelEnds(t) PROVE ClientTypes'
    BY <1>18 DEF CancelEnds, Holds, Release, RecoveryDone
<1>19. ASSUME NEW u \in Users, BeginLive(u) PROVE ClientTypes'
    BY <1>19, DisconnectEffect DEF BeginLive, Closes, Retired
<1>20. ASSUME NEW u \in Users, MaintenanceSaved(u) PROVE ClientTypes'
    BY <1>20, DisconnectEffect DEF MaintenanceSaved, Runs, CancelRecovery,
        ReleaseAndSchedule, Available, Holds, Schedule, MayRecover, Closes,
        Retired
<1>21. ASSUME Unavailable PROVE ClientTypes'
    BY <1>21, InvalidateEffect DEF Unavailable, Fault, CancelRecovery, CloseLater,
        Live, Closes, Retired
<1>22. ASSUME Silent PROVE ClientTypes'
    BY <1>22, InvalidateEffect DEF Silent, Pushing, Stale, CloseLater, Schedule,
        Live, MayRecover, Closes, Retired
<1>23. ASSUME NEW g \in sessions, SessionLost(g) PROVE ClientTypes'
    BY <1>23, InvalidateEffect DEF SessionLost, Stale, Schedule, MayRecover,
        Closes, Retired
<1>24. ASSUME NEW g \in sessions, Receive(g) PROVE ClientTypes'
    BY <1>24 DEF Receive, Stale, Heard
<1>25. ASSUME CloseEnds PROVE ClientTypes'
    BY <1>25 DEF CloseEnds, NoFault, Fault, CloseArmsGap
<1>26. ASSUME NEW c \in closers, CloserRuns(c) PROVE ClientTypes'
    BY <1>26 DEF CloserRuns
<1>27. ASSUME UnloadStarts PROVE ClientTypes'
    BY <1>27, InvalidateEffect DEF UnloadStarts, Tracked, Closes, Retired
<1>28. ASSUME UnloadCloses PROVE ClientTypes'
    BY <1>28 DEF UnloadCloses, Leftover
<1>29. CASE UNCHANGED vars
    BY <1>29 DEF vars
<1> QED
    BY <1>1, <1>2, <1>3, <1>4, <1>5, <1>6, <1>7, <1>8, <1>9, <1>10, <1>11,
        <1>12, <1>13, <1>14, <1>15, <1>16, <1>17, <1>18, <1>19, <1>20, <1>21,
        <1>22, <1>23, <1>24, <1>25, <1>26, <1>27, <1>28, <1>29
       DEF Next, UserStarts, TaskStep, UserStep, Callback, Radio, Background,
           Unloading

LEMMA RadioTypesStep ==
    ASSUME ClientTypes, RadioTypes, [Next]_vars
    PROVE  RadioTypes'
<1> USE TasksAssumption, NumbersAssumption DEF ClientTypes, SessionOrNone,
    RadioTypes, coordinatorVars, taskVars, holderVars, modeVars, radioVars,
    timeVars, budgetVars
<1>1. ASSUME NEW u \in Users, NEW k \in CallKinds, UserCall(u, k)
     PROVE  RadioTypes'
    BY <1>1 DEF UserCall
<1>2. ASSUME NEW t \in Tasks, BeginFresh(t) \/ StartGap(t) \/ NoDevice(t) \/
        Connected(t) \/ ConnectDropped(t) \/ ConnectRefused(t) \/ OpenAnother(t)
        \/ Finish(t) \/ IoFails(t) \/ Leave(t) \/ CancelWaiting(t) \/
        CancelHolder(t) \/ CancelEnds(t)
     PROVE  RadioTypes'
    BY <1>2 DEF BeginFresh, StartGap, NoDevice, Connected, ConnectDropped,
        ConnectRefused, OpenAnother, Finish, IoFails, Leave, CancelWaiting,
        CancelHolder, CancelEnds
<1>3. ASSUME NEW u \in Users, LiveWaitOver(u) \/ BeginLive(u) \/
        BeginMaintenance(u) \/ MaintenanceSaved(u) \/ UserCancelled(u)
     PROVE  RadioTypes'
    BY <1>3 DEF LiveWaitOver, BeginLive, BeginMaintenance, MaintenanceSaved,
        UserCancelled
<1>4. ASSUME NEW r \in Recoveries, RecoveryWakes(r) PROVE RadioTypes'
    BY <1>4 DEF RecoveryWakes
<1>5. ASSUME Advertisement \/ CloserEnds \/ UnloadCloses \/ UnloadEnds \/ Tick
     PROVE  RadioTypes'
    BY <1>5 DEF Advertisement, CloserEnds, UnloadCloses, UnloadEnds, Tick
<1>6. ASSUME NEW g \in sessions, SessionLost(g) \/ Receive(g) PROVE RadioTypes'
    BY <1>6 DEF SessionLost, Receive
<1>7. ASSUME NEW t \in Tasks, Open(t) PROVE RadioTypes'
    BY <1>7 DEF Open, Runs, Holds
<1>8. ASSUME NEW t \in Tasks, CancelClosing(t) PROVE RadioTypes'
    BY <1>8 DEF CancelClosing, Invalidated, CloseArmsGap, CloseThen, Live
<1>9. ASSUME Unavailable PROVE RadioTypes'
    BY <1>9 DEF Unavailable, Fault, CancelRecovery, Invalidate, CloseLater,
        Invalidated, Live
<1>10. ASSUME Silent PROVE RadioTypes'
    BY <1>10 DEF Silent, Pushing, Stale, Invalidate, CloseLater, Schedule,
        Invalidated, Live, MayRecover
<1>11. ASSUME CloseEnds PROVE RadioTypes'
    BY <1>11 DEF CloseEnds, NoFault, Fault, CloseArmsGap
<1>12. ASSUME NEW c \in closers, CloserRuns(c) PROVE RadioTypes'
    BY <1>12 DEF CloserRuns
<1>13. ASSUME UnloadStarts PROVE RadioTypes'
    BY <1>13 DEF UnloadStarts, Tracked, Invalidate, Invalidated, Live
<1>14. ASSUME NEW c \in linkUp, LinkDrops(c) PROVE RadioTypes'
    BY <1>14 DEF LinkDrops, Fault
<1>15. ASSUME NEW c \in linkUp, GoesMute(c) PROVE RadioTypes'
    BY <1>15 DEF GoesMute, Fault
<1>16. CASE UNCHANGED vars
    BY <1>16 DEF vars
<1> QED
    BY <1>1, <1>2, <1>3, <1>4, <1>5, <1>6, <1>7, <1>8, <1>9, <1>10, <1>11,
        <1>12, <1>13, <1>14, <1>15, <1>16
       DEF Next, UserStarts, TaskStep, UserStep, Callback, Radio, Background,
           Unloading

LEMMA TaskTypesStep ==
    ASSUME ClientTypes, Numbering, TaskTypes, Locking, [Next]_vars
    PROVE  TaskTypes'
<1> USE TasksAssumption, NumbersAssumption, CallsAssumption DEF TaskTypes,
    Tasks, Phases, LockedPhases, Locking, Calls, coordinatorVars, taskVars,
    holderVars, modeVars, radioVars, timeVars, budgetVars
<1>1. ASSUME NEW g \in sessions, Receive(g) PROVE TaskTypes'
    BY <1>1 DEF Receive
<1>2. ASSUME NEW u \in Users, NEW k \in CallKinds, UserCall(u, k)
     PROVE  TaskTypes'
    BY <1>2 DEF UserCall, Available, CancelRecovery
<1>3. ASSUME NEW t \in Tasks, BeginFresh(t) PROVE TaskTypes'
    BY <1>3, NewSessionEffect DEF BeginFresh, Kind, AfterError, Closes, Retired
<1>4. ASSUME NEW t \in Tasks, StartGap(t) PROVE TaskTypes'
    BY <1>4 DEF StartGap, Holds
<1>5. ASSUME NEW t \in Tasks, Open(t) PROVE TaskTypes'
    BY <1>5 DEF Open, Runs, Holds
<1>6. ASSUME NEW t \in Tasks, NoDevice(t) PROVE TaskTypes'
    BY <1>6, CloseAllEffect DEF NoDevice, Runs, Fault, NoFault, Holds, Closes,
        Retired
<1>7. ASSUME NEW t \in Tasks, Connected(t) PROVE TaskTypes'
    BY <1>7 DEF Connected, Runs, Pushing, Holds
<1>8. ASSUME NEW t \in Tasks, ConnectDropped(t) PROVE TaskTypes'
    BY <1>8, CloseAllEffect DEF ConnectDropped, Runs, Pushing, Fault, NoFault,
        LastAttempt, Holds, Closes, Retired
<1>9. ASSUME NEW t \in Tasks, ConnectRefused(t) PROVE TaskTypes'
    BY <1>9, CloseAllEffect DEF ConnectRefused, Runs, Fault, Holds, Closes,
        Retired
<1>10. ASSUME NEW t \in Tasks, OpenAnother(t) PROVE TaskTypes'
    BY <1>10, NewSessionEffect DEF OpenAnother, Runs, Kind, Holds, Closes, Retired
<1>11. ASSUME NEW t \in Tasks, Finish(t) PROVE TaskTypes'
    BY <1>11 DEF Finish, Runs, Kind, Pushing, Heard, ReleaseAndSchedule,
        Release, RecoveryDone, Holds, Schedule, MayRecover
<1>12. ASSUME NEW t \in Tasks, IoFails(t) PROVE TaskTypes'
    BY <1>12, DisconnectEffect DEF IoFails, Runs, Pushing, Fault, NoFault, Holds,
        Closes, Retired
<1>13. ASSUME NEW t \in Tasks, Leave(t) PROVE TaskTypes'
    BY <1>13 DEF Leave, Holds, Release, AfterError
<1>14. ASSUME NEW t \in Tasks, CancelWaiting(t) PROVE TaskTypes'
    BY <1>14 DEF CancelWaiting, RecoveryDone
<1>15. ASSUME NEW t \in Tasks, CancelClosing(t) PROVE TaskTypes'
    BY <1>15 DEF CancelClosing, Invalidated, CloseArmsGap, CloseThen, Live
<1>16. ASSUME NEW t \in Tasks, CancelHolder(t) PROVE TaskTypes'
    BY <1>16, DisconnectEffect, CloseAllEffect DEF CancelHolder, Closes, Retired
<1>17. ASSUME NEW t \in Tasks, CancelEnds(t) PROVE TaskTypes'
    BY <1>17 DEF CancelEnds, Holds, Release, RecoveryDone
<1>18. ASSUME NEW u \in Users, LiveWaitOver(u) PROVE TaskTypes'
    BY <1>18 DEF LiveWaitOver
<1>19. ASSUME NEW u \in Users, BeginLive(u) PROVE TaskTypes'
    BY <1>19, DisconnectEffect DEF BeginLive, Closes, Retired
<1>20. ASSUME NEW u \in Users, BeginMaintenance(u) PROVE TaskTypes'
    BY <1>20 DEF BeginMaintenance
<1>21. ASSUME NEW u \in Users, MaintenanceSaved(u) PROVE TaskTypes'
    BY <1>21, DisconnectEffect DEF MaintenanceSaved, Runs, CancelRecovery,
        ReleaseAndSchedule, Available, Holds, Schedule, MayRecover, Closes,
        Retired
<1>22. ASSUME NEW u \in Users, UserCancelled(u) PROVE TaskTypes'
    BY <1>22 DEF UserCancelled, Fault
<1>23. ASSUME NEW r \in Recoveries, RecoveryWakes(r) PROVE TaskTypes'
    BY <1>23 DEF RecoveryWakes, Available, RecoveryDone
<1>24. ASSUME Advertisement PROVE TaskTypes'
    BY <1>24 DEF Advertisement, Schedule, Available, MayRecover
<1>25. ASSUME Unavailable PROVE TaskTypes'
  <2>1. gap' \in 0..ReconnectGap /\ UNCHANGED quiet
    BY <1>25, InvalidateEffect DEF Unavailable
  <2>2. recovery' = None /\ cancelled' \in SUBSET Tasks /\ faults' \in Nat
    BY <1>25 DEF Unavailable, Fault, CancelRecovery
  <2> QED
    BY <1>25, <2>1, <2>2 DEF Unavailable, Fault
<1>26. ASSUME Silent PROVE TaskTypes'
    BY <1>26, InvalidateEffect DEF Silent, Pushing, Stale, CloseLater, Schedule,
        Live, MayRecover, Closes, Retired
<1>27. ASSUME NEW g \in sessions, SessionLost(g) PROVE TaskTypes'
    BY <1>27, InvalidateEffect DEF SessionLost, Stale, Schedule, MayRecover,
        Closes, Retired
<1>28. ASSUME CloseEnds PROVE TaskTypes'
    BY <1>28 DEF CloseEnds, NoFault, Fault, CloseArmsGap
<1>29. ASSUME CloserEnds PROVE TaskTypes'
    BY <1>29 DEF CloserEnds
<1>30. ASSUME NEW c \in closers, CloserRuns(c) PROVE TaskTypes'
    BY <1>30 DEF CloserRuns
<1>31. ASSUME UnloadStarts PROVE TaskTypes'
  <2>1. gap' \in 0..ReconnectGap
    BY <1>31, InvalidateEffect DEF UnloadStarts
  <2> QED
    BY <1>31, <2>1 DEF UnloadStarts, Invalidate, Tracked
<1>32. ASSUME UnloadCloses PROVE TaskTypes'
    BY <1>32 DEF UnloadCloses, Leftover
<1>33. ASSUME UnloadEnds PROVE TaskTypes'
    BY <1>33 DEF UnloadEnds
<1>34. ASSUME NEW c \in linkUp, LinkDrops(c) PROVE TaskTypes'
    BY <1>34 DEF LinkDrops, Fault
<1>35. ASSUME NEW c \in linkUp, GoesMute(c) PROVE TaskTypes'
    BY <1>35 DEF GoesMute, Fault
<1>36. ASSUME Tick PROVE TaskTypes'
    BY <1>36 DEF Tick, Minus1
<1>37. CASE UNCHANGED vars
    BY <1>37 DEF vars
<1> QED
    BY <1>1, <1>2, <1>3, <1>4, <1>5, <1>6, <1>7, <1>8, <1>9, <1>10, <1>11,
        <1>12, <1>13, <1>14, <1>15, <1>16, <1>17, <1>18, <1>19, <1>20, <1>21,
        <1>22, <1>23, <1>24, <1>25, <1>26, <1>27, <1>28, <1>29, <1>30, <1>31,
        <1>32, <1>33, <1>34, <1>35, <1>36, <1>37
       DEF Next, UserStarts, TaskStep, UserStep, Callback, Radio, Background,
           Unloading

LEMMA NumberingStep ==
    ASSUME ClientTypes, RadioTypes, Numbering, Halting, [Next]_vars
    PROVE  Numbering'
<1> USE TasksAssumption, NumbersAssumption DEF ClientTypes, SessionOrNone,
    RadioTypes, Numbering, Halting, coordinatorVars, taskVars, holderVars,
    modeVars, radioVars, timeVars, budgetVars
<1>1. ASSUME NEW u \in Users, NEW k \in CallKinds, UserCall(u, k)
     PROVE  Numbering'
    BY <1>1 DEF UserCall
<1>2. ASSUME NEW t \in Tasks, StartGap(t) \/ Connected(t) \/ Leave(t) \/
        CancelWaiting(t) \/ CancelEnds(t)
     PROVE  Numbering'
    BY <1>2 DEF StartGap, Connected, Leave, CancelWaiting, CancelEnds
<1>3. ASSUME NEW u \in Users, LiveWaitOver(u) \/ BeginMaintenance(u) \/
        UserCancelled(u)
     PROVE  Numbering'
    BY <1>3 DEF LiveWaitOver, BeginMaintenance, UserCancelled
<1>4. ASSUME NEW r \in Recoveries, RecoveryWakes(r) PROVE Numbering'
    BY <1>4 DEF RecoveryWakes
<1>5. ASSUME Advertisement \/ CloseEnds \/ CloserEnds \/ UnloadCloses \/
        UnloadEnds \/ Tick
     PROVE  Numbering'
    BY <1>5 DEF Advertisement, CloseEnds, CloserEnds, UnloadCloses,
        UnloadEnds, Tick
<1>6. ASSUME NEW c \in closers, CloserRuns(c) PROVE Numbering'
    BY <1>6 DEF CloserRuns
<1>7. ASSUME NEW c \in linkUp, LinkDrops(c) \/ GoesMute(c) PROVE Numbering'
    BY <1>7 DEF LinkDrops, GoesMute
<1>8. ASSUME NEW t \in Tasks, BeginFresh(t) PROVE Numbering'
    BY <1>8, NewSessionEffect DEF BeginFresh, Kind, AfterError, Closes, Retired
<1>9. ASSUME NEW t \in Tasks, Open(t) PROVE Numbering'
    BY <1>9 DEF Open, Runs, Holds
<1>10. ASSUME NEW t \in Tasks, NoDevice(t) PROVE Numbering'
    BY <1>10, CloseAllEffect DEF NoDevice, Runs, Fault, NoFault, Holds, Closes,
        Retired
<1>11. ASSUME NEW t \in Tasks, ConnectDropped(t) PROVE Numbering'
    BY <1>11, CloseAllEffect DEF ConnectDropped, Runs, Pushing, Fault, NoFault,
        LastAttempt, Holds, Closes, Retired
<1>12. ASSUME NEW t \in Tasks, ConnectRefused(t) PROVE Numbering'
    BY <1>12, CloseAllEffect DEF ConnectRefused, Runs, Fault, Holds, Closes,
        Retired
<1>13. ASSUME NEW t \in Tasks, OpenAnother(t) PROVE Numbering'
    BY <1>13, NewSessionEffect DEF OpenAnother, Runs, Kind, Holds, Closes, Retired
<1>14. ASSUME NEW t \in Tasks, Finish(t) PROVE Numbering'
    BY <1>14 DEF Finish, Runs, Kind, Pushing, Heard, ReleaseAndSchedule,
        Release, RecoveryDone, Holds, Schedule, MayRecover
<1>15. ASSUME NEW t \in Tasks, IoFails(t) PROVE Numbering'
    BY <1>15, DisconnectEffect DEF IoFails, Runs, Pushing, Fault, NoFault, Holds,
        Closes, Retired
<1>16. ASSUME NEW t \in Tasks, CancelClosing(t) PROVE Numbering'
    BY <1>16 DEF CancelClosing, Invalidated, CloseArmsGap, CloseThen, Live
<1>17. ASSUME NEW t \in Tasks, CancelHolder(t) PROVE Numbering'
    BY <1>17, DisconnectEffect, CloseAllEffect DEF CancelHolder, Closes, Retired
<1>18. ASSUME NEW u \in Users, BeginLive(u) PROVE Numbering'
    BY <1>18, DisconnectEffect DEF BeginLive, Closes, Retired
<1>19. ASSUME NEW u \in Users, MaintenanceSaved(u) PROVE Numbering'
    BY <1>19, DisconnectEffect DEF MaintenanceSaved, Runs, CancelRecovery,
        ReleaseAndSchedule, Available, Holds, Schedule, MayRecover, Closes,
        Retired
<1>20. ASSUME Unavailable PROVE Numbering'
    BY <1>20, InvalidateEffect DEF Unavailable, Fault, CancelRecovery, CloseLater,
        Live, Closes, Retired
<1>21. ASSUME Silent PROVE Numbering'
    BY <1>21, InvalidateEffect DEF Silent, Pushing, Stale, CloseLater, Schedule,
        Live, MayRecover, Closes, Retired
<1>22. ASSUME NEW g \in sessions, SessionLost(g) PROVE Numbering'
    BY <1>22, InvalidateEffect DEF SessionLost, Stale, Schedule, MayRecover,
        Closes, Retired
<1>23. ASSUME NEW g \in sessions, Receive(g) PROVE Numbering'
    BY <1>23 DEF Receive, Stale, Heard
<1>24. ASSUME UnloadStarts PROVE Numbering'
    BY <1>24, InvalidateEffect DEF UnloadStarts, Tracked, Closes, Retired
<1>25. CASE UNCHANGED vars
    BY <1>25 DEF vars
<1> QED
    BY <1>1, <1>2, <1>3, <1>4, <1>5, <1>6, <1>7, <1>8, <1>9, <1>10, <1>11,
        <1>12, <1>13, <1>14, <1>15, <1>16, <1>17, <1>18, <1>19, <1>20, <1>21,
        <1>22, <1>23, <1>24, <1>25
       DEF Next, UserStarts, TaskStep, UserStep, Callback, Radio, Background,
           Unloading

LEMMA LockingStep ==
    ASSUME ClientTypes, Numbering, TaskTypes, Locking, [Next]_vars
    PROVE  Locking'
<1> USE TasksAssumption DEF TaskTypes, Tasks, Phases, LockedPhases, Locking,
    coordinatorVars, taskVars, holderVars, modeVars, radioVars, timeVars,
    budgetVars
<1>1. ASSUME NEW u \in Users, UserCancelled(u) PROVE Locking'
    BY <1>1 DEF UserCancelled
<1>2. ASSUME NEW g \in sessions, Receive(g) PROVE Locking'
    BY <1>2 DEF Receive
<1>3. ASSUME NEW c \in linkUp, LinkDrops(c) \/ GoesMute(c) PROVE Locking'
    BY <1>3 DEF LinkDrops, GoesMute
<1>4. ASSUME Tick PROVE Locking'
    BY <1>4 DEF Tick
<1>5. ASSUME NEW u \in Users, NEW k \in CallKinds, UserCall(u, k)
     PROVE  Locking'
    BY <1>5 DEF UserCall, Available, CancelRecovery
<1>6. ASSUME NEW t \in Tasks, BeginFresh(t) PROVE Locking'
    BY <1>6, NewSessionEffect DEF BeginFresh, Kind, AfterError, Closes, Retired
<1>7. ASSUME NEW t \in Tasks, StartGap(t) PROVE Locking'
    BY <1>7 DEF StartGap, Holds
<1>8. ASSUME NEW t \in Tasks, Open(t) PROVE Locking'
    BY <1>8 DEF Open, Runs, Holds
<1>9. ASSUME NEW t \in Tasks, NoDevice(t) PROVE Locking'
    BY <1>9, CloseAllEffect DEF NoDevice, Runs, Fault, NoFault, Holds, Closes,
        Retired
<1>10. ASSUME NEW t \in Tasks, Connected(t) PROVE Locking'
    BY <1>10 DEF Connected, Runs, Pushing, Holds
<1>11. ASSUME NEW t \in Tasks, ConnectDropped(t) PROVE Locking'
    BY <1>11, CloseAllEffect DEF ConnectDropped, Runs, Pushing, Fault, NoFault,
        LastAttempt, Holds, Closes, Retired
<1>12. ASSUME NEW t \in Tasks, ConnectRefused(t) PROVE Locking'
    BY <1>12, CloseAllEffect DEF ConnectRefused, Runs, Fault, Holds, Closes,
        Retired
<1>13. ASSUME NEW t \in Tasks, OpenAnother(t) PROVE Locking'
    BY <1>13, NewSessionEffect DEF OpenAnother, Runs, Kind, Holds, Closes, Retired
<1>14. ASSUME NEW t \in Tasks, Finish(t) PROVE Locking'
    BY <1>14 DEF Finish, Runs, Kind, Pushing, Heard, ReleaseAndSchedule,
        Release, RecoveryDone, Holds, Schedule, MayRecover
<1>15. ASSUME NEW t \in Tasks, IoFails(t) PROVE Locking'
    BY <1>15, DisconnectEffect DEF IoFails, Runs, Pushing, Fault, NoFault, Holds,
        Closes, Retired
<1>16. ASSUME NEW t \in Tasks, Leave(t) PROVE Locking'
    BY <1>16 DEF Leave, Holds, Release, AfterError
<1>17. ASSUME NEW t \in Tasks, CancelWaiting(t) PROVE Locking'
    BY <1>17 DEF CancelWaiting, RecoveryDone
<1>18. ASSUME NEW t \in Tasks, CancelClosing(t) PROVE Locking'
    BY <1>18 DEF CancelClosing, Invalidated, CloseArmsGap, CloseThen, Live
<1>19. ASSUME NEW t \in Tasks, CancelHolder(t) PROVE Locking'
    BY <1>19, DisconnectEffect, CloseAllEffect DEF CancelHolder, Closes, Retired
<1>20. ASSUME NEW t \in Tasks, CancelEnds(t) PROVE Locking'
    BY <1>20 DEF CancelEnds, Holds, Release, RecoveryDone
<1>21. ASSUME NEW u \in Users, LiveWaitOver(u) PROVE Locking'
    BY <1>21 DEF LiveWaitOver
<1>22. ASSUME NEW u \in Users, BeginLive(u) PROVE Locking'
    BY <1>22, DisconnectEffect DEF BeginLive, Closes, Retired
<1>23. ASSUME NEW u \in Users, BeginMaintenance(u) PROVE Locking'
    BY <1>23 DEF BeginMaintenance
<1>24. ASSUME NEW u \in Users, MaintenanceSaved(u) PROVE Locking'
    BY <1>24, DisconnectEffect DEF MaintenanceSaved, Runs, CancelRecovery,
        ReleaseAndSchedule, Available, Holds, Schedule, MayRecover, Closes,
        Retired
<1>25. ASSUME NEW r \in Recoveries, RecoveryWakes(r) PROVE Locking'
    BY <1>25 DEF RecoveryWakes, Available, RecoveryDone
<1>26. ASSUME Advertisement PROVE Locking'
    BY <1>26 DEF Advertisement, Schedule, Available, MayRecover
<1>27. ASSUME Unavailable PROVE Locking'
    BY <1>27, InvalidateEffect DEF Unavailable, Fault, CancelRecovery, CloseLater,
        Live, Closes, Retired
<1>28. ASSUME Silent PROVE Locking'
    BY <1>28, InvalidateEffect DEF Silent, Pushing, Stale, CloseLater, Schedule,
        Live, MayRecover, Closes, Retired
<1>29. ASSUME NEW g \in sessions, SessionLost(g) PROVE Locking'
    BY <1>29, InvalidateEffect DEF SessionLost, Stale, Schedule, MayRecover,
        Closes, Retired
<1>30. ASSUME CloseEnds PROVE Locking'
    BY <1>30 DEF CloseEnds, NoFault, Fault, CloseArmsGap
<1>31. ASSUME CloserEnds PROVE Locking'
    BY <1>31 DEF CloserEnds
<1>32. ASSUME NEW c \in closers, CloserRuns(c) PROVE Locking'
    BY <1>32 DEF CloserRuns
<1>33. ASSUME UnloadStarts PROVE Locking'
    BY <1>33, InvalidateEffect DEF UnloadStarts, Tracked, Closes, Retired
<1>34. ASSUME UnloadCloses PROVE Locking'
    BY <1>34 DEF UnloadCloses, Leftover
<1>35. ASSUME UnloadEnds PROVE Locking'
    BY <1>35 DEF UnloadEnds
<1>36. CASE UNCHANGED vars
    BY <1>36 DEF vars
<1> QED
    BY <1>1, <1>2, <1>3, <1>4, <1>5, <1>6, <1>7, <1>8, <1>9, <1>10, <1>11,
        <1>12, <1>13, <1>14, <1>15, <1>16, <1>17, <1>18, <1>19, <1>20, <1>21,
        <1>22, <1>23, <1>24, <1>25, <1>26, <1>27, <1>28, <1>29, <1>30, <1>31,
        <1>32, <1>33, <1>34, <1>35, <1>36
       DEF Next, UserStarts, TaskStep, UserStep, Callback, Radio, Background,
           Unloading

LEMMA ClearingStep ==
    ASSUME ClientTypes, Numbering, TaskTypes, Locking, Clearing, [Next]_vars
    PROVE  Clearing'
<1> USE TasksAssumption, NumbersAssumption DEF TaskTypes, Tasks, Phases,
    LockedPhases, Locking, Clearing, coordinatorVars, taskVars, holderVars,
    modeVars, radioVars, timeVars, budgetVars
<1>1. ASSUME NEW u \in Users, UserCancelled(u) PROVE Clearing'
    BY <1>1 DEF UserCancelled
<1>2. ASSUME NEW g \in sessions, Receive(g) PROVE Clearing'
    BY <1>2 DEF Receive
<1>3. ASSUME CloserEnds \/ UnloadEnds PROVE Clearing'
    BY <1>3 DEF CloserEnds, UnloadEnds
<1>4. ASSUME NEW c \in linkUp, LinkDrops(c) \/ GoesMute(c) PROVE Clearing'
    BY <1>4 DEF LinkDrops, GoesMute
<1>5. ASSUME NEW u \in Users, NEW k \in CallKinds, UserCall(u, k)
     PROVE  Clearing'
    BY <1>5 DEF UserCall, Available, CancelRecovery
<1>6. ASSUME NEW t \in Tasks, BeginFresh(t) PROVE Clearing'
    BY <1>6, NewSessionEffect DEF BeginFresh, Kind, AfterError, Closes, Retired,
        Live
<1>7. ASSUME NEW t \in Tasks, StartGap(t) PROVE Clearing'
    BY <1>7 DEF StartGap, Holds
<1>8. ASSUME NEW t \in Tasks, Open(t) PROVE Clearing'
    BY <1>8 DEF Open, Runs, Holds
<1>9. ASSUME NEW t \in Tasks, NoDevice(t) PROVE Clearing'
    BY <1>9, CloseAllEffect DEF NoDevice, Runs, Fault, NoFault, Holds, Closes,
        Retired, Live
<1>10. ASSUME NEW t \in Tasks, Connected(t) PROVE Clearing'
    BY <1>10 DEF Connected, Runs, Pushing, Holds
<1>11. ASSUME NEW t \in Tasks, ConnectDropped(t) PROVE Clearing'
    BY <1>11, CloseAllEffect DEF ConnectDropped, Runs, Pushing, Fault, NoFault,
        LastAttempt, Holds, Closes, Retired, Live
<1>12. ASSUME NEW t \in Tasks, ConnectRefused(t) PROVE Clearing'
    BY <1>12, CloseAllEffect DEF ConnectRefused, Runs, Fault, Holds, Closes,
        Retired, Live
<1>13. ASSUME NEW t \in Tasks, OpenAnother(t) PROVE Clearing'
    BY <1>13, NewSessionEffect DEF OpenAnother, Runs, Kind, Holds, Closes,
        Retired, Live
<1>14. ASSUME NEW t \in Tasks, Finish(t) PROVE Clearing'
    BY <1>14 DEF Finish, Runs, Kind, Pushing, Heard, ReleaseAndSchedule,
        Release, RecoveryDone, Holds, Schedule, MayRecover
<1>15. ASSUME NEW t \in Tasks, IoFails(t) PROVE Clearing'
    BY <1>15, DisconnectEffect DEF IoFails, Runs, Pushing, Fault, NoFault, Holds,
        Closes, Retired, Live
<1>16. ASSUME NEW t \in Tasks, Leave(t) PROVE Clearing'
    BY <1>16 DEF Leave, Holds, Release, AfterError
<1>17. ASSUME NEW t \in Tasks, CancelWaiting(t) PROVE Clearing'
    BY <1>17 DEF CancelWaiting, RecoveryDone
<1>18. ASSUME NEW t \in Tasks, CancelClosing(t) PROVE Clearing'
    BY <1>18 DEF CancelClosing, Invalidated, CloseArmsGap, CloseThen, Live
<1>19. ASSUME NEW t \in Tasks, CancelHolder(t) PROVE Clearing'
    BY <1>19, DisconnectEffect, CloseAllEffect DEF CancelHolder, Closes, Retired,
        Live
<1>20. ASSUME NEW t \in Tasks, CancelEnds(t) PROVE Clearing'
    BY <1>20 DEF CancelEnds, Holds, Release, RecoveryDone
<1>21. ASSUME NEW u \in Users, LiveWaitOver(u) PROVE Clearing'
    BY <1>21 DEF LiveWaitOver
<1>22. ASSUME NEW u \in Users, BeginLive(u) PROVE Clearing'
    BY <1>22, DisconnectEffect DEF BeginLive, Closes, Retired, Live
<1>23. ASSUME NEW u \in Users, BeginMaintenance(u) PROVE Clearing'
    BY <1>23 DEF BeginMaintenance
<1>24. ASSUME NEW u \in Users, MaintenanceSaved(u) PROVE Clearing'
    BY <1>24, DisconnectEffect DEF MaintenanceSaved, Runs, CancelRecovery,
        ReleaseAndSchedule, Available, Holds, Schedule, MayRecover, Closes,
        Retired, Live
<1>25. ASSUME NEW r \in Recoveries, RecoveryWakes(r) PROVE Clearing'
    BY <1>25 DEF RecoveryWakes, Available, RecoveryDone
<1>26. ASSUME Advertisement PROVE Clearing'
    BY <1>26 DEF Advertisement, Schedule, Available, MayRecover
<1>27. ASSUME Unavailable PROVE Clearing'
    BY <1>27, InvalidateEffect DEF Unavailable, Fault, CancelRecovery, CloseLater,
        Live, Closes, Retired, Live
<1>28. ASSUME Silent PROVE Clearing'
    BY <1>28, InvalidateEffect DEF Silent, Pushing, Stale, CloseLater, Schedule,
        Live, MayRecover, Closes, Retired, Live
<1>29. ASSUME NEW g \in sessions, SessionLost(g) PROVE Clearing'
  <2>1. UNCHANGED <<toClose, delay, quiet>>
    BY <1>29 DEF SessionLost, Invalidate
  <2>2. \A t \in Tasks : pc'[t] \in {"prepare", "gap"} => pc'[t] = pc[t]
    BY <1>29 DEF SessionLost, Schedule, MayRecover
  <2>3. CASE UNCHANGED <<client, detached, gap>>
    BY <2>1, <2>2, <2>3
  <2>4. CASE Invalidate
    BY <2>1, <2>2, <2>4, InvalidateEffect DEF Retired, Live
  <2> QED
    BY <1>29, <2>3, <2>4 DEF SessionLost
<1>30. ASSUME CloseEnds PROVE Clearing'
    BY <1>30 DEF CloseEnds, NoFault, Fault, CloseArmsGap
<1>31. ASSUME NEW c \in closers, CloserRuns(c) PROVE Clearing'
    BY <1>31 DEF CloserRuns
<1>32. ASSUME UnloadStarts PROVE Clearing'
  <2>1. UNCHANGED <<toClose, delay, quiet>>
    BY <1>32 DEF UnloadStarts, Invalidate
  <2>2. \A t \in Tasks : pc'[t] \in {"prepare", "gap"} => pc'[t] = pc[t]
    BY <1>32 DEF UnloadStarts
  <2>3. CASE UNCHANGED <<client, detached, gap>>
    BY <2>1, <2>2, <2>3
  <2>4. CASE Invalidate
    BY <2>1, <2>2, <2>4, InvalidateEffect DEF Retired, Live
  <2> QED
    BY <1>32, <2>3, <2>4 DEF UnloadStarts
<1>33. ASSUME UnloadCloses PROVE Clearing'
    BY <1>33 DEF UnloadCloses, Leftover
<1>34. ASSUME Tick PROVE Clearing'
    BY <1>34 DEF Tick, Minus1
<1>35. CASE UNCHANGED vars
    BY <1>35 DEF vars
<1> QED
    BY <1>1, <1>2, <1>3, <1>4, <1>5, <1>6, <1>7, <1>8, <1>9, <1>10, <1>11,
        <1>12, <1>13, <1>14, <1>15, <1>16, <1>17, <1>18, <1>19, <1>20, <1>21,
        <1>22, <1>23, <1>24, <1>25, <1>26, <1>27, <1>28, <1>29, <1>30, <1>31,
        <1>32, <1>33, <1>34, <1>35
       DEF Next, UserStarts, TaskStep, UserStep, Callback, Radio, Background,
           Unloading

LEMMA HaltingStep ==
    ASSUME ClientTypes, Numbering, TaskTypes, Locking, Halting, [Next]_vars
    PROVE  Halting'
<1> USE TasksAssumption, NumbersAssumption DEF TaskTypes, Tasks, Phases,
    LockedPhases, Locking, Halting, coordinatorVars, taskVars, holderVars,
    modeVars, radioVars, timeVars, budgetVars
<1>1. ASSUME NEW g \in sessions, Receive(g) PROVE Halting'
    BY <1>1 DEF Receive
<1>2. ASSUME CloseEnds \/ CloserEnds \/ UnloadCloses \/ UnloadEnds \/ Tick
     PROVE  Halting'
    BY <1>2 DEF CloseEnds, CloserEnds, UnloadCloses, UnloadEnds, Tick
<1>3. ASSUME NEW c \in closers, CloserRuns(c) PROVE Halting'
    BY <1>3 DEF CloserRuns
<1>4. ASSUME NEW c \in linkUp, LinkDrops(c) \/ GoesMute(c) PROVE Halting'
    BY <1>4 DEF LinkDrops, GoesMute
<1>5. ASSUME NEW u \in Users, NEW k \in CallKinds, UserCall(u, k)
     PROVE  Halting'
    BY <1>5 DEF UserCall, Available, CancelRecovery
<1>6. ASSUME NEW t \in Tasks, BeginFresh(t) PROVE Halting'
    BY <1>6, NewSessionEffect DEF BeginFresh, Kind, AfterError, Closes, Retired
<1>7. ASSUME NEW t \in Tasks, StartGap(t) PROVE Halting'
    BY <1>7 DEF StartGap, Holds
<1>8. ASSUME NEW t \in Tasks, Open(t) PROVE Halting'
    BY <1>8 DEF Open, Runs, Holds
<1>9. ASSUME NEW t \in Tasks, NoDevice(t) PROVE Halting'
    BY <1>9, CloseAllEffect DEF NoDevice, Runs, Fault, NoFault, Holds, Closes,
        Retired
<1>10. ASSUME NEW t \in Tasks, Connected(t) PROVE Halting'
    BY <1>10 DEF Connected, Runs, Pushing, Holds
<1>11. ASSUME NEW t \in Tasks, ConnectDropped(t) PROVE Halting'
    BY <1>11, CloseAllEffect DEF ConnectDropped, Runs, Pushing, Fault, NoFault,
        LastAttempt, Holds, Closes, Retired
<1>12. ASSUME NEW t \in Tasks, ConnectRefused(t) PROVE Halting'
    BY <1>12, CloseAllEffect DEF ConnectRefused, Runs, Fault, Holds, Closes,
        Retired
<1>13. ASSUME NEW t \in Tasks, OpenAnother(t) PROVE Halting'
    BY <1>13, NewSessionEffect DEF OpenAnother, Runs, Kind, Holds, Closes, Retired
<1>14. ASSUME NEW t \in Tasks, Finish(t) PROVE Halting'
    BY <1>14 DEF Finish, Runs, Kind, Pushing, Heard, ReleaseAndSchedule,
        Release, RecoveryDone, Holds, Schedule, MayRecover
<1>15. ASSUME NEW t \in Tasks, IoFails(t) PROVE Halting'
    BY <1>15, DisconnectEffect DEF IoFails, Runs, Pushing, Fault, NoFault, Holds,
        Closes, Retired
<1>16. ASSUME NEW t \in Tasks, Leave(t) PROVE Halting'
    BY <1>16 DEF Leave, Holds, Release, AfterError
<1>17. ASSUME NEW t \in Tasks, CancelWaiting(t) PROVE Halting'
    BY <1>17 DEF CancelWaiting, RecoveryDone
<1>18. ASSUME NEW t \in Tasks, CancelClosing(t) PROVE Halting'
    BY <1>18 DEF CancelClosing, Invalidated, CloseArmsGap, CloseThen, Live
<1>19. ASSUME NEW t \in Tasks, CancelHolder(t) PROVE Halting'
    BY <1>19, DisconnectEffect, CloseAllEffect DEF CancelHolder, Closes, Retired
<1>20. ASSUME NEW t \in Tasks, CancelEnds(t) PROVE Halting'
    BY <1>20 DEF CancelEnds, Holds, Release, RecoveryDone
<1>21. ASSUME NEW u \in Users, LiveWaitOver(u) PROVE Halting'
    BY <1>21 DEF LiveWaitOver
<1>22. ASSUME NEW u \in Users, BeginLive(u) PROVE Halting'
    BY <1>22, DisconnectEffect DEF BeginLive, Closes, Retired
<1>23. ASSUME NEW u \in Users, BeginMaintenance(u) PROVE Halting'
    BY <1>23 DEF BeginMaintenance
<1>24. ASSUME NEW u \in Users, MaintenanceSaved(u) PROVE Halting'
    BY <1>24, DisconnectEffect DEF MaintenanceSaved, Runs, CancelRecovery,
        ReleaseAndSchedule, Available, Holds, Schedule, MayRecover, Closes,
        Retired
<1>25. ASSUME NEW u \in Users, UserCancelled(u) PROVE Halting'
    BY <1>25 DEF UserCancelled, Fault
<1>26. ASSUME NEW r \in Recoveries, RecoveryWakes(r) PROVE Halting'
    BY <1>26 DEF RecoveryWakes, Available, RecoveryDone
<1>27. ASSUME Advertisement PROVE Halting'
    BY <1>27 DEF Advertisement, Schedule, Available, MayRecover
<1>28. ASSUME Unavailable PROVE Halting'
    BY <1>28, InvalidateEffect DEF Unavailable, Fault, CancelRecovery, CloseLater,
        Live, Closes, Retired
<1>29. ASSUME Silent PROVE Halting'
    BY <1>29, InvalidateEffect DEF Silent, Pushing, Stale, CloseLater, Schedule,
        Live, MayRecover, Closes, Retired
<1>30. ASSUME NEW g \in sessions, SessionLost(g) PROVE Halting'
    BY <1>30, InvalidateEffect DEF SessionLost, Stale, Schedule, MayRecover,
        Closes, Retired
<1>31. ASSUME UnloadStarts PROVE Halting'
    BY <1>31, InvalidateEffect DEF UnloadStarts, Tracked, Closes, Retired
<1>32. CASE UNCHANGED vars
    BY <1>32 DEF vars
<1> QED
    BY <1>1, <1>2, <1>3, <1>4, <1>5, <1>6, <1>7, <1>8, <1>9, <1>10, <1>11,
        <1>12, <1>13, <1>14, <1>15, <1>16, <1>17, <1>18, <1>19, <1>20, <1>21,
        <1>22, <1>23, <1>24, <1>25, <1>26, <1>27, <1>28, <1>29, <1>30, <1>31,
        <1>32
       DEF Next, UserStarts, TaskStep, UserStep, Callback, Radio, Background,
           Unloading

LEMMA ForgettingStep ==
    ASSUME ClientTypes, RadioTypes, TaskTypes, Numbering, Locking, Clearing,
        Halting, Unloaded, NothingForgotten, [Next]_vars
    PROVE  NothingForgotten'
<1> USE TasksAssumption, NumbersAssumption DEF ClientTypes, TaskTypes, Tasks,
    Phases, LockedPhases, Locking, RadioTypes, Numbering, Clearing, Halting,
    Unloaded, NothingForgotten, coordinatorVars, taskVars, holderVars,
    modeVars, radioVars, timeVars, budgetVars
<1>1. ASSUME NEW u \in Users, NEW k \in CallKinds, UserCall(u, k)
     PROVE  NothingForgotten'
    BY <1>1 DEF UserCall
<1>2. ASSUME NEW t \in Tasks, StartGap(t) \/ Connected(t) \/ CancelWaiting(t)
     PROVE  NothingForgotten'
    BY <1>2 DEF StartGap, Connected, CancelWaiting
<1>3. ASSUME NEW u \in Users, LiveWaitOver(u) \/ BeginMaintenance(u) \/
        UserCancelled(u)
     PROVE  NothingForgotten'
    BY <1>3 DEF LiveWaitOver, BeginMaintenance, UserCancelled
<1>4. ASSUME NEW r \in Recoveries, RecoveryWakes(r) PROVE NothingForgotten'
    BY <1>4 DEF RecoveryWakes
<1>5. ASSUME Advertisement \/ CloserEnds \/ Tick PROVE NothingForgotten'
    BY <1>5 DEF Advertisement, CloserEnds, Tick
<1>6. ASSUME NEW g \in sessions, Receive(g) PROVE NothingForgotten'
    BY <1>6 DEF Receive
<1>7. ASSUME NEW c \in linkUp, GoesMute(c) PROVE NothingForgotten'
    BY <1>7 DEF GoesMute
<1>8. ASSUME NEW t \in Tasks, BeginFresh(t) PROVE NothingForgotten'
  <2>1. toClose = {}
    BY <1>8 DEF BeginFresh
  <2>2. CASE NewSession(t)
    BY <1>8, <2>1, <2>2, NewSessionEffect, ClosesForgetsNothing DEF BeginFresh
  <2>3. CASE UNCHANGED <<detached, toClose>>
    BY <1>8, <2>3 DEF BeginFresh
  <2> QED
    BY <1>8, <2>2, <2>3 DEF BeginFresh
<1>9. ASSUME NEW t \in Tasks, Open(t) PROVE NothingForgotten'
    BY <1>9 DEF Open, Runs, Holds
<1>10. ASSUME NEW t \in Tasks, NoDevice(t) PROVE NothingForgotten'
    BY <1>10, CloseAllEffect DEF NoDevice, Runs, Fault, NoFault, Holds, Closes,
        Retired, Live
<1>11. ASSUME NEW t \in Tasks, ConnectDropped(t) PROVE NothingForgotten'
    BY <1>11, CloseAllEffect DEF ConnectDropped, Runs, Pushing, Fault, NoFault,
        LastAttempt, Holds, Closes, Retired, Live
<1>12. ASSUME NEW t \in Tasks, ConnectRefused(t) PROVE NothingForgotten'
    BY <1>12, CloseAllEffect DEF ConnectRefused, Runs, Fault, Holds, Closes,
        Retired, Live
<1>13. ASSUME NEW t \in Tasks, OpenAnother(t) PROVE NothingForgotten'
    BY <1>13, NewSessionEffect DEF OpenAnother, Runs, Kind, Holds, Closes,
        Retired, Live
<1>14. ASSUME NEW t \in Tasks, Finish(t) PROVE NothingForgotten'
    BY <1>14 DEF Finish, Runs, Kind, Pushing, Heard, ReleaseAndSchedule,
        Release, RecoveryDone, Holds, Schedule, MayRecover
<1>15. ASSUME NEW t \in Tasks, IoFails(t) PROVE NothingForgotten'
    BY <1>15, DisconnectEffect DEF IoFails, Runs, Pushing, Fault, NoFault, Holds,
        Closes, Retired, Live
<1>16. ASSUME NEW t \in Tasks, Leave(t) PROVE NothingForgotten'
    BY <1>16 DEF Leave, Holds, Release, AfterError
<1>17. ASSUME NEW t \in Tasks, CancelClosing(t) PROVE NothingForgotten'
    BY <1>17 DEF CancelClosing, Invalidated, CloseArmsGap, CloseThen, Live
<1>18. ASSUME NEW t \in Tasks, CancelHolder(t) PROVE NothingForgotten'
    BY <1>18, DisconnectEffect, CloseAllEffect DEF CancelHolder, Closes, Retired,
        Live
<1>19. ASSUME NEW t \in Tasks, CancelEnds(t) PROVE NothingForgotten'
    BY <1>19 DEF CancelEnds, Holds, Release, RecoveryDone
<1>20. ASSUME NEW u \in Users, BeginLive(u) PROVE NothingForgotten'
  <2>1. toClose = {}
    BY <1>20 DEF BeginLive
  <2>2. CASE Disconnect(u, "leave")
    BY <1>20, <2>1, <2>2, DisconnectEffect, ClosesForgetsNothing DEF BeginLive
  <2>3. CASE UNCHANGED <<detached, toClose>>
    BY <1>20, <2>3 DEF BeginLive
  <2> QED
    BY <1>20, <2>2, <2>3 DEF BeginLive
<1>21. ASSUME NEW u \in Users, MaintenanceSaved(u) PROVE NothingForgotten'
  <2>1. toClose = {}
    BY <1>21 DEF MaintenanceSaved, Runs, Holds
  <2>2. CASE Disconnect(u, "leave")
    BY <1>21, <2>1, <2>2, DisconnectEffect, ClosesForgetsNothing
       DEF MaintenanceSaved
  <2>3. CASE UNCHANGED detached /\ toClose' = {}
    BY <1>21, <2>1, <2>3 DEF MaintenanceSaved
  <2> QED
    BY <1>21, <2>2, <2>3 DEF MaintenanceSaved, ReleaseAndSchedule
<1>22. ASSUME Unavailable PROVE NothingForgotten'
    BY <1>22, InvalidateEffect DEF Unavailable, Fault, CancelRecovery, CloseLater,
        Live, Closes, Retired, Live
<1>23. ASSUME Silent PROVE NothingForgotten'
  <2>1. UNCHANGED <<toClose, linkUp, leftover, unload>>
    BY <1>23 DEF Silent
  <2>2. CASE UNCHANGED <<detached, closers>>
    BY <2>1, <2>2
  <2>3. CASE Invalidate /\ CloseLater
    BY <2>1, <2>3, InvalidateEffect DEF CloseLater, Live
  <2> QED
    BY <1>23, <2>2, <2>3 DEF Silent
<1>24. ASSUME NEW g \in sessions, SessionLost(g) PROVE NothingForgotten'
  <2>1. UNCHANGED <<closers, toClose, linkUp, leftover, unload>>
    BY <1>24 DEF SessionLost
  <2>2. CASE UNCHANGED detached
    BY <2>1, <2>2
  <2>3. CASE Invalidate /\ g = generation
    BY <1>24, <2>1, <2>3, InvalidateEffect DEF SessionLost, Live
  <2> QED
    BY <1>24, <2>2, <2>3 DEF SessionLost, Stale
<1>25. ASSUME CloseEnds PROVE NothingForgotten'
    BY <1>25 DEF CloseEnds, NoFault, Fault, CloseArmsGap
<1>26. ASSUME NEW c \in closers, CloserRuns(c) PROVE NothingForgotten'
    BY <1>26 DEF CloserRuns
<1>27. ASSUME UnloadStarts PROVE NothingForgotten'
    BY <1>27, InvalidateEffect DEF UnloadStarts, Tracked, Closes, Retired, Live
<1>28. ASSUME UnloadCloses PROVE NothingForgotten'
    BY <1>28 DEF UnloadCloses, Leftover
<1>29. ASSUME UnloadEnds PROVE NothingForgotten'
    BY <1>29 DEF UnloadEnds
<1>30. ASSUME NEW c \in linkUp, LinkDrops(c) PROVE NothingForgotten'
    BY <1>30 DEF LinkDrops, Fault
<1>31. CASE UNCHANGED vars
    BY <1>31 DEF vars
<1> QED
    BY <1>1, <1>2, <1>3, <1>4, <1>5, <1>6, <1>7, <1>8, <1>9, <1>10, <1>11,
        <1>12, <1>13, <1>14, <1>15, <1>16, <1>17, <1>18, <1>19, <1>20, <1>21,
        <1>22, <1>23, <1>24, <1>25, <1>26, <1>27, <1>28, <1>29, <1>30, <1>31
       DEF Next, UserStarts, TaskStep, UserStep, Callback, Radio, Background,
           Unloading

LEMMA ServingStep ==
    ASSUME ClientTypes, TaskTypes, Numbering, Locking, Clearing, Serving,
        [Next]_vars
    PROVE  Serving'
<1> USE TasksAssumption, NumbersAssumption DEF ClientTypes, SessionOrNone,
    TaskTypes, Tasks, Phases, LockedPhases, Locking, Numbering, Clearing,
    Serving, Kind, coordinatorVars, taskVars, holderVars, modeVars, radioVars,
    timeVars, budgetVars
<1>1. ASSUME NEW u \in Users, UserCancelled(u) PROVE Serving'
    BY <1>1 DEF UserCancelled, Fault
<1>2. ASSUME CloseEnds \/ Tick PROVE Serving'
    BY <1>2 DEF CloseEnds, Tick, Fault, NoFault
<1>3. ASSUME NEW c \in linkUp, LinkDrops(c) \/ GoesMute(c) PROVE Serving'
    BY <1>3 DEF LinkDrops, GoesMute, Fault
<1>4. ASSUME NEW u \in Users, NEW k \in CallKinds, UserCall(u, k)
     PROVE  Serving'
    BY <1>4 DEF UserCall, Available, CancelRecovery
<1>5. ASSUME NEW t \in Tasks, BeginFresh(t) PROVE Serving'
    BY <1>5, NewSessionEffect DEF BeginFresh, Kind, AfterError, Closes, Retired
<1>6. ASSUME NEW t \in Tasks, StartGap(t) PROVE Serving'
    BY <1>6 DEF StartGap, Holds
<1>7. ASSUME NEW t \in Tasks, Open(t) PROVE Serving'
    BY <1>7 DEF Open, Runs, Holds
<1>8. ASSUME NEW t \in Tasks, NoDevice(t) PROVE Serving'
    BY <1>8, CloseAllEffect DEF NoDevice, Runs, Fault, NoFault, Holds, Closes,
        Retired
<1>9. ASSUME NEW t \in Tasks, Connected(t) PROVE Serving'
    BY <1>9 DEF Connected, Runs, Pushing, Holds
<1>10. ASSUME NEW t \in Tasks, ConnectDropped(t) PROVE Serving'
    BY <1>10, CloseAllEffect DEF ConnectDropped, Runs, Pushing, Fault, NoFault,
        LastAttempt, Holds, Closes, Retired
<1>11. ASSUME NEW t \in Tasks, ConnectRefused(t) PROVE Serving'
    BY <1>11, CloseAllEffect DEF ConnectRefused, Runs, Fault, Holds, Closes,
        Retired
<1>12. ASSUME NEW t \in Tasks, OpenAnother(t) PROVE Serving'
    BY <1>12, NewSessionEffect DEF OpenAnother, Runs, Kind, Holds, Closes, Retired
<1>13. ASSUME NEW t \in Tasks, Finish(t) PROVE Serving'
    BY <1>13 DEF Finish, Runs, Kind, Pushing, Heard, ReleaseAndSchedule,
        Release, RecoveryDone, Holds, Schedule, MayRecover
<1>14. ASSUME NEW t \in Tasks, IoFails(t) PROVE Serving'
    BY <1>14, DisconnectEffect DEF IoFails, Runs, Pushing, Fault, NoFault, Holds,
        Closes, Retired
<1>15. ASSUME NEW t \in Tasks, Leave(t) PROVE Serving'
    BY <1>15 DEF Leave, Holds, Release, AfterError
<1>16. ASSUME NEW t \in Tasks, CancelWaiting(t) PROVE Serving'
    BY <1>16 DEF CancelWaiting, RecoveryDone
<1>17. ASSUME NEW t \in Tasks, CancelClosing(t) PROVE Serving'
    BY <1>17 DEF CancelClosing, Invalidated, CloseArmsGap, CloseThen, Live
<1>18. ASSUME NEW t \in Tasks, CancelHolder(t) PROVE Serving'
    BY <1>18, DisconnectEffect, CloseAllEffect DEF CancelHolder, Closes, Retired
<1>19. ASSUME NEW t \in Tasks, CancelEnds(t) PROVE Serving'
    BY <1>19 DEF CancelEnds, Holds, Release, RecoveryDone
<1>20. ASSUME NEW u \in Users, LiveWaitOver(u) PROVE Serving'
    BY <1>20 DEF LiveWaitOver
<1>21. ASSUME NEW u \in Users, BeginLive(u) PROVE Serving'
    BY <1>21, DisconnectEffect DEF BeginLive, Closes, Retired
<1>22. ASSUME NEW u \in Users, BeginMaintenance(u) PROVE Serving'
    BY <1>22 DEF BeginMaintenance
<1>23. ASSUME NEW u \in Users, MaintenanceSaved(u) PROVE Serving'
    BY <1>23, DisconnectEffect DEF MaintenanceSaved, Runs, CancelRecovery,
        ReleaseAndSchedule, Available, Holds, Schedule, MayRecover, Closes,
        Retired
<1>24. ASSUME NEW r \in Recoveries, RecoveryWakes(r) PROVE Serving'
    BY <1>24 DEF RecoveryWakes, Available, RecoveryDone
<1>25. ASSUME Advertisement PROVE Serving'
    BY <1>25 DEF Advertisement, Schedule, Available, MayRecover
<1>26. ASSUME Unavailable PROVE Serving'
    BY <1>26, InvalidateEffect DEF Unavailable, Fault, CancelRecovery, CloseLater,
        Live, Closes, Retired
<1>27. ASSUME Silent PROVE Serving'
    BY <1>27, InvalidateEffect DEF Silent, Pushing, Stale, CloseLater, Schedule,
        Live, MayRecover, Closes, Retired
<1>28. ASSUME NEW g \in sessions, SessionLost(g) PROVE Serving'
    BY <1>28, InvalidateEffect DEF SessionLost, Stale, Schedule, MayRecover,
        Closes, Retired
<1>29. ASSUME NEW g \in sessions, Receive(g) PROVE Serving'
    BY <1>29 DEF Receive, Stale, Heard
<1>30. ASSUME CloserEnds PROVE Serving'
    BY <1>30 DEF CloserEnds
<1>31. ASSUME NEW c \in closers, CloserRuns(c) PROVE Serving'
    BY <1>31 DEF CloserRuns
<1>32. ASSUME UnloadStarts PROVE Serving'
    BY <1>32, InvalidateEffect DEF UnloadStarts, Tracked, Closes, Retired
<1>33. ASSUME UnloadCloses PROVE Serving'
    BY <1>33 DEF UnloadCloses, Leftover
<1>34. ASSUME UnloadEnds PROVE Serving'
    BY <1>34 DEF UnloadEnds
<1>35. CASE UNCHANGED vars
    BY <1>35 DEF vars
<1> QED
    BY <1>1, <1>2, <1>3, <1>4, <1>5, <1>6, <1>7, <1>8, <1>9, <1>10, <1>11,
        <1>12, <1>13, <1>14, <1>15, <1>16, <1>17, <1>18, <1>19, <1>20, <1>21,
        <1>22, <1>23, <1>24, <1>25, <1>26, <1>27, <1>28, <1>29, <1>30, <1>31,
        <1>32, <1>33, <1>34, <1>35
       DEF Next, UserStarts, TaskStep, UserStep, Callback, Radio, Background,
           Unloading

LEMMA RecoveringStep ==
    ASSUME ClientTypes, TaskTypes, Numbering, Locking, Recovering, [Next]_vars
    PROVE  Recovering'
<1> USE TasksAssumption DEF TaskTypes, Tasks, Phases, LockedPhases, Locking,
    Recovering, OneRecovery, coordinatorVars, taskVars, holderVars, modeVars,
    radioVars, timeVars, budgetVars
<1>1. ASSUME NEW g \in sessions, Receive(g) PROVE Recovering'
    BY <1>1 DEF Receive
<1>2. ASSUME CloseEnds \/ CloserEnds \/ UnloadCloses \/ UnloadEnds \/ Tick
     PROVE  Recovering'
    BY <1>2 DEF CloseEnds, CloserEnds, UnloadCloses, UnloadEnds, Tick
<1>3. ASSUME NEW c \in closers, CloserRuns(c) PROVE Recovering'
    BY <1>3 DEF CloserRuns
<1>4. ASSUME NEW c \in linkUp, LinkDrops(c) \/ GoesMute(c) PROVE Recovering'
    BY <1>4 DEF LinkDrops, GoesMute
<1>5. ASSUME NEW u \in Users, NEW k \in CallKinds, UserCall(u, k)
     PROVE  Recovering'
    BY <1>5 DEF UserCall, Available, CancelRecovery
<1>6. ASSUME NEW t \in Tasks, BeginFresh(t) PROVE Recovering'
    BY <1>6, NewSessionEffect DEF BeginFresh, Kind, AfterError, Closes, Retired
<1>7. ASSUME NEW t \in Tasks, StartGap(t) PROVE Recovering'
    BY <1>7 DEF StartGap, Holds
<1>8. ASSUME NEW t \in Tasks, Open(t) PROVE Recovering'
    BY <1>8 DEF Open, Runs, Holds
<1>9. ASSUME NEW t \in Tasks, NoDevice(t) PROVE Recovering'
    BY <1>9, CloseAllEffect DEF NoDevice, Runs, Fault, NoFault, Holds, Closes,
        Retired
<1>10. ASSUME NEW t \in Tasks, Connected(t) PROVE Recovering'
    BY <1>10 DEF Connected, Runs, Pushing, Holds
<1>11. ASSUME NEW t \in Tasks, ConnectDropped(t) PROVE Recovering'
    BY <1>11, CloseAllEffect DEF ConnectDropped, Runs, Pushing, Fault, NoFault,
        LastAttempt, Holds, Closes, Retired
<1>12. ASSUME NEW t \in Tasks, ConnectRefused(t) PROVE Recovering'
    BY <1>12, CloseAllEffect DEF ConnectRefused, Runs, Fault, Holds, Closes,
        Retired
<1>13. ASSUME NEW t \in Tasks, OpenAnother(t) PROVE Recovering'
    BY <1>13, NewSessionEffect DEF OpenAnother, Runs, Kind, Holds, Closes, Retired
<1>14. ASSUME NEW t \in Tasks, Finish(t) PROVE Recovering'
    BY <1>14 DEF Finish, Runs, Kind, Pushing, Heard, ReleaseAndSchedule,
        Release, RecoveryDone, Holds, Schedule, MayRecover
<1>15. ASSUME NEW t \in Tasks, IoFails(t) PROVE Recovering'
    BY <1>15, DisconnectEffect DEF IoFails, Runs, Pushing, Fault, NoFault, Holds,
        Closes, Retired
<1>16. ASSUME NEW t \in Tasks, Leave(t) PROVE Recovering'
    BY <1>16 DEF Leave, Holds, Release, AfterError
<1>17. ASSUME NEW t \in Tasks, CancelWaiting(t) PROVE Recovering'
    BY <1>17 DEF CancelWaiting, RecoveryDone
<1>18. ASSUME NEW t \in Tasks, CancelClosing(t) PROVE Recovering'
    BY <1>18 DEF CancelClosing, Invalidated, CloseArmsGap, CloseThen, Live
<1>19. ASSUME NEW t \in Tasks, CancelHolder(t) PROVE Recovering'
    BY <1>19, DisconnectEffect, CloseAllEffect DEF CancelHolder, Closes, Retired
<1>20. ASSUME NEW t \in Tasks, CancelEnds(t) PROVE Recovering'
    BY <1>20 DEF CancelEnds, Holds, Release, RecoveryDone
<1>21. ASSUME NEW u \in Users, LiveWaitOver(u) PROVE Recovering'
    BY <1>21 DEF LiveWaitOver
<1>22. ASSUME NEW u \in Users, BeginLive(u) PROVE Recovering'
    BY <1>22, DisconnectEffect DEF BeginLive, Closes, Retired
<1>23. ASSUME NEW u \in Users, BeginMaintenance(u) PROVE Recovering'
    BY <1>23 DEF BeginMaintenance
<1>24. ASSUME NEW u \in Users, MaintenanceSaved(u) PROVE Recovering'
    BY <1>24, DisconnectEffect DEF MaintenanceSaved, Runs, CancelRecovery,
        ReleaseAndSchedule, Available, Holds, Schedule, MayRecover, Closes,
        Retired
<1>25. ASSUME NEW u \in Users, UserCancelled(u) PROVE Recovering'
    BY <1>25 DEF UserCancelled, Fault
<1>26. ASSUME NEW r \in Recoveries, RecoveryWakes(r) PROVE Recovering'
    BY <1>26 DEF RecoveryWakes, Available, RecoveryDone
<1>27. ASSUME Advertisement PROVE Recovering'
    BY <1>27 DEF Advertisement, Schedule, Available, MayRecover
<1>28. ASSUME Unavailable PROVE Recovering'
    BY <1>28, InvalidateEffect DEF Unavailable, Fault, CancelRecovery, CloseLater,
        Live, Closes, Retired
<1>29. ASSUME Silent PROVE Recovering'
    BY <1>29, InvalidateEffect DEF Silent, Pushing, Stale, CloseLater, Schedule,
        Live, MayRecover, Closes, Retired
<1>30. ASSUME NEW g \in sessions, SessionLost(g) PROVE Recovering'
    BY <1>30, InvalidateEffect DEF SessionLost, Stale, Schedule, MayRecover,
        Closes, Retired
<1>31. ASSUME UnloadStarts PROVE Recovering'
    BY <1>31, InvalidateEffect DEF UnloadStarts, Tracked, Closes, Retired
<1>32. CASE UNCHANGED vars
    BY <1>32 DEF vars
<1> QED
    BY <1>1, <1>2, <1>3, <1>4, <1>5, <1>6, <1>7, <1>8, <1>9, <1>10, <1>11,
        <1>12, <1>13, <1>14, <1>15, <1>16, <1>17, <1>18, <1>19, <1>20, <1>21,
        <1>22, <1>23, <1>24, <1>25, <1>26, <1>27, <1>28, <1>29, <1>30, <1>31,
        <1>32
       DEF Next, UserStarts, TaskStep, UserStep, Callback, Radio, Background,
           Unloading

LEMMA UnloadedStep ==
    ASSUME ClientTypes, TaskTypes, Numbering, Locking, Halting, Unloaded,
        [Next]_vars
    PROVE  Unloaded'
<1> USE TasksAssumption, NumbersAssumption DEF ClientTypes, TaskTypes, Tasks,
    Phases, LockedPhases, Locking, Numbering, Halting, Unloaded,
    coordinatorVars, taskVars, holderVars, modeVars, radioVars, timeVars,
    budgetVars
<1>1. ASSUME NEW u \in Users, UserCancelled(u) PROVE Unloaded'
    BY <1>1 DEF UserCancelled
<1>2. ASSUME NEW g \in sessions, Receive(g) PROVE Unloaded'
    BY <1>2 DEF Receive
<1>3. ASSUME CloseEnds \/ Tick PROVE Unloaded'
    BY <1>3 DEF CloseEnds, Tick
<1>4. ASSUME NEW c \in linkUp, LinkDrops(c) \/ GoesMute(c) PROVE Unloaded'
    BY <1>4 DEF LinkDrops, GoesMute
<1>5. ASSUME NEW u \in Users, NEW k \in CallKinds, UserCall(u, k)
     PROVE  Unloaded'
    BY <1>5 DEF UserCall, Available, CancelRecovery
<1>6. ASSUME NEW t \in Tasks, BeginFresh(t) PROVE Unloaded'
    BY <1>6, NewSessionEffect DEF BeginFresh, Kind, AfterError, Closes, Retired
<1>7. ASSUME NEW t \in Tasks, StartGap(t) PROVE Unloaded'
    BY <1>7 DEF StartGap, Holds
<1>8. ASSUME NEW t \in Tasks, Open(t) PROVE Unloaded'
    BY <1>8 DEF Open, Runs, Holds
<1>9. ASSUME NEW t \in Tasks, NoDevice(t) PROVE Unloaded'
    BY <1>9, CloseAllEffect DEF NoDevice, Runs, Fault, NoFault, Holds, Closes,
        Retired
<1>10. ASSUME NEW t \in Tasks, Connected(t) PROVE Unloaded'
    BY <1>10 DEF Connected, Runs, Pushing, Holds
<1>11. ASSUME NEW t \in Tasks, ConnectDropped(t) PROVE Unloaded'
    BY <1>11, CloseAllEffect DEF ConnectDropped, Runs, Pushing, Fault, NoFault,
        LastAttempt, Holds, Closes, Retired
<1>12. ASSUME NEW t \in Tasks, ConnectRefused(t) PROVE Unloaded'
    BY <1>12, CloseAllEffect DEF ConnectRefused, Runs, Fault, Holds, Closes,
        Retired
<1>13. ASSUME NEW t \in Tasks, OpenAnother(t) PROVE Unloaded'
    BY <1>13, NewSessionEffect DEF OpenAnother, Runs, Kind, Holds, Closes, Retired
<1>14. ASSUME NEW t \in Tasks, Finish(t) PROVE Unloaded'
    BY <1>14 DEF Finish, Runs, Kind, Pushing, Heard, ReleaseAndSchedule,
        Release, RecoveryDone, Holds, Schedule, MayRecover
<1>15. ASSUME NEW t \in Tasks, IoFails(t) PROVE Unloaded'
    BY <1>15, DisconnectEffect DEF IoFails, Runs, Pushing, Fault, NoFault, Holds,
        Closes, Retired
<1>16. ASSUME NEW t \in Tasks, Leave(t) PROVE Unloaded'
    BY <1>16 DEF Leave, Holds, Release, AfterError
<1>17. ASSUME NEW t \in Tasks, CancelWaiting(t) PROVE Unloaded'
    BY <1>17 DEF CancelWaiting, RecoveryDone
<1>18. ASSUME NEW t \in Tasks, CancelClosing(t) PROVE Unloaded'
    BY <1>18 DEF CancelClosing, Invalidated, CloseArmsGap, CloseThen, Live
<1>19. ASSUME NEW t \in Tasks, CancelHolder(t) PROVE Unloaded'
    BY <1>19, DisconnectEffect, CloseAllEffect DEF CancelHolder, Closes, Retired
<1>20. ASSUME NEW t \in Tasks, CancelEnds(t) PROVE Unloaded'
    BY <1>20 DEF CancelEnds, Holds, Release, RecoveryDone
<1>21. ASSUME NEW u \in Users, LiveWaitOver(u) PROVE Unloaded'
    BY <1>21 DEF LiveWaitOver
<1>22. ASSUME NEW u \in Users, BeginLive(u) PROVE Unloaded'
    BY <1>22, DisconnectEffect DEF BeginLive, Closes, Retired
<1>23. ASSUME NEW u \in Users, BeginMaintenance(u) PROVE Unloaded'
    BY <1>23 DEF BeginMaintenance
<1>24. ASSUME NEW u \in Users, MaintenanceSaved(u) PROVE Unloaded'
    BY <1>24, DisconnectEffect DEF MaintenanceSaved, Runs, CancelRecovery,
        ReleaseAndSchedule, Available, Holds, Schedule, MayRecover, Closes,
        Retired
<1>25. ASSUME NEW r \in Recoveries, RecoveryWakes(r) PROVE Unloaded'
    BY <1>25 DEF RecoveryWakes, Available, RecoveryDone
<1>26. ASSUME Advertisement PROVE Unloaded'
    BY <1>26 DEF Advertisement, Schedule, Available, MayRecover
<1>27. ASSUME Unavailable PROVE Unloaded'
    BY <1>27, InvalidateEffect DEF Unavailable, Fault, CancelRecovery, CloseLater,
        Live, Closes, Retired
<1>28. ASSUME Silent PROVE Unloaded'
    BY <1>28, InvalidateEffect DEF Silent, Pushing, Stale, CloseLater, Schedule,
        Live, MayRecover, Closes, Retired
<1>29. ASSUME NEW g \in sessions, SessionLost(g) PROVE Unloaded'
    BY <1>29, InvalidateEffect DEF SessionLost, Stale, Schedule, MayRecover,
        Closes, Retired
<1>30. ASSUME CloserEnds PROVE Unloaded'
    BY <1>30 DEF CloserEnds
<1>31. ASSUME NEW c \in closers, CloserRuns(c) PROVE Unloaded'
    BY <1>31 DEF CloserRuns
<1>32. ASSUME UnloadStarts PROVE Unloaded'
    BY <1>32, InvalidateEffect DEF UnloadStarts, Tracked, Closes, Retired
<1>33. ASSUME UnloadCloses PROVE Unloaded'
    BY <1>33 DEF UnloadCloses, Leftover
<1>34. ASSUME UnloadEnds PROVE Unloaded'
    BY <1>34 DEF UnloadEnds
<1>35. CASE UNCHANGED vars
    BY <1>35 DEF vars
<1> QED
    BY <1>1, <1>2, <1>3, <1>4, <1>5, <1>6, <1>7, <1>8, <1>9, <1>10, <1>11,
        <1>12, <1>13, <1>14, <1>15, <1>16, <1>17, <1>18, <1>19, <1>20, <1>21,
        <1>22, <1>23, <1>24, <1>25, <1>26, <1>27, <1>28, <1>29, <1>30, <1>31,
        <1>32, <1>33, <1>34, <1>35
       DEF Next, UserStarts, TaskStep, UserStep, Callback, Radio, Background,
           Unloading

-----------------------------------------------------------------------------
(* The inductive invariant holds.                                          *)

LEMMA InitIInv == Init => IInv
<1> SUFFICES ASSUME Init PROVE IInv
    OBVIOUS
<1> USE TasksAssumption, NumbersAssumption DEF Init
<1>1. ClientTypes /\ RadioTypes
    BY DEF ClientTypes, RadioTypes, SessionOrNone
<1>2. TaskTypes
  <2>1. /\ gap \in 0..ReconnectGap /\ delay \in 0..ReconnectGap
        /\ quiet \in 0..ReconnectGap /\ attempt \in 0..ConnectAttempts
        /\ reads \in 0..2 /\ faults \in Nat /\ calls \in Nat
    OBVIOUS
  <2>2. pc \in [Tasks -> Phases] /\ call \in [Users -> Calls]
    BY DEF Phases, Calls
  <2> QED
    BY <2>1, <2>2 DEF TaskTypes
<1>3. Numbering /\ Clearing /\ Halting
    BY DEF Numbering, Clearing, Halting
<1>4. Locking
    BY DEF Locking, LockedPhases, Phases, Tasks
<1>5. NothingForgotten /\ Serving /\ Recovering /\ Unloaded
    BY DEF NothingForgotten, Serving, Recovering, OneRecovery, Unloaded, Tasks
<1> QED
    BY <1>1, <1>2, <1>3, <1>4, <1>5 DEF IInv, TypeOK

LEMMA IInvStep ==
    ASSUME IInv, [Next]_vars
    PROVE  IInv'
<1>1. TypeOK'
    BY ClientTypesStep, RadioTypesStep, TaskTypesStep DEF IInv, TypeOK
<1>2. Numbering' /\ Locking' /\ Clearing' /\ Halting'
    BY NumberingStep, LockingStep, ClearingStep, HaltingStep DEF IInv, TypeOK
<1>3. NothingForgotten' /\ Serving' /\ Recovering' /\ Unloaded'
    BY ForgettingStep, ServingStep, RecoveringStep, UnloadedStep
       DEF IInv, TypeOK
<1> QED
    BY <1>1, <1>2, <1>3 DEF IInv

LEMMA IInvAlways == Spec => []IInv
BY InitIInv, IInvStep, PTL DEF Spec

-----------------------------------------------------------------------------
(* The invariants that follow from it.                                     *)

\* Every variable keeps its type and every counter its bound, for any number of
\* concurrent calls and faults.
THEOREM TypeCorrectness == Spec => []TypeOK
<1>1. IInv => TypeOK
    BY DEF IInv
<1> QED
    BY <1>1, IInvAlways, PTL

\* _async_close_all before every connect really leaves one session at a time,
\* whichever callbacks and cancellations detached the earlier ones.
THEOREM SingleSession == Spec => []OneSession
<1>1. IInv => OneSession
    BY DEF IInv, Clearing, OneSession
<1> QED
    BY <1>1, IInvAlways, PTL

\* No frame of an old session is ever shown (_receive, _invalidate).
THEOREM OnlyLiveStateShown == Spec => []ShownIsWatched
<1>1. IInv => ShownIsWatched
    BY DEF IInv, Numbering, ShownIsWatched
<1> QED
    BY <1>1, IInvAlways, PTL

\* Maintenance mode keeps the device free of sessions, whatever was queued or
\* scheduled when async_set_maintenance switched it on.
THEOREM MaintenanceIsQuiet == Spec => []MaintenanceQuiet
<1>1. IInv => MaintenanceQuiet
    BY DEF IInv, Halting, MaintenanceQuiet
<1> QED
    BY <1>1, IInvAlways, PTL

\* A detached session whose link is still up always has someone who closes it:
\* no failed or cancelled operation loses one (_detached, _async_close_detached).
THEOREM NoSessionForgotten == Spec => []NothingForgotten
<1>1. IInv => NothingForgotten
    BY DEF IInv
<1> QED
    BY <1>1, IInvAlways, PTL

\* Between operations an open session serves state: every failure and every
\* cancellation disconnects (_locked, _write, _async_recover).
THEOREM IdleSessionServes == Spec => []OpenSessionServes
<1>1. IInv => OpenSessionServes
    BY TasksAssumption
       DEF IInv, Serving, OpenSessionServes, Available, Tasks
<1> QED
    BY <1>1, IInvAlways, PTL

\* Recovery stays coalesced in one task (_schedule_recovery, _recovery_done).
THEOREM RecoveryCoalesced == Spec => []OneRecovery
<1>1. IInv => OneRecovery
    BY DEF IInv, Recovering
<1> QED
    BY <1>1, IInvAlways, PTL

\* When async_shutdown returns no task, session or open link is left.
THEOREM CleanUnload == Spec => []UnloadLeavesNothing
<1>1. IInv => UnloadLeavesNothing
    BY TasksAssumption
       DEF IInv, Unloaded, Halting, Locking, NothingForgotten, Tasks,
           UnloadLeavesNothing
<1> QED
    BY <1>1, IInvAlways, PTL

-----------------------------------------------------------------------------
(* Action properties.                                                      *)

\* Only _async_connect installs a session.
Opens ==
    \/ UNCHANGED sessions /\ client' \in {client, None}
    \/ \E t \in Tasks : Open(t)

\* A step that ends a healthy session holds the lock, or the device is gone.
KeepsHealthy ==
    client # None /\ client' # client /\ Pushing(client)
       => lock # None \/ lock' # None \/ ~present'

LEMMA OnlyOpenOpens ==
    ASSUME ClientTypes, RadioTypes, Numbering, [Next]_vars
    PROVE  Opens
<1> USE DEF ClientTypes, SessionOrNone, Opens, coordinatorVars, taskVars,
    holderVars, modeVars, radioVars, timeVars, budgetVars
<1>1. ASSUME NEW u \in Users, NEW k \in CallKinds, UserCall(u, k) PROVE Opens
    BY <1>1 DEF UserCall
<1>2. ASSUME NEW t \in Tasks, StartGap(t) \/ Connected(t) \/ Finish(t) \/
        Leave(t) \/ CancelWaiting(t) \/ CancelEnds(t)
     PROVE  Opens
    BY <1>2 DEF StartGap, Connected, Finish, Leave, CancelWaiting, CancelEnds
<1>3. ASSUME NEW u \in Users, LiveWaitOver(u) \/ BeginMaintenance(u) \/
        UserCancelled(u)
     PROVE  Opens
    BY <1>3 DEF LiveWaitOver, BeginMaintenance, UserCancelled
<1>4. ASSUME NEW r \in Recoveries, RecoveryWakes(r) PROVE Opens
    BY <1>4 DEF RecoveryWakes
<1>5. ASSUME Advertisement \/ CloseEnds \/ CloserEnds \/ UnloadCloses \/
        UnloadEnds \/ Tick
     PROVE  Opens
    BY <1>5 DEF Advertisement, CloseEnds, CloserEnds, UnloadCloses,
        UnloadEnds, Tick
<1>6. ASSUME NEW g \in sessions, Receive(g) PROVE Opens
    BY <1>6 DEF Receive
<1>7. ASSUME NEW c \in closers, CloserRuns(c) PROVE Opens
    BY <1>7 DEF CloserRuns
<1>8. ASSUME NEW c \in linkUp, LinkDrops(c) \/ GoesMute(c) PROVE Opens
    BY <1>8 DEF LinkDrops, GoesMute
<1>9. ASSUME NEW t \in Tasks, BeginFresh(t) PROVE Opens
    BY <1>9, NewSessionEffect DEF BeginFresh, Kind, AfterError, Closes, Retired
<1>10. ASSUME NEW t \in Tasks, Open(t) PROVE Opens
    BY <1>10 DEF Open, Runs, Holds
<1>11. ASSUME NEW t \in Tasks, NoDevice(t) PROVE Opens
    BY <1>11, CloseAllEffect DEF NoDevice, Runs, Fault, NoFault, Holds, Closes,
        Retired
<1>12. ASSUME NEW t \in Tasks, ConnectDropped(t) PROVE Opens
    BY <1>12, CloseAllEffect DEF ConnectDropped, Runs, Pushing, Fault, NoFault,
        LastAttempt, Holds, Closes, Retired
<1>13. ASSUME NEW t \in Tasks, ConnectRefused(t) PROVE Opens
    BY <1>13, CloseAllEffect DEF ConnectRefused, Runs, Fault, Holds, Closes,
        Retired
<1>14. ASSUME NEW t \in Tasks, OpenAnother(t) PROVE Opens
    BY <1>14, NewSessionEffect DEF OpenAnother, Runs, Kind, Holds, Closes, Retired
<1>15. ASSUME NEW t \in Tasks, IoFails(t) PROVE Opens
    BY <1>15, DisconnectEffect DEF IoFails, Runs, Pushing, Fault, NoFault, Holds,
        Closes, Retired
<1>16. ASSUME NEW t \in Tasks, CancelClosing(t) PROVE Opens
    BY <1>16 DEF CancelClosing, Invalidated, CloseArmsGap, CloseThen, Live
<1>17. ASSUME NEW t \in Tasks, CancelHolder(t) PROVE Opens
    BY <1>17, DisconnectEffect, CloseAllEffect DEF CancelHolder, Closes, Retired
<1>18. ASSUME NEW u \in Users, BeginLive(u) PROVE Opens
    BY <1>18, DisconnectEffect DEF BeginLive, Closes, Retired
<1>19. ASSUME NEW u \in Users, MaintenanceSaved(u) PROVE Opens
    BY <1>19, DisconnectEffect DEF MaintenanceSaved, Runs, CancelRecovery,
        ReleaseAndSchedule, Available, Holds, Schedule, MayRecover, Closes,
        Retired
<1>20. ASSUME Unavailable PROVE Opens
    BY <1>20, InvalidateEffect DEF Unavailable, Fault, CancelRecovery, CloseLater,
        Live, Closes, Retired
<1>21. ASSUME Silent PROVE Opens
    BY <1>21, InvalidateEffect DEF Silent, Pushing, Stale, CloseLater, Schedule,
        Live, MayRecover, Closes, Retired
<1>22. ASSUME NEW g \in sessions, SessionLost(g) PROVE Opens
    BY <1>22, InvalidateEffect DEF SessionLost, Stale, Schedule, MayRecover,
        Closes, Retired
<1>23. ASSUME UnloadStarts PROVE Opens
    BY <1>23, InvalidateEffect DEF UnloadStarts, Tracked, Closes, Retired
<1>24. CASE UNCHANGED vars
    BY <1>24 DEF vars
<1> QED
    BY <1>1, <1>2, <1>3, <1>4, <1>5, <1>6, <1>7, <1>8, <1>9, <1>10, <1>11,
        <1>12, <1>13, <1>14, <1>15, <1>16, <1>17, <1>18, <1>19, <1>20, <1>21,
        <1>22, <1>23, <1>24
       DEF Next, UserStarts, TaskStep, UserStep, Callback, Radio, Background,
           Unloading

LEMMA HealthyStep ==
    ASSUME ClientTypes, RadioTypes, Numbering, Locking, Halting, [Next]_vars
    PROVE  KeepsHealthy
<1> USE TasksAssumption, NumbersAssumption DEF RadioTypes, Numbering, Locking,
    Pushing, Tasks, KeepsHealthy, coordinatorVars, taskVars, holderVars,
    modeVars, radioVars, timeVars, budgetVars
<1>1. ASSUME NEW u \in Users, NEW k \in CallKinds, UserCall(u, k)
     PROVE  KeepsHealthy
    BY <1>1 DEF UserCall
<1>2. ASSUME NEW t \in Tasks, StartGap(t) \/ Connected(t) \/ Finish(t) \/
        Leave(t) \/ CancelWaiting(t) \/ CancelEnds(t)
     PROVE  KeepsHealthy
    BY <1>2 DEF StartGap, Connected, Finish, Leave, CancelWaiting, CancelEnds
<1>3. ASSUME NEW u \in Users, LiveWaitOver(u) \/ BeginMaintenance(u) \/
        UserCancelled(u)
     PROVE  KeepsHealthy
    BY <1>3 DEF LiveWaitOver, BeginMaintenance, UserCancelled
<1>4. ASSUME NEW r \in Recoveries, RecoveryWakes(r) PROVE KeepsHealthy
    BY <1>4 DEF RecoveryWakes
<1>5. ASSUME Advertisement \/ CloseEnds \/ CloserEnds \/ UnloadCloses \/
        UnloadEnds \/ Tick
     PROVE  KeepsHealthy
    BY <1>5 DEF Advertisement, CloseEnds, CloserEnds, UnloadCloses,
        UnloadEnds, Tick
<1>6. ASSUME NEW g \in sessions, Receive(g) PROVE KeepsHealthy
    BY <1>6 DEF Receive
<1>7. ASSUME NEW c \in closers, CloserRuns(c) PROVE KeepsHealthy
    BY <1>7 DEF CloserRuns
<1>8. ASSUME NEW c \in linkUp, LinkDrops(c) \/ GoesMute(c) PROVE KeepsHealthy
    BY <1>8 DEF LinkDrops, GoesMute
<1>9. ASSUME NEW t \in Tasks, BeginFresh(t) PROVE KeepsHealthy
    BY <1>9, NewSessionEffect DEF BeginFresh, Kind, AfterError, Closes, Retired
<1>10. ASSUME NEW t \in Tasks, Open(t) PROVE KeepsHealthy
    BY <1>10 DEF Open, Runs, Holds
<1>11. ASSUME NEW t \in Tasks, NoDevice(t) PROVE KeepsHealthy
    BY <1>11, CloseAllEffect DEF NoDevice, Runs, Fault, NoFault, Holds, Closes,
        Retired
<1>12. ASSUME NEW t \in Tasks, ConnectDropped(t) PROVE KeepsHealthy
    BY <1>12, CloseAllEffect DEF ConnectDropped, Runs, Pushing, Fault, NoFault,
        LastAttempt, Holds, Closes, Retired
<1>13. ASSUME NEW t \in Tasks, ConnectRefused(t) PROVE KeepsHealthy
    BY <1>13, CloseAllEffect DEF ConnectRefused, Runs, Fault, Holds, Closes,
        Retired
<1>14. ASSUME NEW t \in Tasks, OpenAnother(t) PROVE KeepsHealthy
    BY <1>14, NewSessionEffect DEF OpenAnother, Runs, Kind, Holds, Closes, Retired
<1>15. ASSUME NEW t \in Tasks, IoFails(t) PROVE KeepsHealthy
    BY <1>15, DisconnectEffect DEF IoFails, Runs, Pushing, Fault, NoFault, Holds,
        Closes, Retired
<1>16. ASSUME NEW t \in Tasks, CancelClosing(t) PROVE KeepsHealthy
    BY <1>16 DEF CancelClosing, Invalidated, CloseArmsGap, CloseThen, Live
<1>17. ASSUME NEW t \in Tasks, CancelHolder(t) PROVE KeepsHealthy
    BY <1>17, DisconnectEffect, CloseAllEffect DEF CancelHolder, Closes, Retired
<1>18. ASSUME NEW u \in Users, BeginLive(u) PROVE KeepsHealthy
    BY <1>18, DisconnectEffect DEF BeginLive, Closes, Retired
<1>19. ASSUME NEW u \in Users, MaintenanceSaved(u) PROVE KeepsHealthy
    BY <1>19, DisconnectEffect DEF MaintenanceSaved, Runs, CancelRecovery,
        ReleaseAndSchedule, Available, Holds, Schedule, MayRecover, Closes,
        Retired
<1>20. ASSUME Unavailable PROVE KeepsHealthy
    BY <1>20, InvalidateEffect DEF Unavailable, Fault, CancelRecovery, CloseLater,
        Live, Closes, Retired
<1>21. ASSUME Silent PROVE KeepsHealthy
    BY <1>21, InvalidateEffect DEF Silent, Pushing, Stale, CloseLater, Schedule,
        Live, MayRecover, Closes, Retired
<1>22. ASSUME NEW g \in sessions, SessionLost(g) PROVE KeepsHealthy
    BY <1>22, InvalidateEffect DEF SessionLost, Stale, Schedule, MayRecover,
        Closes, Retired
<1>23. ASSUME UnloadStarts PROVE KeepsHealthy
    BY <1>23, InvalidateEffect DEF UnloadStarts, Tracked, Closes, Retired
<1>24. CASE UNCHANGED vars
    BY <1>24 DEF vars
<1> QED
    BY <1>1, <1>2, <1>3, <1>4, <1>5, <1>6, <1>7, <1>8, <1>9, <1>10, <1>11,
        <1>12, <1>13, <1>14, <1>15, <1>16, <1>17, <1>18, <1>19, <1>20, <1>21,
        <1>22, <1>23, <1>24
       DEF Next, UserStarts, TaskStep, UserStep, Callback, Radio, Background,
           Unloading

\* A connect waits out the reconnect gap after the last close, for every gap
\* and whoever closed (_reconnect_at, _close_client, _invalidate).
THEOREM ConnectWaits == Spec => ConnectAfterGap
<1>1. ASSUME IInv, [Next]_vars, client' # client, client' # None
      PROVE  quiet >= ReconnectGap
  <2>1. PICK t \in Tasks : Open(t)
    BY <1>1, OnlyOpenOpens DEF IInv, TypeOK, Opens
  <2>2. gap = 0 /\ gap + quiet >= ReconnectGap
    BY <1>1, <2>1, NumbersAssumption
       DEF Open, Runs, Holds, IInv, TypeOK, TaskTypes, Clearing
  <2> QED
    BY <1>1, <2>2, NumbersAssumption DEF IInv, TypeOK, TaskTypes
<1>2. IInv /\ [Next]_vars
         => [client' # client /\ client' # None => quiet >= ReconnectGap]_vars
    BY <1>1
<1> QED
    BY <1>2, IInvAlways, PTL DEF Spec, ConnectAfterGap

\* No operation opens a session once async_shutdown began.
THEOREM UnloadOpensNothing == Spec => StoppedOpensNothing
<1>1. ASSUME IInv, [Next]_vars, stopped
      PROVE  sessions' = sessions
  <2>1. ASSUME NEW t \in Tasks, Open(t) PROVE FALSE
    BY <1>1, <2>1 DEF Open, Runs, Holds, IInv, Halting
  <2> QED
    BY <1>1, <2>1, OnlyOpenOpens DEF IInv, TypeOK, Opens
<1>2. IInv /\ [Next]_vars => [stopped => sessions' = sessions]_vars
    BY <1>1
<1> QED
    BY <1>2, IInvAlways, PTL DEF Spec, StoppedOpensNothing

\* Late frames, timers and session-lost notices of old sessions never end a
\* healthy one (the generation checks of the callbacks).
THEOREM OldCallbacksHarmless == Spec => HealthyKept
<1>1. IInv /\ [Next]_vars
         => [client # None /\ client' # client /\ Pushing(client)
                => lock # None \/ lock' # None \/ ~present']_vars
    BY HealthyStep DEF IInv, TypeOK, KeepsHealthy
<1> QED
    BY <1>1, IInvAlways, PTL DEF Spec, HealthyKept

-----------------------------------------------------------------------------
(* The promise of SessionPromise.                                          *)

LEMMA PromiseStep ==
    ASSUME ClientTypes, RadioTypes, TaskTypes, Numbering, Locking, Clearing,
        Halting, [Next]_vars
    PROVE  [Promise!Next]_Promise!promiseVars
<1> USE TasksAssumption, NumbersAssumption DEF ClientTypes, SessionOrNone,
    TaskTypes, Tasks, Phases, LockedPhases, Locking, RadioTypes, Numbering,
    Clearing, Halting, Available, Promise!Next, Promise!promiseVars,
    Promise!Open, Promise!Show, Promise!Drop, Promise!Close, Promise!Rest,
    coordinatorVars, taskVars, holderVars, modeVars, radioVars, timeVars,
    budgetVars
<1>1. ASSUME NEW u \in Users, NEW k \in CallKinds, UserCall(u, k)
     PROVE  [Promise!Next]_Promise!promiseVars
    BY <1>1 DEF UserCall
<1>2. ASSUME NEW t \in Tasks, StartGap(t) \/ Connected(t) \/ Leave(t) \/
        CancelWaiting(t) \/ CancelEnds(t)
     PROVE  [Promise!Next]_Promise!promiseVars
    BY <1>2 DEF StartGap, Connected, Leave, CancelWaiting, CancelEnds
<1>3. ASSUME NEW u \in Users, LiveWaitOver(u) \/ BeginMaintenance(u) \/
        UserCancelled(u)
     PROVE  [Promise!Next]_Promise!promiseVars
    BY <1>3 DEF LiveWaitOver, BeginMaintenance, UserCancelled
<1>4. ASSUME NEW r \in Recoveries, RecoveryWakes(r)
     PROVE  [Promise!Next]_Promise!promiseVars
    BY <1>4 DEF RecoveryWakes
<1>5. ASSUME Advertisement \/ CloserEnds \/ UnloadCloses \/ UnloadEnds
     PROVE  [Promise!Next]_Promise!promiseVars
    BY <1>5 DEF Advertisement, CloserEnds, UnloadCloses, UnloadEnds
<1>6. ASSUME NEW c \in closers, CloserRuns(c)
     PROVE  [Promise!Next]_Promise!promiseVars
    BY <1>6 DEF CloserRuns
<1>7. ASSUME NEW c \in linkUp, LinkDrops(c) \/ GoesMute(c)
     PROVE  [Promise!Next]_Promise!promiseVars
    BY <1>7 DEF LinkDrops, GoesMute
<1>8. ASSUME NEW t \in Tasks, BeginFresh(t)
     PROVE  [Promise!Next]_Promise!promiseVars
    BY <1>8, NewSessionEffect DEF BeginFresh, Kind, AfterError, Closes, Retired,
        Live
<1>9. ASSUME NEW t \in Tasks, Open(t) PROVE [Promise!Next]_Promise!promiseVars
  <2>1. client = None /\ detached = {} /\ data = None
    BY <1>9 DEF Open, Runs, Holds
  <2>2. quiet = ReconnectGap
    BY <1>9 DEF Open, Runs, Holds
  <2>3. client' # None /\ UNCHANGED <<data, quiet>>
    BY <1>9 DEF Open
  <2> QED
    BY <2>1, <2>2, <2>3
<1>10. ASSUME NEW t \in Tasks, NoDevice(t)
      PROVE  [Promise!Next]_Promise!promiseVars
    BY <1>10, CloseAllEffect DEF NoDevice, Runs, Fault, NoFault, Holds, Closes,
        Retired, Live
<1>11. ASSUME NEW t \in Tasks, ConnectDropped(t)
      PROVE  [Promise!Next]_Promise!promiseVars
    BY <1>11, CloseAllEffect DEF ConnectDropped, Runs, Pushing, Fault, NoFault,
        LastAttempt, Holds, Closes, Retired, Live
<1>12. ASSUME NEW t \in Tasks, ConnectRefused(t)
      PROVE  [Promise!Next]_Promise!promiseVars
    BY <1>12, CloseAllEffect DEF ConnectRefused, Runs, Fault, Holds, Closes,
        Retired, Live
<1>13. ASSUME NEW t \in Tasks, OpenAnother(t)
      PROVE  [Promise!Next]_Promise!promiseVars
    BY <1>13, NewSessionEffect DEF OpenAnother, Runs, Kind, Holds, Closes,
        Retired, Live
<1>14. ASSUME NEW t \in Tasks, Finish(t)
      PROVE  [Promise!Next]_Promise!promiseVars
    BY <1>14 DEF Finish, Runs, Kind, Pushing, Heard, ReleaseAndSchedule,
        Release, RecoveryDone, Holds, Schedule, MayRecover
<1>15. ASSUME NEW t \in Tasks, IoFails(t)
      PROVE  [Promise!Next]_Promise!promiseVars
    BY <1>15, DisconnectEffect DEF IoFails, Runs, Pushing, Fault, NoFault, Holds,
        Closes, Retired, Live
<1>16. ASSUME NEW t \in Tasks, CancelClosing(t)
      PROVE  [Promise!Next]_Promise!promiseVars
  <2>1. client = None /\ data = None /\ detached # {}
    BY <1>16 DEF CancelClosing
  <2>2. detached' = {}
    BY <1>16, <2>1 DEF CancelClosing, Invalidated, Live
  <2>3. client' = None /\ data' = None /\ quiet' = 0
    BY <1>16 DEF CancelClosing, Invalidated, CloseArmsGap
  <2> QED
    BY <2>1, <2>2, <2>3
<1>17. ASSUME NEW t \in Tasks, CancelHolder(t)
      PROVE  [Promise!Next]_Promise!promiseVars
    BY <1>17, DisconnectEffect, CloseAllEffect DEF CancelHolder, Closes, Retired,
        Live
<1>18. ASSUME NEW u \in Users, BeginLive(u)
      PROVE  [Promise!Next]_Promise!promiseVars
    BY <1>18, DisconnectEffect DEF BeginLive, Closes, Retired, Live
<1>19. ASSUME NEW u \in Users, MaintenanceSaved(u)
      PROVE  [Promise!Next]_Promise!promiseVars
    BY <1>19, DisconnectEffect DEF MaintenanceSaved, Runs, CancelRecovery,
        ReleaseAndSchedule, Available, Holds, Schedule, MayRecover, Closes,
        Retired, Live
<1>20. ASSUME Unavailable PROVE [Promise!Next]_Promise!promiseVars
    BY <1>20, InvalidateEffect DEF Unavailable, Fault, CancelRecovery, CloseLater,
        Live, Closes, Retired, Live
<1>21. ASSUME Silent PROVE [Promise!Next]_Promise!promiseVars
    BY <1>21, InvalidateEffect DEF Silent, Pushing, Stale, CloseLater, Schedule,
        Live, MayRecover, Closes, Retired, Live
<1>22. ASSUME NEW g \in sessions, SessionLost(g)
      PROVE  [Promise!Next]_Promise!promiseVars
    BY <1>22, InvalidateEffect DEF SessionLost, Stale, Schedule, MayRecover,
        Closes, Retired, Live
<1>23. ASSUME NEW g \in sessions, Receive(g)
      PROVE  [Promise!Next]_Promise!promiseVars
    BY <1>23 DEF Receive, Stale, Heard
<1>24. ASSUME CloseEnds PROVE [Promise!Next]_Promise!promiseVars
  <2>1. client = None /\ data = None /\ detached # {}
    BY <1>24 DEF CloseEnds
  <2>2. detached' = {}
    BY <1>24, <2>1 DEF CloseEnds
  <2>3. UNCHANGED <<client, data>> /\ quiet' = 0
    BY <1>24 DEF CloseEnds, CloseArmsGap
  <2> QED
    BY <2>1, <2>2, <2>3
<1>25. ASSUME UnloadStarts PROVE [Promise!Next]_Promise!promiseVars
    BY <1>25, InvalidateEffect DEF UnloadStarts, Tracked, Closes, Retired, Live
<1>26. ASSUME Tick PROVE [Promise!Next]_Promise!promiseVars
    BY <1>26 DEF Tick, Minus1
<1>27. CASE UNCHANGED vars
    BY <1>27 DEF vars
<1> QED
    BY <1>1, <1>2, <1>3, <1>4, <1>5, <1>6, <1>7, <1>8, <1>9, <1>10, <1>11,
        <1>12, <1>13, <1>14, <1>15, <1>16, <1>17, <1>18, <1>19, <1>20, <1>21,
        <1>22, <1>23, <1>24, <1>25, <1>26, <1>27
       DEF Next, UserStarts, TaskStep, UserStep, Callback, Radio, Background,
           Unloading

LEMMA PromiseInit == Init => Promise!Init
BY DEF Init, Promise!Init, Available

\* The coordinator keeps the promise: one session at a time, shown only while
\* live, closed before the next one, the reconnect gap in between.
THEOREM KeepsPromise == Spec => ImplementsPromise
<1>1. IInv /\ [Next]_vars => [Promise!Next]_Promise!promiseVars
    BY PromiseStep DEF IInv, TypeOK
<1> QED
    BY <1>1, PromiseInit, IInvAlways, PTL DEF Spec, ImplementsPromise, Promise!Spec

=============================================================================
