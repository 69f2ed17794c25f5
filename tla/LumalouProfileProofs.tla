------------------------- MODULE LumalouProfileProofs -------------------------
(***************************************************************************)
(* Proofs about LumalouProfile, for any number of faults, calls, changes   *)
(* and restore attempts: types, the marked one-off day, the reset that     *)
(* stays seen, the read that may be kept, the bounds of the automatic      *)
(* restore, and that the saved record implements RecordPromise.            *)
(***************************************************************************)
EXTENDS LumalouProfile, SequenceTheorems, TLAPS

\* What an operation has settled when it reaches an await.
Shape ==
    /\ op.at = "idle" => op = NoOp
    /\ op.kind = "accept" =>
          op.at \in {"save_accept", "unmark_end"} /\ op.target \in Profiles
    /\ op.at = "save_accept" => op.kind = "accept"
    /\ op.kind \in {"restore", "edit", "start", "end"} => Complete
    /\ op.kind = "edit" => op.target \in Profiles
    /\ op.at \in {"save_new", "save_offline"} =>
          op.kind \in {"edit", "import"} /\ op.target \in Profiles
    /\ op.at \in {"set", "save_live"} => op.target.live \in Levels
    /\ op.at = "save_live" => Complete
    /\ op.kind = "start" => op.snap = None
    /\ op.at \in {"start_back", "start_next", "mark", "start_write", "start_go",
                  "start_undo"} => op.kind = "start"
    /\ op.at = "unmark" => op.kind \in {"recover", "start"}
    /\ op.at \in {"clock", "decide", "judge", "save_verified", "restore"} =>
          op.snap # None
    /\ op.at = "open" => op.kind \in {"recover", "look", "restore", "edit", "read"}
    /\ op.kind = "look" => op.at = "open"
    /\ op.at \in {"clock", "decide"} => op.kind \in {"recover", "restore", "edit"}
    /\ op.at \in {"judge", "save_verified"} => op.kind = "recover"
    /\ op.at = "save_new" /\ op.kind = "edit" => op.snap # None
    /\ op.at = "writeback" => op.kind \in {"recover", "end"} /\ Complete
    /\ op.kind = "recover" /\ op.at \in {"writeback", "unmark"} =>
          op.snap # None
    /\ op.at \in {"restore", "save_applying", "write", "verify", "save_ok",
                  "save_error"} => Complete
    /\ op.at \in {"save_applying", "write"} => op.todo # <<>>
    /\ record.marker => Complete
    /\ stored.marker => stored.desired # None
    /\ need # None => need.revision <= record.revision

\* A routine that no choice made is saved only if the user kept it.
Chosen(profile) ==
    profile # None => Parts(profile.routine) \subseteq Choices \cup ghost.kept
Keeping ==
    /\ Chosen(record.desired) /\ Chosen(stored.desired)
    /\ op.kind \in {"edit", "import", "accept"} => Chosen(op.target)

OneOffOut == device.routine.day = "oneoff" /\ ~GivenUp
Marking ==
    /\ OneOffOut =>
          /\ record.marker /\ stored.marker
          /\ op.at \notin {"unmark", "unmark_end", "save_ok"}
          /\ op.kind # "accept"
          /\ op.snap # None => op.snap.routine.day = "oneoff"
          /\ previewed # None => previewed.routine.day = "oneoff"
    /\ op.at \in {"start_write", "start_go", "start_undo"} =>
          record.marker /\ stored.marker

Previewing ==
    /\ previewed # None \/ op.kind = "accept" => ~ghost.dirty
    /\ op.at \in {"save_applying", "write", "set", "writeback", "start_back",
                  "start_write", "start_go", "start_undo"} => previewed = None

\* The attempts of the current revision in this run of Home Assistant.
Counted == IF RestoreNeeded # None THEN need.attempts ELSE 0
Counting == ghost.tries <= MaxAttempts * ghost.renewals + Counted

Lost == ghost.loss \/ "factory" \in ghost.kept
Losing ==
    /\ "factory" \in Parts(device.routine) \/ device.clock = "reset" => Lost
    /\ reset_seen => Lost
    /\ RestoreNeeded # None /\ need.reset => Lost
    /\ op.kind = "recover" /\ op.at \in {"restore", "save_applying", "write",
                                         "verify", "save_ok", "save_error"}
          => Lost
    /\ op.kind = "accept" /\ op.at = "unmark_end" => RestoreNeeded = None
    /\ op.at = "clock" /\ link /\ IsReset => reset_seen
    /\ ghost.synced = "now" => reset_seen

Proving ==
    /\ op.snap # None => op.read # None
    /\ op.snap # None /\ op.at \in {"clock", "decide", "writeback", "unmark",
                                    "judge", "save_verified"} =>
          op.snap.routine.rest = op.read.routine.rest
    /\ op.at \in {"clock", "decide", "save_new", "restore"}
          /\ op.kind # "recover" => op.snap = op.read
    /\ op.at = "save_verified" => record.desired = Observed
    /\ op.at = "restore" /\ op.kind = "recover" =>
          Differing(record.desired, op.snap) # {}
    /\ op.at = "save_ok" =>
          op.read # None /\ record.desired.routine = op.read.routine

ProfileInv ==
    /\ TypeOK /\ Shape /\ Keeping /\ Marking /\ Previewing /\ Counting
    /\ Losing /\ Proving

-----------------------------------------------------------------------------
(* Facts about the data.                                                   *)

RecordShapes ==
    [revision : Nat, desired : Profiles \cup {None}, verified : Nat,
     key : BOOLEAN, marker : BOOLEAN,
     status : {"empty", "pending", "applying", "error", "saved"}]

LEMMA RecordFields ==
    ASSUME NEW r \in Records
    PROVE  r \in RecordShapes /\ r.verified <= r.revision
BY DEF Records, RecordShapes

LEMMA NewRevisionFields ==
    ASSUME NEW r \in Records, NEW profile \in Profiles
    PROVE  /\ NewRevision(r, profile) \in Records
           /\ NewRevision(r, profile).revision = r.revision + 1
           /\ NewRevision(r, profile).desired = profile
           /\ NewRevision(r, profile).marker = r.marker
           /\ ~IsVerified(NewRevision(r, profile))
<1> DEFINE n == NewRevision(r, profile)
<1>1. r \in RecordShapes /\ r.verified <= r.revision
  BY RecordFields
<1>2. /\ n \in RecordShapes /\ n.revision = r.revision + 1
      /\ n.verified = r.verified
      /\ n.desired = profile /\ n.marker = r.marker
  <2>1. r.revision + 1 \in Nat /\ r.revision \in Nat
    BY <1>1 DEF RecordShapes
  <2>2. /\ n.revision = r.revision + 1 /\ n.verified = r.verified
        /\ n.desired = profile /\ n.marker = r.marker
    BY <1>1 DEF NewRevision, RecordShapes
  <2>3. n \in RecordShapes
    BY <1>1, <2>1 DEF NewRevision, RecordShapes
  <2> QED
    BY <2>2, <2>3
<1> HIDE DEF n
<1>3. r.revision \in Nat /\ r.verified \in Nat
  BY <1>1 DEF RecordShapes
<1>4. n \in Records
  BY <1>1, <1>2, <1>3 DEF Records, RecordShapes
<1>5. ~IsVerified(n)
  BY <1>1, <1>2, <1>3 DEF IsVerified
<1> QED
  BY <1>2, <1>4, <1>5 DEF n

LEMMA AsVerifiedFields ==
    ASSUME NEW r \in Records
    PROVE  /\ AsVerified(r) \in Records /\ AsVerified(r).revision = r.revision
           /\ AsVerified(r).desired = r.desired
           /\ AsVerified(r).marker = r.marker
<1> DEFINE n == AsVerified(r)
<1>1. r \in RecordShapes
  BY RecordFields
<1>2. /\ n \in RecordShapes /\ n.revision = r.revision
      /\ n.verified = r.revision
      /\ n.desired = r.desired /\ n.marker = r.marker
  BY <1>1 DEF AsVerified, RecordShapes
<1> HIDE DEF n
<1>3. n \in Records
  BY <1>1, <1>2 DEF Records, RecordShapes
<1> QED
  BY <1>2, <1>3 DEF n

\* What each save puts in the record.
LEMMA SavingFacts ==
    ASSUME ProfileInv, op.at \in SavePhases
    PROVE  /\ Saving \in Records
           /\ Saving.revision = IF op.at \in {"save_new", "save_offline", "save_accept"}
                                THEN record.revision + 1 ELSE record.revision
           /\ Saving.desired = IF op.at \in {"save_new", "save_offline", "save_accept"}
                               THEN op.target
                               ELSE IF op.at = "save_live"
                               THEN [record.desired EXCEPT !.live = op.target.live]
                               ELSE record.desired
           /\ Saving.marker = IF op.at = "mark" THEN TRUE
                              ELSE IF op.at \in {"unmark", "unmark_end"} THEN FALSE
                              ELSE record.marker
           /\ op.at \notin {"save_verified", "save_ok", "save_accept"} =>
                 (IsVerified(Saving) => IsVerified(record))
<1>1. record \in RecordShapes /\ record.verified <= record.revision
  BY RecordFields DEF ProfileInv, TypeOK
<1>2. op \in Operations
  BY DEF ProfileInv, TypeOK
<1>3. CASE op.at \in {"save_verified", "save_ok"}
  <2>1. Saving = AsVerified(record) /\ record \in Records
    BY <1>3 DEF Saving, ProfileInv, TypeOK
  <2> QED
    BY <1>3, <2>1, AsVerifiedFields
<1>4. CASE op.at \in {"save_new", "save_offline"}
  <2>1. op.target \in Profiles
    BY <1>4 DEF ProfileInv, Shape
  <2>2. Saving = NewRevision(record, op.target) /\ record \in Records
    BY <1>4 DEF Saving, ProfileInv, TypeOK
  <2> QED
    BY <1>4, <2>1, <2>2, NewRevisionFields
<1>5. CASE op.at = "save_accept"
  <2>1. op.target \in Profiles
    BY <1>5 DEF ProfileInv, Shape
  <2>2. /\ Saving = AsVerified(NewRevision(record, op.target))
        /\ record \in Records
    BY <1>5 DEF Saving, ProfileInv, TypeOK
  <2> QED
    BY <1>5, <2>1, <2>2, NewRevisionFields, AsVerifiedFields
<1>6. CASE op.at \in {"save_applying", "save_error"}
  BY <1>1, <1>6 DEF Saving, Records, RecordShapes, IsVerified
<1>7. CASE op.at = "save_live"
  <2>1. op.target.live \in Levels /\ record.desired \in Profiles
    BY <1>1, <1>2, <1>7 DEF ProfileInv, Shape, Complete, Operations, Profiles,
     RecordShapes
  <2>2. [record.desired EXCEPT !.live = op.target.live] \in Profiles
    BY <2>1 DEF Profiles
  <2> QED
    BY <1>1, <1>7, <2>2 DEF Saving, Records, RecordShapes, IsVerified
<1>8. CASE op.at \in {"mark", "unmark", "unmark_end"}
  BY <1>1, <1>8 DEF Saving, Records, RecordShapes, IsVerified
<1> QED
  BY <1>3, <1>4, <1>5, <1>6, <1>7, <1>8 DEF SavePhases

\* The fields of op after each way the code moves an operation on.
LEMMA GotoFields ==
    ASSUME op \in Operations, NEW phase \in Phases, Goto(phase)
    PROVE  /\ op' \in Operations /\ op'.at = phase /\ op'.kind = op.kind
           /\ op'.snap = op.snap /\ op'.read = op.read
           /\ op'.running = op.running /\ op'.todo = op.todo
           /\ op'.target = op.target
BY DEF Goto, Operations

LEMMA DoneFields ==
    ASSUME Done
    PROVE  /\ op' \in Operations /\ op' = NoOp /\ op'.at = "idle" /\ op'.kind = "none"
           /\ op'.snap = None /\ op'.read = None /\ op'.running = FALSE
           /\ op'.todo = <<>> /\ op'.target = None
BY DEF Done, NoOp, Operations, Phases

LEMMA BeginFields ==
    ASSUME NEW kind \in Kinds \cup {"recover", "look", "end"},
           NEW phase \in {"open", "save_new", "save_accept", "set", "start_back",
                          "start_next", "writeback"},
           NEW target \in Profiles \cup {None}
                              \cup [routine : {None}, live : Levels],
           Begin(kind, phase, target)
    PROVE  /\ op' \in Operations /\ op'.at = phase /\ op'.kind = kind
           /\ op'.snap = None /\ op'.read = None /\ op'.running = FALSE
           /\ op'.todo = <<>> /\ op'.target = target
           /\ op = NoOp \/ op.at = "idle"
<1>1. op.at = "idle" /\ op' = [kind |-> kind, at |-> phase, snap |-> None,
                             read |-> None, running |-> FALSE, todo |-> <<>>,
                             target |-> target]
  BY DEF Begin, NoOp, Idle
<1>2. <<>> \in Seq(Blocks)
  OBVIOUS
<1>3. phase \in Phases
  BY DEF Phases, SavePhases, SendPhases, ReadPhases, Decisions
<1> QED
  BY <1>1, <1>2, <1>3 DEF Operations

\* The types in the form the steps use them.
LEMMA Types ==
    ASSUME ProfileInv
    PROVE  /\ op \in Operations
           /\ record \in Records /\ record \in RecordShapes
           /\ record.verified <= record.revision
           /\ stored \in Records /\ stored \in RecordShapes
           /\ ghost \in Ghosts /\ device \in Devices
           /\ need \in Needs \cup {None} /\ previewed \in Profiles \cup {None}
           /\ need # None => need \in Needs
           /\ previewed # None => previewed \in Profiles
           /\ op.snap # None => op.snap \in Profiles
           /\ record.desired # None => record.desired \in Profiles
           /\ stored.desired # None => stored.desired \in Profiles
BY RecordFields DEF ProfileInv, TypeOK, Operations, RecordShapes

\* The bounded counters.
LEMMA Counters ==
    ASSUME ProfileInv,
           \/ NoFault \/ Fault \/ UNCHANGED <<faults, calls, changes>>
           \/ \E kind \in Kinds : UserCall(kind)
           \/ /\ changes < MaxChanges /\ changes' = changes + 1
              /\ UNCHANGED <<faults, calls>>
    PROVE  faults' \in 0..MaxFaults /\ calls' \in 0..MaxCalls
           /\ changes' \in 0..MaxChanges
<1>1. /\ MaxFaults \in Nat /\ MaxCalls \in Nat /\ MaxChanges \in Nat
      /\ faults \in 0..MaxFaults /\ calls \in 0..MaxCalls
      /\ changes \in 0..MaxChanges
  BY ProfileAssumption DEF ProfileInv, TypeOK
<1> QED
  BY <1>1 DEF NoFault, Fault, UserCall, budget

-----------------------------------------------------------------------------
(* Calls.                                                                  *)

\* Whoever takes the lock with a target and nothing read keeps the invariant,
\* as long as it may want what it wants.
LEMMA BeginStep ==
    ASSUME ProfileInv, TypeOK', NEW kind \in Kinds \cup {"recover", "look", "end"},
           NEW phase \in {"open", "save_new", "save_accept", "set", "start_back",
                          "start_next", "writeback"},
           NEW target \in Profiles \cup {None}
                              \cup [routine : {None}, live : Levels],
           Begin(kind, phase, target),
           UNCHANGED <<durable, need, reset_seen, link, device>>,
           previewed' \in {None, previewed},
           IF kind # "accept" THEN UNCHANGED ghost
           ELSE ghost' = [ghost EXCEPT !.kept =
                             @ \cup (Parts(target.routine) \ Choices)],
           kind = "accept" <=> phase = "save_accept",
           kind = "accept" => target \in Profiles /\ ~ghost.dirty
             /\ (OneOffOut => target.routine.day = "oneoff"),
           kind \in {"restore", "edit", "start", "end"} => Complete,
           kind \in {"edit", "import"} => target \in Profiles /\ Chosen(target),
           phase = "open" => kind \in {"recover", "look", "restore", "edit", "read"},
           kind = "look" => phase = "open",
           phase = "save_new" => kind = "import",
           phase = "set" => target.live \in Levels /\ kind = "setting",
           phase \in {"start_back", "start_next"} <=> kind = "start",
           phase = "writeback" <=> kind = "end",
           phase \in {"set", "start_back", "writeback"} => previewed' = None
    PROVE  ProfileInv'
<1>1. /\ op' \in Operations /\ op'.at = phase /\ op'.kind = kind
      /\ op'.snap = None /\ op'.read = None /\ op'.running = FALSE
      /\ op'.todo = <<>> /\ op'.target = target
  BY BeginFields
<1>2. UNCHANGED <<record, stored, protocol_verified, need, reset_seen, link, device>>
  BY DEF durable
<1>3. /\ ghost'.loss = ghost.loss /\ ghost'.tries = ghost.tries
      /\ ghost'.renewals = ghost.renewals
      /\ ghost'.synced = ghost.synced /\ ghost'.dirty = ghost.dirty
      /\ ghost'.lost = ghost.lost
      /\ ghost.kept \subseteq ghost'.kept
      /\ kind = "accept" => Parts(target.routine) \subseteq Choices \cup ghost'.kept
  <2>1. ghost \in Ghosts
    BY Types
  <2>2. CASE kind # "accept"
    BY <2>2
  <2>3. CASE kind = "accept" /\ ghost' = [ghost EXCEPT !.kept = @ \cup (Parts(target.routine) \ Choices)]
    BY <2>1, <2>3 DEF Ghosts
  <2> QED
    BY <2>2, <2>3
<1>4. Shape'
  BY <1>1, <1>2 DEF ProfileInv, Shape, Complete
<1>5. Keeping'
  BY <1>1, <1>2, <1>3 DEF ProfileInv, Keeping, Chosen
<1>6. Marking'
  BY <1>1, <1>2, <1>3 DEF ProfileInv, Marking, OneOffOut, GivenUp, Parts, Choices
<1>7. Previewing'
  BY <1>1, <1>2, <1>3 DEF ProfileInv, Previewing
<1>8. Counting'
  BY <1>2, <1>3 DEF ProfileInv, Counting, Counted, RestoreNeeded
<1>9. Losing'
  BY <1>1, <1>2, <1>3 DEF ProfileInv, Losing, Lost, RestoreNeeded, IsReset, Settings
<1>10. Proving'
  BY <1>1, <1>2 DEF ProfileInv, Proving
<1> QED
  BY <1>4, <1>5, <1>6, <1>7, <1>8, <1>9, <1>10 DEF ProfileInv

LEMMA RestoreProfileStep ==
    ASSUME ProfileInv, RestoreProfile
    PROVE  ProfileInv'
<1>1. Begin("restore", "open", None)
  BY DEF RestoreProfile
<1>2. op' \in Operations
  BY <1>1, BeginFields DEF Kinds
<1>3. faults' \in 0..MaxFaults /\ calls' \in 0..MaxCalls
     /\ changes' \in 0..MaxChanges
  BY Counters DEF RestoreProfile, Kinds, budget
<1>4. TypeOK'
  BY Types, <1>1, <1>2, <1>3 DEF ProfileInv, TypeOK, RestoreProfile, durable,
     memory
<1> QED
  BY <1>1, <1>2, <1>3, <1>4, BeginStep DEF RestoreProfile, durable, memory,
     Kinds

LEMMA ReadProfileStep ==
    ASSUME ProfileInv, ReadProfile
    PROVE  ProfileInv'
<1>1. Begin("read", "open", None)
  BY DEF ReadProfile
<1>2. op' \in Operations
  BY <1>1, BeginFields DEF Kinds
<1>3. faults' \in 0..MaxFaults /\ calls' \in 0..MaxCalls
     /\ changes' \in 0..MaxChanges
  BY Counters DEF ReadProfile, Kinds, budget
<1>4. TypeOK'
  BY Types, <1>1, <1>2, <1>3 DEF ProfileInv, TypeOK, ReadProfile, durable,
     memory
<1> QED
  BY <1>1, <1>2, <1>3, <1>4, BeginStep DEF ReadProfile, durable, memory, Kinds

LEMMA ApplyEditStep ==
    ASSUME ProfileInv, NEW part \in {"day", "rest"}, NEW v \in Choices,
           ApplyEdit(part, v)
    PROVE  ProfileInv'
<1> DEFINE wanted == [record.desired EXCEPT !.routine[part] = v]
<1>1. Begin("edit", "open", wanted)
  BY DEF ApplyEdit
<1>2. wanted \in Profiles /\ Parts(wanted.routine) \subseteq
                               Parts(record.desired.routine) \cup {v}
  <2>1. record.desired \in Profiles /\ v \in Levels
    BY Types DEF ApplyEdit, Complete, Choices, Levels
  <2>2. CASE part = "day"
    BY <2>1, <2>2 DEF Profiles, Plans, Days, Parts
  <2>3. CASE part = "rest"
    BY <2>1, <2>3 DEF Profiles, Plans, Days, Parts
  <2> QED
    BY <2>2, <2>3
<1>3. Chosen(wanted)
  BY <1>2 DEF Chosen, ProfileInv, Keeping, ApplyEdit, Complete
<1> HIDE DEF wanted
<1>4. op' \in Operations
  BY <1>1, <1>2, <1>3, BeginFields DEF Kinds
<1>5. faults' \in 0..MaxFaults /\ calls' \in 0..MaxCalls
     /\ changes' \in 0..MaxChanges
  BY Counters DEF ApplyEdit, Kinds, budget
<1>6. TypeOK'
  BY Types, <1>1, <1>2, <1>3, <1>4, <1>5 DEF ProfileInv, TypeOK, ApplyEdit,
     durable, memory
<1> QED
  BY <1>1, <1>2, <1>3, <1>4, <1>5, <1>6, BeginStep DEF ApplyEdit, durable,
     memory, Kinds, Complete

LEMMA ImportProfileStep ==
    ASSUME ProfileInv, NEW v \in Choices, ImportProfile(Uniform(v))
    PROVE  ProfileInv'
<1>1. Begin("import", "save_new", Uniform(v))
  BY DEF ImportProfile
<1>2. Uniform(v) \in Profiles
  BY DEF Uniform, Profiles, Choices, Plans, Days, Levels
<1>3. Chosen(Uniform(v))
  BY DEF Chosen, Uniform, Parts
<1>4. op' \in Operations
  BY <1>1, <1>2, <1>3, BeginFields DEF Kinds
<1>5. faults' \in 0..MaxFaults /\ calls' \in 0..MaxCalls
     /\ changes' \in 0..MaxChanges
  BY Counters DEF ImportProfile, Kinds, budget
<1>6. TypeOK'
  BY Types, <1>1, <1>2, <1>3, <1>4, <1>5 DEF ProfileInv, TypeOK,
     ImportProfile, durable, memory
<1> QED
  BY <1>1, <1>2, <1>3, <1>4, <1>5, <1>6, BeginStep DEF ImportProfile, durable,
     memory, Kinds

LEMMA AcceptProfileStep ==
    ASSUME ProfileInv, AcceptProfile
    PROVE  ProfileInv'
<1>1. Begin("accept", "save_accept", form.profile)
  BY DEF AcceptProfile
<1>2. /\ form \in Forms /\ form.profile \in Profiles /\ form.profile = previewed
  BY DEF AcceptProfile, MayAccept, ProfileInv, TypeOK, Forms, Profiles
<1>3. ~ghost.dirty /\ (OneOffOut => form.profile.routine.day = "oneoff")
  BY Types, <1>2, NoneAssumption DEF ProfileInv, Previewing, Marking
<1>4. ghost' \in Ghosts
  <2>1. Parts(form.profile.routine) \subseteq Days
    BY <1>2 DEF Parts, Profiles, Plans, Days
  <2> QED
    BY Types, <2>1 DEF AcceptProfile, Ghosts
<1>5. op' \in Operations
  BY <1>1, <1>2, <1>3, <1>4, BeginFields DEF Kinds
<1>6. faults' \in 0..MaxFaults /\ calls' \in 0..MaxCalls
     /\ changes' \in 0..MaxChanges
  BY Counters DEF AcceptProfile, Kinds, budget
<1>7. TypeOK'
  BY Types, <1>1, <1>2, <1>3, <1>4, <1>5, <1>6 DEF ProfileInv, TypeOK,
     AcceptProfile, durable, memory
<1> QED
  BY <1>1, <1>2, <1>3, <1>4, <1>5, <1>6, <1>7, BeginStep DEF AcceptProfile,
     durable, memory, Kinds

LEMMA SetLevelStep ==
    ASSUME ProfileInv, NEW v \in Choices, SetLevel(v)
    PROVE  ProfileInv'
<1>1. Begin("setting", "set", [routine |-> None, live |-> v])
  BY DEF SetLevel
<1>2. [routine |-> None, live |-> v] \in [routine : {None}, live : Levels] /\ [routine |-> None, live |-> v].live \in Levels
  BY DEF Choices, Levels
<1>3. op' \in Operations
  BY <1>1, <1>2, BeginFields DEF Kinds
<1>4. faults' \in 0..MaxFaults /\ calls' \in 0..MaxCalls
     /\ changes' \in 0..MaxChanges
  BY Counters DEF SetLevel, Kinds, budget
<1>5. TypeOK'
  BY Types, <1>1, <1>2, <1>3, <1>4 DEF ProfileInv, TypeOK, SetLevel, durable,
     memory
<1> QED
  BY <1>1, <1>2, <1>3, <1>4, <1>5, BeginStep DEF SetLevel, durable, Kinds

LEMMA StartRoutineStep ==
    ASSUME ProfileInv, StartRoutine
    PROVE  ProfileInv'
<1>1. PICK phase \in {"start_back", "start_next"} :
         /\ Begin("start", phase, None)
         /\ previewed' \in {None, previewed}
         /\ phase = "start_back" => previewed' = None
  BY DEF StartRoutine
<1>2. op' \in Operations
  BY <1>1, BeginFields DEF Kinds
<1>3. faults' \in 0..MaxFaults /\ calls' \in 0..MaxCalls
      /\ changes' \in 0..MaxChanges
  BY Counters DEF StartRoutine, Kinds
<1>4. TypeOK'
  BY Types, <1>1, <1>2, <1>3 DEF ProfileInv, TypeOK, StartRoutine, durable
<1> QED
  BY <1>1, <1>4, BeginStep DEF StartRoutine, durable, Kinds

LEMMA EndRoutineStep ==
    ASSUME ProfileInv, EndRoutine
    PROVE  ProfileInv'
<1>0. faults' \in 0..MaxFaults /\ calls' \in 0..MaxCalls
      /\ changes' \in 0..MaxChanges
  BY Counters DEF EndRoutine, budget
<1>1. CASE Begin("end", "writeback", None) /\ previewed' = None /\ record.marker
  <2>1. op' \in Operations
    BY <1>1, BeginFields
  <2>2. TypeOK'
    BY Types, <1>0, <1>1, <2>1 DEF ProfileInv, TypeOK, EndRoutine, durable
  <2>3. Complete
    BY <1>1 DEF ProfileInv, Shape
  <2> QED
    BY <1>1, <2>2, <2>3, BeginStep DEF EndRoutine, durable, Kinds
<1>2. CASE UNCHANGED <<op, previewed>>
  <2>1. UNCHANGED <<record, stored, protocol_verified, need, reset_seen,
     previewed, paused, waiting, op, form, link, device, ghost>>
    BY <1>2 DEF EndRoutine, durable
  <2>2. due' = FALSE
    BY DEF EndRoutine
  <2>3. TypeOK'
    BY Types, <1>0, <2>1, <2>2 DEF ProfileInv, TypeOK
  <2>4. Shape'
    BY Types, <2>1, <2>2, <1>0 DEF ProfileInv, Shape, Complete
  <2>5. Keeping'
    BY Types, <2>1, <2>2, <1>0 DEF ProfileInv, Keeping, Chosen
  <2>6. Marking'
    BY Types, <2>1, <2>2, <1>0 DEF ProfileInv, Marking, OneOffOut, GivenUp, Parts, Choices
  <2>7. Previewing'
    BY Types, <2>1, <2>2, <1>0 DEF ProfileInv, Previewing
  <2>8. Counting'
    BY Types, <2>1, <2>2, <1>0 DEF ProfileInv, Counting, Counted, RestoreNeeded
  <2>9. Losing'
    BY Types, <2>1, <2>2, <1>0 DEF ProfileInv, Losing, Lost, RestoreNeeded,
       IsReset, Settings, Factory, Parts, Choices
  <2>10. Proving'
    BY Types, <2>1, <2>2, <1>0 DEF ProfileInv, Proving, Observed, Complete,
       Differing
  <2> QED
    BY <2>3, <2>4, <2>5, <2>6, <2>7, <2>8, <2>9, <2>10 DEF ProfileInv
<1> QED
  BY <1>1, <1>2 DEF EndRoutine

LEMMA RecoverStep ==
    ASSUME ProfileInv, Recover
    PROVE  ProfileInv'
<1>1. PICK kind \in {"recover", "look"} : Begin(kind, "open", None)
  BY DEF Recover
<1>2. op' \in Operations
  BY <1>1, BeginFields DEF Kinds
<1>3. faults' \in 0..MaxFaults /\ calls' \in 0..MaxCalls
     /\ changes' \in 0..MaxChanges
  BY Counters DEF Recover, Kinds, budget
<1>4. TypeOK'
  BY Types, <1>1, <1>2, <1>3 DEF ProfileInv, TypeOK, Recover, durable, memory
<1> QED
  BY <1>1, <1>2, <1>3, <1>4, BeginStep DEF Recover, durable, memory, Kinds

-----------------------------------------------------------------------------
(* The device and the radio.                                               *)

LEMMA PowerLossStep ==
    ASSUME ProfileInv, PowerLoss
    PROVE  ProfileInv'
<1>1. UNCHANGED <<record, stored, protocol_verified, need, reset_seen,
   previewed, paused, due, waiting, op, form>>
  BY DEF PowerLoss, durable, memory
<1>2. link' = FALSE /\ device' \in Devices /\ device'.routine.day = "factory"
  <2>1. PICK clock \in {"reset", device.clock} :
           device' = [routine |-> Factory.routine, live |-> Factory.live,
                      clock |-> clock, running |-> FALSE]
    BY DEF PowerLoss
  <2>2. clock \in {"right", "off", "reset"}
    BY Types DEF Devices
  <2>3. /\ Factory.routine \in Plans /\ Factory.routine.day = "factory"
        /\ Factory.live \in Levels
    BY DEF Factory, Uniform, Plans, Days, Levels
  <2> QED
    BY <2>1, <2>2, <2>3 DEF PowerLoss, Devices
<1>3. ghost' \in Ghosts /\ ghost'.loss /\ ghost'.tries = ghost.tries
      /\ ghost'.renewals = ghost.renewals
      /\ ghost'.kept = ghost.kept /\ ghost'.dirty = ghost.dirty
      /\ ghost'.synced = ghost.synced
  BY Types DEF PowerLoss, Ghosts
<1>4. faults' \in 0..MaxFaults /\ calls' \in 0..MaxCalls
      /\ changes' \in 0..MaxChanges
  BY Counters DEF PowerLoss
<1>5. TypeOK'
  BY Types, <1>1, <1>2, <1>3, <1>4 DEF ProfileInv, TypeOK
<1>6. Shape'
  BY Types, <1>1, <1>2, <1>3, <1>4 DEF ProfileInv, Shape, Complete
<1>7. Keeping'
  BY Types, <1>1, <1>2, <1>3, <1>4 DEF ProfileInv, Keeping, Chosen
<1>8. Marking'
  BY Types, <1>1, <1>2, <1>3, <1>4 DEF ProfileInv, Marking, OneOffOut, GivenUp, Parts, Choices
<1>9. Previewing'
  BY Types, <1>1, <1>2, <1>3, <1>4 DEF ProfileInv, Previewing
<1>10. Counting'
  BY Types, <1>1, <1>2, <1>3, <1>4 DEF ProfileInv, Counting, Counted, RestoreNeeded
<1>11. Losing'
  BY Types, <1>1, <1>2, <1>3, <1>4 DEF ProfileInv, Losing, Lost,
     RestoreNeeded, IsReset, Settings, Factory, Parts, Choices
<1>12. Proving'
  BY Types, <1>1, <1>2, <1>3, <1>4 DEF ProfileInv, Proving, Observed,
     Complete, Differing
<1> QED
  BY <1>5, <1>6, <1>7, <1>8, <1>9, <1>10, <1>11, <1>12 DEF ProfileInv

LEMMA LinkDropStep ==
    ASSUME ProfileInv, LinkDrop
    PROVE  ProfileInv'
<1>1. UNCHANGED <<record, stored, protocol_verified, need, reset_seen,
   previewed, paused, due, waiting, op, form, device, ghost>>
  BY DEF LinkDrop, durable, memory
<1>2. link' = FALSE
  BY DEF LinkDrop
<1>3. faults' \in 0..MaxFaults /\ calls' \in 0..MaxCalls
      /\ changes' \in 0..MaxChanges
  BY Counters DEF LinkDrop
<1>4. TypeOK'
  BY Types, <1>1, <1>2, <1>3 DEF ProfileInv, TypeOK
<1>5. Shape'
  BY Types, <1>1, <1>2, <1>3 DEF ProfileInv, Shape, Complete
<1>6. Keeping'
  BY Types, <1>1, <1>2, <1>3 DEF ProfileInv, Keeping, Chosen
<1>7. Marking'
  BY Types, <1>1, <1>2, <1>3 DEF ProfileInv, Marking, OneOffOut, GivenUp, Parts, Choices
<1>8. Previewing'
  BY Types, <1>1, <1>2, <1>3 DEF ProfileInv, Previewing
<1>9. Counting'
  BY Types, <1>1, <1>2, <1>3 DEF ProfileInv, Counting, Counted, RestoreNeeded
<1>10. Losing'
  BY Types, <1>1, <1>2, <1>3 DEF ProfileInv, Losing, Lost, RestoreNeeded,
     IsReset, Settings, Factory, Parts, Choices
<1>11. Proving'
  BY Types, <1>1, <1>2, <1>3 DEF ProfileInv, Proving, Observed, Complete,
     Differing
<1> QED
  BY <1>4, <1>5, <1>6, <1>7, <1>8, <1>9, <1>10, <1>11 DEF ProfileInv

LEMMA DeviceChangeStep ==
    ASSUME ProfileInv, DeviceChange
    PROVE  ProfileInv'
<1>1. UNCHANGED <<record, stored, protocol_verified, need, reset_seen,
   previewed, paused, due, waiting, op, form, link, ghost>>
  BY DEF DeviceChange, durable, memory
<1>2. /\ device' \in Devices /\ device'.clock = device.clock
      /\ Parts(device'.routine) \subseteq Choices \cup Parts(device.routine)
      /\ device'.routine.day \in Choices \cup {device.routine.day}
      /\ IsReset' => IsReset
  <2>1. PICK v \in Choices :
           \/ device' = [device EXCEPT !.live = v]
           \/ device' = [device EXCEPT !.routine.day = v]
           \/ device' = [device EXCEPT !.routine.rest = v]
    BY DEF DeviceChange
  <2>2. device \in Devices /\ v \in Levels /\ v # "factory"
    BY Types DEF Choices, Levels
  <2>3. CASE device' = [device EXCEPT !.live = v]
    BY <2>2, <2>3 DEF Devices, Parts, IsReset, Settings, Factory, Uniform
  <2>4. CASE device' = [device EXCEPT !.routine.day = v]
    BY <2>2, <2>4 DEF Devices, Plans, Days, Parts, IsReset, Settings, Factory,
       Uniform
  <2>5. CASE device' = [device EXCEPT !.routine.rest = v]
    BY <2>2, <2>5 DEF Devices, Plans, Days, Parts, IsReset, Settings, Factory,
       Uniform
  <2> QED
    BY <2>1, <2>3, <2>4, <2>5
<1>3. faults' \in 0..MaxFaults /\ calls' \in 0..MaxCalls
      /\ changes' \in 0..MaxChanges
  BY Counters DEF DeviceChange
<1>4. TypeOK'
  BY Types, <1>1, <1>2, <1>3 DEF ProfileInv, TypeOK
<1>5. Shape'
  BY Types, <1>1, <1>2, <1>3 DEF ProfileInv, Shape, Complete
<1>6. Keeping'
  BY Types, <1>1, <1>2, <1>3 DEF ProfileInv, Keeping, Chosen
<1>7. Marking'
  BY Types, <1>1, <1>2, <1>3 DEF ProfileInv, Marking, OneOffOut, GivenUp, Parts, Choices
<1>8. Previewing'
  BY Types, <1>1, <1>2, <1>3 DEF ProfileInv, Previewing
<1>9. Counting'
  BY Types, <1>1, <1>2, <1>3 DEF ProfileInv, Counting, Counted, RestoreNeeded
<1>10. Losing'
  BY Types, <1>1, <1>2, <1>3 DEF ProfileInv, Losing, Lost, RestoreNeeded,
     IsReset, Settings, Factory, Parts, Choices
<1>11. Proving'
  BY Types, <1>1, <1>2, <1>3 DEF ProfileInv, Proving, Observed, Complete,
     Differing
<1> QED
  BY <1>4, <1>5, <1>6, <1>7, <1>8, <1>9, <1>10, <1>11 DEF ProfileInv

LEMMA RoutineStartsStep ==
    ASSUME ProfileInv, RoutineStarts
    PROVE  ProfileInv'
<1>1. UNCHANGED <<record, stored, protocol_verified, need, reset_seen,
   previewed, paused, due, waiting, op, form, link, ghost>>
  BY DEF RoutineStarts, durable, memory
<1>2. /\ device' \in Devices /\ device'.clock = device.clock
      /\ device'.routine = device.routine /\ device'.live = device.live
  BY Types DEF RoutineStarts, Devices
<1>3. faults' \in 0..MaxFaults /\ calls' \in 0..MaxCalls
      /\ changes' \in 0..MaxChanges
  BY Counters DEF RoutineStarts
<1>4. TypeOK'
  BY Types, <1>1, <1>2, <1>3 DEF ProfileInv, TypeOK
<1>5. Shape'
  BY Types, <1>1, <1>2, <1>3 DEF ProfileInv, Shape, Complete
<1>6. Keeping'
  BY Types, <1>1, <1>2, <1>3 DEF ProfileInv, Keeping, Chosen
<1>7. Marking'
  BY Types, <1>1, <1>2, <1>3 DEF ProfileInv, Marking, OneOffOut, GivenUp, Parts, Choices
<1>8. Previewing'
  BY Types, <1>1, <1>2, <1>3 DEF ProfileInv, Previewing
<1>9. Counting'
  BY Types, <1>1, <1>2, <1>3 DEF ProfileInv, Counting, Counted, RestoreNeeded
<1>10. Losing'
  BY Types, <1>1, <1>2, <1>3 DEF ProfileInv, Losing, Lost, RestoreNeeded,
     IsReset, Settings, Factory, Parts, Choices
<1>11. Proving'
  BY Types, <1>1, <1>2, <1>3 DEF ProfileInv, Proving, Observed, Complete,
     Differing
<1> QED
  BY <1>4, <1>5, <1>6, <1>7, <1>8, <1>9, <1>10, <1>11 DEF ProfileInv

LEMMA RoutineEndsStep ==
    ASSUME ProfileInv, RoutineEnds
    PROVE  ProfileInv'
<1>1. UNCHANGED <<record, stored, protocol_verified, need, reset_seen,
   previewed, paused, waiting, op, form, link, ghost>>
  BY DEF RoutineEnds, durable
<1>2. /\ device' \in Devices /\ device'.clock = device.clock
      /\ device'.routine = device.routine /\ device'.live = device.live
  BY Types DEF RoutineEnds, Devices
<1>3. due' \in BOOLEAN
  BY DEF RoutineEnds, OneOffEnded, ProfileInv, TypeOK
<1>4. faults' \in 0..MaxFaults /\ calls' \in 0..MaxCalls
      /\ changes' \in 0..MaxChanges
  BY Counters DEF RoutineEnds, budget
<1>5. TypeOK'
  BY Types, <1>1, <1>2, <1>3, <1>4 DEF ProfileInv, TypeOK
<1>6. Shape'
  BY Types, <1>1, <1>2, <1>3, <1>4 DEF ProfileInv, Shape, Complete
<1>7. Keeping'
  BY Types, <1>1, <1>2, <1>3, <1>4 DEF ProfileInv, Keeping, Chosen
<1>8. Marking'
  BY Types, <1>1, <1>2, <1>3, <1>4 DEF ProfileInv, Marking, OneOffOut, GivenUp, Parts, Choices
<1>9. Previewing'
  BY Types, <1>1, <1>2, <1>3, <1>4 DEF ProfileInv, Previewing
<1>10. Counting'
  BY Types, <1>1, <1>2, <1>3, <1>4 DEF ProfileInv, Counting, Counted, RestoreNeeded
<1>11. Losing'
  BY Types, <1>1, <1>2, <1>3, <1>4 DEF ProfileInv, Losing, Lost,
     RestoreNeeded, IsReset, Settings, Factory, Parts, Choices
<1>12. Proving'
  BY Types, <1>1, <1>2, <1>3, <1>4 DEF ProfileInv, Proving, Observed,
     Complete, Differing
<1> QED
  BY <1>5, <1>6, <1>7, <1>8, <1>9, <1>10, <1>11, <1>12 DEF ProfileInv

LEMMA ClockAgesStep ==
    ASSUME ProfileInv, ClockAges
    PROVE  ProfileInv'
<1>1. UNCHANGED <<record, stored, protocol_verified, need, reset_seen,
   previewed, paused, due, waiting, op, form, link, ghost>>
  BY DEF ClockAges, durable, memory
<1>2. /\ device' \in Devices /\ device'.clock = "off"
      /\ device'.routine = device.routine /\ device'.live = device.live
  BY Types DEF ClockAges, Devices
<1>3. faults' \in 0..MaxFaults /\ calls' \in 0..MaxCalls
      /\ changes' \in 0..MaxChanges
  BY Counters DEF ClockAges, budget
<1>4. TypeOK'
  BY Types, <1>1, <1>2, <1>3 DEF ProfileInv, TypeOK
<1>5. Shape'
  BY Types, <1>1, <1>2, <1>3 DEF ProfileInv, Shape, Complete
<1>6. Keeping'
  BY Types, <1>1, <1>2, <1>3 DEF ProfileInv, Keeping, Chosen
<1>7. Marking'
  BY Types, <1>1, <1>2, <1>3 DEF ProfileInv, Marking, OneOffOut, GivenUp, Parts, Choices
<1>8. Previewing'
  BY Types, <1>1, <1>2, <1>3 DEF ProfileInv, Previewing
<1>9. Counting'
  BY Types, <1>1, <1>2, <1>3 DEF ProfileInv, Counting, Counted, RestoreNeeded
<1>10. Losing'
  BY Types, <1>1, <1>2, <1>3 DEF ProfileInv, Losing, Lost, RestoreNeeded,
     IsReset, Settings, Factory, Parts, Choices
<1>11. Proving'
  BY Types, <1>1, <1>2, <1>3 DEF ProfileInv, Proving, Observed, Complete,
     Differing
<1> QED
  BY <1>4, <1>5, <1>6, <1>7, <1>8, <1>9, <1>10, <1>11 DEF ProfileInv

LEMMA PauseEndsStep ==
    ASSUME ProfileInv, PauseEnds
    PROVE  ProfileInv'
<1>1. UNCHANGED <<record, stored, protocol_verified, need, reset_seen,
   previewed, due, waiting, op, form, link, device, ghost>>
  BY DEF PauseEnds, durable
<1>2. paused' = FALSE
  BY DEF PauseEnds
<1>3. faults' \in 0..MaxFaults /\ calls' \in 0..MaxCalls
      /\ changes' \in 0..MaxChanges
  BY Counters DEF PauseEnds, budget
<1>4. TypeOK'
  BY Types, <1>1, <1>2, <1>3 DEF ProfileInv, TypeOK
<1>5. Shape'
  BY Types, <1>1, <1>2, <1>3 DEF ProfileInv, Shape, Complete
<1>6. Keeping'
  BY Types, <1>1, <1>2, <1>3 DEF ProfileInv, Keeping, Chosen
<1>7. Marking'
  BY Types, <1>1, <1>2, <1>3 DEF ProfileInv, Marking, OneOffOut, GivenUp, Parts, Choices
<1>8. Previewing'
  BY Types, <1>1, <1>2, <1>3 DEF ProfileInv, Previewing
<1>9. Counting'
  BY Types, <1>1, <1>2, <1>3 DEF ProfileInv, Counting, Counted, RestoreNeeded
<1>10. Losing'
  BY Types, <1>1, <1>2, <1>3 DEF ProfileInv, Losing, Lost, RestoreNeeded,
     IsReset, Settings, Factory, Parts, Choices
<1>11. Proving'
  BY Types, <1>1, <1>2, <1>3 DEF ProfileInv, Proving, Observed, Complete,
     Differing
<1> QED
  BY <1>4, <1>5, <1>6, <1>7, <1>8, <1>9, <1>10, <1>11 DEF ProfileInv

LEMMA RecoveryDueStep ==
    ASSUME ProfileInv, RecoveryDue
    PROVE  ProfileInv'
<1>1. UNCHANGED <<record, stored, protocol_verified, need, reset_seen,
   previewed, paused, due, op, form, link, device, ghost>>
  BY DEF RecoveryDue, durable
<1>2. waiting' \in {"bare", "full"}
  BY DEF RecoveryDue
<1>3. faults' \in 0..MaxFaults /\ calls' \in 0..MaxCalls
      /\ changes' \in 0..MaxChanges
  BY Counters DEF RecoveryDue, budget
<1>4. TypeOK'
  BY Types, <1>1, <1>2, <1>3 DEF ProfileInv, TypeOK
<1>5. Shape'
  BY Types, <1>1, <1>2, <1>3 DEF ProfileInv, Shape, Complete
<1>6. Keeping'
  BY Types, <1>1, <1>2, <1>3 DEF ProfileInv, Keeping, Chosen
<1>7. Marking'
  BY Types, <1>1, <1>2, <1>3 DEF ProfileInv, Marking, OneOffOut, GivenUp, Parts, Choices
<1>8. Previewing'
  BY Types, <1>1, <1>2, <1>3 DEF ProfileInv, Previewing
<1>9. Counting'
  BY Types, <1>1, <1>2, <1>3 DEF ProfileInv, Counting, Counted, RestoreNeeded
<1>10. Losing'
  BY Types, <1>1, <1>2, <1>3 DEF ProfileInv, Losing, Lost, RestoreNeeded,
     IsReset, Settings, Factory, Parts, Choices
<1>11. Proving'
  BY Types, <1>1, <1>2, <1>3 DEF ProfileInv, Proving, Observed, Complete,
     Differing
<1> QED
  BY <1>4, <1>5, <1>6, <1>7, <1>8, <1>9, <1>10, <1>11 DEF ProfileInv

-----------------------------------------------------------------------------
(* Reads, decisions and writes.                                            *)

\* The steps that are left.
LEMMA TailFacts ==
    ASSUME NEW S, NEW s \in Seq(S), s # <<>>
    PROVE  Tail(s) \in Seq(S) /\ (Len(s) # 1 => Tail(s) # <<>>)
<1>1. Len(s) \in Nat \ {0}
  BY EmptySeq
<1>2. Tail(s) \in Seq(S) /\ Len(Tail(s)) = Len(s) - 1
  BY HeadTailProperties
<1>3. Tail(s) = <<>> => Len(Tail(s)) = 0
  <2>1. Len(<<>>) = 0
    BY EmptySeq
  <2> QED
    BY <2>1, Zenon
<1> QED
  BY <1>1, <1>2, <1>3

\* What a command does to the device.
LEMMA EffectFacts ==
    ASSUME ProfileInv, op.at \in SendPhases
    PROVE  /\ Effect \in Devices
           /\ op.at = "clock" => Effect.routine = device.routine
                                    /\ Effect.clock = "right"
           /\ op.at # "clock" => Effect.clock = device.clock
           /\ op.at \in {"set", "start_go"} => Effect.routine = device.routine
           /\ op.at = "write" =>
                 Effect.routine \in {device.routine, record.desired.routine}
           /\ op.at \in {"writeback", "start_back", "start_undo"} =>
                 /\ Effect.routine.day = record.desired.routine.day
                 /\ Effect.routine.rest = device.routine.rest
           /\ op.at = "start_write" => Effect.routine.day = "oneoff"
                 /\ Effect.routine.rest = device.routine.rest
<1>1. CASE op.at \in {"clock", "start_write", "start_go"}
  BY Types, <1>1 DEF Effect, Devices, Plans, Days
<1>2. CASE op.at = "set"
  BY Types, <1>2 DEF Effect, Devices, ProfileInv, Shape
<1>3. CASE op.at = "write"
  <2>1. Head(op.todo) \in Blocks
    <3>1. op.todo \in Seq(Blocks) /\ op.todo # <<>>
      BY Types, <1>3 DEF ProfileInv, Shape, Operations
    <3> QED
      BY <3>1
  <2>2. record.desired \in Profiles
    BY Types, <1>3 DEF ProfileInv, Shape, Complete
  <2>3. CASE Head(op.todo) = "routine"
    BY Types, <1>3, <2>2, <2>3 DEF Effect, Devices, Profiles
  <2>4. CASE Head(op.todo) = "live"
    BY Types, <1>3, <2>2, <2>4 DEF Effect, Devices, Profiles
  <2> QED
    BY <2>1, <2>3, <2>4 DEF Blocks
<1>4. CASE op.at \in {"writeback", "start_back", "start_undo"}
  <2>1. record.desired \in Profiles
    BY Types, <1>4 DEF ProfileInv, Shape, Complete
  <2>2. Effect = [device EXCEPT !.routine.day = record.desired.routine.day]
    BY <1>4 DEF Effect
  <2> QED
    BY Types, <1>4, <2>1, <2>2 DEF Devices, Profiles, Plans
<1> QED
  BY <1>1, <1>2, <1>3, <1>4 DEF SendPhases

\* What a setting written by Home Assistant leaves in the history.
LEMMA DirtyFacts ==
    ASSUME ProfileInv, ghost' = Dirty
    PROVE  /\ ghost' \in Ghosts /\ ghost'.loss = ghost.loss
           /\ ghost'.tries = ghost.tries /\ ghost'.renewals = ghost.renewals
           /\ ghost'.kept = ghost.kept /\ ghost'.synced = ghost.synced
           /\ op.at # "start_write" /\ device'.routine = device.routine =>
                 ghost'.lost = ghost.lost
<1> DEFINE lost == ghost.lost /\ op.at # "start_write"
                              /\ device'.routine = device.routine
<1>1. ghost' = [ghost EXCEPT !.dirty = TRUE, !.lost = lost]
  BY DEF Dirty
<1>2. lost \in BOOLEAN /\ ghost.lost \in BOOLEAN
  BY Types DEF Ghosts
<1>3. op.at # "start_write" /\ device'.routine = device.routine =>
         lost = ghost.lost
  BY <1>2
<1>4. ghost \in Ghosts
  BY Types
<1> HIDE DEF lost
<1>5. /\ ghost' \in Ghosts /\ ghost'.lost = lost
      /\ ghost'.loss = ghost.loss /\ ghost'.tries = ghost.tries
      /\ ghost'.renewals = ghost.renewals /\ ghost'.kept = ghost.kept
      /\ ghost'.synced = ghost.synced
  BY <1>1, <1>2, <1>4 DEF Ghosts
<1> QED
  BY <1>3, <1>5

\* A plan made of choices, or of what the user kept, is not a one-off day that
\* still has to be given back.
LEMMA WantedFacts ==
    ASSUME NEW plan, Parts(plan) \subseteq Choices \cup ghost.kept
    PROVE  /\ plan.day = "oneoff" => "oneoff" \in ghost.kept
           /\ "factory" \in Parts(plan) => "factory" \in ghost.kept
BY DEF Parts, Choices

\* The attempts that a new revision or a restart forgets.
LEMMA CountingRenewed ==
    ASSUME ProfileInv
    PROVE  ghost.tries <= MaxAttempts * (ghost.renewals + 1)
<1>1. /\ ghost.tries \in Nat /\ ghost.renewals \in Nat /\ MaxAttempts \in Nat
      /\ Counted \in 0..MaxAttempts
  BY Types, ProfileAssumption DEF Ghosts, Counted, RestoreNeeded, Needs
<1>2. MaxAttempts * (ghost.renewals + 1) = MaxAttempts * ghost.renewals + MaxAttempts
  BY <1>1
<1>3. MaxAttempts * ghost.renewals \in Nat
  BY <1>1
<1> QED
  BY <1>1, <1>2, <1>3 DEF ProfileInv, Counting

\* A new revision and a restart renew the attempts.
LEMMA CountingRenews ==
    ASSUME ProfileInv, TypeOK', ghost'.tries = ghost.tries,
           ghost'.renewals = ghost.renewals + 1
    PROVE  Counting'
<1>1. ghost.tries \in Nat /\ ghost.renewals \in Nat /\ MaxAttempts \in Nat
  BY Types, ProfileAssumption DEF Ghosts
<1>2. Counted' \in Nat
  BY ProfileAssumption DEF Counted, RestoreNeeded, Needs, TypeOK
<1>3. MaxAttempts * (ghost.renewals + 1) \in Nat
  BY <1>1
<1>4. ghost.tries <= MaxAttempts * (ghost.renewals + 1) + Counted'
  BY <1>1, <1>2, <1>3, CountingRenewed
<1> QED
  BY <1>4 DEF Counting

\* Once the event is resolved, nothing is left to count.
LEMMA CountingResolved ==
    ASSUME TypeOK', ghost'.tries = 0, ghost'.renewals = 0
    PROVE  Counting'
<1>1. Counted' \in Nat /\ MaxAttempts \in Nat
  BY ProfileAssumption DEF Counted, RestoreNeeded, Needs, TypeOK
<1>2. MaxAttempts * 0 = 0
  BY <1>1
<1>3. \A n \in Nat : 0 <= 0 + n
  OBVIOUS
<1>4. 0 <= MaxAttempts * 0 + Counted'
  BY <1>1, <1>2, <1>3, Zenon
<1> QED
  BY <1>4 DEF Counting

\* The last attempt only changes the flag.
LEMMA ExhaustFacts ==
    ASSUME ProfileInv
    PROVE  /\ Exhaust \in Needs \cup {None}
           /\ need = None => Exhaust = None
           /\ need # None => /\ Exhaust # None
                             /\ Exhaust.revision = need.revision
                             /\ Exhaust.reset = need.reset
                             /\ Exhaust.attempts = need.attempts
BY Types, NeedsAssumption DEF Exhaust, Needs, RestoreNeeded

LEMMA StepsFacts ==
    ASSUME NEW want \in Profiles, NEW have \in Profiles
    PROVE  /\ Steps(want, have) \in Seq(Blocks)
           /\ Steps(want, have) = <<>> <=> Differing(want, have) = {}
<1>1. CASE "live" \in Differing(want, have) /\ "routine" \in Differing(want, have)
  BY <1>1 DEF Steps, Differing, Blocks
<1>2. CASE "live" \in Differing(want, have) /\ "routine" \notin Differing(want, have)
  BY <1>2 DEF Steps, Differing, Blocks
<1>3. CASE "live" \notin Differing(want, have) /\ "routine" \in Differing(want, have)
  BY <1>3 DEF Steps, Differing, Blocks
<1>4. CASE "live" \notin Differing(want, have) /\ "routine" \notin Differing(want, have)
  BY <1>4 DEF Steps, Differing, Blocks
<1> QED
  BY <1>1, <1>2, <1>3, <1>4

\* What _detect_restore_needed asks for.
LEMMA DetectedFacts ==
    ASSUME ProfileInv, op.at = "judge", Detected # None
    PROVE  /\ Detected \in Needs /\ Detected.revision = record.revision
           /\ Detected.attempts = IF RestoreNeeded # None THEN need.attempts ELSE 0
           /\ Detected.reset => Lost
           /\ Complete /\ Differing(record.desired, op.snap) # {}
<1> DEFINE reset == reset_seen \/ (RestoreNeeded # None /\ need.reset)
<1>1. reset \in BOOLEAN /\ (reset => Lost)
  BY Types DEF ProfileInv, TypeOK, Losing, RestoreNeeded, Needs
<1>2. /\ Complete /\ Changed(reset) # {}
      /\ Detected = IF RestoreNeeded # None THEN [need EXCEPT !.reset = reset]
                    ELSE [revision |-> record.revision, reset |-> reset,
                          attempts |-> 0, exhausted |-> FALSE]
  BY DEF Detected
<1>3. Differing(record.desired, op.snap) # {}
  <2>1. PICK b \in Blocks : b \in Differing(record.desired, Observed)
    BY <1>2 DEF Changed, Differing
  <2>2. op.snap \in Profiles /\ record.desired \in Profiles
    BY Types, <1>2 DEF ProfileInv, Shape, Complete
  <2>3. b \in Differing(record.desired, op.snap)
    BY <2>1, <2>2 DEF Differing, Observed, Blocks, Profiles, Plans
  <2> QED
    BY <2>3
<1>4. CASE RestoreNeeded # None
  <2>1. need \in Needs /\ need.revision = record.revision
    BY Types, <1>4 DEF RestoreNeeded
  <2> HIDE DEF reset
  <2> QED
    BY <1>1, <1>2, <1>3, <1>4, <2>1 DEF Needs
<1>5. CASE RestoreNeeded = None
  <2>1. record.revision \in Nat /\ 0 \in 0..MaxAttempts
    BY Types, ProfileAssumption DEF RecordShapes
  <2> HIDE DEF reset
  <2> QED
    BY <1>1, <1>2, <1>3, <1>5, <2>1 DEF Needs
<1> QED
  BY <1>4, <1>5

LEMMA StartNextStep ==
    ASSUME ProfileInv, StartNext
    PROVE  ProfileInv'
<1>1. UNCHANGED <<record, stored, protocol_verified, need, reset_seen,
   previewed, paused, due, waiting, form, link, device, ghost>>
  BY DEF StartNext, durable, memory
<1>2. op.at = "start_next" /\ Goto("mark")
  BY DEF StartNext, MarkFirst
<1>3. /\ op' \in Operations /\ op'.at = "mark" /\ op'.kind = op.kind
      /\ op'.snap = op.snap /\ op'.read = op.read
      /\ op'.running = op.running /\ op'.todo = op.todo
      /\ op'.target = op.target
  BY <1>2, Types, GotoFields DEF Phases, SavePhases, SendPhases, ReadPhases,
     Decisions
<1>4. faults' \in 0..MaxFaults /\ calls' \in 0..MaxCalls
      /\ changes' \in 0..MaxChanges
  BY Counters DEF StartNext, budget
<1>5. TypeOK'
  BY Types, <1>1, <1>2, <1>3, <1>4 DEF ProfileInv, TypeOK
<1>6. Shape'
  BY Types, <1>1, <1>2, <1>3, <1>4 DEF ProfileInv, Shape, Complete
<1>7. Keeping'
  BY Types, <1>1, <1>2, <1>3, <1>4 DEF ProfileInv, Keeping, Chosen
<1>8. Marking'
  BY Types, <1>1, <1>2, <1>3, <1>4 DEF ProfileInv, Marking, OneOffOut, GivenUp, Parts, Choices
<1>9. Previewing'
  BY Types, <1>1, <1>2, <1>3, <1>4 DEF ProfileInv, Previewing
<1>10. Counting'
  BY Types, <1>1, <1>2, <1>3, <1>4 DEF ProfileInv, Counting, Counted, RestoreNeeded
<1>11. Losing'
  BY Types, <1>1, <1>2, <1>3, <1>4 DEF ProfileInv, Losing, Lost,
     RestoreNeeded, IsReset, Settings, Factory, Parts, Choices
<1>12. Proving'
  BY Types, <1>1, <1>2, <1>3, <1>4 DEF ProfileInv, Proving, Observed,
     Complete, Differing
<1> QED
  BY <1>5, <1>6, <1>7, <1>8, <1>9, <1>10, <1>11, <1>12 DEF ProfileInv

LEMMA SyncClockStep ==
    ASSUME ProfileInv, SyncClock
    PROVE  ProfileInv'
<1>1. UNCHANGED <<record, stored, protocol_verified, need, reset_seen,
   previewed, due, waiting, form, link>>
  BY DEF SyncClock, durable
<1>2. op.at = "clock" /\ link /\ Goto("decide") /\ paused' = FALSE
  BY DEF SyncClock
<1>3. /\ op' \in Operations /\ op'.at = "decide" /\ op'.kind = op.kind
      /\ op'.snap = op.snap /\ op'.read = op.read
      /\ op'.running = op.running /\ op'.todo = op.todo
      /\ op'.target = op.target
  BY <1>2, Types, GotoFields DEF Phases, SavePhases, SendPhases, ReadPhases,
     Decisions
<1>4. device' \in Devices /\ device'.routine = device.routine
      /\ device'.clock \in {device.clock, "right"}
  BY <1>2, Types, EffectFacts DEF SyncClock, Acknowledged, SendPhases
<1>5. ghost' \in Ghosts /\ ghost'.loss = ghost.loss
      /\ ghost'.tries = ghost.tries
      /\ ghost'.renewals = ghost.renewals /\ ghost'.kept = ghost.kept
      /\ (ghost'.synced = "now" => ghost.synced = "now" \/ IsReset)
      /\ ghost'.lost = ghost.lost
      /\ ghost'.dirty = ghost.dirty
  BY Types DEF SyncClock, Synced, Ghosts, IsReset
<1>6. faults' \in 0..MaxFaults /\ calls' \in 0..MaxCalls
      /\ changes' \in 0..MaxChanges
  BY Counters DEF SyncClock, Acknowledged, budget
<1>7. TypeOK'
  BY Types, <1>1, <1>2, <1>3, <1>4, <1>5, <1>6 DEF ProfileInv, TypeOK
<1>8. Shape'
  BY Types, <1>1, <1>2, <1>3, <1>4, <1>5, <1>6 DEF ProfileInv, Shape, Complete
<1>9. Keeping'
  BY Types, <1>1, <1>2, <1>3, <1>4, <1>5, <1>6 DEF ProfileInv, Keeping, Chosen
<1>10. Marking'
  BY Types, <1>1, <1>2, <1>3, <1>4, <1>5, <1>6 DEF ProfileInv, Marking,
     OneOffOut, GivenUp, Parts, Choices
<1>11. Previewing'
  BY Types, <1>1, <1>2, <1>3, <1>4, <1>5, <1>6 DEF ProfileInv, Previewing
<1>12. Counting'
  BY Types, <1>1, <1>2, <1>3, <1>4, <1>5, <1>6 DEF ProfileInv, Counting,
     Counted, RestoreNeeded
<1>13. Losing'
  BY Types, <1>1, <1>2, <1>3, <1>4, <1>5, <1>6 DEF ProfileInv, Losing, Lost,
     RestoreNeeded, IsReset, Settings, Factory, Parts, Choices
<1>14. Proving'
  BY Types, <1>1, <1>2, <1>3, <1>4, <1>5, <1>6 DEF ProfileInv, Proving,
     Observed, Complete, Differing
<1> QED
  BY <1>7, <1>8, <1>9, <1>10, <1>11, <1>12, <1>13, <1>14 DEF ProfileInv

LEMMA WriteBackStep ==
    ASSUME ProfileInv, WriteBack
    PROVE  ProfileInv'
<1>1. UNCHANGED <<record, stored, protocol_verified, need, reset_seen,
   previewed, paused, due, waiting, form, link>>
  BY DEF WriteBack, durable, memory
<1>2. op.at \in {"writeback", "start_back", "start_undo"}
      /\ record.desired \in Profiles
      /\ (op.kind = "recover" => op.snap \in Profiles)
      /\ op.kind \in {"recover", "end", "start"}
      /\ (op.kind = "recover" <=> op.at = "writeback" /\ op.kind # "end")
  BY Types DEF WriteBack, ProfileInv, Shape, Complete
<1>3. op' \in Operations /\ op'.kind = op.kind
      /\ op'.at \in {"unmark", "unmark_end"}
      /\ (op'.at = "unmark" => op.kind \in {"recover", "start"})
      /\ (op'.snap = None <=> op.snap = None)
      /\ (op'.snap # None => op'.snap.routine.rest = op.snap.routine.rest)
      /\ op'.read = op.read /\ op'.target = op.target
  <2> DEFINE at == IF op.at = "start_undo" \/ op.kind = "end" THEN "unmark_end"
                   ELSE "unmark"
             snap == IF op.kind = "recover"
                     THEN [op.snap EXCEPT !.routine.day = record.desired.routine.day]
                     ELSE op.snap
  <2>1. op' = [op EXCEPT !.at = at, !.snap = snap]
    BY DEF WriteBack
  <2>2. at \in {"unmark", "unmark_end"} /\ at \in Phases
        /\ (at = "unmark" => op.kind \in {"recover", "start"})
    BY <1>2 DEF Phases, SavePhases
  <2>3. snap \in Profiles \cup {None} /\ (snap = None <=> op.snap = None)
    BY Types, <1>2, NoneAssumption DEF Profiles, Plans, Operations
  <2>4. snap # None => snap.routine.rest = op.snap.routine.rest
    BY Types, <1>2 DEF Profiles, Plans
  <2> HIDE DEF at, snap
  <2> QED
    BY Types, <2>1, <2>2, <2>3, <2>4 DEF Operations
<1>4. /\ device' \in Devices /\ device'.clock = device.clock
      /\ device'.routine.rest = device.routine.rest
      /\ device'.routine.day \in {device.routine.day, record.desired.routine.day}
      /\ device'.routine.day = record.desired.routine.day \/ ghost'.lost
  BY <1>2, Types, EffectFacts DEF WriteBack, SendPhases, Dirty, Ghosts
<1>5. ghost' \in Ghosts /\ ghost'.loss = ghost.loss
      /\ ghost'.tries = ghost.tries
      /\ ghost'.renewals = ghost.renewals /\ ghost'.kept = ghost.kept
      /\ ghost'.synced = ghost.synced
  <2>1. CASE ghost' = Dirty
    BY <2>1, DirtyFacts
  <2>2. CASE ghost' = [Dirty EXCEPT !.lost = TRUE]
    BY <2>2, Types DEF Dirty, Ghosts
  <2> QED
    BY <2>1, <2>2 DEF WriteBack
<1>6. previewed = None /\ op.kind # "accept"
      /\ Parts(record.desired.routine) \subseteq Choices \cup ghost.kept
      /\ ("factory" \in Parts(device'.routine) =>
             "factory" \in Parts(device.routine) \cup ghost.kept)
      /\ (device'.routine.day = "oneoff" => "oneoff" \in ghost.kept \/ ghost'.lost)
  <2>1. /\ previewed = None /\ op.kind # "accept"
        /\ Parts(record.desired.routine) \subseteq Choices \cup ghost.kept
    BY <1>2 DEF WriteBack, ProfileInv, Shape, Previewing, Keeping, Chosen,
       Complete
  <2> QED
    BY <1>4, <2>1 DEF Parts, Choices
<1>7. faults' \in 0..MaxFaults /\ calls' \in 0..MaxCalls
      /\ changes' \in 0..MaxChanges
  BY Counters DEF WriteBack, budget
<1>8. TypeOK'
  BY Types, <1>1, <1>2, <1>3, <1>4, <1>5, <1>6, <1>7 DEF ProfileInv, TypeOK
<1>9. Shape'
  BY Types, <1>1, <1>2, <1>3, <1>4, <1>5, <1>6, <1>7 DEF ProfileInv, Shape,
     Complete
<1>10. Keeping'
  BY Types, <1>1, <1>2, <1>3, <1>4, <1>5, <1>6, <1>7 DEF ProfileInv, Keeping,
     Chosen
<1>11. Marking'
  BY Types, <1>1, <1>2, <1>3, <1>4, <1>5, <1>6, <1>7 DEF ProfileInv, Marking,
     OneOffOut, GivenUp, Parts, Choices
<1>12. Previewing'
  BY Types, <1>1, <1>2, <1>3, <1>4, <1>5, <1>6, <1>7 DEF ProfileInv,
     Previewing
<1>13. Counting'
  BY Types, <1>1, <1>2, <1>3, <1>4, <1>5, <1>6, <1>7 DEF ProfileInv, Counting,
     Counted, RestoreNeeded
<1>14. Losing'
  BY Types, <1>1, <1>2, <1>3, <1>4, <1>5, <1>6, <1>7 DEF ProfileInv, Losing,
     Lost, RestoreNeeded, IsReset, Settings, Factory, Parts, Choices
<1>15. Proving'
  <2>1. op.kind # "recover" => op.snap = None \/ op'.at = "unmark_end"
    BY <1>2, <1>3 DEF ProfileInv, Shape
  <2>2. op.snap # None => op.read # None
    BY DEF ProfileInv, Proving
  <2>3. op.kind = "recover" => /\ op.snap # None
                              /\ op.snap.routine.rest = op.read.routine.rest
    BY <1>2, NoneAssumption DEF ProfileInv, Proving
  <2> QED
    BY <1>3, <2>1, <2>2, <2>3 DEF Proving
<1> QED
  BY <1>8, <1>9, <1>10, <1>11, <1>12, <1>13, <1>14, <1>15 DEF ProfileInv

LEMMA WriteStepStep ==
    ASSUME ProfileInv, WriteStep
    PROVE  ProfileInv'
<1>1. UNCHANGED <<record, stored, protocol_verified, need, reset_seen,
   previewed, paused, due, waiting, form, link>>
  BY DEF WriteStep, durable, memory
<1>2. op.at = "write" /\ record.desired \in Profiles
      /\ op.todo \in Seq(Blocks) /\ op.todo # <<>>
  BY Types DEF WriteStep, ProfileInv, Shape, Complete, Operations
<1>3. op' \in Operations /\ op'.kind = op.kind
      /\ op'.at \in {"write", "verify"}
      /\ (op'.at = "write" => op'.todo # <<>>)
      /\ op'.snap = op.snap /\ op'.read = op.read
      /\ op'.target = op.target
  <2> DEFINE at == IF Len(op.todo) = 1 THEN "verify" ELSE "write"
  <2>1. op' = [op EXCEPT !.todo = Tail(op.todo), !.at = at]
    BY DEF WriteStep
  <2>2. at \in {"write", "verify"} /\ at \in Phases
    BY DEF Phases, SendPhases, ReadPhases
  <2>3. Tail(op.todo) \in Seq(Blocks) /\ (at = "write" => Tail(op.todo) # <<>>)
    BY <1>2, TailFacts
  <2> HIDE DEF at
  <2> QED
    BY Types, <2>1, <2>2, <2>3 DEF Operations
<1>4. device' \in Devices /\ device'.clock = device.clock
      /\ device'.routine \in {device.routine, record.desired.routine}
  BY <1>2, Types, EffectFacts DEF WriteStep, Acknowledged, SendPhases
<1>5. ghost' \in Ghosts /\ ghost'.loss = ghost.loss
      /\ ghost'.tries = ghost.tries
      /\ ghost'.renewals = ghost.renewals /\ ghost'.kept = ghost.kept
      /\ ghost'.synced = ghost.synced
      /\ (device'.routine = device.routine => ghost'.lost = ghost.lost)
  BY <1>2, DirtyFacts DEF WriteStep
<1>6. previewed = None /\ op.kind # "accept"
      /\ Parts(record.desired.routine) \subseteq Choices \cup ghost.kept
  BY <1>2 DEF WriteStep, ProfileInv, Shape, Previewing, Keeping, Chosen,
     Complete
<1>7. faults' \in 0..MaxFaults /\ calls' \in 0..MaxCalls
      /\ changes' \in 0..MaxChanges
  BY Counters DEF WriteStep, Acknowledged, budget
<1>8. TypeOK'
  BY Types, <1>1, <1>2, <1>3, <1>4, <1>5, <1>6, <1>7 DEF ProfileInv, TypeOK
<1>9. Shape'
  BY Types, <1>1, <1>2, <1>3, <1>4, <1>5, <1>6, <1>7 DEF ProfileInv, Shape,
     Complete
<1>10. Keeping'
  BY Types, <1>1, <1>2, <1>3, <1>4, <1>5, <1>6, <1>7 DEF ProfileInv, Keeping,
     Chosen
<1>11. Marking'
  BY Types, <1>1, <1>2, <1>3, <1>4, <1>5, <1>6, <1>7 DEF ProfileInv, Marking,
     OneOffOut, GivenUp, Parts, Choices
<1>12. Previewing'
  BY Types, <1>1, <1>2, <1>3, <1>4, <1>5, <1>6, <1>7 DEF ProfileInv,
     Previewing
<1>13. Counting'
  BY Types, <1>1, <1>2, <1>3, <1>4, <1>5, <1>6, <1>7 DEF ProfileInv, Counting,
     Counted, RestoreNeeded
<1>14. Losing'
  BY Types, <1>1, <1>2, <1>3, <1>4, <1>5, <1>6, <1>7 DEF ProfileInv, Losing,
     Lost, RestoreNeeded, IsReset, Settings, Factory, Parts, Choices
<1>15. Proving'
  BY Types, <1>1, <1>2, <1>3, <1>4, <1>5, <1>6, <1>7 DEF ProfileInv, Proving,
     Observed, Complete, Differing
<1> QED
  BY <1>8, <1>9, <1>10, <1>11, <1>12, <1>13, <1>14, <1>15 DEF ProfileInv

LEMMA WriteOneOffStep ==
    ASSUME ProfileInv, WriteOneOff
    PROVE  ProfileInv'
<1>1. UNCHANGED <<record, stored, protocol_verified, need, reset_seen,
   previewed, paused, due, waiting, form, link>>
  BY DEF WriteOneOff, durable, memory
<1>2. op.at = "start_write" /\ Goto("start_go")
  BY DEF WriteOneOff
<1>3. /\ op' \in Operations /\ op'.at = "start_go" /\ op'.kind = op.kind
      /\ op'.snap = op.snap /\ op'.read = op.read
      /\ op'.running = op.running /\ op'.todo = op.todo
      /\ op'.target = op.target
  BY <1>2, Types, GotoFields DEF Phases, SavePhases, SendPhases, ReadPhases,
     Decisions
<1>4. device' \in Devices /\ device'.clock = device.clock
      /\ device'.routine.day \in {device.routine.day, "oneoff"}
      /\ device'.routine.rest = device.routine.rest
  BY <1>2, Types, EffectFacts DEF WriteOneOff, Acknowledged, SendPhases
<1>5. ghost' \in Ghosts /\ ghost'.loss = ghost.loss
      /\ ghost'.tries = ghost.tries
      /\ ghost'.renewals = ghost.renewals /\ ghost'.kept = ghost.kept
      /\ ghost'.synced = ghost.synced
  BY DirtyFacts DEF WriteOneOff
<1>6. previewed = None /\ op.kind = "start" /\ op.snap = None
      /\ record.marker /\ stored.marker
  BY <1>2 DEF WriteOneOff, ProfileInv, Shape, Previewing, Marking
<1>7. faults' \in 0..MaxFaults /\ calls' \in 0..MaxCalls
      /\ changes' \in 0..MaxChanges
  BY Counters DEF WriteOneOff, Acknowledged, budget
<1>8. TypeOK'
  BY Types, <1>1, <1>2, <1>3, <1>4, <1>5, <1>6, <1>7 DEF ProfileInv, TypeOK
<1>9. Shape'
  BY Types, <1>1, <1>2, <1>3, <1>4, <1>5, <1>6, <1>7 DEF ProfileInv, Shape,
     Complete
<1>10. Keeping'
  BY Types, <1>1, <1>2, <1>3, <1>4, <1>5, <1>6, <1>7 DEF ProfileInv, Keeping,
     Chosen
<1>11. Marking'
  BY Types, <1>1, <1>2, <1>3, <1>4, <1>5, <1>6, <1>7 DEF ProfileInv, Marking,
     OneOffOut, GivenUp, Parts, Choices
<1>12. Previewing'
  BY Types, <1>1, <1>2, <1>3, <1>4, <1>5, <1>6, <1>7 DEF ProfileInv,
     Previewing
<1>13. Counting'
  BY Types, <1>1, <1>2, <1>3, <1>4, <1>5, <1>6, <1>7 DEF ProfileInv, Counting,
     Counted, RestoreNeeded
<1>14. Losing'
  BY Types, <1>1, <1>2, <1>3, <1>4, <1>5, <1>6, <1>7 DEF ProfileInv, Losing,
     Lost, RestoreNeeded, IsReset, Settings, Factory, Parts, Choices
<1>15. Proving'
  BY Types, <1>1, <1>2, <1>3, <1>4, <1>5, <1>6, <1>7 DEF ProfileInv, Proving,
     Observed, Complete, Differing
<1> QED
  BY <1>8, <1>9, <1>10, <1>11, <1>12, <1>13, <1>14, <1>15 DEF ProfileInv

LEMMA WriteLevelStep ==
    ASSUME ProfileInv, WriteLevel
    PROVE  ProfileInv'
<1>1. UNCHANGED <<record, stored, protocol_verified, need, reset_seen,
   previewed, paused, due, waiting, form, link>>
  BY DEF WriteLevel, durable, memory
<1>2. /\ op.at = "set"
      /\ Done \/ (Goto("save_live") /\ Complete)
  BY DEF WriteLevel
<1>3. /\ op' \in Operations
      /\ \/ /\ op' = NoOp /\ op'.at = "idle" /\ op'.kind = "none"
            /\ op'.snap = None /\ op'.read = None
         \/ /\ op'.at = "save_live" /\ op'.kind = op.kind
            /\ op'.snap = op.snap /\ op'.read = op.read
            /\ op'.target = op.target
  BY <1>2, Types, GotoFields, DoneFields DEF Phases, SavePhases, SendPhases
<1>4. op'.at = "save_live" => record.desired # None
  BY <1>2, DoneFields DEF Complete
<1>5. device' \in Devices /\ device'.clock = device.clock
      /\ device'.routine = device.routine
  BY <1>2, Types, EffectFacts DEF WriteLevel, Acknowledged, SendPhases
<1>6. ghost' \in Ghosts /\ ghost'.loss = ghost.loss
      /\ ghost'.tries = ghost.tries
      /\ ghost'.renewals = ghost.renewals /\ ghost'.kept = ghost.kept
      /\ ghost'.synced = ghost.synced
      /\ ghost'.lost = ghost.lost
  BY <1>2, <1>5, DirtyFacts DEF WriteLevel
<1>7. previewed = None /\ op.kind # "accept"
  BY <1>2 DEF WriteLevel, ProfileInv, Shape, Previewing
<1>8. faults' \in 0..MaxFaults /\ calls' \in 0..MaxCalls
      /\ changes' \in 0..MaxChanges
  BY Counters DEF WriteLevel, Acknowledged, budget
<1>9. TypeOK'
  BY Types, <1>1, <1>2, <1>3, <1>4, <1>5, <1>6, <1>7, <1>8 DEF ProfileInv,
     TypeOK
<1>10. Shape'
  BY Types, <1>1, <1>2, <1>3, <1>4, <1>5, <1>6, <1>7, <1>8 DEF ProfileInv,
     Shape, Complete
<1>11. Keeping'
  BY Types, <1>1, <1>2, <1>3, <1>4, <1>5, <1>6, <1>7, <1>8 DEF ProfileInv,
     Keeping, Chosen
<1>12. Marking'
  BY Types, <1>1, <1>2, <1>3, <1>4, <1>5, <1>6, <1>7, <1>8 DEF ProfileInv,
     Marking, OneOffOut, GivenUp, Parts, Choices
<1>13. Previewing'
  BY Types, <1>1, <1>2, <1>3, <1>4, <1>5, <1>6, <1>7, <1>8 DEF ProfileInv,
     Previewing
<1>14. Counting'
  BY Types, <1>1, <1>2, <1>3, <1>4, <1>5, <1>6, <1>7, <1>8 DEF ProfileInv,
     Counting, Counted, RestoreNeeded
<1>15. Losing'
  BY Types, <1>1, <1>2, <1>3, <1>4, <1>5, <1>6, <1>7, <1>8 DEF ProfileInv,
     Losing, Lost, RestoreNeeded, IsReset, Settings, Factory, Parts, Choices
<1>16. Proving'
  BY Types, <1>1, <1>2, <1>3, <1>4, <1>5, <1>6, <1>7, <1>8 DEF ProfileInv,
     Proving, Observed, Complete, Differing
<1> QED
  BY <1>9, <1>10, <1>11, <1>12, <1>13, <1>14, <1>15, <1>16 DEF ProfileInv

LEMMA EnterRoutineStep ==
    ASSUME ProfileInv, EnterRoutine
    PROVE  ProfileInv'
<1>1. UNCHANGED <<record, stored, protocol_verified, need, reset_seen,
   previewed, paused, due, waiting, form, link, ghost>>
  BY DEF EnterRoutine, durable, memory
<1>2. /\ op.at = "start_go"
      /\ Done \/ Goto("start_undo")
  BY DEF EnterRoutine
<1>3. /\ op' \in Operations
      /\ \/ /\ op' = NoOp /\ op'.at = "idle" /\ op'.kind = "none"
            /\ op'.snap = None /\ op'.read = None
         \/ /\ op'.at = "start_undo" /\ op'.kind = op.kind
            /\ op'.snap = op.snap /\ op'.read = op.read
            /\ op'.target = op.target
  BY <1>2, Types, GotoFields, DoneFields DEF Phases, SavePhases, SendPhases
<1>4. device' \in Devices /\ device'.clock = device.clock
      /\ device'.routine = device.routine
  BY <1>2, Types, EffectFacts DEF EnterRoutine, SendPhases
<1>5. faults' \in 0..MaxFaults /\ calls' \in 0..MaxCalls
      /\ changes' \in 0..MaxChanges
  BY Counters DEF EnterRoutine, budget
<1>6. TypeOK'
  BY Types, <1>1, <1>2, <1>3, <1>4, <1>5 DEF ProfileInv, TypeOK
<1>7. Shape'
  BY Types, <1>1, <1>2, <1>3, <1>4, <1>5 DEF ProfileInv, Shape, Complete
<1>8. Keeping'
  BY Types, <1>1, <1>2, <1>3, <1>4, <1>5 DEF ProfileInv, Keeping, Chosen
<1>9. Marking'
  BY Types, <1>1, <1>2, <1>3, <1>4, <1>5 DEF ProfileInv, Marking, OneOffOut, GivenUp, Parts,
     Choices
<1>10. Previewing'
  BY Types, <1>1, <1>2, <1>3, <1>4, <1>5 DEF ProfileInv, Previewing
<1>11. Counting'
  BY Types, <1>1, <1>2, <1>3, <1>4, <1>5 DEF ProfileInv, Counting,
     Counted, RestoreNeeded
<1>12. Losing'
  BY Types, <1>1, <1>2, <1>3, <1>4, <1>5 DEF ProfileInv, Losing, Lost,
     RestoreNeeded, IsReset, Settings, Factory, Parts, Choices
<1>13. Proving'
  BY Types, <1>1, <1>2, <1>3, <1>4, <1>5 DEF ProfileInv, Proving, Observed,
     Complete, Differing
<1> QED
  BY <1>6, <1>7, <1>8, <1>9, <1>10, <1>11, <1>12, <1>13 DEF ProfileInv

\* A reset is only seen after a power loss, or on factory settings the user kept.
LEMMA SeenFacts ==
    ASSUME ProfileInv
    PROVE  /\ Seen \in BOOLEAN /\ (Seen => Lost)
           /\ (IsReset => Seen) /\ (reset_seen => Seen)
<1>1. reset_seen \in BOOLEAN /\ (reset_seen => Lost)
  BY DEF ProfileInv, TypeOK, Losing
<1>2. IsReset => "factory" \in Parts(device.routine) \/ device.clock = "reset"
  <2>1. Factory.routine.day = "factory"
    BY DEF Factory, Uniform
  <2> QED
    BY <2>1 DEF IsReset, Settings, Parts
<1>3. IsReset \in BOOLEAN /\ (IsReset => Lost)
  BY <1>2 DEF ProfileInv, Losing, IsReset
<1> QED
  BY <1>1, <1>3 DEF Seen

LEMMA ReadFreshStep ==
    ASSUME ProfileInv, ReadFresh
    PROVE  ProfileInv'
<1>0. op.at = "open" /\ op.kind \in {"recover", "look", "restore", "edit", "read"}
      /\ link' = TRUE
  BY DEF ReadFresh, ProfileInv, Shape
<1>0a. Settings(device) \in Profiles
       /\ Settings(device).routine = device.routine
       /\ Settings(device).live = device.live
  BY Types DEF Settings, Devices, Profiles
<1>0b. faults' \in 0..MaxFaults /\ calls' \in 0..MaxCalls
       /\ changes' \in 0..MaxChanges
  BY Counters DEF ReadFresh, budget
<1>0c. Seen \in BOOLEAN /\ (Seen => Lost)
  BY Types, SeenFacts
<1>1. CASE Done /\ UNCHANGED <<reset_seen, previewed, form, ghost>>
  <2>1. UNCHANGED <<record, stored, protocol_verified, need, reset_seen,
     previewed, paused, due, waiting, form, device, ghost>>
    BY <1>1 DEF ReadFresh, durable
  <2>2. link' = TRUE
    BY <1>0
  <2>3. /\ op' \in Operations /\ op' = NoOp /\ op'.at = "idle"
        /\ op'.kind = "none" /\ op'.snap = None /\ op'.read = None
        /\ op'.todo = <<>> /\ op'.target = None
    BY <1>1, DoneFields
  <2>4. faults' \in 0..MaxFaults /\ calls' \in 0..MaxCalls
        /\ changes' \in 0..MaxChanges
    BY <1>0b
  <2>5. TypeOK'
    BY Types, <2>1, <2>2, <2>3, <2>4 DEF ProfileInv, TypeOK
  <2>6. Shape'
    BY Types, <2>1, <2>2, <2>3, <2>4 DEF ProfileInv, Shape, Complete
  <2>7. Keeping'
    BY Types, <2>1, <2>2, <2>3, <2>4 DEF ProfileInv, Keeping, Chosen
  <2>8. Marking'
    BY Types, <2>1, <2>2, <2>3, <2>4 DEF ProfileInv, Marking, OneOffOut, GivenUp, Parts,
       Choices
  <2>9. Previewing'
    BY Types, <2>1, <2>2, <2>3, <2>4 DEF ProfileInv, Previewing
  <2>10. Counting'
    BY Types, <2>1, <2>2, <2>3, <2>4 DEF ProfileInv, Counting, Counted, RestoreNeeded
  <2>11. Losing'
    BY Types, <2>1, <2>2, <2>3, <2>4 DEF ProfileInv, Losing, Lost,
       RestoreNeeded, IsReset, Settings, Factory, Parts, Choices
  <2>12. Proving'
    BY Types, <2>1, <2>2, <2>3, <2>4 DEF ProfileInv, Proving, Observed,
       Complete, Differing
  <2> QED
    BY <2>5, <2>6, <2>7, <2>8, <2>9, <2>10, <2>11, <2>12 DEF ProfileInv
<1>2. CASE /\ reset_seen' = Seen /\ Done
           /\ previewed' = Settings(device)
           /\ form' = [profile |-> Settings(device), revision |-> record.revision]
           /\ ghost' = [ghost EXCEPT !.dirty = FALSE, !.unread = FALSE]
  <2>1. UNCHANGED <<record, stored, protocol_verified, need, paused, due,
     waiting, device>>
    BY <1>2 DEF ReadFresh, durable
  <2>2. link' = TRUE /\ reset_seen' = Seen /\ reset_seen' \in BOOLEAN
        /\ (reset_seen' => Lost) /\ (reset_seen => reset_seen')
    BY <1>0, <1>0c, <1>2 DEF Seen
  <2>3. /\ op' \in Operations /\ op' = NoOp /\ op'.at = "idle"
        /\ op'.kind = "none" /\ op'.snap = None /\ op'.read = None
        /\ op'.todo = <<>> /\ op'.target = None
    BY <1>2, DoneFields
  <2>4. previewed' \in Profiles /\ previewed'.routine = device.routine
        /\ form' \in Forms
    BY <1>0a, <1>2, Types DEF Forms, RecordShapes
  <2>5. ghost' \in Ghosts /\ ghost'.loss = ghost.loss
        /\ ghost'.tries = ghost.tries
      /\ ghost'.renewals = ghost.renewals /\ ghost'.kept = ghost.kept
        /\ ghost'.synced = ghost.synced /\ ghost'.lost = ghost.lost /\ ~ghost'.dirty
    BY <1>2, Types DEF Ghosts
  <2>6. faults' \in 0..MaxFaults /\ calls' \in 0..MaxCalls
        /\ changes' \in 0..MaxChanges
    BY <1>0b
  <2>7. TypeOK'
    BY Types, <2>1, <2>2, <2>3, <2>4, <2>5, <2>6 DEF ProfileInv, TypeOK
  <2>8. Shape'
    BY Types, <2>1, <2>2, <2>3, <2>4, <2>5, <2>6 DEF ProfileInv, Shape,
       Complete
  <2>9. Keeping'
    BY Types, <2>1, <2>2, <2>3, <2>4, <2>5, <2>6 DEF ProfileInv, Keeping,
       Chosen
  <2>10. Marking'
    BY Types, <2>1, <2>2, <2>3, <2>4, <2>5, <2>6 DEF ProfileInv, Marking,
       OneOffOut, GivenUp, Parts, Choices
  <2>11. Previewing'
    BY Types, <2>1, <2>2, <2>3, <2>4, <2>5, <2>6 DEF ProfileInv, Previewing
  <2>12. Counting'
    BY Types, <2>1, <2>2, <2>3, <2>4, <2>5, <2>6 DEF ProfileInv, Counting,
       Counted, RestoreNeeded
  <2>13. Losing'
    BY Types, <2>1, <2>2, <2>3, <2>4, <2>5, <2>6 DEF ProfileInv, Losing, Lost,
       RestoreNeeded, IsReset, Settings, Factory, Parts, Choices
  <2>14. Proving'
    BY Types, <2>1, <2>2, <2>3, <2>4, <2>5, <2>6 DEF ProfileInv, Proving,
       Observed, Complete, Differing
  <2> QED
    BY <2>7, <2>8, <2>9, <2>10, <2>11, <2>12, <2>13, <2>14 DEF ProfileInv
<1>3. CASE /\ reset_seen' = Seen /\ op.kind \notin {"read", "look"}
           /\ ghost' = [ghost EXCEPT !.unread = FALSE]
           /\ \E at \in {"clock", "decide"} :
                 op' = [op EXCEPT !.snap = Settings(device),
                                  !.read = Settings(device),
                                  !.running = device.running, !.at = at]
           /\ UNCHANGED <<previewed, form>>
  <2>1. UNCHANGED <<record, stored, protocol_verified, need, previewed,
     paused, due, waiting, form, device>>
    BY <1>3 DEF ReadFresh, durable
  <2>2. link' = TRUE /\ reset_seen' = Seen /\ reset_seen' \in BOOLEAN
        /\ (reset_seen' => Lost) /\ (reset_seen => reset_seen')
        /\ (IsReset => reset_seen')
    BY <1>0, <1>0c, <1>3 DEF Seen
  <2>3. /\ op' \in Operations /\ op'.at \in {"clock", "decide"}
        /\ op'.kind = op.kind /\ op'.snap \in Profiles
        /\ op'.snap # None /\ op'.snap = op'.read
        /\ op'.snap.routine = device.routine /\ op'.target = op.target
    <3>1. PICK at \in {"clock", "decide"} :
           op' = [op EXCEPT !.snap = Settings(device), !.read = Settings(device),
                            !.running = device.running, !.at = at]
      BY <1>3
    <3>2. at \in Phases /\ device.running \in BOOLEAN
      BY Types DEF Phases, SendPhases, Decisions, Devices
    <3> QED
      BY <1>0a, <3>1, <3>2, Types, NoneAssumption DEF Operations
  <2>4. ghost' \in Ghosts /\ ghost'.loss = ghost.loss
        /\ ghost'.tries = ghost.tries
      /\ ghost'.renewals = ghost.renewals /\ ghost'.kept = ghost.kept
        /\ ghost'.synced = ghost.synced /\ ghost'.lost = ghost.lost
        /\ ghost'.dirty = ghost.dirty
    BY <1>3, Types DEF Ghosts
  <2>5. faults' \in 0..MaxFaults /\ calls' \in 0..MaxCalls
        /\ changes' \in 0..MaxChanges
    BY <1>0b
  <2>6. TypeOK'
    BY Types, <2>1, <2>2, <2>3, <2>4, <2>5 DEF ProfileInv, TypeOK
  <2>7. Shape'
    BY Types, <1>0, <1>3, <2>1, <2>2, <2>3, <2>4, <2>5 DEF ProfileInv, Shape,
       Complete
  <2>8. Keeping'
    BY Types, <2>1, <2>2, <2>3, <2>4, <2>5 DEF ProfileInv, Keeping, Chosen
  <2>9. Marking'
    BY Types, <2>1, <2>2, <2>3, <2>4, <2>5 DEF ProfileInv, Marking, OneOffOut, GivenUp, Parts,
       Choices
  <2>10. Previewing'
    BY Types, <2>1, <2>2, <2>3, <2>4, <2>5 DEF ProfileInv, Previewing
  <2>11. Counting'
    BY Types, <2>1, <2>2, <2>3, <2>4, <2>5 DEF ProfileInv, Counting,
       Counted, RestoreNeeded
  <2>12. Losing'
    BY Types, <2>1, <2>2, <2>3, <2>4, <2>5 DEF ProfileInv, Losing, Lost,
       RestoreNeeded, IsReset, Settings, Factory, Parts, Choices
  <2>13. Proving'
    BY Types, <2>1, <2>2, <2>3, <2>4, <2>5 DEF ProfileInv, Proving, Observed,
       Complete, Differing
  <2> QED
    BY <2>6, <2>7, <2>8, <2>9, <2>10, <2>11, <2>12, <2>13 DEF ProfileInv
<1> QED
  <2>1. CASE op.kind = "look"
    BY <1>1, <2>1 DEF ReadFresh
  <2>2. CASE op.kind # "look"
    <3>1. CASE op.kind = "read"
      BY <1>2, <2>2, <3>1 DEF ReadFresh
    <3>2. CASE op.kind # "read"
      BY <1>3, <2>2, <3>2 DEF ReadFresh
    <3> QED
      BY <3>1, <3>2
  <2> QED
    BY <2>1, <2>2

LEMMA ReadAgainStep ==
    ASSUME ProfileInv, ReadAgain
    PROVE  ProfileInv'
<1>0. op.at = "verify" /\ link' = TRUE /\ record.desired \in Profiles
      /\ op.kind # "accept"
  BY Types DEF ReadAgain, ProfileInv, Shape, Complete
<1>0a. Settings(device) \in Profiles
       /\ Settings(device).routine = device.routine
  BY Types DEF Settings, Devices, Profiles
<1>0b. reset_seen' \in BOOLEAN /\ (reset_seen' => Lost)
       /\ (reset_seen => reset_seen')
  BY SeenFacts DEF ReadAgain, Seen
<1>0c. PICK hidden \in BOOLEAN :
          IF Proven(hidden)
          THEN op' = [op EXCEPT !.at = "save_ok", !.read = Settings(device)]
               /\ UNCHANGED need
          ELSE Goto("save_error") /\ need' = Exhaust
  BY DEF ReadAgain
<1>0d. Proven(hidden) => record.desired.routine = device.routine
  BY <1>0, <1>0a DEF Proven, Comparable, Differing, Blocks, Profiles
<1>1. UNCHANGED <<record, stored, protocol_verified, previewed, paused, due,
   waiting, form, device>>
  BY DEF ReadAgain, durable
<1>2. link' = TRUE
  BY <1>0
<1>3. /\ op' \in Operations /\ op'.kind = op.kind
      /\ op'.snap = op.snap /\ op'.target = op.target
      /\ \/ /\ op'.at = "save_ok" /\ op'.read # None
            /\ op'.read.routine = record.desired.routine
            /\ record.desired.routine = device.routine
         \/ op'.at = "save_error" /\ op'.read = op.read
  <2>1. CASE Proven(hidden)
    BY Types, <1>0a, <1>0c, <1>0d, <2>1, NoneAssumption
       DEF Operations, Phases, SavePhases
  <2>2. CASE ~Proven(hidden)
    BY Types, GotoFields, <1>0c, <2>2 DEF Phases, SavePhases
  <2> QED
    BY <2>1, <2>2
<1>4. /\ need' \in Needs \cup {None} /\ (need = None => need' = None)
      /\ need # None => /\ need' # None /\ need'.revision = need.revision
                        /\ need'.reset = need.reset
                        /\ need'.attempts = need.attempts
  BY Types, ExhaustFacts, <1>0c
<1>5. ghost' \in Ghosts /\ ghost'.loss = ghost.loss
      /\ ghost'.tries = ghost.tries
      /\ ghost'.renewals = ghost.renewals /\ ghost'.kept = ghost.kept
      /\ ghost'.synced = ghost.synced /\ ghost'.lost = ghost.lost
      /\ ghost'.dirty = ghost.dirty
  BY Types DEF ReadAgain, Ghosts
<1>6. Parts(record.desired.routine) \subseteq Choices \cup ghost.kept
  BY <1>0, NoneAssumption DEF ProfileInv, Keeping, Chosen
<1>7. faults' \in 0..MaxFaults /\ calls' \in 0..MaxCalls
      /\ changes' \in 0..MaxChanges
  BY Counters DEF ReadAgain, budget
<1>8. TypeOK'
  BY Types, <1>0b, <1>1, <1>2, <1>3, <1>4, <1>5, <1>6, <1>7 DEF ProfileInv,
     TypeOK
<1>9. Shape'
  BY Types, <1>1, <1>2, <1>3, <1>4, <1>5, <1>6, <1>7, <1>0, <1>0b DEF
     ProfileInv, Shape, Complete
<1>10. Keeping'
  BY Types, <1>1, <1>2, <1>3, <1>4, <1>5, <1>6, <1>7, <1>0, <1>0b DEF
     ProfileInv, Keeping, Chosen
<1>11. Marking'
  BY Types, <1>1, <1>2, <1>3, <1>4, <1>5, <1>6, <1>7, <1>0, <1>0b DEF
     ProfileInv, Marking, OneOffOut, GivenUp, Parts, Choices
<1>12. Previewing'
  BY Types, <1>1, <1>2, <1>3, <1>4, <1>5, <1>6, <1>7, <1>0, <1>0b DEF
     ProfileInv, Previewing
<1>13. Counting'
  BY Types, <1>1, <1>2, <1>3, <1>4, <1>5, <1>6, <1>7, <1>0, <1>0b DEF
     ProfileInv, Counting, Counted, RestoreNeeded
<1>14. Losing'
  BY Types, <1>1, <1>2, <1>3, <1>4, <1>5, <1>6, <1>7, <1>0, <1>0b DEF
     ProfileInv, Losing, Lost, RestoreNeeded, IsReset, Settings, Factory, Parts,
     Choices
<1>15. Proving'
  BY Types, <1>1, <1>2, <1>3, <1>4, <1>5, <1>6, <1>7, <1>0, <1>0b DEF
     ProfileInv, Proving, Observed, Complete, Differing
<1> QED
  BY <1>8, <1>9, <1>10, <1>11, <1>12, <1>13, <1>14, <1>15 DEF ProfileInv

LEMMA StartRestoreStep ==
    ASSUME ProfileInv, StartRestore
    PROVE  ProfileInv'
<1>0. op.at = "restore" /\ record.desired \in Profiles
      /\ op.snap \in Profiles /\ op.snap # None /\ op.kind # "accept"
      /\ op.kind # "start"
  BY Types DEF StartRestore, ProfileInv, Shape, Complete
<1>1. CASE Steps(record.desired, op.snap) = <<>>
  <2>1. UNCHANGED <<record, stored, protocol_verified, need, reset_seen,
     previewed, paused, due, waiting, form, link, device, ghost>>
    BY <1>1 DEF StartRestore, durable, memory
  <2>2. /\ op.kind # "recover" /\ op.snap = op.read
        /\ record.desired.routine = op.snap.routine
        /\ Parts(record.desired.routine) \subseteq Choices \cup ghost.kept
    <3>1. Differing(record.desired, op.snap) = {}
      BY <1>0, <1>1, StepsFacts
    <3> QED
      BY <1>0, <3>1, NoneAssumption
         DEF Differing, Blocks, ProfileInv, Proving, Keeping, Chosen
  <2>3. /\ op' \in Operations /\ op'.at = "save_ok" /\ op'.kind = op.kind
        /\ op'.snap = op.snap /\ op'.read = op.read
        /\ op'.running = op.running /\ op'.todo = op.todo
        /\ op'.target = op.target
    BY <1>1, Types, GotoFields DEF StartRestore, Phases, SavePhases
  <2>4. faults' \in 0..MaxFaults /\ calls' \in 0..MaxCalls
        /\ changes' \in 0..MaxChanges
    BY Counters DEF StartRestore, budget
  <2>5. TypeOK'
    BY Types, <2>1, <2>2, <2>3, <2>4 DEF ProfileInv, TypeOK
  <2>6. Shape'
    BY Types, <2>1, <2>2, <2>3, <2>4, <1>0 DEF ProfileInv, Shape, Complete
  <2>7. Keeping'
    BY Types, <2>1, <2>2, <2>3, <2>4, <1>0 DEF ProfileInv, Keeping, Chosen
  <2>8. Marking'
    BY Types, <2>1, <2>2, <2>3, <2>4, <1>0 DEF ProfileInv, Marking, OneOffOut, GivenUp, Parts,
       Choices
  <2>9. Previewing'
    BY Types, <2>1, <2>2, <2>3, <2>4, <1>0 DEF ProfileInv, Previewing
  <2>10. Counting'
    BY Types, <2>1, <2>2, <2>3, <2>4, <1>0 DEF ProfileInv, Counting,
       Counted, RestoreNeeded
  <2>11. Losing'
    BY Types, <2>1, <2>2, <2>3, <2>4, <1>0 DEF ProfileInv, Losing, Lost,
       RestoreNeeded, IsReset, Settings, Factory, Parts, Choices
  <2>12. Proving'
    BY Types, <2>1, <2>2, <2>3, <2>4, <1>0 DEF ProfileInv, Proving, Observed,
       Complete, Differing
  <2> QED
    BY <2>5, <2>6, <2>7, <2>8, <2>9, <2>10, <2>11, <2>12 DEF ProfileInv
<1>2. CASE Steps(record.desired, op.snap) # <<>>
  <2>1. UNCHANGED <<record, stored, protocol_verified, need, reset_seen,
     paused, due, waiting, form, link, device, ghost>>
    BY <1>2 DEF StartRestore, durable
  <2>2. previewed' = None
    BY <1>2 DEF StartRestore
  <2>3. /\ op' \in Operations /\ op'.at = "save_applying"
        /\ op'.kind = op.kind /\ op'.snap = op.snap
        /\ op'.read = op.read /\ op'.todo # <<>>
        /\ op'.target = op.target
    <3>1. Steps(record.desired, op.snap) \in Seq(Blocks)
      BY <1>0, StepsFacts
    <3>2. op' = [op EXCEPT !.at = "save_applying",
                           !.todo = Steps(record.desired, op.snap)]
      BY <1>2 DEF StartRestore
    <3>3. "save_applying" \in Phases
      BY DEF Phases, SavePhases
    <3> QED
      BY <1>2, <3>1, <3>2, <3>3, Types DEF Operations
  <2>4. faults' \in 0..MaxFaults /\ calls' \in 0..MaxCalls
        /\ changes' \in 0..MaxChanges
    BY Counters DEF StartRestore, budget
  <2>5. TypeOK'
    BY Types, <2>1, <2>2, <2>3, <2>4 DEF ProfileInv, TypeOK
  <2>6. Shape'
    BY Types, <2>1, <2>2, <2>3, <2>4, <1>0 DEF ProfileInv, Shape, Complete
  <2>7. Keeping'
    BY Types, <2>1, <2>2, <2>3, <2>4, <1>0 DEF ProfileInv, Keeping, Chosen
  <2>8. Marking'
    BY Types, <2>1, <2>2, <2>3, <2>4, <1>0 DEF ProfileInv, Marking, OneOffOut, GivenUp, Parts,
       Choices
  <2>9. Previewing'
    BY Types, <2>1, <2>2, <2>3, <2>4, <1>0 DEF ProfileInv, Previewing
  <2>10. Counting'
    BY Types, <2>1, <2>2, <2>3, <2>4, <1>0 DEF ProfileInv, Counting,
       Counted, RestoreNeeded
  <2>11. Losing'
    BY Types, <2>1, <2>2, <2>3, <2>4, <1>0 DEF ProfileInv, Losing, Lost,
       RestoreNeeded, IsReset, Settings, Factory, Parts, Choices
  <2>12. Proving'
    BY Types, <2>1, <2>2, <2>3, <2>4, <1>0 DEF ProfileInv, Proving, Observed,
       Complete, Differing
  <2> QED
    BY <2>5, <2>6, <2>7, <2>8, <2>9, <2>10, <2>11, <2>12 DEF ProfileInv
<1> QED
  BY <1>1, <1>2

LEMMA DecideStep ==
    ASSUME ProfileInv, Decide
    PROVE  ProfileInv'
<1>0. op.at = "decide" /\ op.snap \in Profiles /\ op.snap # None
      /\ op.kind \in {"recover", "restore", "edit"}
      /\ (op.kind # "recover" => Complete /\ op.snap = op.read)
      /\ (record.desired # None =>
             Parts(record.desired.routine) \subseteq Choices \cup ghost.kept)
  BY Types DEF Decide, ProfileInv, Shape, Proving, Keeping, Chosen
<1>1. CASE op.kind = "recover" /\ record.marker /\ Goto("writeback")
           /\ previewed' = None
  <2>1. UNCHANGED <<record, stored, protocol_verified, need, reset_seen,
     paused, due, waiting, form, link, device, ghost>>
    BY <1>1 DEF Decide, durable
  <2>2. previewed' = None /\ record.desired # None
    BY <1>1 DEF ProfileInv, Shape, Complete
  <2>3. /\ op' \in Operations /\ op'.at = "writeback" /\ op'.kind = op.kind
        /\ op'.snap = op.snap /\ op'.read = op.read
        /\ op'.running = op.running /\ op'.todo = op.todo
        /\ op'.target = op.target
    BY <1>1, Types, GotoFields DEF Phases, SavePhases, SendPhases, ReadPhases,
       Decisions
  <2>4. faults' \in 0..MaxFaults /\ calls' \in 0..MaxCalls
        /\ changes' \in 0..MaxChanges
    BY Counters DEF Decide, budget
  <2>5. TypeOK'
    BY Types, <2>1, <2>2, <2>3, <2>4 DEF ProfileInv, TypeOK
  <2>6. Shape'
    BY Types, <2>1, <2>2, <2>3, <2>4, <1>0, <1>1 DEF ProfileInv, Shape,
       Complete
  <2>7. Keeping'
    BY Types, <2>1, <2>2, <2>3, <2>4, <1>0, <1>1 DEF ProfileInv, Keeping,
       Chosen
  <2>8. Marking'
    BY Types, <2>1, <2>2, <2>3, <2>4, <1>0, <1>1 DEF ProfileInv, Marking,
       OneOffOut, GivenUp, Parts, Choices
  <2>9. Previewing'
    BY Types, <2>1, <2>2, <2>3, <2>4, <1>0, <1>1 DEF ProfileInv, Previewing
  <2>10. Counting'
    BY Types, <2>1, <2>2, <2>3, <2>4, <1>0, <1>1 DEF ProfileInv, Counting,
       Counted, RestoreNeeded
  <2>11. Losing'
    BY Types, <2>1, <2>2, <2>3, <2>4, <1>0, <1>1 DEF ProfileInv, Losing, Lost,
       RestoreNeeded, IsReset, Settings, Factory, Parts, Choices
  <2>12. Proving'
    BY Types, <2>1, <2>2, <2>3, <2>4, <1>0, <1>1 DEF ProfileInv, Proving,
       Observed, Complete, Differing
  <2> QED
    BY <2>5, <2>6, <2>7, <2>8, <2>9, <2>10, <2>11, <2>12 DEF ProfileInv
<1>2. CASE /\ op.kind = "recover" /\ record.marker /\ Goto("unmark")
           /\ ~(Complete /\ op.snap.routine.day # record.desired.routine.day)
           /\ UNCHANGED previewed
  <2>1. UNCHANGED <<record, stored, protocol_verified, need, reset_seen,
     previewed, paused, due, waiting, form, link, device, ghost>>
    BY <1>2 DEF Decide, durable, memory
  <2>2. op.snap.routine.day \in Choices \cup ghost.kept
    BY <1>0, <1>2 DEF ProfileInv, Shape, Complete, Parts
  <2>3. /\ op' \in Operations /\ op'.at = "unmark" /\ op'.kind = op.kind
        /\ op'.snap = op.snap /\ op'.read = op.read
        /\ op'.running = op.running /\ op'.todo = op.todo
        /\ op'.target = op.target
    BY <1>2, Types, GotoFields DEF Phases, SavePhases, SendPhases, ReadPhases,
       Decisions
  <2>4. faults' \in 0..MaxFaults /\ calls' \in 0..MaxCalls
        /\ changes' \in 0..MaxChanges
    BY Counters DEF Decide, budget
  <2>5. TypeOK'
    BY Types, <2>1, <2>2, <2>3, <2>4 DEF ProfileInv, TypeOK
  <2>6. Shape'
    BY Types, <2>1, <2>2, <2>3, <2>4, <1>0, <1>2 DEF ProfileInv, Shape,
       Complete
  <2>7. Keeping'
    BY Types, <2>1, <2>2, <2>3, <2>4, <1>0, <1>2 DEF ProfileInv, Keeping,
       Chosen
  <2>8. Marking'
    BY Types, <2>1, <2>2, <2>3, <2>4, <1>0, <1>2 DEF ProfileInv, Marking,
       OneOffOut, GivenUp, Parts, Choices
  <2>9. Previewing'
    BY Types, <2>1, <2>2, <2>3, <2>4, <1>0, <1>2 DEF ProfileInv, Previewing
  <2>10. Counting'
    BY Types, <2>1, <2>2, <2>3, <2>4, <1>0, <1>2 DEF ProfileInv, Counting,
       Counted, RestoreNeeded
  <2>11. Losing'
    BY Types, <2>1, <2>2, <2>3, <2>4, <1>0, <1>2 DEF ProfileInv, Losing, Lost,
       RestoreNeeded, IsReset, Settings, Factory, Parts, Choices
  <2>12. Proving'
    BY Types, <2>1, <2>2, <2>3, <2>4, <1>0, <1>2 DEF ProfileInv, Proving,
       Observed, Complete, Differing
  <2> QED
    BY <2>5, <2>6, <2>7, <2>8, <2>9, <2>10, <2>11, <2>12 DEF ProfileInv
<1>3. CASE op.kind = "recover" /\ Goto("judge") /\ UNCHANGED previewed
  <2>1. UNCHANGED <<record, stored, protocol_verified, need, reset_seen,
     previewed, paused, due, waiting, form, link, device, ghost>>
    BY <1>3 DEF Decide, durable, memory
  <2>2. /\ op' \in Operations /\ op'.at = "judge" /\ op'.kind = op.kind
        /\ op'.snap = op.snap /\ op'.read = op.read
        /\ op'.running = op.running /\ op'.todo = op.todo
        /\ op'.target = op.target
    BY <1>3, Types, GotoFields DEF Phases, SavePhases, SendPhases, ReadPhases,
       Decisions
  <2>3. faults' \in 0..MaxFaults /\ calls' \in 0..MaxCalls
        /\ changes' \in 0..MaxChanges
    BY Counters DEF Decide, budget
  <2>4. TypeOK'
    BY Types, <2>1, <2>2, <2>3 DEF ProfileInv, TypeOK
  <2>5. Shape'
    BY Types, <2>1, <2>2, <2>3, <1>0, <1>3 DEF ProfileInv, Shape, Complete
  <2>6. Keeping'
    BY Types, <2>1, <2>2, <2>3, <1>0, <1>3 DEF ProfileInv, Keeping, Chosen
  <2>7. Marking'
    BY Types, <2>1, <2>2, <2>3, <1>0, <1>3 DEF ProfileInv, Marking, OneOffOut, GivenUp, Parts,
       Choices
  <2>8. Previewing'
    BY Types, <2>1, <2>2, <2>3, <1>0, <1>3 DEF ProfileInv, Previewing
  <2>9. Counting'
    BY Types, <2>1, <2>2, <2>3, <1>0, <1>3 DEF ProfileInv, Counting,
       Counted, RestoreNeeded
  <2>10. Losing'
    BY Types, <2>1, <2>2, <2>3, <1>0, <1>3 DEF ProfileInv, Losing, Lost,
       RestoreNeeded, IsReset, Settings, Factory, Parts, Choices
  <2>11. Proving'
    BY Types, <2>1, <2>2, <2>3, <1>0, <1>3 DEF ProfileInv, Proving, Observed,
       Complete, Differing
  <2> QED
    BY <2>4, <2>5, <2>6, <2>7, <2>8, <2>9, <2>10, <2>11 DEF ProfileInv
<1>4. CASE Done /\ UNCHANGED previewed
  <2>1. UNCHANGED <<record, stored, protocol_verified, need, reset_seen,
     previewed, paused, due, waiting, form, link, device, ghost>>
    BY <1>4 DEF Decide, durable, memory
  <2>2. /\ op' \in Operations /\ op' = NoOp /\ op'.at = "idle"
        /\ op'.kind = "none" /\ op'.snap = None /\ op'.read = None
        /\ op'.todo = <<>> /\ op'.target = None
    BY <1>4, DoneFields
  <2>3. faults' \in 0..MaxFaults /\ calls' \in 0..MaxCalls
        /\ changes' \in 0..MaxChanges
    BY Counters DEF Decide, budget
  <2>4. TypeOK'
    BY Types, <2>1, <2>2, <2>3 DEF ProfileInv, TypeOK
  <2>5. Shape'
    BY Types, <2>1, <2>2, <2>3 DEF ProfileInv, Shape, Complete
  <2>6. Keeping'
    BY Types, <2>1, <2>2, <2>3 DEF ProfileInv, Keeping, Chosen
  <2>7. Marking'
    BY Types, <2>1, <2>2, <2>3 DEF ProfileInv, Marking, OneOffOut, GivenUp, Parts, Choices
  <2>8. Previewing'
    BY Types, <2>1, <2>2, <2>3 DEF ProfileInv, Previewing
  <2>9. Counting'
    BY Types, <2>1, <2>2, <2>3 DEF ProfileInv, Counting, Counted, RestoreNeeded
  <2>10. Losing'
    BY Types, <2>1, <2>2, <2>3 DEF ProfileInv, Losing, Lost, RestoreNeeded,
       IsReset, Settings, Factory, Parts, Choices
  <2>11. Proving'
    BY Types, <2>1, <2>2, <2>3 DEF ProfileInv, Proving, Observed, Complete,
       Differing
  <2> QED
    BY <2>4, <2>5, <2>6, <2>7, <2>8, <2>9, <2>10, <2>11 DEF ProfileInv
<1>5. CASE op.kind = "restore" /\ Goto("restore") /\ UNCHANGED previewed
  <2>1. UNCHANGED <<record, stored, protocol_verified, need, reset_seen,
     previewed, paused, due, waiting, form, link, device, ghost>>
    BY <1>5 DEF Decide, durable, memory
  <2>2. /\ op' \in Operations /\ op'.at = "restore" /\ op'.kind = op.kind
        /\ op'.snap = op.snap /\ op'.read = op.read
        /\ op'.running = op.running /\ op'.todo = op.todo
        /\ op'.target = op.target
    BY <1>5, Types, GotoFields DEF Phases, SavePhases, SendPhases, ReadPhases,
       Decisions
  <2>3. faults' \in 0..MaxFaults /\ calls' \in 0..MaxCalls
        /\ changes' \in 0..MaxChanges
    BY Counters DEF Decide, budget
  <2>4. TypeOK'
    BY Types, <2>1, <2>2, <2>3 DEF ProfileInv, TypeOK
  <2>5. Shape'
    BY Types, <2>1, <2>2, <2>3, <1>0, <1>5 DEF ProfileInv, Shape, Complete
  <2>6. Keeping'
    BY Types, <2>1, <2>2, <2>3, <1>0, <1>5 DEF ProfileInv, Keeping, Chosen
  <2>7. Marking'
    BY Types, <2>1, <2>2, <2>3, <1>0, <1>5 DEF ProfileInv, Marking, OneOffOut, GivenUp, Parts,
       Choices
  <2>8. Previewing'
    BY Types, <2>1, <2>2, <2>3, <1>0, <1>5 DEF ProfileInv, Previewing
  <2>9. Counting'
    BY Types, <2>1, <2>2, <2>3, <1>0, <1>5 DEF ProfileInv, Counting,
       Counted, RestoreNeeded
  <2>10. Losing'
    BY Types, <2>1, <2>2, <2>3, <1>0, <1>5 DEF ProfileInv, Losing, Lost,
       RestoreNeeded, IsReset, Settings, Factory, Parts, Choices
  <2>11. Proving'
    BY Types, <2>1, <2>2, <2>3, <1>0, <1>5 DEF ProfileInv, Proving, Observed,
       Complete, Differing
  <2> QED
    BY <2>4, <2>5, <2>6, <2>7, <2>8, <2>9, <2>10, <2>11 DEF ProfileInv
<1>6. CASE /\ op.kind = "edit" /\ UNCHANGED previewed
           /\ \E at \in {"save_new", "restore"} :
                 op' = [op EXCEPT !.target = [op.target EXCEPT !.live = op.snap.live],
                                  !.at = at]
  <2>1. UNCHANGED <<record, stored, protocol_verified, need, reset_seen,
     previewed, paused, due, waiting, form, link, device, ghost>>
    BY <1>6 DEF Decide, durable, memory
  <2>2. /\ op' \in Operations /\ op'.at \in {"save_new", "restore"}
        /\ op'.kind = op.kind /\ op'.snap = op.snap
        /\ op'.read = op.read /\ op'.target \in Profiles
        /\ op'.target.routine = op.target.routine
    <3>1. PICK at \in {"save_new", "restore"} :
           op' = [op EXCEPT !.target = [op.target EXCEPT !.live = op.snap.live],
                            !.at = at]
      BY <1>6
    <3>2. op.target \in Profiles
      BY <1>6 DEF ProfileInv, Shape
    <3>3. /\ [op.target EXCEPT !.live = op.snap.live] \in Profiles
          /\ [op.target EXCEPT !.live = op.snap.live].routine = op.target.routine
      BY <1>0, <3>2 DEF Profiles
    <3>4. at \in Phases
      BY DEF Phases, SavePhases, Decisions
    <3> QED
      BY <3>1, <3>3, <3>4, Types DEF Operations
  <2>3. Parts(op.target.routine) \subseteq Choices \cup ghost.kept
    BY <1>6, NoneAssumption DEF ProfileInv, Shape, Keeping, Chosen
  <2>4. faults' \in 0..MaxFaults /\ calls' \in 0..MaxCalls
        /\ changes' \in 0..MaxChanges
    BY Counters DEF Decide, budget
  <2>5. TypeOK'
    BY Types, <2>1, <2>2, <2>3, <2>4 DEF ProfileInv, TypeOK
  <2>6. Shape'
    BY Types, <2>1, <2>2, <2>3, <2>4, <1>0, <1>6 DEF ProfileInv, Shape,
       Complete
  <2>7. Keeping'
    BY Types, <2>1, <2>2, <2>3, <2>4, <1>0, <1>6 DEF ProfileInv, Keeping,
       Chosen
  <2>8. Marking'
    BY Types, <2>1, <2>2, <2>3, <2>4, <1>0, <1>6 DEF ProfileInv, Marking,
       OneOffOut, GivenUp, Parts, Choices
  <2>9. Previewing'
    BY Types, <2>1, <2>2, <2>3, <2>4, <1>0, <1>6 DEF ProfileInv, Previewing
  <2>10. Counting'
    BY Types, <2>1, <2>2, <2>3, <2>4, <1>0, <1>6 DEF ProfileInv, Counting,
       Counted, RestoreNeeded
  <2>11. Losing'
    BY Types, <2>1, <2>2, <2>3, <2>4, <1>0, <1>6 DEF ProfileInv, Losing, Lost,
       RestoreNeeded, IsReset, Settings, Factory, Parts, Choices
  <2>12. Proving'
    BY Types, <2>1, <2>2, <2>3, <2>4, <1>0, <1>6 DEF ProfileInv, Proving,
       Observed, Complete, Differing
  <2> QED
    BY <2>5, <2>6, <2>7, <2>8, <2>9, <2>10, <2>11, <2>12 DEF ProfileInv
<1> QED
  <2>1. CASE op.kind = "recover"
    BY <1>1, <1>2, <1>3, <2>1 DEF Decide
  <2>2. CASE op.kind = "restore"
    BY <1>4, <1>5, <2>2 DEF Decide
  <2>3. CASE op.kind = "edit"
    BY <1>4, <1>6, <2>3 DEF Decide
  <2> QED
    BY <1>0, <2>1, <2>2, <2>3

\* A resolved event leaves nothing that still shows.
LEMMA ResolvedFacts ==
    ASSUME ProfileInv
    PROVE  /\ Resolved(ghost) \in Ghosts /\ Resolved(ghost).tries = 0
           /\ Resolved(ghost).synced = "no" /\ Resolved(ghost).renewals = 0
           /\ Resolved(ghost).lost = ghost.lost
           /\ Resolved(ghost).kept = ghost.kept
           /\ Resolved(ghost).dirty = ghost.dirty
           /\ "factory" \in Parts(device.routine) \/ device.clock = "reset" =>
                 Resolved(ghost).loss \/ "factory" \in ghost.kept
BY Types DEF Resolved, Ghosts, ProfileInv, Losing, Lost

LEMMA JudgeStep ==
    ASSUME ProfileInv, Judge
    PROVE  ProfileInv'
<1>0. op.at = "judge" /\ op.kind = "recover" /\ op.snap \in Profiles
      /\ op.snap # None
  BY Types DEF Judge, ProfileInv, Shape
<1>1. CASE record.desired = Observed /\ Goto("save_verified")
           /\ UNCHANGED <<need, reset_seen, ghost>>
  <2>1. UNCHANGED <<record, stored, protocol_verified, need, reset_seen,
     previewed, paused, due, waiting, form, link, device, ghost>>
    BY <1>1 DEF Judge, durable
  <2>2. /\ op' \in Operations /\ op'.at = "save_verified" /\ op'.kind = op.kind
        /\ op'.snap = op.snap /\ op'.read = op.read
        /\ op'.running = op.running /\ op'.todo = op.todo
        /\ op'.target = op.target
    BY <1>1, Types, GotoFields DEF Phases, SavePhases, SendPhases, ReadPhases,
       Decisions
  <2>3. op'.at = "save_verified" => record.desired = Observed'
    BY <1>1, <2>1, <2>2 DEF Observed, Complete
  <2>4. faults' \in 0..MaxFaults /\ calls' \in 0..MaxCalls
        /\ changes' \in 0..MaxChanges
    BY Counters DEF Judge, budget
  <2>5. TypeOK'
    BY Types, <2>1, <2>2, <2>3, <2>4 DEF ProfileInv, TypeOK
  <2>6. Shape'
    BY Types, <2>1, <2>2, <2>3, <2>4, <1>0, <1>1 DEF ProfileInv, Shape,
       Complete
  <2>7. Keeping'
    BY Types, <2>1, <2>2, <2>3, <2>4, <1>0, <1>1 DEF ProfileInv, Keeping,
       Chosen
  <2>8. Marking'
    BY Types, <2>1, <2>2, <2>3, <2>4, <1>0, <1>1 DEF ProfileInv, Marking,
       OneOffOut, GivenUp, Parts, Choices
  <2>9. Previewing'
    BY Types, <2>1, <2>2, <2>3, <2>4, <1>0, <1>1 DEF ProfileInv, Previewing
  <2>10. Counting'
    BY Types, <2>1, <2>2, <2>3, <2>4, <1>0, <1>1 DEF ProfileInv, Counting,
       Counted, RestoreNeeded
  <2>11. Losing'
    BY Types, <2>1, <2>2, <2>3, <2>4, <1>0, <1>1 DEF ProfileInv, Losing, Lost,
       RestoreNeeded, IsReset, Settings, Factory, Parts, Choices
  <2>12. Proving'
    BY Types, <2>1, <2>2, <2>3, <2>4, <1>0, <1>1 DEF ProfileInv, Proving,
       Complete
  <2> QED
    BY <2>5, <2>6, <2>7, <2>8, <2>9, <2>10, <2>11, <2>12 DEF ProfileInv
<1>2. CASE /\ reset_seen' = FALSE /\ need' = None /\ Done
           /\ ghost' = Resolved(ghost)
  <2>1. UNCHANGED <<record, stored, protocol_verified, previewed, paused, due,
     waiting, form, link, device>>
    BY <1>2 DEF Judge, durable
  <2>2. /\ op' \in Operations /\ op' = NoOp /\ op'.at = "idle"
        /\ op'.kind = "none" /\ op'.snap = None /\ op'.read = None
        /\ op'.todo = <<>> /\ op'.target = None
    BY <1>2, DoneFields
  <2>3. reset_seen' = FALSE /\ need' = None
    BY <1>2
  <2>4. ghost' \in Ghosts /\ ghost'.tries = 0 /\ ghost'.synced = "no"
      /\ ghost'.renewals = 0 /\ ghost'.lost = ghost.lost
        /\ ghost'.kept = ghost.kept /\ ghost'.dirty = ghost.dirty
        /\ ("factory" \in Parts(device.routine) \/ device.clock = "reset" =>
               ghost'.loss \/ "factory" \in ghost'.kept)
    BY <1>2, ResolvedFacts
  <2>5. faults' \in 0..MaxFaults /\ calls' \in 0..MaxCalls
        /\ changes' \in 0..MaxChanges
    BY Counters DEF Judge, budget
  <2>6. TypeOK'
    BY Types, <2>1, <2>2, <2>3, <2>4, <2>5 DEF ProfileInv, TypeOK
  <2>7. Shape'
    BY Types, <2>1, <2>2, <2>3, <2>4, <2>5 DEF ProfileInv, Shape, Complete
  <2>8. Keeping'
    BY Types, <2>1, <2>2, <2>3, <2>4, <2>5 DEF ProfileInv, Keeping, Chosen
  <2>9. Marking'
    BY Types, <2>1, <2>2, <2>3, <2>4, <2>5 DEF ProfileInv, Marking, OneOffOut, GivenUp, Parts,
       Choices
  <2>10. Previewing'
    BY Types, <2>1, <2>2, <2>3, <2>4, <2>5 DEF ProfileInv, Previewing
  <2>11. Counting'
    BY <2>4, <2>6, CountingResolved
  <2>12. Losing'
    BY Types, <2>1, <2>2, <2>3, <2>4, <2>5 DEF ProfileInv, Losing, Lost,
       RestoreNeeded, IsReset, Settings, Factory, Parts, Choices
  <2>13. Proving'
    BY Types, <2>1, <2>2, <2>3, <2>4, <2>5 DEF ProfileInv, Proving, Observed,
       Complete, Differing
  <2> QED
    BY <2>6, <2>7, <2>8, <2>9, <2>10, <2>11, <2>12, <2>13 DEF ProfileInv
<1>3. CASE /\ reset_seen' = reset_seen /\ Done /\ UNCHANGED ghost
           /\ Detected # None
           /\ need' \in {Detected, [Detected EXCEPT !.exhausted = TRUE]}
  <2>1. UNCHANGED <<record, stored, protocol_verified, reset_seen, previewed,
     paused, due, waiting, form, link, device, ghost>>
    BY <1>3 DEF Judge, durable
  <2>2. /\ op' \in Operations /\ op' = NoOp /\ op'.at = "idle"
        /\ op'.kind = "none" /\ op'.snap = None /\ op'.read = None
        /\ op'.todo = <<>> /\ op'.target = None
    BY <1>3, DoneFields
  <2>3. /\ need' \in Needs /\ need' # None
        /\ need'.revision = record.revision
        /\ (need'.reset => Lost)
        /\ need'.attempts = IF RestoreNeeded # None THEN need.attempts ELSE 0
    BY <1>0, <1>3, DetectedFacts, NeedsAssumption DEF Needs
  <2>4. record.revision \in Nat
    BY Types DEF RecordShapes
  <2>5. faults' \in 0..MaxFaults /\ calls' \in 0..MaxCalls
        /\ changes' \in 0..MaxChanges
    BY Counters DEF Judge, budget
  <2>6. TypeOK'
    BY Types, <2>1, <2>2, <2>3, <2>4, <2>5 DEF ProfileInv, TypeOK
  <2>7. Shape'
    BY Types, <2>1, <2>2, <2>3, <2>4, <2>5 DEF ProfileInv, Shape, Complete
  <2>8. Keeping'
    BY Types, <2>1, <2>2, <2>3, <2>4, <2>5 DEF ProfileInv, Keeping, Chosen
  <2>9. Marking'
    BY Types, <2>1, <2>2, <2>3, <2>4, <2>5 DEF ProfileInv, Marking, OneOffOut, GivenUp, Parts,
       Choices
  <2>10. Previewing'
    BY Types, <2>1, <2>2, <2>3, <2>4, <2>5 DEF ProfileInv, Previewing
  <2>11. Counting'
    BY Types, <2>1, <2>2, <2>3, <2>4, <2>5 DEF ProfileInv, Counting,
       Counted, RestoreNeeded
  <2>12. Losing'
    BY Types, <2>1, <2>2, <2>3, <2>4, <2>5 DEF ProfileInv, Losing, Lost,
       RestoreNeeded, IsReset, Settings, Factory, Parts, Choices
  <2>13. Proving'
    BY Types, <2>1, <2>2, <2>3, <2>4, <2>5 DEF ProfileInv, Proving, Observed,
       Complete, Differing
  <2> QED
    BY <2>6, <2>7, <2>8, <2>9, <2>10, <2>11, <2>12, <2>13 DEF ProfileInv
<1>4. CASE /\ reset_seen' = reset_seen /\ Goto("restore")
           /\ ghost' = [ghost EXCEPT !.tries = @ + 1]
           /\ Detected # None /\ Detected.reset
           /\ Detected.attempts < MaxAttempts
           /\ need' = [Detected EXCEPT !.attempts = @ + 1]
  <2>1. UNCHANGED <<record, stored, protocol_verified, reset_seen, previewed,
     paused, due, waiting, form, link, device>>
    BY <1>4 DEF Judge, durable
  <2>2. /\ op' \in Operations /\ op'.at = "restore" /\ op'.kind = op.kind
        /\ op'.snap = op.snap /\ op'.read = op.read
        /\ op'.running = op.running /\ op'.todo = op.todo
        /\ op'.target = op.target
    BY <1>4, Types, GotoFields DEF Phases, SavePhases, SendPhases, ReadPhases,
       Decisions
  <2>3. /\ need' \in Needs /\ need' # None
        /\ need'.revision = record.revision
        /\ need'.attempts =
              (IF RestoreNeeded # None THEN need.attempts ELSE 0) + 1
        /\ Lost /\ Complete /\ Differing(record.desired, op.snap) # {}
    <3>1. /\ Detected \in Needs /\ Detected.revision = record.revision
          /\ Detected.attempts = IF RestoreNeeded # None THEN need.attempts ELSE 0
          /\ Lost /\ Complete /\ Differing(record.desired, op.snap) # {}
      BY <1>0, <1>4, DetectedFacts
    <3>2. Detected.attempts + 1 \in 0..MaxAttempts
      <4>1. Detected.attempts \in 0..MaxAttempts
        BY <3>1 DEF Needs
      <4> QED
        BY <1>4, <4>1, ProfileAssumption
    <3>3. need' \in Needs /\ need'.revision = record.revision
          /\ need'.attempts = Detected.attempts + 1
      BY <1>4, <3>1, <3>2 DEF Needs
    <3> QED
      BY <3>1, <3>3, NeedsAssumption
  <2>4. ghost' \in Ghosts /\ ghost'.loss = ghost.loss
        /\ ghost'.tries = ghost.tries + 1 /\ ghost'.kept = ghost.kept
        /\ ghost'.synced = ghost.synced /\ ghost'.lost = ghost.lost
      /\ ghost'.renewals = ghost.renewals /\ ghost'.dirty = ghost.dirty
    BY <1>4, Types DEF Ghosts
  <2>5. record.revision \in Nat
    BY Types DEF RecordShapes
  <2>6. faults' \in 0..MaxFaults /\ calls' \in 0..MaxCalls
        /\ changes' \in 0..MaxChanges
    BY Counters DEF Judge, budget
  <2>7. TypeOK'
    BY Types, <2>1, <2>2, <2>3, <2>4, <2>5, <2>6 DEF ProfileInv, TypeOK
  <2>8. Shape'
    BY Types, <2>1, <2>2, <2>3, <2>4, <2>5, <2>6, <1>0, <1>4 DEF ProfileInv,
       Shape, Complete
  <2>9. Keeping'
    BY Types, <2>1, <2>2, <2>3, <2>4, <2>5, <2>6, <1>0, <1>4 DEF ProfileInv,
       Keeping, Chosen
  <2>10. Marking'
    BY Types, <2>1, <2>2, <2>3, <2>4, <2>5, <2>6, <1>0, <1>4 DEF ProfileInv,
       Marking, OneOffOut, GivenUp, Parts, Choices
  <2>11. Previewing'
    BY Types, <2>1, <2>2, <2>3, <2>4, <2>5, <2>6, <1>0, <1>4 DEF ProfileInv,
       Previewing
  <2>12. Counting'
    <3>1. ghost.tries <= MaxAttempts * ghost.renewals + Counted
      BY DEF ProfileInv, Counting
    <3>2. /\ ghost.tries \in Nat /\ Counted \in Nat
          /\ MaxAttempts * ghost.renewals \in Nat
      BY Types, ProfileAssumption DEF Ghosts, Needs, Counted, RestoreNeeded
    <3>3. Counted' = Counted + 1
      BY <2>1, <2>3 DEF Counted, RestoreNeeded
    <3> QED
      BY <2>3, <2>4, <3>1, <3>2, <3>3 DEF Counting
  <2>13. Losing'
    BY Types, <2>1, <2>2, <2>3, <2>4, <2>5, <2>6, <1>0, <1>4 DEF ProfileInv,
       Losing, Lost, RestoreNeeded, IsReset, Settings, Factory, Parts, Choices
  <2>14. Proving'
    BY Types, <2>1, <2>2, <2>3, <2>4, <2>5, <2>6, <1>0, <1>4 DEF ProfileInv,
       Proving, Observed, Complete, Differing
  <2> QED
    BY <2>7, <2>8, <2>9, <2>10, <2>11, <2>12, <2>13, <2>14 DEF ProfileInv
<1> QED
  <2>1. CASE ~IsVerified(record) /\ record.desired = Observed
    BY <1>1, <2>1 DEF Judge
  <2>2. CASE ~(~IsVerified(record) /\ record.desired = Observed)
    <3>1. CASE Detected = None
      BY <1>2, <2>2, <3>1 DEF Judge, ProfileInv, TypeOK
    <3>2. CASE Detected # None /\ ~Automatic(Detected)
      BY <1>3, <2>2, <3>2 DEF Judge, ProfileInv, TypeOK
    <3>3. CASE Detected # None /\ Automatic(Detected) /\ ~AttemptsLeft(Detected)
      BY <1>3, <2>2, <3>3 DEF Judge, ProfileInv, TypeOK
    <3>4. CASE Detected # None /\ Automatic(Detected) /\ AttemptsLeft(Detected)
      BY <1>4, <2>2, <3>4 DEF Judge, Automatic, AttemptsLeft, ProfileInv, TypeOK
    <3> QED
      BY <3>1, <3>2, <3>3, <3>4
  <2> QED
    BY <2>1, <2>2

LEMMA IoFailsStep ==
    ASSUME ProfileInv, IoFails
    PROVE  ProfileInv'
<1>0. op.at \in SendPhases \cup ReadPhases /\ link' = FALSE
      /\ op.kind # "accept"
  BY DEF IoFails, ProfileInv, Shape, SendPhases, ReadPhases
<1>1. /\ device' \in Devices
      /\ device'.clock \in {device.clock, "right"}
      /\ \/ device'.routine = device.routine
         \/ /\ op.at = "start_write" /\ device'.routine.day = "oneoff"
            /\ device'.routine.rest = device.routine.rest
         \/ /\ device'.routine.day = record.desired.routine.day
            /\ device'.routine.rest \in {device.routine.rest,
                                        record.desired.routine.rest}
            /\ record.desired # None
  <2>1. CASE UNCHANGED device
    BY Types, <2>1
  <2>2. CASE op.at \in SendPhases /\ device' = Effect
    <3>1. op.at \in {"write", "writeback", "start_back", "start_undo"} =>
             record.desired # None
      BY DEF ProfileInv, Shape, Complete
    <3>2. device' \in Devices /\ device'.clock \in {device.clock, "right"}
      BY <2>2, EffectFacts
    <3>3. CASE op.at \in {"clock", "set", "start_go"}
      BY <2>2, <3>2, <3>3, EffectFacts
    <3>4. CASE op.at = "start_write"
      BY <2>2, <3>2, <3>4, EffectFacts
    <3>5. CASE op.at \in {"write", "writeback", "start_back", "start_undo"}
      BY <2>2, <3>1, <3>2, <3>5, EffectFacts
    <3> QED
      BY <2>2, <3>3, <3>4, <3>5 DEF SendPhases
  <2> QED
    BY <2>1, <2>2 DEF IoFails
<1>2. /\ ghost' \in Ghosts /\ ghost'.loss = ghost.loss
      /\ ghost'.tries = ghost.tries
      /\ ghost'.renewals = ghost.renewals /\ ghost'.kept = ghost.kept
      /\ (ghost'.synced = "now" => reset_seen)
      /\ (device'.routine = device.routine /\ op.at # "start_write" =>
             ghost'.lost = ghost.lost)
      /\ (ghost'.dirty => previewed = None \/ ghost.dirty)
  <2>1. CASE UNCHANGED ghost
    BY Types, <2>1 DEF ProfileInv, Losing
  <2>2. CASE op.at = "clock" /\ link /\ ghost' = Synced
    BY Types, <2>2 DEF Synced, Ghosts, ProfileInv, Losing
  <2>3. CASE op.at \in SendPhases \ {"clock", "start_go"} /\ ghost' = Dirty
    BY DirtyFacts, <2>3 DEF SendPhases, ProfileInv, Losing, Previewing
  <2> QED
    BY <2>1, <2>2, <2>3 DEF IoFails
<1>3. /\ need' \in Needs \cup {None} /\ (need = None => need' = None)
      /\ need # None => /\ need' # None /\ need'.revision = need.revision
                        /\ need'.reset = need.reset
                        /\ need'.attempts = need.attempts
  BY Types, ExhaustFacts DEF IoFails
<1>4. /\ op' \in Operations
      /\ \/ /\ op' = NoOp /\ op'.at = "idle" /\ op'.kind = "none"
            /\ op'.snap = None /\ op'.read = None
         \/ /\ op'.kind = op.kind /\ op'.snap = op.snap
            /\ op'.read = op.read /\ op'.target = op.target
            /\ \/ op'.at = "save_error" /\ op.at \in {"write", "verify"}
               \/ /\ op'.at = "save_offline" /\ op.kind = "edit"
                  /\ op.target \in Profiles
  <2>1. \/ Done
        \/ op.at \in {"write", "verify"} /\ Goto("save_error")
        \/ op.kind = "edit" /\ Goto("save_offline")
    BY DEF IoFails
  <2>2. op.kind = "edit" => op.target \in Profiles
    BY DEF ProfileInv, Shape
  <2> QED
    BY Types, DoneFields, GotoFields, <2>1, <2>2 DEF Phases, SavePhases
<1>5. faults' \in 0..MaxFaults /\ calls' \in 0..MaxCalls
      /\ changes' \in 0..MaxChanges
  BY Counters DEF IoFails
<1>6. paused' \in BOOLEAN
  BY DEF IoFails, ProfileInv, TypeOK
<1>7. record.desired # None => Parts(record.desired.routine) \subseteq Choices \cup
   ghost.kept
  BY DEF ProfileInv, Keeping, Chosen
<1>8. op.at = "start_write" => record.marker /\ stored.marker /\ op.kind =
   "start"
         /\ op.snap = None /\ previewed = None
  BY DEF ProfileInv, Marking, Shape, Previewing
<1>9. UNCHANGED <<record, stored, protocol_verified, reset_seen, previewed,
   due, waiting, form>>
  BY DEF IoFails, durable
<1>10. TypeOK'
    BY Types, <1>0, <1>1, <1>2, <1>3, <1>4, <1>5, <1>6, <1>7, <1>8, <1>9 DEF
     ProfileInv, TypeOK
<1>11. Shape'
    BY Types, <1>0, <1>1, <1>2, <1>3, <1>4, <1>5, <1>6, <1>7, <1>8, <1>9 DEF
     ProfileInv, Shape, Complete
<1>12. Keeping'
    BY Types, <1>0, <1>1, <1>2, <1>3, <1>4, <1>5, <1>6, <1>7, <1>8, <1>9 DEF
     ProfileInv, Keeping, Chosen
<1>13. Marking'
    BY Types, <1>0, <1>1, <1>2, <1>3, <1>4, <1>5, <1>6, <1>7, <1>8, <1>9 DEF
     ProfileInv, Marking, OneOffOut, GivenUp, Parts, Choices
<1>14. Previewing'
    BY Types, <1>0, <1>1, <1>2, <1>3, <1>4, <1>5, <1>6, <1>7, <1>8, <1>9 DEF
     ProfileInv, Previewing
<1>15. Counting'
    BY Types, <1>0, <1>1, <1>2, <1>3, <1>4, <1>5, <1>6, <1>7, <1>8, <1>9 DEF
     ProfileInv, Counting, Counted, RestoreNeeded
<1>16. Losing'
    BY Types, <1>0, <1>1, <1>2, <1>3, <1>4, <1>5, <1>6, <1>7, <1>8, <1>9 DEF
     ProfileInv, Losing, Lost, RestoreNeeded, IsReset,
     Settings, Factory, Parts, Choices
<1>17. Proving'
    BY Types, <1>0, <1>1, <1>2, <1>3, <1>4, <1>5, <1>6, <1>7, <1>8, <1>9 DEF
     ProfileInv, Proving, Observed, Complete, Differing
<1> QED
  BY <1>10, <1>11, <1>12, <1>13, <1>14, <1>15, <1>16, <1>17 DEF ProfileInv

-----------------------------------------------------------------------------
(* Saves, cancellation and a restart.                                      *)

\* What may be in the Store after a save, whole or interrupted.
LEMMA SavingKeeps ==
    ASSUME ProfileInv, op.at \in SavePhases
    PROVE  /\ Saving \in Records /\ Saving \in RecordShapes
           /\ Saving.revision \in Nat
           /\ Saving.marker => Saving.desired # None
           /\ Saving.desired # None =>
                 Parts(Saving.desired.routine) \subseteq Choices \cup ghost.kept
           /\ record.desired # None => Saving.desired # None
           /\ OneOffOut => Saving.marker
           /\ op.at \in {"save_new", "save_offline", "save_accept"}
                 /\ RestoreNeeded # None => need.revision < Saving.revision
<1>1. /\ Saving \in Records /\ Saving \in RecordShapes
      /\ Saving.revision \in Nat /\ record.revision \in Nat
  BY SavingFacts, RecordFields, Types DEF RecordShapes
<1>2. CASE op.at \in {"save_new", "save_offline", "save_accept"}
  <2>1. /\ op.target \in Profiles /\ op.target # None
        /\ Parts(op.target.routine) \subseteq Choices \cup ghost.kept
    BY <1>2, NoneAssumption DEF ProfileInv, Shape, Keeping, Chosen
  <2>2. /\ Saving.desired = op.target /\ Saving.marker = record.marker
        /\ Saving.revision = record.revision + 1
    BY <1>2, SavingFacts
  <2>3. need # None => need.revision <= record.revision /\ need.revision \in Nat
    BY Types DEF ProfileInv, Shape, Needs
  <2> QED
    BY <1>1, <2>1, <2>2, <2>3 DEF RestoreNeeded, ProfileInv, Marking
<1>3. CASE op.at = "save_live"
  <2>1. /\ op.target.live \in Levels /\ record.desired \in Profiles
        /\ Parts(record.desired.routine) \subseteq Choices \cup ghost.kept
    BY Types, <1>3 DEF ProfileInv, Shape, Complete, Keeping, Chosen
  <2>2. /\ Saving.desired = [record.desired EXCEPT !.live = op.target.live]
        /\ Saving.marker = record.marker
    BY <1>3, SavingFacts
  <2>3. /\ Saving.desired \in Profiles
        /\ Saving.desired.routine = record.desired.routine
    BY <2>1, <2>2 DEF Profiles
  <2> QED
    BY <1>1, <1>3, <2>1, <2>2, <2>3, NoneAssumption DEF ProfileInv, Marking
<1>4. CASE op.at \notin {"save_new", "save_offline", "save_accept", "save_live"}
  <2>1. /\ Saving.desired = record.desired
        /\ Saving.marker = IF op.at = "mark" THEN TRUE
                           ELSE IF op.at \in {"unmark", "unmark_end"} THEN FALSE
                           ELSE record.marker
    BY <1>4, SavingFacts
  <2>2. /\ record.marker => record.desired # None
        /\ op.at = "mark" => record.desired # None
        /\ record.desired # None =>
              Parts(record.desired.routine) \subseteq Choices \cup ghost.kept
        /\ OneOffOut => record.marker /\ op.at \notin {"unmark", "unmark_end"}
    BY DEF ProfileInv, Shape, Complete, Keeping, Chosen, Marking
  <2> QED
    BY <1>1, <1>4, <2>1, <2>2
<1> QED
  BY <1>2, <1>3, <1>4

LEMMA SavedMatchStep ==
    ASSUME ProfileInv, SavedMatch
    PROVE  ProfileInv'
<1>1. UNCHANGED <<protocol_verified, need, reset_seen, previewed, paused, due,
   waiting, form, link, device, ghost>>
  BY DEF SavedMatch, Saved, durable, memory
<1>2. op.at \in SavePhases /\ record' = Saving /\ stored' = Saving
      /\ op.at \in {"save_verified"}
  BY DEF SavedMatch, Saved, SavePhases
<1>3. /\ record' \in Records /\ stored' = record'
      /\ (record'.marker => record'.desired # None)
      /\ (OneOffOut => record'.marker)
      /\ (record.desired # None => record'.desired # None)
      /\ (record'.desired # None =>
             Parts(record'.desired.routine) \subseteq Choices \cup ghost.kept)
  BY <1>2, SavingKeeps
<1>4. /\ record'.revision = record.revision /\ record.revision \in Nat
      /\ record'.desired = record.desired
      /\ record'.marker = record.marker
  BY <1>2, SavingFacts, Types DEF RecordShapes
<1>5. Goto("judge") /\ op.snap # None
  BY <1>2 DEF SavedMatch, ProfileInv, Shape
<1>6. /\ op' \in Operations /\ op'.at = "judge" /\ op'.kind = op.kind
      /\ op'.snap = op.snap /\ op'.read = op.read
      /\ op'.running = op.running /\ op'.todo = op.todo
      /\ op'.target = op.target
  BY <1>5, Types, GotoFields DEF Phases, SavePhases, SendPhases, ReadPhases,
     Decisions
<1>7. faults' \in 0..MaxFaults /\ calls' \in 0..MaxCalls
      /\ changes' \in 0..MaxChanges
  BY Counters DEF SavedMatch, Saved, budget
<1>8. TypeOK'
  BY Types, <1>1, <1>2, <1>3, <1>4, <1>5, <1>6, <1>7 DEF ProfileInv, TypeOK
<1>9. Shape'
  BY Types, <1>1, <1>2, <1>3, <1>4, <1>5, <1>6, <1>7 DEF ProfileInv, Shape,
     Complete
<1>10. Keeping'
  BY Types, <1>1, <1>2, <1>3, <1>4, <1>5, <1>6, <1>7 DEF ProfileInv, Keeping,
     Chosen
<1>11. Marking'
  BY Types, <1>1, <1>2, <1>3, <1>4, <1>5, <1>6, <1>7 DEF ProfileInv, Marking,
     OneOffOut, GivenUp, Parts, Choices
<1>12. Previewing'
  BY Types, <1>1, <1>2, <1>3, <1>4, <1>5, <1>6, <1>7 DEF ProfileInv,
     Previewing
<1>13. Counting'
  BY Types, <1>1, <1>2, <1>3, <1>4, <1>5, <1>6, <1>7 DEF ProfileInv, Counting,
     Counted, RestoreNeeded
<1>14. Losing'
  BY Types, <1>1, <1>2, <1>3, <1>4, <1>5, <1>6, <1>7 DEF ProfileInv, Losing,
     Lost, RestoreNeeded, IsReset, Settings, Factory, Parts, Choices
<1>15. Proving'
  BY Types, <1>1, <1>2, <1>3, <1>4, <1>5, <1>6, <1>7 DEF ProfileInv, Proving,
     Observed, Complete, Differing
<1> QED
  BY <1>8, <1>9, <1>10, <1>11, <1>12, <1>13, <1>14, <1>15 DEF ProfileInv

LEMMA SavedApplyingStep ==
    ASSUME ProfileInv, SavedApplying
    PROVE  ProfileInv'
<1>1. UNCHANGED <<protocol_verified, need, reset_seen, previewed, paused, due,
   waiting, form, link, device, ghost>>
  BY DEF SavedApplying, Saved, durable, memory
<1>2. op.at \in SavePhases /\ record' = Saving /\ stored' = Saving
      /\ op.at \in {"save_applying"}
  BY DEF SavedApplying, Saved, SavePhases
<1>3. /\ record' \in Records /\ stored' = record'
      /\ (record'.marker => record'.desired # None)
      /\ (OneOffOut => record'.marker)
      /\ (record.desired # None => record'.desired # None)
      /\ (record'.desired # None =>
             Parts(record'.desired.routine) \subseteq Choices \cup ghost.kept)
  BY <1>2, SavingKeeps
<1>4. /\ record'.revision = record.revision /\ record.revision \in Nat
      /\ record'.desired = record.desired
      /\ record'.marker = record.marker
  BY <1>2, SavingFacts, Types DEF RecordShapes
<1>5. Goto("write")
  BY DEF SavedApplying
<1>6. /\ op' \in Operations /\ op'.at = "write" /\ op'.kind = op.kind
      /\ op'.snap = op.snap /\ op'.read = op.read
      /\ op'.running = op.running /\ op'.todo = op.todo
      /\ op'.target = op.target
  BY <1>5, Types, GotoFields DEF Phases, SavePhases, SendPhases, ReadPhases,
     Decisions
<1>7. faults' \in 0..MaxFaults /\ calls' \in 0..MaxCalls
      /\ changes' \in 0..MaxChanges
  BY Counters DEF SavedApplying, Saved, budget
<1>8. TypeOK'
  BY Types, <1>1, <1>2, <1>3, <1>4, <1>5, <1>6, <1>7 DEF ProfileInv, TypeOK
<1>9. Shape'
  BY Types, <1>1, <1>2, <1>3, <1>4, <1>5, <1>6, <1>7 DEF ProfileInv, Shape,
     Complete
<1>10. Keeping'
  BY Types, <1>1, <1>2, <1>3, <1>4, <1>5, <1>6, <1>7 DEF ProfileInv, Keeping,
     Chosen
<1>11. Marking'
  BY Types, <1>1, <1>2, <1>3, <1>4, <1>5, <1>6, <1>7 DEF ProfileInv, Marking,
     OneOffOut, GivenUp, Parts, Choices
<1>12. Previewing'
  BY Types, <1>1, <1>2, <1>3, <1>4, <1>5, <1>6, <1>7 DEF ProfileInv,
     Previewing
<1>13. Counting'
  BY Types, <1>1, <1>2, <1>3, <1>4, <1>5, <1>6, <1>7 DEF ProfileInv, Counting,
     Counted, RestoreNeeded
<1>14. Losing'
  BY Types, <1>1, <1>2, <1>3, <1>4, <1>5, <1>6, <1>7 DEF ProfileInv, Losing,
     Lost, RestoreNeeded, IsReset, Settings, Factory, Parts, Choices
<1>15. Proving'
  BY Types, <1>1, <1>2, <1>3, <1>4, <1>5, <1>6, <1>7 DEF ProfileInv, Proving,
     Observed, Complete, Differing
<1> QED
  BY <1>8, <1>9, <1>10, <1>11, <1>12, <1>13, <1>14, <1>15 DEF ProfileInv

LEMMA SavedFailureStep ==
    ASSUME ProfileInv, SavedFailure
    PROVE  ProfileInv'
<1>1. UNCHANGED <<protocol_verified, need, reset_seen, previewed, paused, due,
   waiting, form, device, ghost>>
  BY DEF SavedFailure, Saved, durable, memory
<1>2. op.at \in SavePhases /\ record' = Saving /\ stored' = Saving
      /\ op.at \in {"save_error"}
  BY DEF SavedFailure, Saved, SavePhases
<1>3. /\ record' \in Records /\ stored' = record'
      /\ (record'.marker => record'.desired # None)
      /\ (OneOffOut => record'.marker)
      /\ (record.desired # None => record'.desired # None)
      /\ (record'.desired # None =>
             Parts(record'.desired.routine) \subseteq Choices \cup ghost.kept)
  BY <1>2, SavingKeeps
<1>4. /\ record'.revision = record.revision /\ record.revision \in Nat
      /\ record'.desired = record.desired
      /\ record'.marker = record.marker
  BY <1>2, SavingFacts, Types DEF RecordShapes
<1>5. Done /\ link' \in BOOLEAN /\ (link' => link)
  BY DEF SavedFailure, ProfileInv, TypeOK
<1>6. /\ op' \in Operations /\ op' = NoOp /\ op'.at = "idle"
      /\ op'.kind = "none" /\ op'.snap = None /\ op'.read = None
      /\ op'.todo = <<>> /\ op'.target = None
  BY <1>5, DoneFields
<1>7. faults' \in 0..MaxFaults /\ calls' \in 0..MaxCalls
      /\ changes' \in 0..MaxChanges
  BY Counters DEF SavedFailure, Saved, budget
<1>8. TypeOK'
  BY Types, <1>1, <1>2, <1>3, <1>4, <1>5, <1>6, <1>7 DEF ProfileInv, TypeOK
<1>9. Shape'
  BY Types, <1>1, <1>2, <1>3, <1>4, <1>5, <1>6, <1>7 DEF ProfileInv, Shape,
     Complete
<1>10. Keeping'
  BY Types, <1>1, <1>2, <1>3, <1>4, <1>5, <1>6, <1>7 DEF ProfileInv, Keeping,
     Chosen
<1>11. Marking'
  BY Types, <1>1, <1>2, <1>3, <1>4, <1>5, <1>6, <1>7 DEF ProfileInv, Marking,
     OneOffOut, GivenUp, Parts, Choices
<1>12. Previewing'
  BY Types, <1>1, <1>2, <1>3, <1>4, <1>5, <1>6, <1>7 DEF ProfileInv,
     Previewing
<1>13. Counting'
  BY Types, <1>1, <1>2, <1>3, <1>4, <1>5, <1>6, <1>7 DEF ProfileInv, Counting,
     Counted, RestoreNeeded
<1>14. Losing'
  BY Types, <1>1, <1>2, <1>3, <1>4, <1>5, <1>6, <1>7 DEF ProfileInv, Losing,
     Lost, RestoreNeeded, IsReset, Settings, Factory, Parts, Choices
<1>15. Proving'
  BY Types, <1>1, <1>2, <1>3, <1>4, <1>5, <1>6, <1>7 DEF ProfileInv, Proving,
     Observed, Complete, Differing
<1> QED
  BY <1>8, <1>9, <1>10, <1>11, <1>12, <1>13, <1>14, <1>15 DEF ProfileInv

LEMMA SavedLevelStep ==
    ASSUME ProfileInv, SavedLevel
    PROVE  ProfileInv'
<1>1. UNCHANGED <<protocol_verified, need, reset_seen, previewed, paused, due,
   waiting, form, link, device, ghost>>
  BY DEF SavedLevel, Saved, durable, memory
<1>2. op.at \in SavePhases /\ record' = Saving /\ stored' = Saving
      /\ op.at \in {"save_live"}
  BY DEF SavedLevel, Saved, SavePhases
<1>3. /\ record' \in Records /\ stored' = record'
      /\ (record'.marker => record'.desired # None)
      /\ (OneOffOut => record'.marker)
      /\ (record.desired # None => record'.desired # None)
      /\ (record'.desired # None =>
             Parts(record'.desired.routine) \subseteq Choices \cup ghost.kept)
  BY <1>2, SavingKeeps
<1>4. /\ record'.revision = record.revision /\ record.revision \in Nat
      /\ record'.marker = record.marker
  BY <1>2, SavingFacts, Types DEF RecordShapes
<1>5. Done
  BY DEF SavedLevel
<1>6. /\ op' \in Operations /\ op' = NoOp /\ op'.at = "idle"
      /\ op'.kind = "none" /\ op'.snap = None /\ op'.read = None
      /\ op'.todo = <<>> /\ op'.target = None
  BY <1>5, DoneFields
<1>7. faults' \in 0..MaxFaults /\ calls' \in 0..MaxCalls
      /\ changes' \in 0..MaxChanges
  BY Counters DEF SavedLevel, Saved, budget
<1>8. TypeOK'
  BY Types, <1>1, <1>2, <1>3, <1>4, <1>5, <1>6, <1>7 DEF ProfileInv, TypeOK
<1>9. Shape'
  BY Types, <1>1, <1>2, <1>3, <1>4, <1>5, <1>6, <1>7 DEF ProfileInv, Shape,
     Complete
<1>10. Keeping'
  BY Types, <1>1, <1>2, <1>3, <1>4, <1>5, <1>6, <1>7 DEF ProfileInv, Keeping,
     Chosen
<1>11. Marking'
  BY Types, <1>1, <1>2, <1>3, <1>4, <1>5, <1>6, <1>7 DEF ProfileInv, Marking,
     OneOffOut, GivenUp, Parts, Choices
<1>12. Previewing'
  BY Types, <1>1, <1>2, <1>3, <1>4, <1>5, <1>6, <1>7 DEF ProfileInv,
     Previewing
<1>13. Counting'
  BY Types, <1>1, <1>2, <1>3, <1>4, <1>5, <1>6, <1>7 DEF ProfileInv, Counting,
     Counted, RestoreNeeded
<1>14. Losing'
  BY Types, <1>1, <1>2, <1>3, <1>4, <1>5, <1>6, <1>7 DEF ProfileInv, Losing,
     Lost, RestoreNeeded, IsReset, Settings, Factory, Parts, Choices
<1>15. Proving'
  BY Types, <1>1, <1>2, <1>3, <1>4, <1>5, <1>6, <1>7 DEF ProfileInv, Proving,
     Observed, Complete, Differing
<1> QED
  BY <1>8, <1>9, <1>10, <1>11, <1>12, <1>13, <1>14, <1>15 DEF ProfileInv

LEMMA SavedMarkStep ==
    ASSUME ProfileInv, SavedMark
    PROVE  ProfileInv'
<1>1. UNCHANGED <<protocol_verified, need, reset_seen, paused, due, waiting,
   form, link, device, ghost>>
  BY DEF SavedMark, Saved, durable
<1>2. op.at \in SavePhases /\ record' = Saving /\ stored' = Saving
      /\ op.at \in {"mark"}
  BY DEF SavedMark, Saved, SavePhases
<1>3. /\ record' \in Records /\ stored' = record'
      /\ (record'.marker => record'.desired # None)
      /\ (OneOffOut => record'.marker)
      /\ (record.desired # None => record'.desired # None)
      /\ (record'.desired # None =>
             Parts(record'.desired.routine) \subseteq Choices \cup ghost.kept)
  BY <1>2, SavingKeeps
<1>4. /\ record'.revision = record.revision /\ record.revision \in Nat
      /\ record'.desired = record.desired
      /\ record'.marker = TRUE
  BY <1>2, SavingFacts, Types DEF RecordShapes
<1>5. Goto("start_write") /\ previewed' = None /\ op.kind = "start"
  BY <1>2 DEF SavedMark, ProfileInv, Shape
<1>6. /\ op' \in Operations /\ op'.at = "start_write" /\ op'.kind = op.kind
      /\ op'.snap = op.snap /\ op'.read = op.read
      /\ op'.running = op.running /\ op'.todo = op.todo
      /\ op'.target = op.target
  BY <1>5, Types, GotoFields DEF Phases, SavePhases, SendPhases, ReadPhases,
     Decisions
<1>7. faults' \in 0..MaxFaults /\ calls' \in 0..MaxCalls
      /\ changes' \in 0..MaxChanges
  BY Counters DEF SavedMark, Saved, budget
<1>8. TypeOK'
  BY Types, <1>1, <1>2, <1>3, <1>4, <1>5, <1>6, <1>7 DEF ProfileInv, TypeOK
<1>9. Shape'
  BY Types, <1>1, <1>2, <1>3, <1>4, <1>5, <1>6, <1>7 DEF ProfileInv, Shape,
     Complete
<1>10. Keeping'
  BY Types, <1>1, <1>2, <1>3, <1>4, <1>5, <1>6, <1>7 DEF ProfileInv, Keeping,
     Chosen
<1>11. Marking'
  BY Types, <1>1, <1>2, <1>3, <1>4, <1>5, <1>6, <1>7 DEF ProfileInv, Marking,
     OneOffOut, GivenUp, Parts, Choices
<1>12. Previewing'
  BY Types, <1>1, <1>2, <1>3, <1>4, <1>5, <1>6, <1>7 DEF ProfileInv,
     Previewing
<1>13. Counting'
  BY Types, <1>1, <1>2, <1>3, <1>4, <1>5, <1>6, <1>7 DEF ProfileInv, Counting,
     Counted, RestoreNeeded
<1>14. Losing'
  BY Types, <1>1, <1>2, <1>3, <1>4, <1>5, <1>6, <1>7 DEF ProfileInv, Losing,
     Lost, RestoreNeeded, IsReset, Settings, Factory, Parts, Choices
<1>15. Proving'
  BY Types, <1>1, <1>2, <1>3, <1>4, <1>5, <1>6, <1>7 DEF ProfileInv, Proving,
     Observed, Complete, Differing
<1> QED
  BY <1>8, <1>9, <1>10, <1>11, <1>12, <1>13, <1>14, <1>15 DEF ProfileInv

LEMMA SavedRestoredStep ==
    ASSUME ProfileInv, SavedRestored
    PROVE  ProfileInv'
<1>1. UNCHANGED <<protocol_verified, previewed, paused, due, waiting, form,
   link, device>>
  BY DEF SavedRestored, Saved, durable
<1>2. op.at \in SavePhases /\ record' = Saving /\ stored' = Saving
      /\ op.at \in {"save_ok"}
  BY DEF SavedRestored, Saved, SavePhases
<1>3. /\ record' \in Records /\ stored' = record'
      /\ (record'.marker => record'.desired # None)
      /\ (OneOffOut => record'.marker)
      /\ (record.desired # None => record'.desired # None)
      /\ (record'.desired # None =>
             Parts(record'.desired.routine) \subseteq Choices \cup ghost.kept)
  BY <1>2, SavingKeeps
<1>4. /\ record'.revision = record.revision /\ record.revision \in Nat
      /\ record'.desired = record.desired
      /\ record'.marker = record.marker
  BY <1>2, SavingFacts, Types DEF RecordShapes
<1>5. /\ need' = None /\ reset_seen' = FALSE /\ ghost' = Resolved(ghost)
      /\ Done \/ Goto("unmark_end")
  BY DEF SavedRestored
<1>6. /\ op' \in Operations
      /\ \/ /\ op' = NoOp /\ op'.at = "idle" /\ op'.kind = "none"
            /\ op'.snap = None /\ op'.read = None
         \/ /\ op'.at = "unmark_end" /\ op'.kind = op.kind
            /\ op'.snap = op.snap /\ op'.read = op.read
            /\ op'.target = op.target
  BY <1>5, Types, GotoFields, DoneFields DEF Phases, SavePhases
<1>7. ghost' \in Ghosts /\ ghost'.tries = 0 /\ ghost'.synced = "no"
      /\ ghost'.renewals = 0 /\ ghost'.lost = ghost.lost
      /\ ghost'.kept = ghost.kept /\ ghost'.dirty = ghost.dirty
      /\ ("factory" \in Parts(device.routine) \/ device.clock = "reset" =>
             ghost'.loss \/ "factory" \in ghost'.kept)
  BY <1>5, ResolvedFacts
<1>8. op.kind # "accept" /\ ~OneOffOut
  BY <1>2 DEF ProfileInv, Shape, Marking
<1>9. faults' \in 0..MaxFaults /\ calls' \in 0..MaxCalls
      /\ changes' \in 0..MaxChanges
  BY Counters DEF SavedRestored, Saved, budget
<1>10. TypeOK'
  BY Types, <1>1, <1>2, <1>3, <1>4, <1>5, <1>6, <1>7, <1>8, <1>9 DEF
     ProfileInv, TypeOK
<1>11. Shape'
  BY Types, <1>1, <1>2, <1>3, <1>4, <1>5, <1>6, <1>7, <1>8, <1>9 DEF
     ProfileInv, Shape, Complete
<1>12. Keeping'
  BY Types, <1>1, <1>2, <1>3, <1>4, <1>5, <1>6, <1>7, <1>8, <1>9 DEF
     ProfileInv, Keeping, Chosen
<1>13. Marking'
  BY Types, <1>1, <1>2, <1>3, <1>4, <1>5, <1>6, <1>7, <1>8, <1>9 DEF
     ProfileInv, Marking, OneOffOut, GivenUp, Parts, Choices
<1>14. Previewing'
  BY Types, <1>1, <1>2, <1>3, <1>4, <1>5, <1>6, <1>7, <1>8, <1>9 DEF
     ProfileInv, Previewing
<1>15. Counting'
  BY <1>7, <1>10, CountingResolved
<1>16. Losing'
  BY Types, <1>1, <1>2, <1>3, <1>4, <1>5, <1>6, <1>7, <1>8, <1>9 DEF
     ProfileInv, Losing, Lost, RestoreNeeded, IsReset, Settings, Factory, Parts,
     Choices
<1>17. Proving'
  BY Types, <1>1, <1>2, <1>3, <1>4, <1>5, <1>6, <1>7, <1>8, <1>9 DEF
     ProfileInv, Proving, Observed, Complete, Differing
<1> QED
  BY <1>10, <1>11, <1>12, <1>13, <1>14, <1>15, <1>16, <1>17 DEF ProfileInv

LEMMA SavedUnmarkStep ==
    ASSUME ProfileInv, SavedUnmark
    PROVE  ProfileInv'
<1>0. op.at \in {"unmark", "unmark_end"} /\ ~OneOffOut
  BY DEF SavedUnmark, Saved, ProfileInv, Marking
<1>1. CASE op.kind # "accept"
  <2>1. UNCHANGED <<protocol_verified, need, reset_seen, previewed, paused,
     due, waiting, form, link, device, ghost>>
    BY <1>1 DEF SavedUnmark, Saved, durable, memory
  <2>2. op.at \in SavePhases /\ record' = Saving /\ stored' = Saving
        /\ op.at \in {"unmark", "unmark_end"}
    BY DEF SavedUnmark, Saved, SavePhases
  <2>3. /\ record' \in Records /\ stored' = record'
        /\ (record'.marker => record'.desired # None)
        /\ (OneOffOut => record'.marker)
        /\ (record.desired # None => record'.desired # None)
        /\ (record'.desired # None =>
               Parts(record'.desired.routine) \subseteq Choices \cup ghost.kept)
    BY <2>2, SavingKeeps
  <2>4. /\ record'.revision = record.revision /\ record.revision \in Nat
        /\ record'.desired = record.desired
        /\ record'.marker = FALSE
    BY <2>2, SavingFacts, Types DEF RecordShapes
  <2>5. /\ op.kind = "recover" /\ op.at = "unmark" => op.snap # None
        /\ op.at = "unmark" => op.kind \in {"recover", "start"}
        /\ op.kind = "start" => Complete
    BY <1>0 DEF ProfileInv, Shape
  <2>6. /\ op' \in Operations
        /\ \/ /\ op' = NoOp /\ op'.at = "idle" /\ op'.kind = "none"
              /\ op'.snap = None /\ op'.read = None
           \/ /\ \/ /\ op'.at = "judge" /\ op.kind = "recover"
                    /\ op.snap # None /\ op.at = "unmark"
                 \/ op'.at = "start_next" /\ op.kind = "start"
              /\ op'.kind = op.kind
              /\ op'.snap = op.snap /\ op'.read = op.read
              /\ op'.target = op.target
    <3>1. \/ Done
          \/ /\ Goto("judge") /\ op.kind = "recover"
             /\ op.snap # None /\ op.at = "unmark"
          \/ Goto("start_next") /\ op.kind = "start"
      BY <1>0, <2>5 DEF SavedUnmark
    <3> QED
      BY <3>1, Types, GotoFields, DoneFields DEF Phases, Decisions
  <2>7. faults' \in 0..MaxFaults /\ calls' \in 0..MaxCalls
        /\ changes' \in 0..MaxChanges
    BY Counters DEF SavedUnmark, Saved, budget
  <2>8. TypeOK'
    BY Types, <2>1, <2>2, <2>3, <2>4, <2>5, <2>6, <2>7 DEF ProfileInv, TypeOK
  <2>9. Shape'
    BY Types, <2>1, <2>2, <2>3, <2>4, <2>5, <2>6, <2>7, <1>0, <1>1 DEF
       ProfileInv, Shape, Complete
  <2>10. Keeping'
    BY Types, <2>1, <2>2, <2>3, <2>4, <2>5, <2>6, <2>7, <1>0, <1>1 DEF
       ProfileInv, Keeping, Chosen
  <2>11. Marking'
    BY Types, <2>1, <2>2, <2>3, <2>4, <2>5, <2>6, <2>7, <1>0, <1>1 DEF
       ProfileInv, Marking, OneOffOut, GivenUp, Parts, Choices
  <2>12. Previewing'
    BY Types, <2>1, <2>2, <2>3, <2>4, <2>5, <2>6, <2>7, <1>0, <1>1 DEF
       ProfileInv, Previewing
  <2>13. Counting'
    BY Types, <2>1, <2>2, <2>3, <2>4, <2>5, <2>6, <2>7, <1>0, <1>1 DEF
       ProfileInv, Counting, Counted, RestoreNeeded
  <2>14. Losing'
    BY Types, <2>1, <2>2, <2>3, <2>4, <2>5, <2>6, <2>7, <1>0, <1>1 DEF
       ProfileInv, Losing, Lost, RestoreNeeded, IsReset, Settings, Factory, Parts,
       Choices
  <2>15. Proving'
    BY Types, <2>1, <2>2, <2>3, <2>4, <2>5, <2>6, <2>7, <1>0, <1>1 DEF
       ProfileInv, Proving, Observed, Complete, Differing
  <2> QED
    BY <2>8, <2>9, <2>10, <2>11, <2>12, <2>13, <2>14, <2>15 DEF ProfileInv
<1>2. CASE op.kind = "accept"
  <2>1. UNCHANGED <<need, previewed, paused, due, waiting, form, link,
     device>>
    BY <1>2 DEF SavedUnmark, Saved, durable, memory, Keep
  <2>2. op.at \in SavePhases /\ record' = Saving /\ stored' = Saving
        /\ op.at \in {"unmark", "unmark_end"}
    BY DEF SavedUnmark, Saved, SavePhases
  <2>3. /\ record' \in Records /\ stored' = record'
        /\ (record'.marker => record'.desired # None)
        /\ (OneOffOut => record'.marker)
        /\ (record.desired # None => record'.desired # None)
        /\ (record'.desired # None =>
               Parts(record'.desired.routine) \subseteq Choices \cup ghost.kept)
    BY <2>2, SavingKeeps
  <2>4. /\ record'.revision = record.revision /\ record.revision \in Nat
        /\ record'.desired = record.desired
        /\ record'.marker = FALSE
    BY <2>2, SavingFacts, Types DEF RecordShapes
  <2>5. op.at = "unmark_end" /\ RestoreNeeded = None
    BY <1>0, <1>2 DEF ProfileInv, Shape, Losing
  <2>6. /\ op' \in Operations /\ op' = NoOp /\ op'.at = "idle"
        /\ op'.kind = "none" /\ op'.snap = None /\ op'.read = None
        /\ op'.todo = <<>> /\ op'.target = None
    BY <2>5, DoneFields DEF SavedUnmark
  <2>7. reset_seen' = FALSE /\ protocol_verified' = TRUE
        /\ ghost' = Resolved(ghost)
    BY <1>2 DEF SavedUnmark, Keep
  <2>8. ghost' \in Ghosts /\ ghost'.tries = 0 /\ ghost'.synced = "no"
      /\ ghost'.renewals = 0 /\ ghost'.lost = ghost.lost
        /\ ghost'.kept = ghost.kept /\ ghost'.dirty = ghost.dirty
        /\ ("factory" \in Parts(device.routine) \/ device.clock = "reset" =>
               ghost'.loss \/ "factory" \in ghost'.kept)
    BY <2>7, ResolvedFacts
  <2>9. faults' \in 0..MaxFaults /\ calls' \in 0..MaxCalls
        /\ changes' \in 0..MaxChanges
    BY Counters DEF SavedUnmark, Saved, budget
  <2>10. TypeOK'
    BY Types, <2>1, <2>2, <2>3, <2>4, <2>5, <2>6, <2>7, <2>8, <2>9 DEF
       ProfileInv, TypeOK
  <2>11. Shape'
    BY Types, <2>1, <2>2, <2>3, <2>4, <2>5, <2>6, <2>7, <2>8, <2>9, <1>0, <1>2
       DEF ProfileInv, Shape, Complete
  <2>12. Keeping'
    BY Types, <2>1, <2>2, <2>3, <2>4, <2>5, <2>6, <2>7, <2>8, <2>9, <1>0, <1>2
       DEF ProfileInv, Keeping, Chosen
  <2>13. Marking'
    BY Types, <2>1, <2>2, <2>3, <2>4, <2>5, <2>6, <2>7, <2>8, <2>9, <1>0, <1>2
       DEF ProfileInv, Marking, OneOffOut, GivenUp, Parts, Choices
  <2>14. Previewing'
    BY Types, <2>1, <2>2, <2>3, <2>4, <2>5, <2>6, <2>7, <2>8, <2>9, <1>0, <1>2
       DEF ProfileInv, Previewing
  <2>15. Counting'
    BY <2>8, <2>10, CountingResolved
  <2>16. Losing'
    BY Types, <2>1, <2>2, <2>3, <2>4, <2>5, <2>6, <2>7, <2>8, <2>9, <1>0, <1>2
       DEF ProfileInv, Losing, Lost, RestoreNeeded, IsReset, Settings,
       Factory, Parts, Choices
  <2>17. Proving'
    BY Types, <2>1, <2>2, <2>3, <2>4, <2>5, <2>6, <2>7, <2>8, <2>9, <1>0, <1>2
       DEF ProfileInv, Proving, Observed, Complete, Differing
  <2> QED
    BY <2>10, <2>11, <2>12, <2>13, <2>14, <2>15, <2>16, <2>17 DEF ProfileInv
<1> QED
  BY <1>1, <1>2

LEMMA SavedRevisionStep ==
    ASSUME ProfileInv, SavedRevision
    PROVE  ProfileInv'
<1>1. UNCHANGED <<protocol_verified, need, reset_seen, previewed, paused, due,
   waiting, form, link, device>>
  BY DEF SavedRevision, Saved, durable, memory
<1>2. op.at \in SavePhases /\ record' = Saving /\ stored' = Saving
      /\ op.at \in {"save_new", "save_offline"}
  BY DEF SavedRevision, Saved, SavePhases
<1>3. /\ record' \in Records /\ stored' = record'
      /\ record'.desired # None /\ record'.revision \in Nat
      /\ (OneOffOut => record'.marker)
      /\ Parts(record'.desired.routine) \subseteq Choices \cup ghost.kept
  BY <1>2, SavingKeeps, SavingFacts, NoneAssumption DEF ProfileInv, Shape
<1>4. /\ record'.revision = record.revision + 1
      /\ record.revision \in Nat
      /\ record'.marker = record.marker
  BY <1>2, SavingFacts, Types DEF RecordShapes
<1>5. need # None => need \in Needs /\ need.revision \in Nat
                      /\ need.revision <= record.revision
  BY Types DEF ProfileInv, Shape, Needs
<1>6. Done \/ (Goto("restore") /\ op.kind = "edit"
                /\ op.at = "save_new" /\ op.snap # None)
  BY DEF SavedRevision, ProfileInv, Shape
<1>7. /\ op' \in Operations
      /\ \/ /\ op' = NoOp /\ op'.at = "idle" /\ op'.kind = "none"
            /\ op'.snap = None /\ op'.read = None
         \/ /\ op'.at = "restore" /\ op.at = "save_new"
            /\ op.kind = "edit" /\ op.snap # None /\ op'.kind = op.kind
            /\ op'.snap = op.snap /\ op'.read = op.read
            /\ op'.target = op.target
  BY <1>6, Types, GotoFields, DoneFields DEF Phases, Decisions
<1>8. ghost' \in Ghosts /\ ghost'.loss = ghost.loss
      /\ ghost'.tries = ghost.tries /\ ghost'.renewals = ghost.renewals + 1
      /\ ghost'.lost = ghost.lost
      /\ ghost'.kept = ghost.kept /\ ghost'.dirty = ghost.dirty
      /\ ghost'.synced = ghost.synced
  BY Types DEF SavedRevision, Renewed, Ghosts
<1>9. faults' \in 0..MaxFaults /\ calls' \in 0..MaxCalls
      /\ changes' \in 0..MaxChanges
  BY Counters DEF SavedRevision, Saved, budget
<1>10. TypeOK'
  BY Types, <1>1, <1>2, <1>3, <1>4, <1>5, <1>6, <1>7, <1>8, <1>9 DEF
     ProfileInv, TypeOK
<1>11. Shape'
  BY Types, <1>1, <1>2, <1>3, <1>4, <1>5, <1>6, <1>7, <1>8, <1>9 DEF
     ProfileInv, Shape, Complete
<1>12. Keeping'
  BY Types, <1>1, <1>2, <1>3, <1>4, <1>5, <1>6, <1>7, <1>8, <1>9 DEF
     ProfileInv, Keeping, Chosen
<1>13. Marking'
  BY Types, <1>1, <1>2, <1>3, <1>4, <1>5, <1>6, <1>7, <1>8, <1>9 DEF
     ProfileInv, Marking, OneOffOut, GivenUp, Parts, Choices
<1>14. Previewing'
  BY Types, <1>1, <1>2, <1>3, <1>4, <1>5, <1>6, <1>7, <1>8, <1>9 DEF
     ProfileInv, Previewing
<1>15. Counting'
  BY <1>8, <1>10, CountingRenews
<1>16. Losing'
  BY Types, <1>1, <1>2, <1>3, <1>4, <1>5, <1>6, <1>7, <1>8, <1>9 DEF
     ProfileInv, Losing, Lost, RestoreNeeded, IsReset, Settings, Factory, Parts,
     Choices
<1>17. Proving'
  BY Types, <1>1, <1>2, <1>3, <1>4, <1>5, <1>6, <1>7, <1>8, <1>9 DEF
     ProfileInv, Proving, Observed, Complete, Differing
<1> QED
  BY <1>10, <1>11, <1>12, <1>13, <1>14, <1>15, <1>16, <1>17 DEF ProfileInv

LEMMA SavedAcceptedStep ==
    ASSUME ProfileInv, SavedAccepted
    PROVE  ProfileInv'
<1>0. op.at = "save_accept" /\ op.kind = "accept" /\ ~OneOffOut
      /\ previewed' = None
  BY DEF SavedAccepted, Saved, ProfileInv, Shape, Marking
<1>1. CASE record.marker
  <2>1. UNCHANGED <<protocol_verified, need, reset_seen, paused, due, waiting,
     form, link, device>>
    BY <1>1 DEF SavedAccepted, Saved, durable
  <2>2. op.at \in SavePhases /\ record' = Saving /\ stored' = Saving
        /\ op.at \in {"save_accept"}
    BY DEF SavedAccepted, Saved, SavePhases
  <2>3. /\ record' \in Records /\ stored' = record'
        /\ record'.desired # None /\ record'.revision \in Nat
        /\ (OneOffOut => record'.marker)
        /\ Parts(record'.desired.routine) \subseteq Choices \cup ghost.kept
    BY <2>2, SavingKeeps, SavingFacts, NoneAssumption DEF ProfileInv, Shape
  <2>4. /\ record'.revision = record.revision + 1
        /\ record.revision \in Nat
        /\ record'.marker = record.marker
    BY <2>2, SavingFacts, Types DEF RecordShapes
  <2>5. need # None => need \in Needs /\ need.revision \in Nat
                        /\ need.revision <= record.revision
    BY Types DEF ProfileInv, Shape, Needs
  <2>6. /\ op' \in Operations /\ op'.at = "unmark_end" /\ op'.kind = op.kind
        /\ op'.snap = op.snap /\ op'.read = op.read
        /\ op'.running = op.running /\ op'.todo = op.todo
        /\ op'.target = op.target
    BY <1>1, Types, GotoFields DEF SavedAccepted, Phases, SavePhases, SendPhases, ReadPhases,
       Decisions
  <2>7. /\ op.target \in Profiles
        /\ ghost' \in Ghosts /\ ghost'.loss = ghost.loss
        /\ ghost'.tries = ghost.tries /\ ghost'.renewals = ghost.renewals + 1
        /\ ghost'.lost = ghost.lost
        /\ ghost'.kept = ghost.kept /\ ghost'.dirty = ghost.dirty
        /\ ghost'.synced = ghost.synced
    BY Types, <1>0, <1>1 DEF SavedAccepted, Renewed, Ghosts, ProfileInv, Shape
  <2>8. faults' \in 0..MaxFaults /\ calls' \in 0..MaxCalls
        /\ changes' \in 0..MaxChanges
    BY Counters DEF SavedAccepted, Saved, budget
  <2>9. TypeOK'
    BY Types, <1>0, <2>1, <2>2, <2>3, <2>4, <2>5, <2>6, <2>7, <2>8 DEF
       ProfileInv, TypeOK
  <2>10. Shape'
    BY Types, <2>1, <2>2, <2>3, <2>4, <2>5, <2>6, <2>7, <2>8, <1>0, <1>1 DEF
       ProfileInv, Shape, Complete
  <2>11. Keeping'
    BY Types, <2>1, <2>2, <2>3, <2>4, <2>5, <2>6, <2>7, <2>8, <1>0, <1>1 DEF
       ProfileInv, Keeping, Chosen
  <2>12. Marking'
    BY Types, <2>1, <2>2, <2>3, <2>4, <2>5, <2>6, <2>7, <2>8, <1>0, <1>1 DEF
       ProfileInv, Marking, OneOffOut, GivenUp, Parts, Choices
  <2>13. Previewing'
    BY Types, <2>1, <2>2, <2>3, <2>4, <2>5, <2>6, <2>7, <2>8, <1>0, <1>1 DEF
       ProfileInv, Previewing
  <2>14. Counting'
    BY <2>7, <2>9, CountingRenews
  <2>15. Losing'
    BY Types, <2>1, <2>2, <2>3, <2>4, <2>5, <2>6, <2>7, <2>8, <1>0, <1>1 DEF
       ProfileInv, Losing, Lost, RestoreNeeded, IsReset, Settings, Factory, Parts,
       Choices
  <2>16. Proving'
    BY Types, <2>1, <2>2, <2>3, <2>4, <2>5, <2>6, <2>7, <2>8, <1>0, <1>1 DEF
       ProfileInv, Proving, Observed, Complete, Differing
  <2> QED
    BY <2>9, <2>10, <2>11, <2>12, <2>13, <2>14, <2>15, <2>16 DEF ProfileInv
<1>2. CASE ~record.marker
  <2>1. UNCHANGED <<need, paused, due, waiting, form, link, device>>
    BY <1>2 DEF SavedAccepted, Saved, durable
  <2>2. op.at \in SavePhases /\ record' = Saving /\ stored' = Saving
        /\ op.at \in {"save_accept"}
    BY DEF SavedAccepted, Saved, SavePhases
  <2>3. /\ record' \in Records /\ stored' = record'
        /\ record'.desired # None /\ record'.revision \in Nat
        /\ (OneOffOut => record'.marker)
        /\ Parts(record'.desired.routine) \subseteq Choices \cup ghost.kept
    BY <2>2, SavingKeeps, SavingFacts, NoneAssumption DEF ProfileInv, Shape
  <2>4. /\ record'.revision = record.revision + 1
        /\ record.revision \in Nat
        /\ record'.marker = record.marker
    BY <2>2, SavingFacts, Types DEF RecordShapes
  <2>5. need # None => need \in Needs /\ need.revision \in Nat
                        /\ need.revision <= record.revision
    BY Types DEF ProfileInv, Shape, Needs
  <2>6. /\ op' \in Operations /\ op' = NoOp /\ op'.at = "idle"
        /\ op'.kind = "none" /\ op'.snap = None /\ op'.read = None
        /\ op'.todo = <<>> /\ op'.target = None
    BY <1>2, DoneFields DEF SavedAccepted
  <2>7. reset_seen' = FALSE /\ protocol_verified' = TRUE
        /\ ghost' = Resolved(ghost)
    BY <1>2 DEF SavedAccepted, Keep
  <2>8. ghost' \in Ghosts /\ ghost'.tries = 0 /\ ghost'.synced = "no"
      /\ ghost'.renewals = 0 /\ ghost'.lost = ghost.lost
        /\ ghost'.kept = ghost.kept /\ ghost'.dirty = ghost.dirty
        /\ ("factory" \in Parts(device.routine) \/ device.clock = "reset" =>
               ghost'.loss \/ "factory" \in ghost'.kept)
    BY <2>7, ResolvedFacts
  <2>9. faults' \in 0..MaxFaults /\ calls' \in 0..MaxCalls
        /\ changes' \in 0..MaxChanges
    BY Counters DEF SavedAccepted, Saved, budget
  <2>10. TypeOK'
    BY Types, <1>0, <2>1, <2>2, <2>3, <2>4, <2>5, <2>6, <2>7, <2>8, <2>9 DEF
       ProfileInv, TypeOK
  <2>11. Shape'
    BY Types, <2>1, <2>2, <2>3, <2>4, <2>5, <2>6, <2>7, <2>8, <2>9, <1>0, <1>2
       DEF ProfileInv, Shape, Complete
  <2>12. Keeping'
    BY Types, <2>1, <2>2, <2>3, <2>4, <2>5, <2>6, <2>7, <2>8, <2>9, <1>0, <1>2
       DEF ProfileInv, Keeping, Chosen
  <2>13. Marking'
    BY Types, <2>1, <2>2, <2>3, <2>4, <2>5, <2>6, <2>7, <2>8, <2>9, <1>0, <1>2
       DEF ProfileInv, Marking, OneOffOut, GivenUp, Parts, Choices
  <2>14. Previewing'
    BY Types, <2>1, <2>2, <2>3, <2>4, <2>5, <2>6, <2>7, <2>8, <2>9, <1>0, <1>2
       DEF ProfileInv, Previewing
  <2>15. Counting'
    BY <2>8, <2>10, CountingResolved
  <2>16. Losing'
    BY Types, <2>1, <2>2, <2>3, <2>4, <2>5, <2>6, <2>7, <2>8, <2>9, <1>0, <1>2
       DEF ProfileInv, Losing, Lost, RestoreNeeded, IsReset, Settings,
       Factory, Parts, Choices
  <2>17. Proving'
    BY Types, <2>1, <2>2, <2>3, <2>4, <2>5, <2>6, <2>7, <2>8, <2>9, <1>0, <1>2
       DEF ProfileInv, Proving, Observed, Complete, Differing
  <2> QED
    BY <2>10, <2>11, <2>12, <2>13, <2>14, <2>15, <2>16, <2>17 DEF ProfileInv
<1> QED
  BY <1>1, <1>2

LEMMA CancelledStep ==
    ASSUME ProfileInv, Cancelled
    PROVE  ProfileInv'
<1>1. UNCHANGED <<record, protocol_verified, need, reset_seen, previewed,
   paused, due, waiting, form, device, ghost>>
  BY DEF Cancelled, durable, memory
<1>2. Done /\ link' \in BOOLEAN /\ (link' => link)
  BY DEF Cancelled, ProfileInv, TypeOK
<1>3. /\ op' \in Operations /\ op' = NoOp /\ op'.at = "idle"
      /\ op'.kind = "none" /\ op'.snap = None /\ op'.read = None
      /\ op'.todo = <<>> /\ op'.target = None
  BY <1>2, DoneFields
<1>4. /\ stored' \in Records /\ (stored'.marker => stored'.desired # None)
      /\ (OneOffOut => stored'.marker)
      /\ (stored'.desired # None =>
             Parts(stored'.desired.routine) \subseteq Choices \cup ghost.kept)
  <2>1. CASE stored' = stored
    BY <2>1, Types DEF ProfileInv, Shape, Marking, Keeping, Chosen
  <2>2. CASE op.at \in SavePhases /\ stored' = Saving
    BY <2>2, SavingKeeps
  <2> QED
    BY <2>1, <2>2 DEF Cancelled, Stores
<1>5. faults' \in 0..MaxFaults /\ calls' \in 0..MaxCalls
      /\ changes' \in 0..MaxChanges
  BY Counters DEF Cancelled, Saved, budget
<1>6. TypeOK'
  BY Types, <1>1, <1>2, <1>3, <1>4, <1>5 DEF ProfileInv, TypeOK
<1>7. Shape'
  BY Types, <1>1, <1>2, <1>3, <1>4, <1>5 DEF ProfileInv, Shape, Complete
<1>8. Keeping'
  BY Types, <1>1, <1>2, <1>3, <1>4, <1>5 DEF ProfileInv, Keeping, Chosen
<1>9. Marking'
  BY Types, <1>1, <1>2, <1>3, <1>4, <1>5 DEF ProfileInv, Marking, OneOffOut, GivenUp, Parts,
     Choices
<1>10. Previewing'
  BY Types, <1>1, <1>2, <1>3, <1>4, <1>5 DEF ProfileInv, Previewing
<1>11. Counting'
  BY Types, <1>1, <1>2, <1>3, <1>4, <1>5 DEF ProfileInv, Counting,
     Counted, RestoreNeeded
<1>12. Losing'
  BY Types, <1>1, <1>2, <1>3, <1>4, <1>5 DEF ProfileInv, Losing, Lost,
     RestoreNeeded, IsReset, Settings, Factory, Parts, Choices
<1>13. Proving'
  BY Types, <1>1, <1>2, <1>3, <1>4, <1>5 DEF ProfileInv, Proving, Observed,
     Complete, Differing
<1> QED
  BY <1>6, <1>7, <1>8, <1>9, <1>10, <1>11, <1>12, <1>13 DEF ProfileInv

LEMMA CrashStep ==
    ASSUME ProfileInv, Crash
    PROVE  ProfileInv'
<1>1. UNCHANGED device
  BY DEF Crash
<1>2. /\ stored' \in Records /\ (stored'.marker => stored'.desired # None)
      /\ (OneOffOut => stored'.marker)
      /\ (stored'.desired # None =>
             Parts(stored'.desired.routine) \subseteq Choices \cup ghost.kept)
  <2>1. CASE stored' = stored
    BY <2>1, Types DEF ProfileInv, Shape, Marking, Keeping, Chosen
  <2>2. CASE op.at \in SavePhases /\ stored' = Saving
    BY <2>2, SavingKeeps
  <2> QED
    BY <2>1, <2>2 DEF Crash, Stores
<1>3. /\ op' \in Operations /\ op' = NoOp /\ op'.at = "idle"
      /\ op'.kind = "none" /\ op'.snap = None /\ op'.read = None
      /\ op'.todo = <<>> /\ op'.target = None
  BY DoneFields DEF Crash
<1>4. /\ record' = stored' /\ need' = None /\ reset_seen' = FALSE
      /\ previewed' = None /\ paused' = FALSE /\ due' = FALSE
      /\ waiting' = "no" /\ form' = None /\ link' = FALSE
  BY DEF Crash
<1>5. protocol_verified' \in BOOLEAN
  BY DEF Crash, ProfileInv, TypeOK
<1>6. ghost' \in Ghosts /\ ghost'.loss = ghost.loss
      /\ ghost'.tries = ghost.tries /\ ghost'.renewals = ghost.renewals + 1
      /\ ghost'.lost = ghost.lost
      /\ ghost'.kept = ghost.kept /\ ~ghost'.dirty /\ ghost'.synced # "now"
  <2>1. Renewed \in Ghosts /\ Renewed.synced = ghost.synced
        /\ Renewed = [ghost EXCEPT !.renewals = ghost.renewals + 1]
    BY Types DEF Renewed, Ghosts
  <2>2. ghost' = [Renewed EXCEPT
                     !.synced = IF ghost.synced = "now" THEN "before"
                                                        ELSE ghost.synced,
                     !.dirty = FALSE]
    BY <2>1 DEF Crash
  <2> QED
    BY <2>1, <2>2, Types DEF Ghosts
<1>7. faults' \in 0..MaxFaults /\ calls' \in 0..MaxCalls
      /\ changes' \in 0..MaxChanges
  BY Counters DEF Crash, Saved, budget
<1>8. TypeOK'
  BY Types, <1>1, <1>2, <1>3, <1>4, <1>5, <1>6, <1>7 DEF ProfileInv, TypeOK
<1>9. Shape'
  BY Types, <1>1, <1>2, <1>3, <1>4, <1>5, <1>6, <1>7 DEF ProfileInv, Shape,
     Complete
<1>10. Keeping'
  BY Types, <1>1, <1>2, <1>3, <1>4, <1>5, <1>6, <1>7 DEF ProfileInv, Keeping,
     Chosen
<1>11. Marking'
  BY Types, <1>1, <1>2, <1>3, <1>4, <1>5, <1>6, <1>7 DEF ProfileInv, Marking,
     OneOffOut, GivenUp, Parts, Choices
<1>12. Previewing'
  BY Types, <1>1, <1>2, <1>3, <1>4, <1>5, <1>6, <1>7 DEF ProfileInv,
     Previewing
<1>13. Counting'
  BY <1>6, <1>8, CountingRenews
<1>14. Losing'
  BY Types, <1>1, <1>2, <1>3, <1>4, <1>5, <1>6, <1>7 DEF ProfileInv, Losing,
     Lost, RestoreNeeded, IsReset, Settings, Factory, Parts, Choices
<1>15. Proving'
  BY Types, <1>1, <1>2, <1>3, <1>4, <1>5, <1>6, <1>7 DEF ProfileInv, Proving,
     Observed, Complete, Differing
<1> QED
  BY <1>8, <1>9, <1>10, <1>11, <1>12, <1>13, <1>14, <1>15 DEF ProfileInv

-----------------------------------------------------------------------------
(* The invariant.                                                          *)

LEMMA ProfileInit == Init => ProfileInv
<1> SUFFICES ASSUME Init PROVE ProfileInv
  OBVIOUS
<1>1. op \in Operations /\ op = NoOp /\ op.at = "idle" /\ op.kind = "none"
      /\ op.snap = None /\ op.read = None /\ op.target = None
  BY DEF Init, NoOp, Operations, Phases
<1>2. /\ device \in Devices /\ Parts(device.routine) = {"a"} /\ device.clock = "right"
      /\ device.live = "a"
  BY DEF Init, Uniform, Parts, Devices, Plans, Days, Levels
<1>3. /\ ghost \in Ghosts /\ ghost.tries = 0 /\ ghost.renewals = 0
      /\ ~ghost.dirty /\ ghost.synced = "no"
  BY DEF Init, NoGhost, Ghosts
<1>4. /\ stored = record /\ record \in Records /\ ~record.marker
      /\ record.desired \in Profiles \cup {None}
      /\ record.desired # None => Parts(record.desired.routine) = {"a"}
  <2>1. stored = record /\ record \in {EmptyRecord, SavedRecord}
    BY DEF Init
  <2>2. CASE record = EmptyRecord
    BY <2>1, <2>2 DEF EmptyRecord, Records
  <2>3. CASE record = SavedRecord
    BY <2>1, <2>3 DEF SavedRecord, Uniform, Parts, Records, Profiles, Plans, Days,
       Levels
  <2> QED
    BY <2>1, <2>2, <2>3
<1>5. /\ need = None /\ ~reset_seen /\ previewed = None /\ ~paused /\ ~due
      /\ waiting = "no" /\ form = None /\ ~link /\ protocol_verified \in BOOLEAN
      /\ reset_seen \in BOOLEAN /\ paused \in BOOLEAN /\ due \in BOOLEAN
      /\ waiting \in {"no", "bare", "full"} /\ link \in BOOLEAN
      /\ faults = 0 /\ calls = 0 /\ changes = 0
  BY DEF Init
<1>6. TypeOK
  BY <1>1, <1>2, <1>3, <1>4, <1>5, ProfileAssumption DEF TypeOK
<1>7. Shape
  BY <1>1, <1>4, <1>5 DEF Shape, Complete
<1>8. Keeping
  BY <1>1, <1>4 DEF Keeping, Chosen, Choices
<1>9. Marking /\ Previewing
  BY <1>1, <1>2, <1>3, <1>5 DEF Marking, OneOffOut, Parts, Previewing
<1>10. Counting
  BY <1>3, <1>5, ProfileAssumption DEF Counting, Counted, RestoreNeeded
<1>11. Losing
  BY <1>1, <1>2, <1>3, <1>5 DEF Losing, RestoreNeeded
<1>12. Proving
  BY <1>1 DEF Proving
<1> QED
  BY <1>6, <1>7, <1>8, <1>9, <1>10, <1>11, <1>12 DEF ProfileInv

LEMMA ProfileStutters ==
    ASSUME ProfileInv, UNCHANGED vars
    PROVE  ProfileInv'
<1>1. UNCHANGED <<record, stored, protocol_verified, need, reset_seen,
   previewed, paused, due, waiting, op, form, link, device, ghost,
   faults, calls, changes>>
  BY DEF vars, durable, memory, budget
<1>2. TypeOK'
  BY Types, <1>1 DEF ProfileInv, TypeOK
<1>3. Shape'
  BY Types, <1>1 DEF ProfileInv, Shape, Complete
<1>4. Keeping'
  BY Types, <1>1 DEF ProfileInv, Keeping, Chosen
<1>5. Marking'
  BY Types, <1>1 DEF ProfileInv, Marking, OneOffOut, GivenUp, Parts, Choices
<1>6. Previewing'
  BY Types, <1>1 DEF ProfileInv, Previewing
<1>7. Counting'
  BY Types, <1>1 DEF ProfileInv, Counting, Counted, RestoreNeeded
<1>8. Losing'
  BY Types, <1>1 DEF ProfileInv, Losing, Lost, RestoreNeeded, IsReset,
     Settings, Factory, Parts, Choices
<1>9. Proving'
  BY Types, <1>1 DEF ProfileInv, Proving, Observed, Complete, Differing
<1> QED
  BY <1>2, <1>3, <1>4, <1>5, <1>6, <1>7, <1>8, <1>9 DEF ProfileInv

\* Every step keeps the invariant, one lemma for each action.
LEMMA ProfileStep == ProfileInv /\ [Next]_vars => ProfileInv'
<1> SUFFICES ASSUME ProfileInv, [Next]_vars PROVE ProfileInv'
  OBVIOUS
<1>1. CASE UserOperation
  <2>1. ASSUME NEW part \in {"day", "rest"}, NEW v \in Choices,
               ApplyEdit(part, v)
        PROVE  ProfileInv'
    BY <2>1, ApplyEditStep
  <2>2. ASSUME NEW v \in Choices,
               ImportProfile(Uniform(v))
        PROVE  ProfileInv'
    BY <2>2, ImportProfileStep
  <2>3. ASSUME NEW v \in Choices, SetLevel(v) PROVE ProfileInv'
    BY <2>3, SetLevelStep
  <2> QED
    BY <1>1, <2>1, <2>2, <2>3, RestoreProfileStep, ReadProfileStep,
       AcceptProfileStep, StartRoutineStep DEF UserOperation
<1>2. CASE RecoveryDue \/ Recover \/ EndRoutine
  BY <1>2, RecoveryDueStep, RecoverStep, EndRoutineStep
<1>3. CASE Progress
  <2>1. CASE ReadFresh \/ ReadAgain \/ Decide \/ Judge \/ StartRestore \/ StartNext
    BY <2>1, ReadFreshStep, ReadAgainStep, DecideStep, JudgeStep,
       StartRestoreStep, StartNextStep
  <2>2. CASE \/ SyncClock \/ WriteBack \/ WriteStep \/ WriteLevel \/ WriteOneOff
             \/ EnterRoutine \/ IoFails
    BY <2>2, SyncClockStep, WriteBackStep, WriteStepStep, WriteLevelStep,
       WriteOneOffStep, EnterRoutineStep, IoFailsStep
  <2>3. CASE \/ SavedMatch \/ SavedRevision \/ SavedApplying \/ SavedRestored
             \/ SavedFailure \/ SavedLevel \/ SavedMark \/ SavedUnmark
             \/ SavedAccepted
    BY <2>3, SavedMatchStep, SavedRevisionStep, SavedApplyingStep,
       SavedRestoredStep, SavedFailureStep, SavedLevelStep, SavedMarkStep,
       SavedUnmarkStep, SavedAcceptedStep
  <2> QED
    BY <1>3, <2>1, <2>2, <2>3 DEF Progress
<1>4. CASE Environment
  BY <1>4, CancelledStep, CrashStep, PowerLossStep, LinkDropStep,
     DeviceChangeStep, RoutineStartsStep, RoutineEndsStep, ClockAgesStep,
     PauseEndsStep DEF Environment
<1>5. CASE UNCHANGED vars
  BY <1>5, ProfileStutters
<1> QED
  BY <1>1, <1>2, <1>3, <1>4, <1>5 DEF Next

LEMMA ProfileInvariant == Spec => []ProfileInv
<1>1. Init => ProfileInv
  BY ProfileInit
<1>2. ProfileInv /\ [Next]_vars => ProfileInv'
  BY ProfileStep
<1> QED
  BY <1>1, <1>2, PTL DEF Spec

-----------------------------------------------------------------------------
(* The theorems.                                                           *)

\* The variables stay in their types: a saved record is one the next start
\* accepts, and an automatic restore is counted at most
\* AUTO_RESTORE_MAX_ATTEMPTS times (_validate_record, _async_recover).
THEOREM ProfileTypes == Spec => []TypeOK
<1>1. ProfileInv => TypeOK
  BY DEF ProfileInv
<1> QED
  BY <1>1, ProfileInvariant, PTL

\* A day that was replaced by a one-off routine is not lost over failures,
\* cancellations and restarts: the Store says that it must be given back, unless
\* the user kept the read with that routine, or the device acknowledged the
\* write-back without applying it (async_start_routine,
\* _async_write_back_routine).
THEOREM OneOffIsMarked == Spec => []OneOffMarked
<1>1. ProfileInv => OneOffMarked
  BY DEF ProfileInv, Marking, OneOffOut, OneOffMarked
<1> QED
  BY <1>1, ProfileInvariant, PTL

\* From one resolved event to the next there are at most
\* AUTO_RESTORE_MAX_ATTEMPTS automatic restores for each revision and run of Home
\* Assistant, whatever fails, is cancelled or loses power again (_async_recover,
\* _detect_restore_needed, restore_needed).
THEOREM AutoRestoreIsBounded == Spec => []AutoRestoreBounded
<1>1. ProfileInv => AutoRestoreBounded
  <2>1. ProfileInv => ghost.renewals \in Nat
    BY Types DEF Ghosts
  <2> QED
    BY <2>1, CountingRenewed DEF AutoRestoreBounded
<1> QED
  BY <1>1, ProfileInvariant, PTL

\* Without a power loss nothing is restored automatically, unless the user kept
\* factory settings (_async_recover, _detect_restore_needed).
THEOREM OnlyResetIsRestored == Spec => []AutoRestoreOnlyReset
<1>1. ProfileInv => AutoRestoreOnlyReset
  BY DEF ProfileInv, Losing, Lost, AutoRestoreOnlyReset
<1> QED
  BY <1>1, ProfileInvariant, PTL

\* As long as Home Assistant runs, a reset whose clock was set stays pending
\* whatever fails afterwards; a restart forgets it (_async_fresh_snapshot,
\* _async_sync_clock_if_needed).
THEOREM ResetStaysSeen == Spec => []ResetNotHidden
<1>1. ProfileInv => ResetNotHidden
  BY DEF ProfileInv, Losing, ResetNotHidden
<1> QED
  BY <1>1, ProfileInvariant, PTL

\* A read that a command of Home Assistant outdated cannot be kept
\* (_previewed_profile, async_accept_device_profile).
THEOREM KeptReadIsFresh == Spec => []KeptReadIsCurrent
<1>1. ProfileInv => KeptReadIsCurrent
  BY DEF ProfileInv, Previewing, KeptReadIsCurrent
<1> QED
  BY <1>1, ProfileInvariant, PTL

\* What a save that verifies the record has seen.
LEMMA SavingVerified ==
    ASSUME ProfileInv, op.at \in SavePhases, ~IsVerified(record),
           IsVerified(Saving)
    PROVE  LET read == IF op.kind = "accept" THEN op.target ELSE op.read
           IN /\ read # None
              /\ Saving.desired.routine.rest = read.routine.rest
              /\ OneOffHides \/ Saving.desired.routine.day = read.routine.day
<1>1. op.at \in {"save_verified", "save_ok", "save_accept"}
  BY SavingFacts
<1>2. CASE op.at = "save_accept"
  <2>1. op.kind = "accept" /\ op.target \in Profiles
    BY <1>2 DEF ProfileInv, Shape
  <2> QED
    BY <1>2, <2>1, SavingFacts, NoneAssumption
<1>3. CASE op.at = "save_ok"
  <2>1. /\ op.kind # "accept" /\ op.read # None
        /\ record.desired.routine = op.read.routine
    BY <1>3 DEF ProfileInv, Shape, Proving
  <2> QED
    BY <1>3, <2>1, SavingFacts
<1>4. CASE op.at = "save_verified"
  <2>1. /\ op.kind # "accept" /\ op.snap \in Profiles /\ op.read # None
        /\ op.snap.routine.rest = op.read.routine.rest
        /\ record.desired = Observed
    BY <1>4, Types DEF ProfileInv, Shape, Proving
  <2>2. Saving.desired = Observed
    BY <1>4, <2>1, SavingFacts
  <2>3. Observed.routine.rest = op.snap.routine.rest
    BY <2>1 DEF Observed, Profiles, Plans
  <2>4. OneOffHides \/ Observed = op.read
    BY <1>4 DEF OneOffHides, Observed
  <2> QED
    BY <2>1, <2>2, <2>3, <2>4
<1> QED
  BY <1>1, <1>2, <1>3, <1>4

\* The record in memory only changes by a save or by a restart.
LEMMA RecordChanges ==
    ASSUME [Next]_vars
    PROVE  \/ record' = record
           \/ op.at \in SavePhases /\ record' = Saving
           \/ record' = stored
<1>1. CASE Crash
  BY <1>1 DEF Crash, Stores
<1>2. CASE \/ SavedMatch \/ SavedRevision \/ SavedApplying \/ SavedRestored
           \/ SavedFailure \/ SavedLevel \/ SavedMark \/ SavedUnmark
           \/ SavedAccepted
  BY <1>2 DEF SavedMatch, SavedRevision, SavedApplying, SavedRestored,
     SavedFailure, SavedLevel, SavedMark, SavedUnmark, SavedAccepted, Saved,
     SavePhases
<1>3. CASE \/ ReadFresh \/ ReadAgain \/ Decide \/ Judge \/ StartRestore
           \/ StartNext \/ SyncClock \/ WriteBack \/ WriteStep \/ WriteLevel
           \/ WriteOneOff \/ EnterRoutine \/ IoFails
  BY <1>3 DEF ReadFresh, ReadAgain, Decide, Judge, StartRestore, StartNext,
     SyncClock, WriteBack, WriteStep, WriteLevel, WriteOneOff, EnterRoutine,
     IoFails, durable
<1>4. CASE UserOperation \/ RecoveryDue \/ Recover \/ EndRoutine
  BY <1>4 DEF UserOperation, RestoreProfile, ReadProfile, ApplyEdit,
     ImportProfile, AcceptProfile, SetLevel, StartRoutine, RecoveryDue,
     Recover, EndRoutine, durable
<1>5. CASE \/ Cancelled \/ PowerLoss \/ LinkDrop \/ DeviceChange
           \/ RoutineStarts \/ RoutineEnds \/ ClockAges \/ PauseEnds
  BY <1>5 DEF Cancelled, PowerLoss, LinkDrop, DeviceChange, RoutineStarts,
     RoutineEnds, ClockAges, PauseEnds, durable
<1>6. CASE UNCHANGED vars
  BY <1>6 DEF vars, durable
<1> QED
  BY <1>1, <1>2, <1>3, <1>4, <1>5, <1>6 DEF Next, Progress, Environment

\* A profile becomes verified only by what a complete read showed; only
\* recovery may take the day of a one-off routine, and no more than that day,
\* for the saved one (_as_verified, _with_saved_routine).
THEOREM VerifiedIsRead == Spec => VerifiedWasRead
<1> DEFINE Read == IF op.kind = "accept" THEN op.target ELSE op.read
           Became == /\ ~IsVerified(record) /\ ~IsVerified(stored)
                     /\ IsVerified(record')
<1>1. ProfileInv /\ [Next]_vars
         => [Became =>
                /\ Read # None
                /\ record'.desired.routine.rest = Read.routine.rest
                /\ \/ OneOffHides
                   \/ record'.desired.routine.day = Read.routine.day]_vars
  <2> SUFFICES ASSUME ProfileInv, [Next]_vars, Became
               PROVE  /\ Read # None
                      /\ record'.desired.routine.rest = Read.routine.rest
                      /\ \/ OneOffHides
                         \/ record'.desired.routine.day = Read.routine.day
    OBVIOUS
  <2>1. op.at \in SavePhases /\ record' = Saving
    BY RecordChanges
  <2> QED
    BY <2>1, SavingVerified
<1> QED
  BY <1>1, ProfileInvariant, PTL DEF Spec, VerifiedWasRead

-----------------------------------------------------------------------------
(* The saved record as RecordPromise describes it.                         *)

Promised == INSTANCE RecordPromiseProofs
                WITH memory <- Plan(record), file <- Plan(stored),
                     NoPlan <- None, Removable <- FALSE

\* A save changes the plan only under the next number; the levels that a setting
\* saves in place are no part of it.
LEMMA SavingPromised ==
    ASSUME ProfileInv, op.at \in SavePhases
    PROVE  Promise!Successor(Plan(Saving), Plan(record))
<1>1. CASE op.at \in {"save_new", "save_offline", "save_accept"}
  <2>1. Saving.revision = record.revision + 1
    BY <1>1, SavingFacts
  <2> QED
    BY <2>1 DEF Plan, Promise!Successor
<1>2. CASE op.at = "save_live"
  <2>1. record.desired \in Profiles
    BY <1>2, Types DEF ProfileInv, Shape, Complete
  <2>2. /\ Saving.revision = record.revision
        /\ Saving.desired = [record.desired EXCEPT !.live = op.target.live]
    BY <1>2, SavingFacts
  <2>3. /\ Saving.desired.routine = record.desired.routine
        /\ Saving.desired \in [routine : Plans, live : {op.target.live}]
    BY <2>1, <2>2 DEF Profiles
  <2>4. op.target.live \in Levels
    BY <1>2 DEF ProfileInv, Shape
  <2>5. Saving.desired # None /\ record.desired # None
    BY <2>1, <2>3, <2>4, NoneAssumption DEF Profiles
  <2> QED
    BY <2>2, <2>3, <2>5 DEF Plan, Promise!Successor
<1>3. CASE op.at \notin {"save_new", "save_offline", "save_accept", "save_live"}
  <2>1. Saving.revision = record.revision /\ Saving.desired = record.desired
    BY <1>3, SavingFacts
  <2> QED
    BY <2>1 DEF Plan, Promise!Successor
<1> QED
  BY <1>1, <1>2, <1>3

\* Only saves, cancellation and a restart change the record or the Store.
LEMMA StoreChanges ==
    ASSUME [Next]_vars
    PROVE  \/ op.at \in SavePhases /\ record' = Saving /\ stored' = Saving
           \/ record' = record /\ stored' \in Stores
           \/ record' = stored' /\ stored' \in Stores
<1> USE DEF Stores
<1>1. CASE Crash
  BY <1>1 DEF Crash
<1>2. CASE \/ SavedMatch \/ SavedRevision \/ SavedApplying \/ SavedRestored
           \/ SavedFailure \/ SavedLevel \/ SavedMark \/ SavedUnmark
           \/ SavedAccepted
  BY <1>2 DEF SavedMatch, SavedRevision, SavedApplying, SavedRestored,
     SavedFailure, SavedLevel, SavedMark, SavedUnmark, SavedAccepted, Saved,
     SavePhases
<1>3. CASE \/ ReadFresh \/ ReadAgain \/ Decide \/ Judge \/ StartRestore
           \/ StartNext \/ SyncClock \/ WriteBack \/ WriteStep \/ WriteLevel
           \/ WriteOneOff \/ EnterRoutine \/ IoFails
  BY <1>3 DEF ReadFresh, ReadAgain, Decide, Judge, StartRestore, StartNext,
     SyncClock, WriteBack, WriteStep, WriteLevel, WriteOneOff, EnterRoutine,
     IoFails, durable
<1>4. CASE UserOperation \/ RecoveryDue \/ Recover \/ EndRoutine
  BY <1>4 DEF UserOperation, RestoreProfile, ReadProfile, ApplyEdit,
     ImportProfile, AcceptProfile, SetLevel, StartRoutine, RecoveryDue,
     Recover, EndRoutine, durable
<1>5. CASE \/ Cancelled \/ PowerLoss \/ LinkDrop \/ DeviceChange
           \/ RoutineStarts \/ RoutineEnds \/ ClockAges \/ PauseEnds
  BY <1>5 DEF Cancelled, PowerLoss, LinkDrop, DeviceChange, RoutineStarts,
     RoutineEnds, ClockAges, PauseEnds, durable
<1>6. CASE UNCHANGED vars
  BY <1>6 DEF vars, durable
<1> QED
  BY <1>1, <1>2, <1>3, <1>4, <1>5, <1>6 DEF Next, Progress, Environment

\* Each of these is a step of RecordPromise, or no step of it.
LEMMA PromiseStep ==
    ProfileInv /\ [Next]_vars => [Promise!Next]_(Promise!promiseVars)
<1> SUFFICES ASSUME ProfileInv, [Next]_vars
             PROVE  Promise!Next \/ UNCHANGED Promise!promiseVars
  BY DEF Promise!promiseVars
<1>1. CASE op.at \in SavePhases /\ record' = Saving /\ stored' = Saving
  <2>1. Promise!Save
    BY <1>1, SavingPromised DEF Promise!Save, Plan
  <2> QED
    BY <2>1 DEF Promise!Next
<1>2. ASSUME stored' \in Stores
      PROVE  \/ Plan(stored)' = Plan(stored)
             \/ Promise!Successor(Plan(stored)', Plan(record))
  <2>1. CASE stored' = stored
    BY <2>1 DEF Plan
  <2>2. CASE op.at \in SavePhases /\ stored' = Saving
    BY <2>2, SavingPromised DEF Plan
  <2> QED
    BY <1>2, <2>1, <2>2 DEF Stores
<1>3. CASE record' = record /\ stored' \in Stores
  <2>1. Promise!CutOff
    BY <1>2, <1>3 DEF Promise!CutOff, Plan
  <2> QED
    BY <2>1 DEF Promise!Next
<1>4. CASE record' = stored' /\ stored' \in Stores
  <2>1. Promise!Restart
    BY <1>2, <1>4 DEF Promise!Restart, Plan
  <2> QED
    BY <2>1 DEF Promise!Next
<1> QED
  BY <1>1, <1>3, <1>4, StoreChanges

\* The saved profile implements RecordPromise: whatever is cut off, cancelled or
\* restarted, a revision number stands for one saved routine plan (_save,
\* ProfileStore.async_save, async_setup).
THEOREM RecordPromiseKept == Spec => ImplementsRecordPromise
<1>1. Init => Promise!Init
  <2> SUFFICES ASSUME Init PROVE Promise!Init
    OBVIOUS
  <2>1. stored = record /\ record.revision \in Nat
    BY DEF Init, EmptyRecord, SavedRecord
  <2> QED
    BY <2>1 DEF Promise!Init, Plan
<1> QED
  BY <1>1, PromiseStep, ProfileInvariant, PTL
     DEF Spec, ImplementsRecordPromise, Promise!Spec

\* So a form, an action or a failed restore that names a revision never means a
\* plan that was saved later under the same number (async_apply_profile_edit,
\* _restore_needed, async_accept_device_profile).
THEOREM RevisionsNamePlans == Spec => Promise!RevisionNamesPlan
<1>1. Promise!Spec => Promise!RevisionNamesPlan
  BY Promised!NumbersName
     DEF Promise!Spec, Promise!Init, Promise!Next, Promise!Save, Promise!CutOff,
         Promise!Restart, Promise!Forget, Promise!Nothing, Promise!Successor,
         Promise!promiseVars, Promise!RevisionNamesPlan,
         Promised!Spec, Promised!Init, Promised!Next, Promised!Save, Promised!CutOff,
         Promised!Restart, Promised!Forget, Promised!Nothing, Promised!Successor,
         Promised!promiseVars, Promised!RevisionNamesPlan
<1> QED
  BY <1>1, RecordPromiseKept DEF ImplementsRecordPromise

=============================================================================
