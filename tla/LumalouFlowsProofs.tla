------------------------- MODULE LumalouFlowsProofs -------------------------
(***************************************************************************)
(* Proofs about LumalouFlows: the invariants of its two components hold of *)
(* the whole, across reloads, new addresses and the deletion of the entry, *)
(* and its record implements RecordPromise.                                *)
(***************************************************************************)
EXTENDS LumalouFlows, LumalouEnrollProofs, LumalouEditorsProofs

FlowsInv ==
    /\ EnrollInv
    /\ EditorsInv(Enrolled)
    /\ bound \in Addresses \cup {Null} /\ removing \in BOOLEAN
    /\ removing => Enrolled /\ ~loaded
    /\ made = 0 => client = [c \in Clients |-> NoCall]
    /\ ~Enrolled => record = EmptyRecord /\ ~unlocked

-----------------------------------------------------------------------------
(* What the steps of one component tell the other.                         *)

LEMMA OwnFacts == Own \in Ids /\ (Enrolled <=> Own \in Entries)
BY EnrollAssumption DEF Own, Ids, Enrolled, Entries

\* Without a coordinator the clients can do no more than fill in and close
\* forms they have opened before.
LEMMA NobodyLoaded ==
    ASSUME NEW lasting, EditorsInv(lasting), ~loaded, NEW c \in Clients,
           ClientActs(c) \/ LockGranted(c) \/ Holder(c)
    PROVE  UNCHANGED <<profile, loaded>> /\ client[c] # NoCall
<1>1. client[c].at \notin Held \cup {"queued"}
  BY Facts
<1>2. CASE ClientActs(c)
  <2>1. (\E want \in Profiles : Fill(c, want)) \/ Confirm(c) \/ Abandon(c)
    BY <1>2 DEF ClientActs, RepairActs, OpenEditor, ExportProfile, CallSetRoutine, CallRead,
                CallRestore, CallSetting
  <2>2. client[c].at # "idle" /\ NoCall.at = "idle"
    BY <2>1 DEF Fill, Confirm, Abandon, At, NoCall
  <2>3. UNCHANGED <<profile, loaded>>
    BY <2>1 DEF Fill, Confirm, Abandon
  <2> QED  BY <2>2, <2>3
<1>3. CASE LockGranted(c)
  BY <1>3 DEF LockGranted, BeginEdit, BeginImport, BeginRead, BeginAccept, BeginRestore,
              BeginSetting, Granted
<1>4. CASE Holder(c)
  BY <1>1, <1>4 DEF Holder, ReadForWrite, ReadForPreview, ReadFails, WriteStep, Verify,
              WriteFails, SettingConfirmed, SettingFails, SavedEdit, SavedImport,
              SavedAccept, SavedSetting, SaveRecord, At, Held
<1> QED  BY <1>2, <1>3, <1>4

\* A flow deletes no entry, and makes none but the next.
LEMMA FlowKeepsEntries ==
    ASSUME EnrollInv, NEW f \in Flows, FlowStep(f)
    PROVE  \/ Entries' = Entries /\ made' = made
           \/ Entries' = Entries \cup {made + 1} /\ made' = made + 1
<1> USE DEF EnrollInv, EnrollTypeOK
<1>1. ASSUME NEW e \in Entries, NEW a \in Addresses, Rebound(e, a)
      PROVE  Entries' = Entries
  <2>1. entries[e] \in Entry /\ e \in Ids
    BY DEF Entries
  <2>2. entries'[e] \in Entry /\ \A d \in Ids : d # e => entries'[d] = entries[d]
    BY <1>1, <2>1 DEF Rebound, Entry
  <2> QED  BY <2>1, <2>2, NullIsNoEntry DEF Entries
<1>2. CASE UNCHANGED <<entries, made>>
  BY <1>2 DEF Entries
<1>3. CASE Enroll(f)
  <2>1. flow[f].at = "read" /\ flow[f].key \in Keys /\ flow[f].address \in Addresses
    BY <1>3 DEF Enroll, Probed
  <2>2. CASE made' = made /\ \E e \in Entries : Rebound(e, flow[f].address)
    BY <1>1, <2>1, <2>2
  <2> DEFINE new == [uid |-> UniqueId(f), key |-> flow[f].key,
                     address |-> flow[f].address]
  <2>3. CASE /\ made < MaxEntries /\ made' = made + 1
             /\ entries' = [entries EXCEPT ![made + 1] = new]
    <3>1. new \in Entry
      BY <2>1 DEF UniqueId, Entry
    <3>2. new # Null
      BY <3>1, NullIsNoEntry
    <3>3. made + 1 \in Ids
      BY <2>3, EnrollAssumption DEF Ids
    <3> HIDE DEF new
    <3> QED  BY <2>3, <3>2, <3>3 DEF Entries
  <2> QED  BY <1>2, <1>3, <2>2, <2>3 DEF Enroll
<1>4. CASE Rebind(f)
  <2>1. flow[f].at = "read" /\ flow[f].address \in Addresses /\ made' = made
    BY <1>4 DEF Rebind, Probed
  <2>2. CASE UNCHANGED entries
    BY <1>2, <2>1, <2>2
  <2>3. CASE flow[f].entry \in Entries /\ Rebound(flow[f].entry, flow[f].address)
    BY <1>1, <2>1, <2>3
  <2> QED  BY <1>4, <2>2, <2>3 DEF Rebind
<1> QED  BY <1>2, <1>3, <1>4
         DEF FlowStep, Discover, OpenUser, OpenReconfigure, Opens, CloseForm, SubmitUser,
             SubmitBluetooth, SubmitReconfigure, ProbeReads, ProbeFails, Created

LEMMA EditorsAtRest ==
    ASSUME NEW lasting, EditorsInv(lasting), EditorsIdle
    PROVE  EditorsInv(lasting)'
<1>1. /\ previewed \in Profiles \cup {None} /\ calls \in Nat /\ faults \in Nat
      /\ device \in Profiles /\ link \in BOOLEAN
  BY DEF EditorsInv, EditorsTypeOK
<1>2. /\ UNCHANGED <<profile, loaded, client>> /\ Silent
      /\ previewed' = previewed /\ calls' = calls /\ faults' = faults
      /\ device' = device /\ link' = link
  BY DEF EditorsIdle
<1> QED  BY <1>1, <1>2, LinkStep

-----------------------------------------------------------------------------
(* The steps of the whole.                                                 *)

\* A step that leaves the entries as they are.
LEMMA SameEntries ==
    ASSUME FlowsInv, Enrolled' = Enrolled,
           EnrollInv', \A lasting : EditorsInv(lasting) => EditorsInv(lasting)',
           bound' \in Addresses \cup {Null}, removing' \in BOOLEAN,
           removing' => Enrolled' /\ ~loaded',
           made' = made \/ made' # 0,
           made = 0 => client' = client,
           ~Enrolled => UNCHANGED profile
    PROVE  FlowsInv'
<1>1. EditorsInv(Enrolled)'
  <2>1. CASE Enrolled = TRUE
    BY <2>1 DEF FlowsInv
  <2>2. CASE Enrolled = FALSE
    BY <2>2 DEF FlowsInv
  <2> QED  BY <2>1, <2>2 DEF Enrolled
<1> QED  BY <1>1 DEF FlowsInv, profile

LEMMA EditingStep ==
    ASSUME FlowsInv, Editing
    PROVE  FlowsInv'
<1>1. /\ UNCHANGED <<where, been, entries, made, flow, reload, flows, moves>>
      /\ bound' = bound /\ removing' = removing
  BY DEF Editing, EnrollIdle, enrollVars
<1>2. EnrollInv' /\ Enrolled' = Enrolled
  BY <1>1, EnrollInvStep DEF FlowsInv, enrollVars, Enrolled, Own
<1>3. ASSUME NEW lasting, EditorsInv(lasting)
      PROVE  EditorsInv(lasting)'
  BY <1>3, ClientSteps, ReconnectStep, DeviceSteps DEF Editing
<1>4. CASE loaded
  <2>1. Enrolled /\ made # 0 /\ ~removing
    <3>1. Enrolled
      BY <1>4 DEF FlowsInv, EditorsInv
    <3> QED  BY <1>4, <3>1, OwnFacts DEF FlowsInv, EnrollInv, Named, Own, EnrollTypeOK
  <2> QED  BY <1>1, <1>2, <1>3, <2>1, SameEntries DEF FlowsInv
<1>5. CASE ~loaded
  <2>1. CASE \E c \in Clients : ClientActs(c) \/ LockGranted(c) \/ Holder(c)
    <3>1. UNCHANGED <<profile, loaded>> /\ made # 0
      BY <1>5, <2>1, NobodyLoaded DEF FlowsInv
    <3> QED  BY <1>1, <1>2, <1>3, <1>5, <3>1, SameEntries DEF FlowsInv
  <2>2. CASE PowerLoss \/ \E f \in Fields, v \in Values : DeviceChange(f, v)
    <3>1. UNCHANGED <<profile, loaded, client>>
      BY <2>2 DEF PowerLoss, DeviceChange
    <3> QED  BY <1>1, <1>2, <1>3, <1>5, <3>1, SameEntries DEF FlowsInv
  <2> QED  BY <1>5, <2>1, <2>2 DEF Editing, Reconnect
<1> QED  BY <1>4, <1>5

LEMMA EnrollingStep ==
    ASSUME FlowsInv, Enrolling
    PROVE  FlowsInv'
<1>1. /\ EditorsIdle /\ bound' = bound /\ removing' = removing
      /\ UNCHANGED <<profile, loaded, client>>
  BY DEF Enrolling, EditorsIdle
<1>2. EnrollInv'
  BY EnrollInvStep DEF FlowsInv, Enrolling, EnrollNext
<1>3. ASSUME NEW lasting, EditorsInv(lasting)
      PROVE  EditorsInv(lasting)'
  BY <1>1, <1>3, EditorsAtRest
<1>4. CASE Enrolled' = Enrolled /\ (made' = made \/ made' # 0)
  BY <1>1, <1>2, <1>3, <1>4, SameEntries DEF FlowsInv
<1>5. CASE ~Enrolled /\ Enrolled' /\ made = 0 /\ made' # 0
  <2>1. EditorsInv(FALSE)'
    <3>1. Enrolled = FALSE
      BY <1>5 DEF Enrolled
    <3>2. EditorsInv(FALSE)
      BY <3>1 DEF FlowsInv
    <3> QED  BY <1>3, <3>2
  <2>2. client' = [c \in Clients |-> NoCall]
    BY <1>1, <1>5 DEF FlowsInv
  <2>3. \A c \in Clients : client'[c].revision <= record'.revision
    <3>1. record' \in Records
      BY <2>1 DEF EditorsInv, EditorsTypeOK
    <3> QED  BY <2>2, <3>1, NoCallFacts
  <2>4. EditorsInv(TRUE)'
    BY <2>1, <2>3 DEF EditorsInv
  <2>5. ~removing
    BY <1>5 DEF FlowsInv
  <2> QED  BY <1>1, <1>2, <1>5, <2>4, <2>5 DEF FlowsInv
<1>6. \/ Enrolled' = Enrolled /\ (made' = made \/ made' # 0)
      \/ ~Enrolled /\ Enrolled' /\ made = 0 /\ made' # 0
  <2>0. (Enrolled <=> Own \in Entries) /\ (Enrolled' <=> Own \in Entries') /\ made \in Nat
    BY OwnFacts, EnrollAssumption DEF Enrolled, Entries, Own, FlowsInv, EnrollInv, EnrollTypeOK
  <2>1. CASE \E f \in Flows : FlowStep(f)
    <3>1. \/ Entries' = Entries /\ made' = made
          \/ Entries' = Entries \cup {made + 1} /\ made' = made + 1
      BY <2>1, FlowKeepsEntries DEF FlowsInv
    <3> QED  BY <2>0, <3>1 DEF Own, Enrolled
  <2>2. CASE \E e \in Ids \ {Own} : Reload(e) \/ Remove(e)
    <3>1. made' = made /\ entries'[Own] = entries[Own]
      BY <2>2, OwnFacts DEF Reload, Remove, FlowsInv, EnrollInv, EnrollTypeOK
    <3> QED  BY <3>1 DEF Enrolled, Own
  <2> QED  BY <2>1, <2>2 DEF Enrolling
<1> QED  BY <1>4, <1>5, <1>6

LEMMA MovesStep ==
    ASSUME FlowsInv, NEW k \in Keys, NEW a \in Addresses, Moves(k, a)
    PROVE  FlowsInv'
<1>1. /\ UNCHANGED <<profile, loaded, client>> /\ UNCHANGED <<entries, made>> /\ Silent
      /\ previewed' = previewed /\ device' = device /\ calls' = calls /\ faults' = faults
      /\ bound' = bound /\ removing' = removing
      /\ link' = (link /\ entries[Own].key # k)
  BY DEF Moves, Move
<1>2. EnrollInv' /\ Enrolled' = Enrolled
  BY <1>1, MoveStep DEF FlowsInv, Moves, Enrolled, Own
<1>3. ASSUME NEW lasting, EditorsInv(lasting)
      PROVE  EditorsInv(lasting)'
  <2>1. /\ previewed \in Profiles \cup {None} /\ calls \in Nat /\ faults \in Nat
        /\ device \in Profiles /\ link \in BOOLEAN
    BY <1>3 DEF EditorsInv, EditorsTypeOK
  <2>2. link' \in BOOLEAN /\ (link' => link)
    BY <1>1, <2>1
  <2> QED  BY <1>1, <1>3, <2>1, <2>2, LinkStep
<1> QED  BY <1>1, <1>2, <1>3, SameEntries DEF FlowsInv

LEMMA SetUpStep ==
    ASSUME FlowsInv, SetUp
    PROVE  FlowsInv'
<1>1. /\ UNCHANGED <<where, been, entries, made, flow, reload, flows, moves>>
      /\ Enrolled /\ ~removing /\ removing' = removing /\ Load
      /\ bound' = entries[Own].address /\ client' = client
  BY DEF SetUp, EnrollIdle, enrollVars, Load
<1>2. EnrollInv' /\ Enrolled'
  BY <1>1, EnrollInvStep DEF FlowsInv, enrollVars, Enrolled, Own
<1>3. bound' \in Addresses
  BY <1>1, OwnFacts DEF FlowsInv, EnrollInv, EnrollTypeOK, Enrolled, Entry
<1>4. EditorsInv(TRUE)'
  BY <1>1, LoadStep DEF FlowsInv
<1> QED  BY <1>1, <1>2, <1>3, <1>4 DEF FlowsInv

\* Reloads and the beginning of a deletion stop the coordinator, if there is one.
LEMMA StopSteps ==
    ASSUME FlowsInv, Reloads \/ RemoveStarts
    PROVE  FlowsInv'
<1>1. /\ UNCHANGED <<entries, made>> /\ bound' = bound /\ removing' \in BOOLEAN
      /\ removing' => Enrolled
  <2>1. CASE Reloads
    <3>1. removing' = removing /\ bound' = bound /\ removing \in BOOLEAN
            /\ (removing => Enrolled)
      BY <2>1 DEF Reloads, FlowsInv
    <3>2. UNCHANGED <<entries, made>>
      BY <2>1 DEF Reloads, Reload, EnrollIdle, enrollVars, World, Rebound
    <3> QED  BY <3>1, <3>2
  <2>2. CASE RemoveStarts
    BY <2>2 DEF RemoveStarts, EnrollIdle, enrollVars
  <2> QED  BY <2>1, <2>2
<1>2. EnrollInv' /\ Enrolled' = Enrolled
  <2>1. [EnrollNext]_enrollVars
    BY OwnFacts DEF Reloads, RemoveStarts, EnrollIdle, EnrollNext
  <2> QED  BY <1>1, <2>1, EnrollInvStep DEF FlowsInv, Enrolled, Own
<1>3. CASE Stopped
  <2>1. loaded /\ loaded' = FALSE /\ unlocked' = unlocked
    BY <1>3 DEF Stopped
  <2>2. Enrolled
    BY <2>1 DEF FlowsInv, EditorsInv
  <2>3. made # 0
    BY <2>2, OwnFacts DEF FlowsInv, EnrollInv, Named, Own, EnrollTypeOK
  <2>4. calls' \in Nat /\ faults' \in Nat
    <3>1. calls \in Nat /\ faults \in Nat
      BY DEF FlowsInv, EditorsInv, EditorsTypeOK
    <3>2. ASSUME EditorsIdle PROVE loaded' = loaded
      BY <3>2 DEF EditorsIdle
    <3> QED  BY <2>1, <3>1, <3>2 DEF Reloads, RemoveStarts, Unload, Fault, NoFault
  <2>5. ASSUME NEW lasting, EditorsInv(lasting)
        PROVE  EditorsInv(lasting)'
    BY <1>3, <2>4, <2>5, StoppedStep
  <2> QED  BY <1>1, <1>2, <2>1, <2>2, <2>3, <2>5, SameEntries DEF FlowsInv
<1>4. CASE EditorsIdle /\ ~loaded
  <2>1. UNCHANGED <<profile, loaded, client>>
    BY <1>4 DEF EditorsIdle
  <2>2. ASSUME NEW lasting, EditorsInv(lasting)
        PROVE  EditorsInv(lasting)'
    BY <1>4, <2>2, EditorsAtRest
  <2>3. made = 0 => client' = client
    BY <2>1
  <2> QED  BY <1>1, <1>2, <1>4, <2>1, <2>2, <2>3, SameEntries DEF FlowsInv
<1> QED  BY <1>3, <1>4 DEF Reloads, RemoveStarts, Unload

LEMMA RemoveEndsStep ==
    ASSUME FlowsInv, RemoveEnds
    PROVE  FlowsInv'
<1>1. /\ removing /\ removing' = FALSE /\ Remove(Own) /\ Silent
      /\ record' = EmptyRecord /\ stored' = EmptyRecord /\ unlocked' = FALSE
      /\ loaded' = loaded /\ previewed' = previewed /\ link' = link /\ device' = device
      /\ client' = client /\ calls' = calls /\ faults' = faults /\ bound' = bound
  BY DEF RemoveEnds
<1>2. Enrolled /\ ~loaded /\ EditorsInv(TRUE)
  BY <1>1 DEF FlowsInv
<1>3. EnrollInv'
  BY <1>1, OwnFacts, EntrySteps DEF FlowsInv
<1>4. ~Enrolled' /\ made' = made
  BY <1>1, OwnFacts DEF Remove, FlowsInv, EnrollInv, EnrollTypeOK, Enrolled, Own
<1>5. EditorsInv(FALSE)'
  <2> USE DEF EditorsInv
  <2>1. EmptyRecord \in Records
    BY DEF Records
  <2>2. EditorsTypeOK' /\ Exclusive' /\ TruthfulReport'
    BY <1>1, <1>2, <2>1, Quiet DEF EditorsTypeOK, Exclusive
  <2>3. ASSUME NEW c \in Clients
        PROVE  /\ Shape(client'[c]) /\ BasedOn(client'[c], record')
               /\ LockedOn(client'[c], record', device', link')
    BY <1>1, <1>2, Facts DEF BasedOn, LockedOn, EmptyRecord, Held
  <2> QED  BY <1>1, <1>2, <2>2, <2>3
<1>6. made = 0 => client' = [c \in Clients |-> NoCall]
  BY <1>1 DEF FlowsInv
<1>7. EditorsInv(Enrolled)'
  <2>1. Enrolled' = FALSE
    BY <1>4 DEF Enrolled
  <2> QED  BY <1>5, <2>1
<1>8. bound' \in Addresses \cup {Null} /\ EnrollInv'
  BY <1>1, <1>3 DEF FlowsInv
<1> QED  BY <1>1, <1>4, <1>6, <1>7, <1>8 DEF FlowsInv

LEMMA FlowsBegin ==
    ASSUME FlowsInit
    PROVE  FlowsInv
<1>1. EnrollInv
  BY EnrollBegins DEF FlowsInit
<1>2. EditorsInv(TRUE) /\ client = [c \in Clients |-> NoCall]
  BY EditorsBegin DEF FlowsInit
<1>3. EditorsInv(Enrolled)
  <2>1. CASE Enrolled = TRUE
    BY <1>2, <2>1
  <2>2. CASE Enrolled = FALSE
    BY <1>2, <2>2 DEF FlowsInit, EditorsInv
  <2> QED  BY <2>1, <2>2 DEF Enrolled
<1>4. bound \in Addresses \cup {Null}
  <2>1. Enrolled => entries[Own] \in Entry
    BY <1>1, OwnFacts DEF EnrollInv, EnrollTypeOK, Enrolled
  <2> QED  BY <2>1 DEF FlowsInit, Entry
<1>5. ~Enrolled => record = EmptyRecord /\ ~unlocked
  BY DEF FlowsInit, EditorsInit, EmptyRecord, SavedRecord
<1> QED  BY <1>1, <1>2, <1>3, <1>4, <1>5 DEF FlowsInit, FlowsInv

LEMMA FlowsInvStep ==
    ASSUME FlowsInv, [FlowsNext]_flowsVars
    PROVE  FlowsInv'
<1>1. CASE Editing
  BY <1>1, EditingStep
<1>2. CASE Enrolling
  BY <1>2, EnrollingStep
<1>3. CASE \E k \in Keys, a \in Addresses : Moves(k, a)
  BY <1>3, MovesStep
<1>4. CASE SetUp
  BY <1>4, SetUpStep
<1>5. CASE Reloads \/ RemoveStarts
  BY <1>5, StopSteps
<1>6. CASE RemoveEnds
  BY <1>6, RemoveEndsStep
<1>7. CASE UNCHANGED flowsVars
  <2>1. UNCHANGED enrollVars /\ UNCHANGED editorVars /\ bound' = bound
          /\ removing' = removing
    BY <1>7 DEF flowsVars
  <2>2. EnrollInv' /\ Enrolled' = Enrolled /\ made' = made
    BY <2>1, EnrollInvStep DEF FlowsInv, enrollVars, Enrolled, Own
  <2>3. /\ UNCHANGED <<profile, loaded, client>>
        /\ record' = record /\ stored' = stored /\ unlocked' = unlocked
        /\ loaded' = loaded /\ client' = client /\ link' = link /\ device' = device
        /\ previewed' = previewed /\ calls' = calls /\ faults' = faults
        /\ answer' = answer
    BY <2>1 DEF editorVars, profile
  <2>4. ASSUME NEW lasting, EditorsInv(lasting)
        PROVE  EditorsInv(lasting)'
    <3> USE DEF EditorsInv
    <3>1. EditorsTypeOK' /\ Exclusive' /\ TruthfulReport'
      BY <2>3, <2>4 DEF EditorsTypeOK, Exclusive, TruthfulReport
    <3> QED  BY <2>3, <2>4, <3>1
  <2> QED  BY <2>1, <2>2, <2>3, <2>4, SameEntries DEF FlowsInv
<1> QED  BY <1>1, <1>2, <1>3, <1>4, <1>5, <1>6, <1>7 DEF FlowsNext

LEMMA FlowsInvariant == FlowsSpec => []FlowsInv
<1>1. FlowsInit => FlowsInv
  BY FlowsBegin
<1>2. FlowsInv /\ [FlowsNext]_flowsVars => FlowsInv'
  BY FlowsInvStep
<1> QED  BY <1>1, <1>2, PTL DEF FlowsSpec

-----------------------------------------------------------------------------
(* The saved profile and the device, over all steps of the whole.          *)

\* Until the entry is deleted a step keeps the record or saves that of a client.
LEMMA FlowsKeep ==
    ASSUME FlowsInv, [FlowsNext]_flowsVars, ~RemoveEnds
    PROVE  Kept
<1>1. EditorsInv(Enrolled)
  BY DEF FlowsInv
<1>2. CASE Editing \/ SetUp
  <2>1. EditorsNext
    BY <1>2 DEF Editing, SetUp, EditorsNext
  <2> QED  BY <1>1, <2>1, SavesOnly
<1>3. CASE Stopped
  BY <1>1, <1>3, StoppedKept
<1>4. CASE UNCHANGED profile
  BY <1>4 DEF profile, Kept
<1> QED  BY <1>2, <1>3, <1>4
         DEF FlowsNext, Enrolling, EditorsIdle, Moves, Reloads, Unload, RemoveStarts,
             flowsVars, editorVars

LEMMA FlowsSave ==
    ASSUME FlowsInv, [FlowsNext]_flowsVars
    PROVE  SafeSave
<1>1. CASE RemoveEnds
  BY <1>1 DEF RemoveEnds, FlowsInv, SafeSave
<1>2. CASE ~RemoveEnds
  BY <1>2, FlowsKeep, KeptIsSafe DEF FlowsInv
<1> QED  BY <1>1, <1>2

LEMMA FlowsWrite ==
    ASSUME FlowsInv, [FlowsNext]_flowsVars
    PROVE  PlanFirst
<1>1. EditorsInv(Enrolled)
  BY DEF FlowsInv
<1>2. WriteOnly
  <2>1. CASE Editing \/ SetUp
    <3>1. EditorsNext
      BY <2>1 DEF Editing, SetUp, EditorsNext
    <3> QED  BY <1>1, <3>1, OneWriter
  <2>2. CASE Stopped
    BY <1>1, <2>2, OneWriter
  <2>3. CASE device' = device
    BY <2>3 DEF WriteOnly
  <2> QED  BY <2>1, <2>2, <2>3
           DEF FlowsNext, Enrolling, EditorsIdle, Moves, Reloads, Unload, RemoveStarts,
               RemoveEnds, flowsVars, editorVars
<1> QED  BY <1>1, <1>2, WriterPutsPlanFirst

-----------------------------------------------------------------------------

\* Every variable keeps its type.
THEOREM FlowsTypes == FlowsSpec => []FlowsTypeOK
<1>1. FlowsInv => FlowsTypeOK
  BY DEF FlowsInv, EnrollInv, EditorsInv, FlowsTypeOK
<1> QED  BY <1>1, FlowsInvariant, PTL

\* A device has at most one entry, however many flows probe it at once and
\* wherever it moves (_async_create_verified, async_set_unique_id).
THEOREM FlowsOneEntry == FlowsSpec => []OneEntryPerKey
<1>1. FlowsInv => OneEntryPerKey
  BY DEF FlowsInv, EnrollInv
<1> QED  BY <1>1, FlowsInvariant, PTL

\* An entry is only ever bound to an address at which its own device answered
\* with its signed key (_async_rebind, _async_create_verified).
THEOREM FlowsAddressProved == FlowsSpec => []AddressProved
<1>1. FlowsInv => AddressProved
  BY DEF FlowsInv, EnrollInv
<1> QED  BY <1>1, FlowsInvariant, PTL

\* What clients are told agrees with the record, across conflicts, failures,
\* reloads and the deletion of the entry.
THEOREM FlowsTruthful == FlowsSpec => []TruthfulReport
<1>1. FlowsInv => TruthfulReport
  BY DEF FlowsInv, EditorsInv
<1> QED  BY <1>1, FlowsInvariant, PTL

\* A deleted entry leaves neither a Store nor a session nor the proof that
\* unlocked device control (async_remove_entry).
THEOREM FlowsForgotten == FlowsSpec => []ForgottenWithEntry
<1>1. FlowsInv => ForgottenWithEntry
  BY DEF FlowsInv, EditorsInv, Exclusive, ForgottenWithEntry
<1> QED  BY <1>1, FlowsInvariant, PTL

\* No save overwrites a field its client does not mean to change, or a weekly
\* plan it has not seen (RevisionConflictError, _new_revision).
THEOREM FlowsOverwriteNothing == FlowsSpec => NothingOverwritten
<1>1. FlowsInv /\ [FlowsNext]_flowsVars => [SafeSave]_editorVars
  BY FlowsSave
<1> QED  BY <1>1, FlowsInvariant, PTL DEF FlowsSpec, NothingOverwritten, SafeSave

\* A restore switches a mode only over the saved weekly plan or one the device
\* has acknowledged in this restore, also when it is cut short
\* (build_restore_steps); an acknowledged plan may be one it did not apply.
THEOREM FlowsFlagAfterPlan == FlowsSpec => FlagAfterPlan
<1>1. FlowsInv /\ [FlowsNext]_flowsVars => [PlanFirst]_editorVars
  BY FlowsWrite
<1> QED  BY <1>1, FlowsInvariant, PTL DEF FlowsSpec, FlagAfterPlan, PlanFirst

-----------------------------------------------------------------------------
(* The record of the entry as RecordPromise describes it.                  *)

Promised == INSTANCE RecordPromiseProofs
                WITH memory <- Plan(record), file <- Plan(stored),
                     NoPlan <- None, Removable <- TRUE

\* A client that saves without a new revision saves the weekly plan that is
\* saved already.
LEMMA KeptIsPromised ==
    ASSUME NEW lasting, EditorsInv(lasting), Kept
    PROVE  Promise!Successor(Plan(record'), Plan(record))
<1>1. CASE record' = record
  BY <1>1 DEF Promise!Successor
<1>2. CASE \E c \in Clients : At(c, "saving") /\ record' = Saving(c)
  <2>1. PICK c \in Clients : At(c, "saving") /\ record' = Saving(c)
    BY <1>2
  <2>2. CASE client[c].call = "set"
    <3>1. /\ record'.revision = record.revision /\ record'.desired \in Profiles
          /\ Complete /\ client[c].fields \subseteq InPlace
          /\ \A f \in Fields \ client[c].fields : record'.desired[f] = record.desired[f]
      BY <2>1, <2>2, SaveFacts
    <3>2. record'.desired.plan = record.desired.plan
      BY <3>1 DEF InPlace, Fields, ClockFields
    <3> QED  BY <3>1, <3>2, NoneIsNoProfile DEF Plan, Complete, Promise!Successor
  <2>3. CASE client[c].call # "set"
    <3>1. record'.revision = record.revision + 1
      BY <2>1, <2>3, SaveFacts
    <3> QED  BY <3>1 DEF Plan, Promise!Successor
  <2> QED  BY <2>2, <2>3
<1> QED  BY <1>1, <1>2 DEF Kept

LEMMA FlowsPromiseStep ==
    FlowsInv /\ [FlowsNext]_flowsVars => [Promise!Next]_(Promise!promiseVars)
<1> SUFFICES ASSUME FlowsInv, [FlowsNext]_flowsVars
             PROVE  Promise!Next
  OBVIOUS
<1>1. CASE RemoveEnds
  <2>1. Promise!Forget
    BY <1>1 DEF RemoveEnds, Promise!Forget, Promise!Nothing, Plan, EmptyRecord
  <2> QED  BY <2>1 DEF Promise!Next
<1>2. CASE ~RemoveEnds
  <2>1. stored' = record'
    BY FlowsInvStep DEF FlowsInv, EditorsInv
  <2>2. Promise!Successor(Plan(record'), Plan(record))
    BY <1>2, FlowsKeep, KeptIsPromised DEF FlowsInv
  <2>3. Promise!Save
    BY <2>1, <2>2 DEF Promise!Save, Plan
  <2> QED  BY <2>3 DEF Promise!Next
<1> QED  BY <1>1, <1>2

\* With every client that saves, a stop of the coordinator in the middle of a
\* save, new addresses and the deletion of the entry, the record keeps
\* RecordPromise (_save, async_setup_entry, async_remove_entry).
THEOREM FlowsRecordPromise == FlowsSpec => ImplementsRecordPromise
<1>1. FlowsInit => Promise!Init
  <2> SUFFICES ASSUME FlowsInit PROVE Promise!Init
    OBVIOUS
  <2>1. stored = record /\ record.revision \in Nat
    BY DEF FlowsInit, EditorsInit, EmptyRecord, SavedRecord
  <2> QED  BY <2>1 DEF Promise!Init, Plan
<1> QED  BY <1>1, FlowsPromiseStep, FlowsInvariant, PTL
         DEF FlowsSpec, ImplementsRecordPromise, Promise!Spec

\* So the revision that a form or an action was given stands for one weekly plan
\* for as long as the entry exists, whoever else saves (RevisionConflictError).
THEOREM FlowsRevisionsNamePlans == FlowsSpec => Promise!RevisionNamesPlan
<1>1. Promise!Spec => Promise!RevisionNamesPlan
  BY Promised!NumbersName
     DEF Promise!Spec, Promise!Init, Promise!Next, Promise!Save, Promise!CutOff,
         Promise!Restart, Promise!Forget, Promise!Nothing, Promise!Successor,
         Promise!promiseVars, Promise!RevisionNamesPlan,
         Promised!Spec, Promised!Init, Promised!Next, Promised!Save, Promised!CutOff,
         Promised!Restart, Promised!Forget, Promised!Nothing, Promised!Successor,
         Promised!promiseVars, Promised!RevisionNamesPlan
<1> QED  BY <1>1, FlowsRecordPromise DEF ImplementsRecordPromise
=============================================================================
