------------------------ MODULE LumalouEnrollProofs ------------------------
(***************************************************************************)
(* Proofs about LumalouEnroll, for any number of flows, devices, addresses *)
(* and entries.                                                            *)
(***************************************************************************)
EXTENDS LumalouEnroll, TLAPS

\* What a flow knows from its probe: the device it read has been at the address
\* it asked for.
Probed ==
    \A f \in Flows :
        /\ flow[f].at \in {"form", "probing", "read"} => flow[f].address \in Addresses
        /\ flow[f].at = "read" =>
              /\ flow[f].key \in Keys
              /\ flow[f].address \in been[flow[f].key]

\* The unique id of an entry is the key of its device, and ids are fresh.
Named ==
    \A e \in Entries :
        /\ entries[e].uid = entries[e].key
        /\ e <= made

Remembered == \A k \in Keys : where[k] \in been[k]

EnrollInv ==
    /\ EnrollTypeOK /\ Probed /\ Named /\ Remembered
    /\ OneEntryPerKey /\ AddressProved

-----------------------------------------------------------------------------

LEMMA EnrollBegins ==
    ASSUME EnrollInit
    PROVE  EnrollInv
<1>1. EnrollTypeOK
  BY EnrollAssumption DEF EnrollInit, EnrollTypeOK, NoFlow, Flow, Entry, Sources, Ids
<1>2. Probed /\ Remembered
  BY DEF EnrollInit, Probed, Remembered, NoFlow
<1>3. \A e \in Entries : e = 1 /\ \E k \in Keys : entries[e] = [uid |-> k, key |-> k,
                                                          address |-> where[k]]
  BY DEF EnrollInit, Entries
<1>4. Named /\ OneEntryPerKey
  <2>1. Entries # {} => made = 1
    BY DEF EnrollInit, Entries
  <2>2. ASSUME NEW e \in Entries
        PROVE  entries[e].uid = entries[e].key /\ e <= made
    <3>1. PICK k \in Keys : entries[e] = [uid |-> k, key |-> k, address |-> where[k]]
      BY <1>3
    <3>2. e = 1 /\ made = 1
      BY <1>3, <2>1
    <3> QED  BY <3>1, <3>2
  <2>3. \A d, e \in Entries : d = e
    BY <1>3
  <2> QED  BY <2>2, <2>3 DEF Named, OneEntryPerKey
<1>5. AddressProved
  <2> SUFFICES ASSUME NEW e \in Entries
               PROVE  entries[e].address \in been[entries[e].key]
    BY DEF AddressProved
  <2>1. PICK k \in Keys : entries[e] = [uid |-> k, key |-> k, address |-> where[k]]
    BY <1>3
  <2> QED  BY <1>2, <2>1 DEF Remembered
<1> QED  BY <1>1, <1>2, <1>4, <1>5 DEF EnrollInv

\* A step that leaves the entries and the devices alone, and gives a flow
\* nothing it did not probe.
LEMMA OnlyFlows ==
    ASSUME EnrollInv, UNCHANGED <<where, been, entries, made>>,
           EnrollTypeOK', Probed'
    PROVE  EnrollInv'
<1>1. Entries' = Entries
  BY DEF Entries
<1> QED  BY <1>1 DEF EnrollInv, Named, Remembered, OneEntryPerKey, AddressProved

LEMMA FormSteps ==
    ASSUME EnrollInv, NEW f \in Flows,
           \/ \E a \in Addresses : Discover(f, a) \/ OpenUser(f, a)
           \/ \E e \in Ids, a \in Addresses : OpenReconfigure(f, e, a)
           \/ CloseForm(f) \/ SubmitUser(f) \/ SubmitBluetooth(f)
           \/ SubmitReconfigure(f) \/ ProbeFails(f) \/ Created(f)
    PROVE  EnrollInv'
<1>1. /\ EnrollTypeOK' /\ Probed'
      /\ UNCHANGED <<where, been, entries, made>>
  <2> USE DEF EnrollInv, EnrollTypeOK, Probed, Flow, Sources, NoFlow, End, Form, World
  <2>1. CASE \E a \in Addresses : Discover(f, a) \/ OpenUser(f, a)
    BY <2>1 DEF Discover, OpenUser, Opens
  <2>2. CASE \E e \in Ids, a \in Addresses : OpenReconfigure(f, e, a)
    BY <2>2 DEF OpenReconfigure, Opens
  <2>3. CASE CloseForm(f)
    BY <2>3 DEF CloseForm
  <2>4. CASE SubmitUser(f)
    BY <2>4 DEF SubmitUser
  <2>5. CASE SubmitBluetooth(f)
    BY <2>5 DEF SubmitBluetooth
  <2>6. CASE SubmitReconfigure(f)
    BY <2>6 DEF SubmitReconfigure
  <2>7. CASE ProbeFails(f)
    <3>1. Candidates(0) \subseteq Addresses
      BY DEF Candidates
    <3>2. /\ UNCHANGED <<where, been, entries, made, reload, flows, moves>>
          /\ End(f) \/ \E a \in Addresses : Form(f, a)
      BY <2>7, <3>1 DEF ProbeFails
    <3>3. CASE End(f)
      BY <3>2, <3>3
    <3>4. CASE \E a \in Addresses : Form(f, a)
      <4>1. PICK a \in Addresses : Form(f, a)
        BY <3>4
      <4> DEFINE new == [flow[f] EXCEPT !.at = "form", !.address = a, !.key = Null]
      <4>2. flow' = [flow EXCEPT ![f] = new] /\ new \in Flow
        BY <4>1
      <4>3. new.at = "form" /\ new.address = a
        OBVIOUS
      <4> HIDE DEF new, Form
      <4> QED  BY <3>2, <4>2, <4>3
    <3> QED  BY <3>2, <3>3, <3>4
  <2>8. CASE Created(f)
    BY <2>8 DEF Created
  <2> QED  BY <2>1, <2>2, <2>3, <2>4, <2>5, <2>6, <2>7, <2>8
<1> QED  BY <1>1, OnlyFlows

LEMMA ReadStep ==
    ASSUME EnrollInv, NEW f \in Flows, NEW k \in Keys, ProbeReads(f, k)
    PROVE  EnrollInv'
<1>1. EnrollTypeOK'
  <2> DEFINE new == [flow[f] EXCEPT !.at = "read", !.key = k]
  <2>1. flow' = [flow EXCEPT ![f] = new] /\ new \in Flow
    BY DEF EnrollInv, EnrollTypeOK, ProbeReads, Flow
  <2> HIDE DEF new
  <2> QED  BY <2>1 DEF EnrollInv, EnrollTypeOK, ProbeReads, World
<1>2. Probed'
  BY DEF EnrollInv, EnrollTypeOK, Probed, Remembered, ProbeReads, Flow, World
<1> QED  BY <1>1, <1>2, OnlyFlows DEF ProbeReads, World

\* Giving an entry the address at which a flow found its own device.
LEMMA RebindStep ==
    ASSUME EnrollInv, NEW f \in Flows, NEW e \in Entries,
           flow[f].at = "read", flow[f].key = entries[e].key,
           End(f), Rebound(e, flow[f].address), UNCHANGED <<World, made>>
    PROVE  EnrollInv'
<1> USE DEF EnrollInv
<1>1. /\ e \in Ids /\ entries[e] \in Entry /\ flow[f].address \in Addresses
      /\ flow[f].address \in been[entries[e].key]
  BY DEF EnrollTypeOK, Entries, Probed, EnrollAssumption, Entry
<1>2. /\ entries' \in [Ids -> Entry \cup {Null}]
      /\ \A d \in Ids : /\ d # e => entries'[d] = entries[d]
                       /\ entries'[e] = [uid |-> entries[e].uid, key |-> entries[e].key,
                                         address |-> flow[f].address]
  BY <1>1 DEF EnrollTypeOK, Rebound, Entry
<1>3. Entries' = Entries
  <2>1. entries'[e] # Null /\ entries[e] # Null
    BY <1>1, <1>2, NullIsNoEntry DEF Entry
  <2> QED  BY <1>2, <2>1 DEF Entries
<1>4. EnrollTypeOK'
  BY <1>1, <1>2 DEF EnrollTypeOK, Rebound, End, World, NoFlow, Flow, Sources
<1>5. Probed' /\ Remembered'
  BY DEF EnrollTypeOK, Probed, Remembered, End, World, NoFlow
<1>6. Named' /\ OneEntryPerKey' /\ AddressProved'
  BY <1>1, <1>2, <1>3 DEF Named, OneEntryPerKey, AddressProved, Entries, World
<1> QED  BY <1>4, <1>5, <1>6

LEMMA EnrollStep ==
    ASSUME EnrollInv, NEW f \in Flows, Enroll(f)
    PROVE  EnrollInv'
<1> USE DEF EnrollInv
<1> DEFINE known == {e \in Entries : entries[e].uid = UniqueId(f)}
<1>1. flow[f].at = "read" /\ flow[f].key \in Keys /\ flow[f].address \in Addresses
        /\ flow[f].address \in been[flow[f].key] /\ UNCHANGED World
  BY DEF Enroll, Probed
<1>2. CASE End(f) /\ UNCHANGED <<entries, made, reload>>
  BY <1>1, <1>2, OnlyFlows DEF EnrollTypeOK, Probed, End, World, NoFlow, Flow, Sources
<1>3. CASE /\ \E e \in known : Rebound(e, flow[f].address)
           /\ End(f) /\ UNCHANGED made
  <2>1. PICK e \in known : Rebound(e, flow[f].address)
    BY <1>3
  <2>2. e \in Entries /\ flow[f].key = entries[e].key
    BY <2>1 DEF Named, UniqueId
  <2> QED  BY <1>1, <1>3, <2>1, <2>2, RebindStep
<1>4. CASE /\ known = {} /\ made < MaxEntries /\ made' = made + 1
           /\ flow' = [flow EXCEPT ![f].at = "created", ![f].uid = UniqueId(f)]
           /\ entries' = [entries EXCEPT ![made + 1] =
                            [uid |-> UniqueId(f), key |-> flow[f].key,
                             address |-> flow[f].address]]
           /\ UNCHANGED reload
  <2> DEFINE new == [uid |-> flow[f].key, key |-> flow[f].key,
                     address |-> flow[f].address]
  <2>1. made + 1 \in Ids /\ made \in Nat
    BY <1>4, EnrollAssumption DEF EnrollTypeOK, Ids
  <2>2. /\ entries' = [entries EXCEPT ![made + 1] = new] /\ new \in Entry
        /\ new # Null
    <3>1. new \in Entry
      BY <1>1 DEF Entry
    <3> QED  BY <1>4, <3>1, NullIsNoEntry DEF UniqueId
  <2>3. Entries' = Entries \cup {made + 1}
    BY <2>1, <2>2 DEF Entries, EnrollTypeOK
  <2>4. made + 1 \notin Entries
    BY <2>1 DEF Named
  <2>5. entries'[made + 1] = new /\ \A e \in Entries : entries'[e] = entries[e]
    BY <2>1, <2>2, <2>4 DEF EnrollTypeOK, Entries
  <2>6. EnrollTypeOK'
    <3> DEFINE done == [flow[f] EXCEPT !.at = "created", !.uid = flow[f].key]
    <3>1. flow' = [flow EXCEPT ![f] = done] /\ done \in Flow
      BY <1>1, <1>4 DEF EnrollTypeOK, UniqueId, Flow
    <3>2. made' \in 0 .. MaxEntries
      BY <1>4, <2>1 DEF Ids
    <3>3. entries' \in [Ids -> Entry \cup {Null}]
      BY <2>1, <2>2 DEF EnrollTypeOK
    <3> HIDE DEF new, done
    <3> QED  BY <1>1, <1>4, <3>1, <3>2, <3>3 DEF EnrollTypeOK, World
  <2>7. Probed' /\ Remembered'
    BY <1>1, <1>4 DEF EnrollTypeOK, Probed, Remembered, World
  <2>8. Named' /\ AddressProved'
    BY <1>1, <1>4, <2>1, <2>3, <2>4, <2>5 DEF Named, AddressProved, World, Entries, Ids
  <2>9. OneEntryPerKey'
    <3>1. \A e \in Entries : entries[e].key # flow[f].key
      BY <1>4 DEF Named, UniqueId
    <3> QED  BY <2>3, <2>4, <2>5, <3>1 DEF OneEntryPerKey
  <2> QED  BY <2>6, <2>7, <2>8, <2>9
<1> QED  BY <1>2, <1>3, <1>4 DEF Enroll

LEMMA RebindFlowStep ==
    ASSUME EnrollInv, NEW f \in Flows, Rebind(f)
    PROVE  EnrollInv'
<1>1. CASE flow[f].entry \in Entries /\ SameDevice(f)
  BY <1>1, RebindStep DEF Rebind, SameDevice
<1>2. CASE ~(flow[f].entry \in Entries /\ SameDevice(f))
  <2>1. UNCHANGED <<where, been, entries, made, reload, flows, moves>>
    BY <1>2 DEF Rebind, World
  <2>2. End(f) \/ Form(f, flow[f].address)
    BY <1>2 DEF Rebind
  <2>3. EnrollTypeOK' /\ Probed'
    BY <2>1, <2>2 DEF Rebind, EnrollInv, EnrollTypeOK, Probed, End, Form, NoFlow, Flow,
                      Sources
  <2> QED  BY <2>1, <2>3, OnlyFlows
<1> QED  BY <1>1, <1>2

LEMMA EntrySteps ==
    ASSUME EnrollInv, NEW e \in Ids, Reload(e) \/ Remove(e)
    PROVE  EnrollInv'
<1> USE DEF EnrollInv
<1>1. CASE Reload(e)
  BY <1>1, OnlyFlows DEF Reload, World, EnrollTypeOK, Probed
<1>2. CASE Remove(e)
  <2>1. Entries' = Entries \ {e}
    BY <1>2 DEF Remove, Entries, EnrollTypeOK
  <2>2. \A d \in Entries' : entries'[d] = entries[d]
    BY <1>2, <2>1 DEF Remove, Entries, EnrollTypeOK
  <2>3. EnrollTypeOK' /\ Probed' /\ Remembered'
    BY <1>2 DEF Remove, World, EnrollTypeOK, Probed, Remembered
  <2> QED  BY <1>2, <2>1, <2>2, <2>3 DEF Remove, World, Named, OneEntryPerKey, AddressProved
<1> QED  BY <1>1, <1>2

LEMMA MoveStep ==
    ASSUME EnrollInv, NEW k \in Keys, NEW a \in Addresses, Move(k, a)
    PROVE  EnrollInv'
<1> USE DEF EnrollInv, Move
<1>1. \A l \in Keys : been[l] \subseteq been'[l]
  BY DEF EnrollTypeOK
<1>2. EnrollTypeOK' /\ Remembered'
  BY DEF EnrollTypeOK, Remembered
<1>3. Entries' = Entries
  BY DEF Entries
<1>4. Probed'
  BY <1>1 DEF Probed
<1>5. Named' /\ OneEntryPerKey'
  BY <1>3 DEF Named, OneEntryPerKey
<1>6. AddressProved'
  BY <1>1, <1>3 DEF AddressProved, EnrollTypeOK, Entries, Entry, EnrollAssumption
<1> QED  BY <1>2, <1>4, <1>5, <1>6

LEMMA EnrollInvStep ==
    ASSUME EnrollInv, [EnrollNext]_enrollVars
    PROVE  EnrollInv'
<1>1. CASE \E f \in Flows : FlowStep(f)
  BY <1>1, FormSteps, ReadStep, EnrollStep, RebindFlowStep DEF FlowStep
<1>2. CASE \E e \in Ids : Reload(e) \/ Remove(e)
  BY <1>2, EntrySteps
<1>3. CASE \E k \in Keys, a \in Addresses : Move(k, a)
  BY <1>3, MoveStep
<1>4. CASE UNCHANGED enrollVars
  <2>1. Entries' = Entries
    BY <1>4 DEF enrollVars, Entries
  <2> QED  BY <1>4, <2>1 DEF enrollVars, EnrollInv, EnrollTypeOK, Probed, Named,
                            Remembered, OneEntryPerKey, AddressProved
<1> QED  BY <1>1, <1>2, <1>3, <1>4 DEF EnrollNext

\* Enrolment alone: types, one entry per device, and no entry at an address
\* where its own device has never been.
THEOREM EnrollCorrect == EnrollSpec => [](EnrollTypeOK /\ OneEntryPerKey /\ AddressProved)
<1>1. EnrollInit => EnrollInv
  BY EnrollBegins
<1>2. EnrollInv /\ [EnrollNext]_enrollVars => EnrollInv'
  BY EnrollInvStep
<1>3. EnrollInv => EnrollTypeOK /\ OneEntryPerKey /\ AddressProved
  BY DEF EnrollInv
<1> QED  BY <1>1, <1>2, <1>3, PTL DEF EnrollSpec
=============================================================================
