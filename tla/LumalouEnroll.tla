--------------------------- MODULE LumalouEnroll ---------------------------
(***************************************************************************)
(* How devices become config entries (config_flow.py): discovery and user  *)
(* flows that claim an address, read the signed key of the device there    *)
(* and create an entry bound to that key, and the reconfigure flow that    *)
(* gives an entry a new address.  Flows run at the same time, forms get    *)
(* old, and a device may appear at another address at any moment.          *)
(***************************************************************************)
EXTENDS Naturals

CONSTANTS
    Flows,       \* config flows that can be open at once
    Keys,        \* devices, named by their signed keys
    Addresses,
    Null,
    MaxEntries,  \* bound: entries ever created
    MaxFlows,    \* bound: flows started
    MaxMoves     \* bound: devices that change their address

ASSUME EnrollAssumption ==
    /\ MaxEntries \in Nat \ {0} /\ MaxFlows \in Nat /\ MaxMoves \in Nat
    /\ Null \notin Keys \cup Addresses
    /\ Keys \cap Addresses = {}

Ids == 1 .. MaxEntries
Entry == [uid : Keys \cup Addresses, key : Keys, address : Addresses]

ASSUME NullIsNoEntry == Null \notin Entry

VARIABLES
    where,    \* the address at which a device can be reached
    been,     \* history: the addresses it had
    entries,  \* the config entries: Null, or unique id, key and address
    made,     \* entries created so far
    flow,     \* the config flows
    reload,   \* entries whose reload is scheduled
    flows, moves

enrollVars == <<where, been, entries, made, flow, reload, flows, moves>>

-----------------------------------------------------------------------------

Sources == {"user", "bluetooth", "reconfigure"}
NoFlow == [source |-> "user", at |-> "none", address |-> Null, uid |-> Null,
           key |-> Null, entry |-> 0]

Entries == {e \in Ids : entries[e] # Null}
Present(a) == \E k \in Keys : where[k] = a
Configured(a) == \E e \in Entries : entries[e].address = a
\* _discovered_candidates: discovered, and not the address of another entry.
Candidates(e) ==
    {a \in Addresses : Present(a)
                         /\ \A d \in Entries \ {e} : entries[d].address # a}

End(f) == flow' = [flow EXCEPT ![f] = NoFlow]
Form(f, a) == flow' = [flow EXCEPT ![f].at = "form", ![f].address = a,
                                   ![f].key = Null]
Opens(f, source, a, uid, e) ==
    /\ flow[f] = NoFlow /\ flows < MaxFlows /\ flows' = flows + 1
    /\ flow' = [flow EXCEPT ![f] = [source |-> source, at |-> "form",
                   address |-> a, uid |-> uid, key |-> Null, entry |-> e]]
    /\ UNCHANGED <<where, been, entries, made, reload, moves>>
World == <<where, been, flows, moves>>

\* async_set_unique_id, with raise_on_progress.
InProgress(f, uid) == \E g \in Flows \ {f} : flow[g].uid = uid

-----------------------------------------------------------------------------
(* Forms.                                                                  *)

\* async_step_bluetooth, _async_claim: a discovered address that nobody claims.
Discover(f, a) ==
    /\ Present(a) /\ ~Configured(a) /\ ~InProgress(f, a)
    /\ Opens(f, "bluetooth", a, a, 0)

\* async_step_user without input; the user picks one of the candidates.
OpenUser(f, a) ==
    /\ a \in Candidates(0)
    /\ Opens(f, "user", a, Null, 0)

\* async_step_reconfigure without input.
OpenReconfigure(f, e, a) ==
    /\ e \in Entries /\ a \in Candidates(e)
    /\ Opens(f, "reconfigure", a, Null, e)

CloseForm(f) ==
    /\ flow[f].at = "form" /\ End(f)
    /\ UNCHANGED <<World, entries, made, reload>>

\* Submitting claims the address, as far as no entry has it.
SubmitUser(f) ==
    /\ flow[f].at = "form" /\ flow[f].source = "user"
    /\ IF Configured(flow[f].address) THEN End(f)
       ELSE flow' = [flow EXCEPT ![f].at = "probing",
                                 ![f].uid = flow[f].address]
    /\ UNCHANGED <<World, entries, made, reload>>

\* async_step_bluetooth_confirm.
SubmitBluetooth(f) ==
    /\ flow[f].at = "form" /\ flow[f].source = "bluetooth"
    /\ IF Configured(flow[f].address) THEN End(f)
       ELSE flow' = [flow EXCEPT ![f].at = "probing"]
    /\ UNCHANGED <<World, entries, made, reload>>

\* async_step_reconfigure: the address is looked up again before it is probed.
SubmitReconfigure(f) ==
    /\ flow[f].at = "form" /\ flow[f].source = "reconfigure"
    /\ IF Configured(flow[f].address) \/ flow[f].entry \notin Entries THEN End(f)
       ELSE IF ~Present(flow[f].address) THEN UNCHANGED flow
       ELSE flow' = [flow EXCEPT ![f].at = "probing"]
    /\ UNCHANGED <<World, entries, made, reload>>

-----------------------------------------------------------------------------
(* The probe: a connection that reads the signed key.                      *)

ProbeReads(f, k) ==
    /\ flow[f].at = "probing" /\ where[k] = flow[f].address
    /\ flow' = [flow EXCEPT ![f].at = "read", ![f].key = k]
    /\ UNCHANGED <<World, entries, made, reload>>

\* cannot_connect or identity_unconfirmed: the form again, for a user with the
\* candidates of now.
ProbeFails(f) ==
    /\ flow[f].at \in {"probing", "read"}
    /\ IF flow[f].source = "user"
       THEN \/ \E a \in Candidates(0) : Form(f, a)
            \/ Candidates(0) = {} /\ End(f)
       ELSE Form(f, flow[f].address)
    /\ UNCHANGED <<World, entries, made, reload>>

\* The unique id of an entry is the key; the claimed address was provisional.
UniqueId_Claimed(f) == flow[f].address
UniqueId(f) == flow[f].key

\* The address of an entry changes; its reload is scheduled.
Rebound(e, a) ==
    /\ entries' = [entries EXCEPT ![e].address = a]
    /\ reload' = IF entries[e].address = a THEN reload ELSE reload \cup {e}

\* _async_create_verified after the probe.
Enroll(f) ==
    /\ flow[f].at = "read" /\ flow[f].source # "reconfigure"
    /\ LET known == {e \in Entries : entries[e].uid = UniqueId(f)}
       IN \/ /\ InProgress(f, UniqueId(f))
             /\ End(f) /\ UNCHANGED <<entries, made, reload>>
          \/ /\ ~InProgress(f, UniqueId(f)) /\ known # {}
             /\ \E e \in known : Rebound(e, flow[f].address)
             /\ End(f) /\ UNCHANGED made
          \/ /\ ~InProgress(f, UniqueId(f)) /\ known = {} /\ made < MaxEntries
             /\ made' = made + 1
             /\ flow' = [flow EXCEPT ![f].at = "created", ![f].uid = UniqueId(f)]
             /\ entries' = [entries EXCEPT ![made + 1] =
                              [uid |-> UniqueId(f), key |-> flow[f].key,
                               address |-> flow[f].address]]
             /\ UNCHANGED reload
    /\ UNCHANGED World

\* The new entry is set up and its options flow opened; the flow is over.
Created(f) ==
    /\ flow[f].at = "created" /\ End(f)
    /\ UNCHANGED <<World, entries, made, reload>>

\* _async_rebind: only the device with the key of the entry.
SameDevice_Any(f) == TRUE
SameDevice(f) == entries[flow[f].entry].key = flow[f].key

Rebind(f) ==
    /\ flow[f].at = "read" /\ flow[f].source = "reconfigure"
    /\ IF flow[f].entry \notin Entries
       THEN End(f) /\ UNCHANGED <<entries, reload>>
       ELSE IF SameDevice(f)
       THEN End(f) /\ Rebound(flow[f].entry, flow[f].address)
       ELSE Form(f, flow[f].address) /\ UNCHANGED <<entries, reload>>
    /\ UNCHANGED <<World, made>>

-----------------------------------------------------------------------------

Reload(e) ==
    /\ e \in reload /\ reload' = reload \ {e}
    /\ UNCHANGED <<World, entries, made, flow>>

\* The user deletes the entry.
Remove(e) ==
    /\ e \in Entries
    /\ entries' = [entries EXCEPT ![e] = Null] /\ reload' = reload \ {e}
    /\ UNCHANGED <<World, made, flow>>

\* A device shows up at another address.
Move(k, a) ==
    /\ moves < MaxMoves /\ moves' = moves + 1
    /\ ~Present(a)
    /\ where' = [where EXCEPT ![k] = a]
    /\ been' = [been EXCEPT ![k] = @ \cup {a}]
    /\ UNCHANGED <<entries, made, flow, reload, flows>>

\* Nothing is enrolled yet, or one device is.
EnrollInit ==
    /\ where \in {w \in [Keys -> Addresses] :
                    \A k, l \in Keys : w[k] = w[l] => k = l}
    /\ been = [k \in Keys |-> {where[k]}]
    /\ \/ entries = [e \in Ids |-> Null] /\ made = 0
       \/ \E k \in Keys :
             /\ entries = [e \in Ids |-> IF e = 1 THEN [uid |-> k, key |-> k,
                                                      address |-> where[k]]
                                                 ELSE Null]
             /\ made = 1
    /\ flow = [f \in Flows |-> NoFlow]
    /\ reload = {} /\ flows = 0 /\ moves = 0

FlowStep(f) ==
    \/ \E a \in Addresses : Discover(f, a) \/ OpenUser(f, a)
    \/ \E e \in Ids, a \in Addresses : OpenReconfigure(f, e, a)
    \/ CloseForm(f) \/ SubmitUser(f) \/ SubmitBluetooth(f) \/ SubmitReconfigure(f)
    \/ \E k \in Keys : ProbeReads(f, k)
    \/ ProbeFails(f) \/ Enroll(f) \/ Created(f) \/ Rebind(f)

EnrollNext ==
    \/ \E f \in Flows : FlowStep(f)
    \/ \E e \in Ids : Reload(e) \/ Remove(e)
    \/ \E k \in Keys, a \in Addresses : Move(k, a)

EnrollSpec == EnrollInit /\ [][EnrollNext]_enrollVars

-----------------------------------------------------------------------------
(* Properties.                                                             *)

Flow == [source : Sources, at : {"none", "form", "probing", "read",
                                      "created"},
         address : Addresses \cup {Null}, uid : Addresses \cup Keys \cup {Null},
         key : Keys \cup {Null}, entry : Ids \cup {0}]

\* Every variable keeps its type.
EnrollTypeOK ==
    /\ where \in [Keys -> Addresses] /\ been \in [Keys -> SUBSET Addresses]
    /\ entries \in [Ids -> Entry \cup {Null}] /\ made \in 0 .. MaxEntries
    /\ flow \in [Flows -> Flow]
    /\ reload \in SUBSET Ids
    /\ flows \in Nat /\ moves \in Nat

\* However many flows run at once and however devices move, a device has at
\* most one entry.
OneEntryPerKey ==
    \A d, e \in Entries : entries[d].key = entries[e].key => d = e

\* The address of an entry is one at which its own device has answered: neither
\* a stale form nor a swapped device gives it another device's.
AddressProved ==
    \A e \in Entries : entries[e].address \in been[entries[e].key]
=============================================================================
