---------------------------- MODULE LumalouFlows ----------------------------
(***************************************************************************)
(* Enrolment and editors together: the entry with id Own, its coordinator  *)
(* and everyone who edits its profile, while config flows enrol devices,   *)
(* move the entry to another address (which reloads it) and the user       *)
(* deletes it.  The coordinator talks to the address it was set up with,   *)
(* and only to the device with the key of its entry.                       *)
(***************************************************************************)
EXTENDS LumalouEnroll, LumalouEditors

CONSTANTS
    MaxWork,     \* bound: config flows and calls of clients together
    MaxTroubles  \* bound: faults and moves together

ASSUME FlowsAssumption ==
    MaxWork \in Nat /\ MaxTroubles \in Nat

VARIABLES
    bound,    \* address of the coordinator, fixed at its set-up
    removing  \* the entry is being deleted

flowsVars == <<enrollVars, editorVars, bound, removing>>

Own == 1
Enrolled == entries[Own] # Null
\* A session opens only with the device whose key is bound to the entry.
Reachable == where[entries[Own].key] = bound

EditorsIdle ==
    /\ Silent
    /\ UNCHANGED <<profile, loaded, previewed, link, device, client, calls, faults>>
EnrollIdle == UNCHANGED enrollVars

-----------------------------------------------------------------------------

Editing ==
    /\ \/ \E c \in Clients : ClientActs(c) \/ LockGranted(c) \/ Holder(c)
       \/ Reconnect \/ PowerLoss
       \/ \E f \in Fields, v \in Values : DeviceChange(f, v)
    /\ link' /\ ~link => Reachable
    /\ calls' + flows <= MaxWork /\ faults' + moves <= MaxTroubles
    /\ EnrollIdle /\ UNCHANGED <<bound, removing>>

Enrolling ==
    /\ \/ \E f \in Flows : FlowStep(f)
       \/ \E e \in Ids \ {Own} : Reload(e) \/ Remove(e)
    /\ calls + flows' <= MaxWork
    /\ EditorsIdle /\ UNCHANGED <<bound, removing>>

\* The device of the entry leaves its address: the link is gone.
Moves(k, a) ==
    /\ Move(k, a) /\ faults + moves' <= MaxTroubles
    /\ link' = (link /\ entries[Own].key # k)
    /\ Silent
    /\ UNCHANGED <<profile, loaded, previewed, device, client, calls, faults,
                   bound, removing>>

SetUp ==
    /\ Enrolled /\ ~removing
    /\ Load /\ bound' = entries[Own].address
    /\ EnrollIdle /\ UNCHANGED removing

\* By the user, or scheduled with a new address.
Reloads ==
    /\ ~removing
    /\ \/ Unload /\ faults' + moves <= MaxTroubles /\ EnrollIdle
       \/ Reload(Own) /\ Stopped /\ NoFault
       \/ Reload(Own) /\ ~loaded /\ EditorsIdle
    /\ UNCHANGED <<bound, removing>>

\* Deleting an entry unloads it first and then removes its Store
\* (async_remove_entry).
RemoveStarts ==
    /\ Enrolled /\ ~removing /\ removing' = TRUE
    /\ \/ Stopped /\ NoFault
       \/ ~loaded /\ EditorsIdle
    /\ EnrollIdle /\ UNCHANGED bound

RemoveEnds ==
    /\ removing /\ removing' = FALSE
    /\ Remove(Own)
    /\ record' = EmptyRecord /\ stored' = EmptyRecord /\ unlocked' = FALSE
    /\ Silent
    /\ UNCHANGED <<loaded, previewed, link, device, client, calls, faults, bound>>

FlowsInit ==
    /\ EnrollInit /\ EditorsInit
    /\ loaded = Enrolled /\ (Enrolled \/ record = EmptyRecord)
    /\ bound = (IF Enrolled THEN entries[Own].address ELSE Null)
    /\ removing = FALSE

FlowsNext ==
    \/ Editing \/ Enrolling
    \/ \E k \in Keys, a \in Addresses : Moves(k, a)
    \/ SetUp \/ Reloads \/ RemoveStarts \/ RemoveEnds

FlowsSpec == FlowsInit /\ [][FlowsNext]_flowsVars

-----------------------------------------------------------------------------
(* Properties; the ones of the two components hold of the whole as well.   *)

\* Every variable keeps its type.
FlowsTypeOK ==
    /\ EnrollTypeOK /\ EditorsTypeOK
    /\ bound \in Addresses \cup {Null} /\ removing \in BOOLEAN

\* Nothing private outlives its entry: once it is deleted its Store is gone,
\* whatever was being read, written or saved when the deletion began.
ForgottenWithEntry ==
    ~Enrolled => ~loaded /\ ~link /\ stored = EmptyRecord /\ ~unlocked

\* The record of the entry is the one RecordPromise describes: with every client
\* that saves, every reload and a deletion, a revision number stands for one
\* weekly plan until the entry is gone (_save, async_setup_entry,
\* async_remove_entry).
Plan(r) ==
    [revision |-> r.revision,
     plan |-> IF r.desired = None THEN None ELSE r.desired.plan]
Promise ==
    INSTANCE RecordPromise WITH memory <- Plan(record), file <- Plan(stored),
                                NoPlan <- None, Removable <- TRUE
ImplementsRecordPromise == Promise!Spec
=============================================================================
