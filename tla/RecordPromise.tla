---------------------------- MODULE RecordPromise ----------------------------
(***************************************************************************)
(* What the saved profile promises to everyone who holds one of its        *)
(* revision numbers - an open form, a caller of an action, a restore that  *)
(* failed: the number stands for one weekly plan as long as the entry      *)
(* lasts, over saves that are cut off and restarts that find them          *)
(* finished or not.  LumalouProfile and LumalouFlows implement it.         *)
(***************************************************************************)
EXTENDS Naturals

CONSTANTS
    NoPlan,     \* what a new entry has saved
    Removable   \* whether the entry can be deleted

VARIABLES
    memory,  \* the record in use: a revision and its weekly plan
    file     \* the record in the Store

promiseVars == <<memory, file>>

Nothing == [revision |-> 0, plan |-> NoPlan]

\* A save changes the plan only under the next number.
Successor(new, old) == new = old \/ new.revision = old.revision + 1

Init == memory.revision \in Nat /\ file = memory

Save ==
    /\ Successor(memory', memory)
    /\ file' = memory'

\* The Store may have the record of a save that was cut off.
CutOff ==
    /\ memory' = memory
    /\ file' = file \/ Successor(file', memory)

Restart ==
    /\ file' = file \/ Successor(file', memory)
    /\ memory' = file'

Forget ==
    /\ Removable
    /\ memory' = Nothing /\ file' = Nothing

Next == Save \/ CutOff \/ Restart \/ Forget

Spec == Init /\ [][Next]_promiseVars

\* No number ever stands for another plan, and none comes back.
RevisionNamesPlan ==
    [][\/ memory' = memory
       \/ memory'.revision > memory.revision
       \/ Removable /\ memory' = Nothing]_promiseVars

=============================================================================
