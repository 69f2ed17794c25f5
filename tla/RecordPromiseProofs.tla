------------------------- MODULE RecordPromiseProofs -------------------------
(***************************************************************************)
(* What follows from RecordPromise for whoever holds a revision number.    *)
(***************************************************************************)
EXTENDS RecordPromise, TLAPS

\* The Store is the record in use or the one that follows it.
Ahead == memory.revision \in Nat /\ Successor(file, memory)

LEMMA AheadInductive == Ahead /\ [Next]_promiseVars => Ahead'
<1> SUFFICES ASSUME Ahead, [Next]_promiseVars PROVE Ahead'
  OBVIOUS
<1>1. CASE Save
  BY <1>1 DEF Ahead, Save, Successor
<1>2. CASE CutOff
  BY <1>2 DEF Ahead, CutOff, Successor
<1>3. CASE Restart
  BY <1>3 DEF Ahead, Restart, Successor
<1>4. CASE Forget
  BY <1>4 DEF Ahead, Forget, Successor, Nothing
<1>5. CASE UNCHANGED promiseVars
  BY <1>5 DEF Ahead, promiseVars, Successor
<1> QED
  BY <1>1, <1>2, <1>3, <1>4, <1>5 DEF Next

\* A number of the saved profile, once seen, stands for one weekly plan until
\* the entry is deleted, and no lower number returns, also after a save that was
\* cut off and a restart (_save, ProfileStore).
THEOREM NumbersName == Spec => RevisionNamesPlan
<1>1. Init => Ahead
  BY DEF Init, Ahead, Successor
<1>2. Ahead /\ [Next]_promiseVars =>
         [\/ memory' = memory
          \/ memory'.revision > memory.revision
          \/ Removable /\ memory' = Nothing]_promiseVars
  <2> SUFFICES ASSUME Ahead, [Next]_promiseVars
               PROVE  \/ memory' = memory
                      \/ memory'.revision > memory.revision
                      \/ Removable /\ memory' = Nothing
    OBVIOUS
  <2> QED
    BY DEF Next, promiseVars, Ahead, Successor, Save, CutOff, Restart, Forget
<1> QED
  BY <1>1, <1>2, AheadInductive, PTL DEF Spec, RevisionNamesPlan

=============================================================================
