-------------------------- MODULE PiPipelineProofs --------------------------
(***************************************************************************)
(* Theorems about PiPipeline for any finite set of attempts and any        *)
(* capacity: the count of slots and the files a run leaves.                *)
(***************************************************************************)
EXTENDS PiPipeline, FiniteSetTheorems, TLAPS

\* What is known of the files of an attempt at each point of its run.
FilesAt(a) ==
  /\ pc[a] \in {"idle", "claimed", "prepare"} => a \notin private /\ a \notin public
  /\ pc[a] \in {"idle", "claimed", "prepare", "image", "publish"} => outcome[a] = "none" /\ a \notin public
  /\ pc[a] \in {"read", "evaluate", "cleanup"} => a \in public
  /\ pc[a] = "discard" => outcome[a] # "success"
  /\ pc[a] \in {"release", "done"} => a \notin private /\ (a \in public <=> outcome[a] = "success")

\* TypeOK without the bounds of the counter, which need the count of slots.
Shapes ==
  /\ pc \in [Attempts -> {"idle", "claimed", "done"} \cup Admitted]
  /\ private \in SUBSET Attempts /\ public \in SUBSET Attempts
  /\ cancelled \in SUBSET Attempts /\ stuck \in SUBSET Attempts
  /\ outcome \in [Attempts -> {"none", "success", "failure", "busy", "cancelled"}]

Files == \A a \in Attempts \ stuck : FilesAt(a)

Slots == active = Cardinality({a \in Attempts : pc[a] \in Admitted}) /\ active \in 0..Capacity

\* Every step of a run keeps the types and what is known of its files.
LEMMA StepShapes ==
  ASSUME Shapes, Files, NEW a \in Attempts, Claim(a) \/ RunStep(a) \/ Cancel(a)
  PROVE  Shapes' /\ Files'
<1> USE DEF Shapes, Files, FilesAt, Goto, Result, Continue, Abort, Admitted, Units
<1>1. CASE Claim(a)
  BY <1>1 DEF Claim
<1>2. CASE NeverRuns(a)
  BY <1>2 DEF NeverRuns
<1>3. CASE Admit(a)
  BY <1>3 DEF Admit
<1>4. CASE Prepare(a)
  BY <1>4 DEF Prepare
<1>5. CASE CallRpc(a, "image", "publish")
  BY <1>5 DEF CallRpc
<1>6. CASE Publish(a)
  BY <1>6 DEF Publish
<1>7. CASE Read(a)
  BY <1>7 DEF Read
<1>8. CASE CallRpc(a, "evaluate", "cleanup")
  BY <1>8 DEF CallRpc
<1>9. CASE Cleanup(a)
  BY <1>9 DEF Cleanup
<1>10. CASE Discard(a)
  BY <1>10 DEF Discard
<1>11. CASE Release(a)
  BY <1>11 DEF Release
<1>12. CASE Cancel(a)
  BY <1>12 DEF Cancel
<1> QED
  BY <1>1, <1>2, <1>3, <1>4, <1>5, <1>6, <1>7, <1>8, <1>9, <1>10, <1>11, <1>12 DEF RunStep

\* A step of one run changes the set of admitted runs by that run at most.
LEMMA AdmittedSet ==
  ASSUME Shapes, NEW a \in Attempts, NEW point, Goto(a, point)
  PROVE  {b \in Attempts : pc'[b] \in Admitted} =
           IF point \in Admitted THEN {b \in Attempts : pc[b] \in Admitted} \cup {a}
                                 ELSE {b \in Attempts : pc[b] \in Admitted} \ {a}
  BY DEF Shapes, Goto

\* Entering, leaving or moving inside the admission keeps the count right.
LEMMA SlotsMoved ==
  ASSUME Shapes, Slots, NEW a \in Attempts, NEW point, Goto(a, point),
         active' = active + (IF point \in Admitted THEN 1 ELSE 0) - (IF pc[a] \in Admitted THEN 1 ELSE 0),
         active' <= Capacity
  PROVE  Slots'
<1> DEFINE Old == {b \in Attempts : pc[b] \in Admitted}
<1> DEFINE New == {b \in Attempts : pc'[b] \in Admitted}
<1>1. IsFiniteSet(Old)
  BY AttemptsAssumption, FS_Subset
<1>2. New = IF point \in Admitted THEN Old \cup {a} ELSE Old \ {a}
  BY AdmittedSet
<1>3. a \in Old <=> pc[a] \in Admitted
  OBVIOUS
<1>4. Cardinality(Old) = active /\ active \in Nat /\ Capacity \in Nat
  BY CapacityAssumption DEF Slots
<1> HIDE DEF Old, New
<1>5. IsFiniteSet(New) /\ Cardinality(New) = active'
  <2>1. CASE point \in Admitted
    BY <2>1, <1>1, <1>2, <1>3, <1>4, FS_AddElement
  <2>2. CASE point \notin Admitted
    BY <2>2, <1>1, <1>2, <1>3, <1>4, FS_RemoveElement
  <2> QED
    BY <2>1, <2>2
<1>6. Cardinality(New) \in Nat
  BY <1>5, FS_CardinalityType
<1> QED
  BY <1>4, <1>5, <1>6 DEF Slots, New

\* While some run is admitted, the counter is not zero.
LEMMA SlotHeld ==
  ASSUME Shapes, Slots, NEW a \in Attempts, pc[a] \in Admitted
  PROVE  active \in 1..Capacity
<1> DEFINE Old == {b \in Attempts : pc[b] \in Admitted}
<1>1. IsFiniteSet(Old) /\ Old # {}
  BY AttemptsAssumption, FS_Subset
<1>2. Cardinality(Old) # 0
  BY <1>1, FS_EmptySet
<1> QED
  BY <1>2, CapacityAssumption DEF Slots

\* Every step of a run keeps the count of slots: a release never finds it zero.
LEMMA StepSlots ==
  ASSUME Shapes, Slots, NEW a \in Attempts, Claim(a) \/ RunStep(a) \/ Cancel(a)
  PROVE  Slots'
<1>0. active \in 0..Capacity /\ Capacity \in 1..3
  BY CapacityAssumption DEF Slots
<1>1. CASE Cancel(a)
  BY <1>1 DEF Cancel, Slots
<1>2. CASE Claim(a)
  <2>1. Goto(a, "claimed") /\ pc[a] \notin Admitted /\ "claimed" \notin Admitted /\ active' = active
    BY <1>2 DEF Claim, Admitted
  <2> QED
    BY <2>1, <1>0, SlotsMoved
<1>3. CASE NeverRuns(a)
  <2>1. Goto(a, "done") /\ pc[a] \notin Admitted /\ "done" \notin Admitted /\ active' = active
    BY <1>3 DEF NeverRuns, Admitted
  <2> QED
    BY <2>1, <1>0, SlotsMoved
<1>4. CASE Admit(a)
  <2>1. CASE active < Capacity
    <3>1. PICK point \in {"prepare", "release"} : Goto(a, point)
      BY <1>4, <2>1, <1>0 DEF Admit
    <3>2. point \in Admitted /\ pc[a] \notin Admitted /\ active' = active + 1
      BY <1>4, <2>1, <1>0 DEF Admit, Admitted
    <3> QED
      BY <3>1, <3>2, <2>1, <1>0, SlotsMoved
  <2>2. CASE ~(active < Capacity)
    <3>1. Goto(a, "done") /\ pc[a] \notin Admitted /\ "done" \notin Admitted /\ active' = active
      BY <1>4, <2>2 DEF Admit, Admitted
    <3> QED
      BY <3>1, <1>0, SlotsMoved
  <2> QED
    BY <2>1, <2>2
<1>5. CASE Release(a)
  <2>1. Goto(a, "done") /\ pc[a] \in Admitted /\ "done" \notin Admitted /\ active' = active - 1
    BY <1>5 DEF Release, Admitted
  <2>2. active \in 1..Capacity
    BY <2>1, SlotHeld
  <2> QED
    BY <2>1, <2>2, <1>0, SlotsMoved
<1>6. CASE \/ Prepare(a) \/ CallRpc(a, "image", "publish") \/ Publish(a) \/ Read(a)
           \/ CallRpc(a, "evaluate", "cleanup") \/ Cleanup(a) \/ Discard(a)
  <2>1. pc[a] \in Admitted /\ active' = active
    BY <1>6 DEF Prepare, CallRpc, Publish, Read, Cleanup, Discard, Admitted
  <2>2. PICK point \in Admitted : Goto(a, point)
    BY <1>6 DEF Prepare, CallRpc, Publish, Read, Cleanup, Discard, Continue, Abort, Admitted
  <2> QED
    BY <2>1, <2>2, <1>0, SlotsMoved
<1> QED
  BY <1>1, <1>2, <1>3, <1>4, <1>5, <1>6 DEF RunStep

-----------------------------------------------------------------------------
\* The inductive invariant of the admission and of the files of every run.
IInv == Shapes /\ Files /\ Slots

\* Before the first run there is no file and every slot is free.
LEMMA InitIInv == Init => IInv
<1> SUFFICES ASSUME Init PROVE IInv
  OBVIOUS
<1>1. Shapes /\ Files
  BY DEF Init, Shapes, Files, FilesAt
<1>2. {b \in Attempts : pc[b] \in Admitted} = {}
  BY DEF Init, Admitted
<1>3. Slots
  BY <1>2, FS_EmptySet, CapacityAssumption DEF Slots, Init
<1> QED
  BY <1>1, <1>3 DEF IInv

\* Every reachable state of any number of concurrent runs satisfies IInv.
THEOREM RunsInvariant == Spec => []IInv
<1>1. IInv /\ [Next]_vars => IInv'
  <2> SUFFICES ASSUME IInv, [Next]_vars PROVE IInv'
    OBVIOUS
  <2>1. CASE Next
    BY <2>1, StepShapes, StepSlots DEF Next, IInv
  <2>2. CASE UNCHANGED vars
    BY <2>2 DEF IInv, Shapes, Files, FilesAt, Slots, vars
  <2> QED
    BY <2>1, <2>2
<1> QED
  BY <1>1, InitIInv, PTL DEF Spec

\* PiAIPipeline keeps its types, and the counter of _ProcessAdmission stays
\* between zero and the capacity, for every capacity and set of attempts.
THEOREM RunsTyped == Spec => []TypeOK
<1>1. IInv => TypeOK
  BY DEF IInv, Shapes, Slots, TypeOK
<1> QED
  BY <1>1, RunsInvariant, PTL

\* The slots in use are the attempts between try_acquire and release: none is
\* leaked and none is given back twice.
THEOREM SlotsAreCounted == Spec => []SlotsCounted
<1>1. IInv => SlotsCounted
  BY DEF IInv, Slots, SlotsCounted
<1> QED
  BY <1>1, RunsInvariant, PTL

\* A run that is over leaves no workspace, and a picture exactly when it
\* succeeded, however many cancellations its cleanup had to absorb.
THEOREM RunsEndClean == Spec => []EndedClean
<1>1. IInv => EndedClean
  BY DEF IInv, Files, FilesAt, EndedClean
<1> QED
  BY <1>1, RunsInvariant, PTL

=============================================================================
