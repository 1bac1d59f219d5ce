--------------------------- MODULE BenchSemProofs ---------------------------
(***************************************************************************)
(* Proofs about bench_sem for every set of fibres: the inductive invariant *)
(* IInv, the safety invariants it implies, and the refinement of the       *)
(* safety part of HandoffSem.                                              *)
(***************************************************************************)
EXTENDS BenchSem, TLAPS

\* What post() holds in its local: never "ready", and once it has swapped a
\* fibre out, that fibre is the semaphore's owner.
PostLocals ==
  \A f \in Fibres :
    /\ At(f, "pcas") => expected[f] \in {Null, target[f]}
    /\ At(f, "unpark") => expected[f] = target[f]

IInv ==
  /\ TypeOK
  /\ WordHoldsOwner
  /\ WaitSeesNoFibre
  /\ PostLocals
  /\ UnparkOnce
  /\ NoLostWakeup

USE Distinct DEF At, Go, Granted, Wakers, Labels

LEMMA InitIInv == Init => IInv
  BY DEF Init, IInv, TypeOK, WordHoldsOwner, WaitSeesNoFibre, PostLocals,
         UnparkOnce, NoLostWakeup

\* Every step of every fibre keeps the invariant (one step per action).
LEMMA StepIInv == IInv /\ [Next]_vars => IInv'
<1> SUFFICES ASSUME IInv, [Next]_vars PROVE IInv'
  OBVIOUS
<1> USE DEF IInv, TypeOK
<1>1. ASSUME NEW f \in Fibres, CallWait(f) PROVE IInv'
  BY <1>1 DEF CallWait, WordHoldsOwner, WaitSeesNoFibre, PostLocals, UnparkOnce, NoLostWakeup
<1>2. ASSUME NEW f \in Fibres, WaitLoad(f) PROVE IInv'
  BY <1>2 DEF WaitLoad, WordHoldsOwner, WaitSeesNoFibre, PostLocals, UnparkOnce, NoLostWakeup
<1>3. ASSUME NEW f \in Fibres, WaitCas(f) PROVE IInv'
  BY <1>3 DEF WaitCas, WordHoldsOwner, WaitSeesNoFibre, PostLocals, UnparkOnce, NoLostWakeup
<1>4. ASSUME NEW f \in Fibres, Park(f) PROVE IInv'
  BY <1>4 DEF Park, WordHoldsOwner, WaitSeesNoFibre, PostLocals, UnparkOnce, NoLostWakeup
<1>5. ASSUME NEW f \in Fibres, NEW g \in Fibres, CallPost(f, g) PROVE IInv'
  BY <1>5 DEF CallPost, WordHoldsOwner, WaitSeesNoFibre, PostLocals, UnparkOnce, NoLostWakeup
<1>6. ASSUME NEW f \in Fibres, PostLoad(f) PROVE IInv'
  BY <1>6 DEF PostLoad, WordHoldsOwner, WaitSeesNoFibre, PostLocals, UnparkOnce, NoLostWakeup
<1>7. ASSUME NEW f \in Fibres, PostCas(f) PROVE IInv'
  BY <1>7 DEF PostCas, WordHoldsOwner, WaitSeesNoFibre, PostLocals, UnparkOnce, NoLostWakeup
<1>8. ASSUME NEW f \in Fibres, Unpark(f) PROVE IInv'
  BY <1>8 DEF Unpark, WordHoldsOwner, WaitSeesNoFibre, PostLocals, UnparkOnce, NoLostWakeup
<1>9. CASE UNCHANGED vars
  BY <1>9 DEF vars, WordHoldsOwner, WaitSeesNoFibre, PostLocals, UnparkOnce, NoLostWakeup
<1>10. QED
  BY <1>1, <1>2, <1>3, <1>4, <1>5, <1>6, <1>7, <1>8, <1>9 DEF Next, Step

LEMMA IInvAlways == Spec => []IInv
  BY InitIInv, StepIInv, PTL DEF Spec

\* The values bench_sem keeps stay in their sets: in particular a fibre is never
\* owed two unparks (token is 0 or 1).
THEOREM TypeCorrect == Spec => []TypeOK
<1>1. IInv => TypeOK
  BY DEF IInv
<1>2. QED
  BY <1>1, IInvAlways, PTL

\* No wake-up is lost, however many fibres post and wait.
THEOREM WakeupsArrive == Spec => []NoLostWakeup
<1>1. IInv => NoLostWakeup
  BY DEF IInv
<1>2. QED
  BY <1>1, IInvAlways, PTL

\* Park and unpark always match one to one.
THEOREM UnparksMatch == Spec => []UnparkOnce
<1>1. IInv => UnparkOnce
  BY DEF IInv
<1>2. QED
  BY <1>1, IInvAlways, PTL

\* The assertion in wait() holds, and its second swap cannot fail.
THEOREM WaitAssertionHolds == Spec => []WaitSeesNoFibre
<1>1. IInv => WaitSeesNoFibre
  BY DEF IInv
<1>2. QED
  BY <1>1, IInvAlways, PTL

\* A semaphore never holds a fibre other than its owner, nor its owner before wait()
\* has come to the park.
THEOREM WordIsOwners == Spec => []WordHoldsOwner
<1>1. IInv => WordHoldsOwner
  BY DEF IInv
<1>2. QED
  BY <1>1, IInvAlways, PTL

\* The safety part of the refinement: each step of the code is a step of the
\* hand-off semaphore, or changes nothing it can see.
THEOREM RefinesHandoff == Spec => Handoff!Init /\ [][Handoff!Next]_(Handoff!vars)
<1>1. Init => Handoff!Init
  <2> SUFFICES ASSUME Init PROVE Handoff!Init
    OBVIOUS
  <2>1. \A f \in Fibres : ptr[f] # Ready /\ ptr[f] # f /\ ~At(f, "park")
    BY DEF Init
  <2>2. QED
    BY <2>1 DEF Handoff!Init
<1>2. IInv /\ [Next]_vars => [Handoff!Next]_(Handoff!vars)
  <2> DEFINE HStep == Handoff!Next \/ UNCHANGED Handoff!vars
  <2> SUFFICES ASSUME IInv, [Next]_vars PROVE HStep
    OBVIOUS
  <2> USE DEF IInv, TypeOK, Handoff!vars
  <2>1. ASSUME NEW f \in Fibres, WaitCas(f) PROVE HStep
    <3>1. At(f, "wcas") /\ ptr[f] # f
      BY <2>1 DEF WaitCas, WordHoldsOwner
    <3>2. CASE ptr[f] = expected[f] /\ expected[f] = Ready
      <4>1. ptr' = [ptr EXCEPT ![f] = Null] /\ pc' = [pc EXCEPT ![f] = "run"]
        BY <2>1, <3>2 DEF WaitCas
      <4>2. \A h \in Fibres :
                /\ ptr'[h] = h <=> ptr[h] = h
                /\ ptr'[h] = Ready <=> h # f /\ ptr[h] = Ready
                /\ At(h, "park")' <=> At(h, "park")
        BY <3>1, <3>2, <4>1
      <4>3. Handoff!Pass(f)
        BY <3>1, <3>2, <4>2 DEF Handoff!Pass
      <4>4. QED
        BY <4>3 DEF Handoff!Next
    <3>3. CASE ptr[f] = expected[f] /\ expected[f] # Ready
      <4>1. ptr' = [ptr EXCEPT ![f] = f] /\ pc' = [pc EXCEPT ![f] = "park"]
        BY <2>1, <3>3 DEF WaitCas
      <4>2. \A h \in Fibres :
                /\ ptr'[h] = h <=> h = f \/ ptr[h] = h
                /\ ptr'[h] = Ready <=> ptr[h] = Ready
                /\ At(h, "park")' <=> h = f \/ At(h, "park")
        BY <3>1, <3>3, <4>1
      <4>3. Handoff!Block(f)
        BY <3>1, <3>3, <4>2 DEF Handoff!Block
      <4>4. QED
        BY <4>3 DEF Handoff!Next
    <3>4. CASE ptr[f] # expected[f]
      BY <2>1, <3>1, <3>4 DEF WaitCas
    <3>5. QED
      BY <3>2, <3>3, <3>4
  <2>2. ASSUME NEW f \in Fibres, Park(f) PROVE HStep
    <3>1. ptr[f] # f
      BY <2>2 DEF Park, UnparkOnce
    <3>2. Handoff!Resume(f)
      BY <2>2, <3>1 DEF Park, Handoff!Resume
    <3>3. QED
      BY <3>2 DEF Handoff!Next
  <2>3. ASSUME NEW f \in Fibres, PostCas(f) PROVE HStep
    <3>1. PICK g \in Fibres : g = target[f] /\ At(f, "pcas")
      BY <2>3 DEF PostCas
    <3>2. CASE ptr[g] = expected[f] /\ expected[f] = Null
      <4>1. ptr' = [ptr EXCEPT ![g] = Ready] /\ pc' = [pc EXCEPT ![f] = "run"]
        BY <2>3, <3>1, <3>2 DEF PostCas
      <4>2. \A h \in Fibres :
                /\ ptr'[h] = h <=> ptr[h] = h
                /\ ptr'[h] = Ready <=> h = g \/ ptr[h] = Ready
                /\ At(h, "park")' <=> At(h, "park")
        BY <3>1, <3>2, <4>1
      <4>3. Handoff!Remember(g)
        BY <3>1, <3>2, <4>2 DEF Handoff!Remember
      <4>4. QED
        BY <3>1, <4>3 DEF Handoff!Next
    <3>3. CASE ptr[g] = expected[f] /\ expected[f] # Null
      <4>1. ptr' = [ptr EXCEPT ![g] = Null] /\ pc' = [pc EXCEPT ![f] = "unpark"]
        BY <2>3, <3>1, <3>3 DEF PostCas
      <4>2. ptr[g] = g /\ At(g, "park")
        BY <3>1, <3>3 DEF PostLocals, WordHoldsOwner
      <4>3. \A h \in Fibres :
                /\ ptr'[h] = h <=> h # g /\ ptr[h] = h
                /\ ptr'[h] = Ready <=> ptr[h] = Ready
                /\ At(h, "park")' <=> At(h, "park")
        BY <3>1, <4>1, <4>2
      <4>4. Handoff!Grant(g)
        <5>1. {h \in Fibres : ptr'[h] = Ready} = {h \in Fibres : ptr[h] = Ready}
          BY <4>3
        <5>2. ptr'[g] # g /\ At(g, "park")'
          BY <4>2, <4>3
        <5> DEFINE owner == [h \in Fibres |-> IF ptr[h] = h THEN "waiting"
                                             ELSE IF At(h, "park") THEN "granted" ELSE "out"]
        <5>3. owner[g] = "waiting"
          BY <4>2
        <5>4. owner' = [owner EXCEPT ![g] = "granted"]
          BY <4>2, <4>3, <5>2
        <5> HIDE DEF At
        <5>5. QED
          BY <5>1, <5>3, <5>4 DEF Handoff!Grant
      <4>5. QED
        BY <3>1, <4>4 DEF Handoff!Next
    <3>4. CASE ptr[g] # expected[f]
      BY <2>3, <3>1, <3>4 DEF PostCas
    <3>5. QED
      BY <3>2, <3>3, <3>4
  <2>4. ASSUME NEW f \in Fibres,
               \/ CallWait(f) \/ WaitLoad(f) \/ PostLoad(f) \/ Unpark(f)
               \/ \E g \in Fibres : CallPost(f, g)
        PROVE  HStep
    BY <2>4 DEF CallWait, WaitLoad, PostLoad, Unpark, CallPost
  <2>5. CASE UNCHANGED vars
    BY <2>5 DEF vars
  <2> HIDE DEF HStep, IInv, TypeOK, Handoff!vars
  <2>6. QED
    BY <2>1, <2>2, <2>3, <2>4, <2>5 DEF Next, Step
<1>3. QED
  BY <1>1, <1>2, IInvAlways, PTL DEF Spec
=============================================================================
