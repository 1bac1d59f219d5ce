-------------------------- MODULE LocalityDataProofs --------------------------
(***************************************************************************)
(* More proofs about the locality benchmark, on top of the exclusive seats *)
(* of LocalityProofs: the arrays that sitters are given have one owner     *)
(* each, threads_left is bounded by the seats nobody has used and by the   *)
(* processors in excess, and that bound is where a run can stand still.    *)
(***************************************************************************)
EXTENDS LocalityProofs

\* Who leaves, threads_left counts.
Gone == {t \in Threads : pc[t] \in {"send", "done"}}
LeftIsExact == threads_left = ActiveThreads - Cardinality(Gone)

\* Main has not stopped the run as long as it waits for its end.
MainPhase == ~stop => mpc \in {"start", "wait", "stop"}

CInv == WInv /\ EInv /\ MainPhase /\ LeftIsExact

\* What a step does to a thread: its own actions, and that of main receiving its result.
ThreadStep(t) ==
  \/ \E s \in Spots : FindClosed(t, s) \/ Take(t, s)
  \/ Give(t) \/ PostVictim(t) \/ Sit(t) \/ Check(t) \/ Exit(t)
  \/ ~Releasing /\ AwaitPost(t)
  \/ Releasing /\ (AwaitBarrier(t) \/ Collect(t))

\* Every step is one of the actions.
LEMMA Actions ==
  [Next]_vars =>
    \/ \E t \in Threads : ThreadStep(t)
    \/ ~Releasing /\ (StartPost \/ ShutPost)
    \/ Releasing /\ (OpenBarrier \/ Release \/ ReleasePost)
    \/ Poll \/ Stop \/ Join \/ UNCHANGED vars
  BY DEF ThreadStep, Next, Main, Thread, Ended, Put, Picks, Releasing,
     FibreThread, PthreadThread, CfaThread, GoThread, TokioThread,
     FibreMain, PthreadMain, CfaMain, GoMain, TokioMain
-----------------------------------------------------------------------------
(* The count of the threads that may leave *)

LEMMA InitCInv == Init => CInv
<1> SUFFICES ASSUME Init PROVE CInv
  OBVIOUS
<1>1. MainPhase
  BY DEF Init, MainPhase
<1>2. Gone = {}
  BY DEF Init, Gone
<1>3. ActiveThreads \in Int
  BY ProcsCounted DEF Init
<1>4. LeftIsExact
  BY <1>2, <1>3, FS_EmptySet DEF Init, LeftIsExact
<1>5. QED
  BY <1>1, <1>4, InitWInv, InitEInv DEF CInv

LEMMA PhaseKept == CInv /\ [Next]_vars => MainPhase'
<1> SUFFICES ASSUME CInv, [Next]_vars PROVE MainPhase'
  OBVIOUS
<1> USE DEF CInv, WInv, TypeOK, MainPhase, setup, spotvars, mainvars, threadvars
<1>1. CASE Stop \/ StartPost \/ ShutPost
  BY <1>1 DEF Stop, StartPost, ShutPost
<1>2. CASE OpenBarrier \/ Release \/ ReleasePost \/ Poll \/ Join
  BY <1>2 DEF OpenBarrier, Release, ReleasePost, Poll, Join
<1>3. ASSUME NEW t \in Threads, Collect(t) PROVE MainPhase'
  BY <1>3 DEF Collect
<1>4. ASSUME NEW t \in Threads,
             \/ \E s \in Spots : FindClosed(t, s) \/ Take(t, s)
             \/ Give(t) \/ PostVictim(t) \/ Sit(t) \/ Check(t) \/ Exit(t)
             \/ AwaitPost(t) \/ AwaitBarrier(t)
      PROVE  MainPhase'
  BY <1>4 DEF FindClosed, Take, Give, PostVictim, Sit, Check, Exit, AwaitPost, AwaitBarrier
<1>5. CASE UNCHANGED vars
  BY <1>5 DEF vars
<1> HIDE DEF CInv, WInv, TypeOK, MainPhase, setup, spotvars, mainvars, threadvars
<1>6. QED
  BY <1>1, <1>2, <1>3, <1>4, <1>5, Actions DEF ThreadStep

\* A post moves no thread into or out of the end of its function.
LEMMA PostMoves ==
  ASSUME NEW u \in Threads, NEW pcs \in [Threads -> Labels], Post(u, pcs)
  PROVE  \A t \in Threads : pc'[t] \in {"send", "done"} <=> pcs[t] \in {"send", "done"}
  BY DEF Post, Asleep

LEMMA LeftKept == CInv /\ [Next]_vars => LeftIsExact'
<1> SUFFICES ASSUME CInv, [Next]_vars PROVE LeftIsExact'
  OBVIOUS
<1> USE DEF CInv, WInv, TypeOK, setup, spotvars, mainvars, threadvars
<1>1. ActiveThreads \in Int /\ ActiveThreads' = ActiveThreads
  <2>1. prog' = prog /\ nprocs' = nprocs
    BY Actions DEF ThreadStep, FindClosed, Take, Give, PostVictim, Sit, Check, Exit,
       AwaitPost, AwaitBarrier, Collect, StartPost, ShutPost, OpenBarrier, Release,
       ReleasePost, Poll, Stop, Join, vars
  <2>2. QED
    BY <2>1, ProcsCounted DEF ActiveThreads, CountsProcs
<1>2. IsFiniteSet(Gone)
  <2>1. IsFiniteSet(Threads)
    BY Ranges, FS_Interval DEF Threads
  <2>2. QED
    BY <2>1, FS_Subset DEF Gone
<1>3. SUFFICES ASSUME ~(\E t \in Threads : Exit(t)) PROVE Gone' = Gone /\ threads_left' = threads_left
  <2>1. ASSUME NEW t \in Threads, Exit(t) PROVE LeftIsExact'
    <3>1. Gone' = Gone \cup {t} /\ t \notin Gone /\ threads_left' = threads_left - 1
      BY <2>1 DEF Exit, Gone
    <3>2. Cardinality(Gone') = Cardinality(Gone) + 1 /\ Cardinality(Gone) \in Nat
      BY <1>2, <3>1, FS_AddElement, FS_CardinalityType
    <3>3. QED
      BY <1>1, <3>1, <3>2 DEF LeftIsExact
  <2>2. ASSUME Gone' = Gone, threads_left' = threads_left PROVE LeftIsExact'
    BY <1>1, <2>2 DEF LeftIsExact
  <2>3. QED
    BY <2>1, <2>2
<1>4. ASSUME NEW t \in Threads,
             \/ \E s \in Spots : FindClosed(t, s) \/ Take(t, s)
             \/ Give(t) \/ Check(t) \/ AwaitBarrier(t)
      PROVE  Gone' = Gone /\ threads_left' = threads_left
  BY <1>4 DEF FindClosed, Take, Give, Check, AwaitBarrier, Gone
<1>5. ASSUME NEW t \in Threads, Sit(t) \/ AwaitPost(t)
      PROVE  Gone' = Gone /\ threads_left' = threads_left
  BY <1>5 DEF Sit, AwaitPost, Wait, Gone
<1>6. ASSUME NEW t \in Threads, PostVictim(t)
      PROVE  Gone' = Gone /\ threads_left' = threads_left
  <2>1. /\ victim[t] \in Threads /\ pc[t] = "post"
        /\ [pc EXCEPT ![t] = "wait"] \in [Threads -> Labels]
    <3>1. victim[t] \in Threads /\ pc[t] = "post"
      BY <1>6, Markers DEF PostVictim, WakeInv, VictimInHand
    <3>2. [pc EXCEPT ![t] = "wait"] \in [Threads -> Labels]
      BY DEF Labels
    <3>3. QED
      BY <3>1, <3>2
  <2> DEFINE pcs == [pc EXCEPT ![t] = "wait"]
  <2>2. \A u \in Threads : pc'[u] \in {"send", "done"} <=> pc[u] \in {"send", "done"}
    <3>1. \A u \in Threads : pcs[u] \in {"send", "done"} <=> pc[u] \in {"send", "done"}
      BY <2>1
    <3>2. Post(victim[t], pcs)
      BY <1>6 DEF PostVictim
    <3> HIDE DEF pcs
    <3>3. QED
      BY <2>1, <3>1, <3>2, PostMoves DEF pcs
  <2>3. QED
    BY <1>6, <2>2 DEF PostVictim, Gone
<1>7. ASSUME NEW t \in Threads, Collect(t)
      PROVE  Gone' = Gone /\ threads_left' = threads_left
  BY <1>7 DEF Collect, Gone
<1>8. ASSUME StartPost \/ ShutPost \/ ReleasePost
      PROVE  Gone' = Gone /\ threads_left' = threads_left
  <2>1. \E u \in Threads : Post(u, pc)
    BY <1>8, Markers DEF StartPost, ShutPost, ReleasePost, MainIndex, WakeInv, MainVictimInHand
  <2>2. \A u \in Threads : pc'[u] \in {"send", "done"} <=> pc[u] \in {"send", "done"}
    BY <2>1, PostMoves
  <2>3. QED
    BY <1>8, <2>2 DEF StartPost, ShutPost, ReleasePost, Gone
<1>9. ASSUME OpenBarrier \/ Release \/ Poll \/ Stop \/ Join \/ UNCHANGED vars
      PROVE  Gone' = Gone /\ threads_left' = threads_left
  BY <1>9 DEF OpenBarrier, Release, Poll, Stop, Join, vars, Gone
<1> HIDE DEF CInv, WInv, TypeOK, setup, spotvars, mainvars, threadvars
<1>10. QED
  BY <1>3, <1>4, <1>5, <1>6, <1>7, <1>8, <1>9, Actions DEF ThreadStep

USE Markers DEF Asleep, InPut, Labels

LEMMA StepCInv == CInv /\ [Next]_vars => CInv'
  BY StepWInv, StepEInv, PhaseKept, LeftKept DEF CInv

LEMMA CInvAlways == Spec => []CInv
  BY InitCInv, StepCInv, PTL DEF Spec

LEMMA FiniteThreads ==
  /\ IsFiniteSet(Threads) /\ Cardinality(Threads) = NThreads
  /\ IsFiniteSet(Spots) /\ Cardinality(Spots) = NSpots
  /\ IsFiniteSet(Gone) /\ Cardinality(Gone) \in Nat /\ Gone \subseteq Threads
  /\ IsFiniteSet(Unused) /\ Cardinality(Unused) \in Nat /\ Unused \subseteq Spots
<1>1. /\ IsFiniteSet(Threads) /\ Cardinality(Threads) = NThreads
      /\ IsFiniteSet(Spots) /\ Cardinality(Spots) = NSpots
  BY Ranges, FS_Interval DEF Threads, Spots
<1>2. Gone \subseteq Threads /\ Unused \subseteq Spots
  BY DEF Gone, Unused
<1>3. QED
  BY <1>1, <1>2, FS_Subset, FS_CardinalityType

\* The spots in use, which hold a different thread each.
Used == Spots \ Unused

LEMMA UsedCounted == IsFiniteSet(Used) /\ Cardinality(Used) = NSpots - Cardinality(Unused)
<1>1. /\ Cardinality(Spots \ Unused) = Cardinality(Spots) - Cardinality(Spots \cap Unused)
      /\ IsFiniteSet(Spots \ Unused)
  BY FiniteThreads, FS_Difference
<1>2. Spots \cap Unused = Unused
  BY FiniteThreads
<1>3. QED
  BY <1>1, <1>2, FiniteThreads DEF Used

\* Nobody leaves a seat behind: the spots in use are no more than the threads still here.
LEMMA UsedByTheRest ==
  ASSUME CInv, Releasing \/ ~stop, \A s \in Spots : seat[s] # One
  PROVE  Cardinality(Used) <= NThreads - Cardinality(Gone)
<1> DEFINE Here == Threads \ Gone
           f == [s \in Used |-> seat[s]]
<1>1. \A s \in Used : seat[s] \in Here
  <2>1. \A s \in Used : seat[s] \in Threads /\ s \in SeatsOf(seat[s])
    BY DEF CInv, WInv, TypeOK, Used, Unused, SeatsOf
  <2>2. \A t \in Threads : SeatsOf(t) # {} => pc[t] \in InPut
    BY DEF CInv, EInv, SeatsExclusive, Claimed
  <2>3. \A t \in Threads : pc[t] \in InPut => t \notin Gone
    BY DEF Gone
  <2>4. QED
    BY <2>1, <2>2, <2>3
<1>2. f \in Injection(Used, Here)
  <2>1. \A r, s \in Used : seat[r] = seat[s] => r = s
    BY <1>1 DEF CInv, EInv, SeatsExclusive, SeatsOf, Used
  <2>2. QED
    BY <1>1, <2>1 DEF Injection, IsInjective
<1>3. IsFiniteSet(Here) /\ Cardinality(Here) = NThreads - Cardinality(Gone)
  <2>1. /\ Cardinality(Here) = Cardinality(Threads) - Cardinality(Threads \cap Gone)
        /\ IsFiniteSet(Here)
    BY FiniteThreads, FS_Difference
  <2>2. Threads \cap Gone = Gone
    BY FiniteThreads
  <2>3. QED
    BY <2>1, <2>2, FiniteThreads
<1> HIDE DEF Here, f
<1>4. QED
  BY <1>2, <1>3, UsedCounted, FS_Injection

\* What threads_left is, in terms of the excess of processors over threads without a spot.
LEMMA LeftInExcess ==
  ASSUME CInv
  PROVE  /\ threads_left = Excess + NThreads - NSpots - Cardinality(Gone)
         /\ Excess \in Int
  BY ProcsCounted, FiniteThreads, Ranges DEF CInv, WInv, TypeOK, LeftIsExact, Excess

\* threads_left passes zero by no more than the number of seats nobody has sat in, and stays
\* above it by what processors there are in excess: each thread in a seat is one that has
\* not left.
THEOREM LeftIsBounded == Spec => []LeftBoundedBySpots
<1>1. CInv => LeftBoundedBySpots
  <2> SUFFICES ASSUME CInv, ~stop PROVE threads_left >= Excess - Cardinality(Unused)
    BY DEF LeftBoundedBySpots
  <2>1. \A s \in Spots : seat[s] # One
    BY DEF CInv, MainPhase, WInv, SeatsClosed
  <2>2. QED
    BY <2>1, UsedByTheRest, UsedCounted, LeftInExcess, FiniteThreads, Ranges
<1>2. QED
  BY <1>1, CInvAlways, PTL
-----------------------------------------------------------------------------
(* The arrays.  With sharing, d[t] is a live array while t runs or has been *)
(* given one to wake up with, and held[t] while t is about to give it away. *)

Given(t) == \E u \in Threads : victim[u] = t /\ pc[u] = "post"
Holds(t) == pc[t] \notin InPut \/ sem[t] > 0 \/ Given(t)
Gives(t) == pc[t] = "give"

\* No two live arrays are the same.
Disjoint ==
  /\ \A t, u \in Threads : t # u /\ Holds(t) /\ Holds(u) => d[t] # d[u]
  /\ \A t, u \in Threads : t # u /\ Gives(t) /\ Gives(u) => held[t] # held[u]
  /\ \A t, u \in Threads : Gives(t) /\ Holds(u) => held[t] # d[u]

\* Without sharing everybody keeps the own array.
OwnArrays == ~share => \A t \in Threads : d[t] = t /\ held[t] = t

\* Only sharing threads give, and a goroutine or task that runs holds what its context says.
GivesShare == \A t \in Threads : Gives(t) => share
HeldIsOwn ==
  Releasing => \A t \in Threads : pc[t] \notin InPut \cup {"check"} => held[t] = d[t]

\* Once a timed run has been stopped nobody goes back to work, and nobody can reach those
\* who are still at their first round.
Fresh(t) == pc[t] \in {"start", "startasleep", "work"}
FreshAlone ==
  /\ \A t \in Threads : Fresh(t) => SeatsOf(t) = {} /\ WakersOf(t) = {}
  /\ \A t, u \in Threads : t # u /\ Fresh(t) /\ Fresh(u) => d[t] # d[u]

AInv ==
  /\ OwnArrays /\ GivesShare /\ HeldIsOwn
  /\ share /\ ~stop => Disjoint
  /\ clock_mode /\ stop => FreshAlone

LEMMA InitAInv == Init => AInv
<1> SUFFICES ASSUME Init PROVE AInv
  OBVIOUS
<1>1. \A t \in Threads : d[t] = t /\ held[t] = t /\ pc[t] = "start"
  BY DEF Init
<1>2. ~stop
  BY DEF Init
<1>3. QED
  BY <1>1, <1>2 DEF AInv, OwnArrays, GivesShare, HeldIsOwn, Gives, Disjoint

\* Live arrays stay apart in a step that makes none and moves none.
LEMMA QuietStep ==
  ASSUME Disjoint,
         \A t \in Threads : Holds(t)' => Holds(t) /\ d'[t] = d[t],
         \A t \in Threads : Gives(t)' => Gives(t) /\ held'[t] = held[t]
  PROVE  Disjoint'
  BY DEF Disjoint

\* The two steps that make and move live arrays.
LEMMA TakeKeepsApart ==
  ASSUME CInv, AInv, share, ~stop, NEW t \in Threads, NEW s \in Spots, Take(t, s)
  PROVE  Disjoint'
<1>1. /\ pc[t] = "work" /\ sem[t] = 0 /\ victim[t] = Null /\ SeatsOf(t) = {} /\ ~Given(t)
      /\ Holds(t) /\ Disjoint
  BY DEF Take, CInv, WInv, WakeInv, EInv, PostsSpent, SeatsExclusive, VictimInHand, Claimed,
     WakersOf, Given, Holds, AInv
<1>2. /\ d' = d /\ sem' = sem /\ pc \in [Threads -> Labels] /\ victim' = [victim EXCEPT ![t] = seat[s]]
      /\ victim \in [Threads -> Threads \cup {Null}] /\ held \in [Threads -> Threads]
      /\ pc' = [pc EXCEPT ![t] = IF seat[s] = Null THEN "wait" ELSE "give"]
  BY DEF Take, CInv, WInv, TypeOK, spotvars
<1>3. \A u \in Threads : u # t => held'[u] = held[u]
  BY <1>2 DEF Take
<1>4. Gives(t)' => held'[t] = d[t]
  <2>1. CASE Releasing
    BY <1>1, <1>2, <2>1 DEF Take, AInv, HeldIsOwn
  <2>2. CASE ~Releasing
    BY <1>1, <1>2, <2>2 DEF Take, Gives
  <2>3. QED
    BY <2>1, <2>2
<1>5. seat[s] # t
  BY <1>1 DEF SeatsOf
<1>6. \A u \in Threads : Given(u)' => Given(u)
  BY <1>2 DEF Given
<1>7. ~Holds(t)'
  BY <1>1, <1>2, <1>6 DEF Holds
<1>8. \A u \in Threads : Holds(u)' => Holds(u) /\ u # t
  BY <1>1, <1>2, <1>6, <1>7 DEF Holds
<1>9. \A u \in Threads : Gives(u)' => u = t \/ Gives(u)
  BY <1>2 DEF Gives
<1>10. ~Gives(t)
  BY <1>1 DEF Gives
<1>11. QED
  BY <1>1, <1>2, <1>3, <1>4, <1>8, <1>9, <1>10 DEF Disjoint

LEMMA GiveKeepsApart ==
  ASSUME CInv, AInv, share, ~stop, NEW t \in Threads, Give(t)
  PROVE  Disjoint'
<1> DEFINE v == victim[t]
<1>1. /\ Gives(t) /\ Disjoint /\ v \in Threads /\ d \in [Threads -> Threads]
      /\ pc \in [Threads -> Labels] /\ held \in [Threads -> Threads]
  BY DEF Give, CInv, WInv, TypeOK, WakeInv, VictimInHand, Gives, AInv
<1>2. ~Holds(v)
  <2>1. Claimed(v) /\ t \in WakersOf(v)
    BY <1>1 DEF Claimed, WakersOf
  <2>2. pc[v] \in InPut /\ sem[v] = 0 /\ \A u \in WakersOf(v) : u = t
    BY <1>1, <2>1 DEF CInv, EInv, SeatsExclusive
  <2>3. QED
    BY <1>1, <2>2 DEF Holds, Given, WakersOf, Gives
<1>3. /\ d' = [d EXCEPT ![v] = held[t]] /\ sem' = sem /\ victim' = victim
      /\ pc' = [pc EXCEPT ![t] = "post"]
      /\ \A u \in Threads : u # t => held'[u] = held[u]
  BY <1>1 DEF Give
<1>4. \A u \in Threads : Given(u)' => u = v \/ Given(u)
  BY <1>1, <1>3 DEF Given
<1>5. \A u \in Threads : Holds(u)' => u = v \/ (Holds(u) /\ d'[u] = d[u])
  BY <1>1, <1>3, <1>4 DEF Holds, Gives
<1>6. \A u \in Threads : Gives(u)' => u # t /\ Gives(u) /\ held'[u] = held[u]
  BY <1>1, <1>3 DEF Gives
<1>7. d'[v] = held[t]
  BY <1>1, <1>3
<1> HIDE DEF v
<1>8. QED
  BY <1>1, <1>2, <1>5, <1>6, <1>7 DEF Disjoint

\* A post to somebody who was given an array, or is at the start, makes no array live.
LEMMA PostIsQuiet ==
  ASSUME CInv, NEW u \in Threads, Holds(u), NEW pcs \in [Threads -> Labels],
         \A t \in Threads : pcs[t] \notin InPut <=> pc[t] \notin InPut,
         Post(u, pcs), \A t \in Threads : Given(t)' => Given(t)
  PROVE  \A t \in Threads : Holds(t)' => Holds(t)
<1>1. sem \in [Threads -> Nat]
  BY DEF CInv, WInv, TypeOK
<1>2. \A t \in Threads : t # u => sem'[t] = sem[t] /\ (pc'[t] \notin InPut <=> pc[t] \notin InPut)
  BY <1>1 DEF Post
<1>3. QED
  BY <1>2 DEF Holds

LEMMA DisjointKept == CInv /\ AInv /\ [Next]_vars => (share' /\ ~stop' => Disjoint')
<1> SUFFICES ASSUME CInv, AInv, [Next]_vars, share', ~stop' PROVE Disjoint'
  OBVIOUS
<1>1. share /\ ~stop /\ Disjoint
  <2>1. \/ Stop
        \/ UNCHANGED <<share, stop>>
    BY Actions DEF ThreadStep, FindClosed, Take, Give, PostVictim, Sit, Check, Exit,
       AwaitPost, AwaitBarrier, Collect, StartPost, ShutPost, OpenBarrier, Release,
       ReleasePost, Poll, Join, vars, setup, mainvars, threadvars
  <2>2. ~Stop
    BY DEF Stop
  <2>3. share
    BY <2>1, <2>2
  <2>4. ~stop
    BY <2>1, <2>2
  <2>5. QED
    BY <2>3, <2>4 DEF AInv
<1> USE DEF setup, spotvars, mainvars, threadvars
<1>2. /\ pc \in [Threads -> Labels] /\ sem \in [Threads -> Nat]
      /\ d \in [Threads -> Threads] /\ held \in [Threads -> Threads]
      /\ victim \in [Threads -> Threads \cup {Null}]
  BY DEF CInv, WInv, TypeOK
<1>3. ASSUME NEW t \in Threads, NEW s \in Spots, FindClosed(t, s) \/ Take(t, s) PROVE Disjoint'
  <2>1. CASE FindClosed(t, s)
    <3>1. \A u \in Threads : (Holds(u)' => Holds(u)) /\ (Gives(u)' => Gives(u))
      BY <1>2, <2>1 DEF FindClosed, Holds, Given, Gives
    <3>2. QED
      BY <1>1, <2>1, <3>1, QuietStep DEF FindClosed
  <2>2. QED
    BY <1>1, <1>3, <2>1, TakeKeepsApart
<1>4. ASSUME NEW t \in Threads, Give(t) PROVE Disjoint'
  BY <1>1, <1>4, GiveKeepsApart
<1>5. ASSUME NEW t \in Threads, PostVictim(t) PROVE Disjoint'
  <2> DEFINE v == victim[t]
             pcs == [pc EXCEPT ![t] = "wait"]
  <2>1. /\ v \in Threads /\ Holds(v) /\ pcs \in [Threads -> Labels]
        /\ \A u \in Threads : pcs[u] \notin InPut <=> pc[u] \notin InPut
        /\ \A u \in Threads : pcs[u] = "give" <=> pc[u] = "give"
        /\ \A u \in Threads : pcs[u] = "post" => u # t /\ pc[u] = "post"
    BY <1>2, <1>5 DEF PostVictim, CInv, WInv, WakeInv, VictimInHand, Holds, Given
  <2>2. Post(v, pcs) /\ victim' = [victim EXCEPT ![t] = Null] /\ d' = d /\ held' = held
    BY <1>5 DEF PostVictim
  <2> HIDE DEF v, pcs
  <2>3. \A u \in Threads : pc'[u] \in {"post", "give"} <=> pcs[u] \in {"post", "give"}
    BY <2>1, <2>2 DEF Post
  <2>4. \A u \in Threads : pc'[u] = pcs[u] \/ pc'[u] \in {"check", "work"}
    BY <2>1, <2>2 DEF Post
  <2>5. \A u \in Threads : Given(u)' => Given(u)
    BY <1>2, <2>1, <2>2, <2>3, <2>4 DEF Given
  <2>6. \A u \in Threads : Holds(u)' => Holds(u)
    BY <2>1, <2>2, <2>5, PostIsQuiet
  <2>7. \A u \in Threads : Gives(u)' => Gives(u)
    BY <2>1, <2>4 DEF Gives
  <2>8. QED
    BY <1>1, <2>2, <2>6, <2>7, QuietStep
<1>6. ASSUME NEW t \in Threads, Sit(t) \/ AwaitPost(t) PROVE Disjoint'
  <2>1. \A u \in Threads : Given(u)' => Given(u)
    BY <1>2, <1>6 DEF Sit, AwaitPost, Wait, Given
  <2>2. \A u \in Threads : (Holds(u)' => Holds(u)) /\ (Gives(u)' => Gives(u))
    BY <1>2, <1>6, <2>1 DEF Sit, AwaitPost, Wait, Holds, Gives
  <2>3. QED
    BY <1>1, <1>6, <2>2, QuietStep DEF Sit, AwaitPost
<1>7. ASSUME NEW t \in Threads, AwaitBarrier(t) \/ Exit(t) \/ Collect(t) PROVE Disjoint'
  <2>1. \A u \in Threads : (Holds(u)' => Holds(u)) /\ (Gives(u)' => Gives(u))
    BY <1>2, <1>7 DEF AwaitBarrier, Exit, Collect, Holds, Given, Gives
  <2>2. QED
    BY <1>1, <1>7, <2>1, QuietStep DEF AwaitBarrier, Exit, Collect
<1>8. ASSUME NEW t \in Threads, Check(t) PROVE Disjoint'
  <2>1. \A u \in Threads : Holds(u)' => Holds(u)
    BY <1>2, <1>8 DEF Check, Holds, Given
  <2>2. \A u \in Threads : Gives(u)' => Gives(u) /\ held'[u] = held[u]
    BY <1>2, <1>8 DEF Check, Gives
  <2>3. QED
    BY <1>1, <1>8, <2>1, <2>2, QuietStep DEF Check
<1>9. ASSUME StartPost, ~Releasing PROVE Disjoint'
  <2>1. mi \in Threads /\ Holds(mi) /\ Post(mi, pc)
    BY <1>1, <1>9 DEF StartPost, CInv, WInv, MainIndex, EInv, StartPosts, Holds
  <2>2. \A u \in Threads : (Given(u)' => Given(u)) /\ (Gives(u)' => Gives(u))
    BY <1>2, <1>9, <2>1 DEF StartPost, Post, Given, Gives
  <2>3. \A u \in Threads : Holds(u)' => Holds(u)
    BY <1>2, <2>1, <2>2, PostIsQuiet
  <2>4. QED
    BY <1>1, <1>9, <2>2, <2>3, QuietStep DEF StartPost
<1>10. ASSUME OpenBarrier \/ Poll \/ Stop \/ Join \/ UNCHANGED vars PROVE Disjoint'
  <2>1. UNCHANGED <<pc, sem, victim, d, held>>
    BY <1>10 DEF OpenBarrier, Poll, Stop, Join, vars
  <2>2. \A u \in Threads : (Holds(u)' => Holds(u)) /\ (Gives(u)' => Gives(u))
    BY <2>1 DEF Holds, Given, Gives
  <2>3. QED
    BY <1>1, <2>1, <2>2, QuietStep
<1>11. ~(Releasing /\ (Release \/ ReleasePost)) /\ ~(~Releasing /\ ShutPost)
  BY <1>1 DEF Release, ReleasePost, ShutPost, CInv, MainPhase
<1> HIDE DEF setup, spotvars, mainvars, threadvars
<1>12. QED
  BY <1>3, <1>4, <1>5, <1>6, <1>7, <1>8, <1>9, <1>10, <1>11, Actions DEF ThreadStep

\* Without sharing no array moves, and nobody but a sharing thread gives.
LEMMA OwnKept == CInv /\ AInv /\ [Next]_vars => OwnArrays' /\ GivesShare' /\ HeldIsOwn'
<1> SUFFICES ASSUME CInv, AInv, [Next]_vars PROVE OwnArrays' /\ GivesShare' /\ HeldIsOwn'
  OBVIOUS
<1>1. /\ pc \in [Threads -> Labels] /\ d \in [Threads -> Threads] /\ held \in [Threads -> Threads]
      /\ victim \in [Threads -> Threads \cup {Null}]
  BY DEF CInv, WInv, TypeOK
<1> USE DEF OwnArrays, GivesShare, HeldIsOwn, Gives, Releasing, setup, spotvars, threadvars
<1>2. ASSUME NEW t \in Threads, NEW s \in Spots, FindClosed(t, s) \/ Take(t, s)
      PROVE  OwnArrays' /\ GivesShare' /\ HeldIsOwn'
  BY <1>1, <1>2 DEF FindClosed, Take, AInv
<1>3. ASSUME NEW t \in Threads, Give(t) PROVE OwnArrays' /\ GivesShare' /\ HeldIsOwn'
  <2>1. victim[t] \in Threads /\ share
    <3>1. victim[t] \in Threads
      BY <1>1, <1>3 DEF Give, CInv, WInv, WakeInv, VictimInHand
    <3>2. share
      BY <1>3 DEF Give, AInv
    <3>3. QED
      BY <3>1, <3>2
  <2>2. CASE ~Releasing
    BY <1>1, <1>3, <2>1, <2>2 DEF Give, AInv
  <2>3. CASE Releasing
    <3>1. pc[victim[t]] \in InPut
      BY <2>1, <2>3 DEF CInv, EInv, SeatsExclusive, Claimed, WakersOf
    <3>2. QED
      BY <1>1, <1>3, <2>1, <2>3, <3>1 DEF Give, AInv
  <2>4. QED
    BY <2>2, <2>3
<1>4. ASSUME NEW t \in Threads, Sit(t) \/ AwaitPost(t) \/ AwaitBarrier(t) \/ Exit(t) \/ Collect(t)
      PROVE  OwnArrays' /\ GivesShare' /\ HeldIsOwn'
  BY <1>1, <1>4 DEF Sit, AwaitPost, Wait, AwaitBarrier, Exit, Collect, AInv
<1>5. ASSUME NEW t \in Threads, Check(t) PROVE OwnArrays' /\ GivesShare' /\ HeldIsOwn'
  BY <1>1, <1>5 DEF Check, AInv
<1>6. ASSUME NEW u \in Threads, NEW pcs \in [Threads -> Labels],
             \A t \in Threads : pcs[t] = pc[t] \/ (pc[t] = "post" /\ pcs[t] = "wait"),
             Post(u, pcs), UNCHANGED <<d, held, prog, share>>
      PROVE  OwnArrays' /\ GivesShare' /\ HeldIsOwn'
  <2>1. \A t \in Threads : \/ pc'[t] = pcs[t] \/ pc'[t] = "check"
                           \/ pcs[t] = "startasleep" /\ pc'[t] = "work"
    BY <1>6 DEF Post
  <2>2. QED
    BY <1>1, <1>6, <2>1 DEF AInv
<1>7. ASSUME NEW t \in Threads, PostVictim(t) PROVE OwnArrays' /\ GivesShare' /\ HeldIsOwn'
  <2> DEFINE pcs == [pc EXCEPT ![t] = "wait"]
  <2>1. /\ victim[t] \in Threads /\ pcs \in [Threads -> Labels]
        /\ \A u \in Threads : pcs[u] = pc[u] \/ (pc[u] = "post" /\ pcs[u] = "wait")
    BY <1>1, <1>7 DEF PostVictim, CInv, WInv, WakeInv, VictimInHand
  <2>2. Post(victim[t], pcs) /\ UNCHANGED <<d, held, prog, share>>
    BY <1>7 DEF PostVictim
  <2> HIDE DEF pcs
  <2>3. QED
    BY <1>6, <2>1, <2>2
<1>8. ASSUME StartPost \/ ShutPost \/ ReleasePost PROVE OwnArrays' /\ GivesShare' /\ HeldIsOwn'
  <2>1. /\ \E u \in Threads : Post(u, pc)
        /\ UNCHANGED <<d, held, prog, share>>
    BY <1>8 DEF StartPost, ShutPost, ReleasePost, CInv, WInv, MainIndex, WakeInv, MainVictimInHand, TypeOK
  <2>2. PICK u \in Threads : Post(u, pc)
    BY <2>1
  <2> HIDE DEF OwnArrays, GivesShare, HeldIsOwn
  <2>3. QED
    BY <1>1, <1>6, <2>1, <2>2
<1>9. ASSUME OpenBarrier \/ Release \/ Poll \/ Stop \/ Join \/ UNCHANGED vars
      PROVE  OwnArrays' /\ GivesShare' /\ HeldIsOwn'
  BY <1>9 DEF OpenBarrier, Release, Poll, Stop, Join, vars, AInv
<1> HIDE DEF OwnArrays, GivesShare, HeldIsOwn, Gives, Releasing, setup, spotvars, threadvars
<1>10. QED
  BY <1>2, <1>3, <1>4, <1>5, <1>7, <1>8, <1>9, Actions DEF ThreadStep

\* Once a timed run has been stopped, no array of a thread at its first round changes.
LEMMA FreshKept == CInv /\ AInv /\ [Next]_vars => (clock_mode' /\ stop' => FreshAlone')
<1> SUFFICES ASSUME CInv, AInv, [Next]_vars, clock_mode', stop' PROVE FreshAlone'
  OBVIOUS
<1>1. /\ pc \in [Threads -> Labels] /\ d \in [Threads -> Threads]
      /\ seat \in [Spots -> Threads \cup {Null, One}]
      /\ victim \in [Threads -> Threads \cup {Null}]
  BY DEF CInv, WInv, TypeOK
<1> USE DEF setup, spotvars, mainvars, threadvars
<1>2. CASE Stop
  <2>1. CASE stop
    <3>1. FreshAlone
      BY <1>2, <2>1 DEF Stop, AInv
    <3>2. QED
      BY <1>2, <3>1 DEF Stop, FreshAlone, Fresh, SeatsOf, WakersOf
  <2>2. CASE ~stop
    <3>1. \A t \in Threads : Fresh(t) => SeatsOf(t) = {} /\ WakersOf(t) = {}
      BY <2>2 DEF CInv, EInv, SeatsExclusive, Claimed, Fresh
    <3>2. \A t, u \in Threads : t # u /\ Fresh(t) /\ Fresh(u) => d[t] # d[u]
      BY <2>2 DEF AInv, OwnArrays, Disjoint, Holds, Fresh
    <3>3. QED
      BY <1>2, <3>1, <3>2 DEF Stop, FreshAlone, Fresh, SeatsOf, WakersOf
  <2>3. QED
    BY <2>1, <2>2
<1>3. SUFFICES ASSUME ~Stop PROVE FreshAlone'
  BY <1>2
<1>4. clock_mode /\ stop /\ FreshAlone
  <2>1. UNCHANGED <<clock_mode, stop>>
    BY <1>3, Actions DEF ThreadStep, FindClosed, Take, Give, PostVictim, Sit, Check, Exit,
       AwaitPost, AwaitBarrier, Collect, StartPost, ShutPost, OpenBarrier, Release,
       ReleasePost, Poll, Join, vars
  <2>2. QED
    BY <2>1 DEF AInv
<1>5. ASSUME NEW t \in Threads, NEW s \in Spots, FindClosed(t, s) \/ Take(t, s) PROVE FreshAlone'
  <2>1. \A u \in Threads : Fresh(u)' => Fresh(u) /\ u # t
    BY <1>1, <1>5 DEF FindClosed, Take, Fresh
  <2>2. \A u \in Threads : Fresh(u)' => SeatsOf(u)' = {} /\ WakersOf(u)' = {}
    BY <1>1, <1>4, <1>5, <2>1 DEF FindClosed, Take, FreshAlone, SeatsOf, WakersOf
  <2>3. d' = d
    BY <1>5 DEF FindClosed, Take
  <2>4. QED
    BY <1>4, <2>1, <2>2, <2>3 DEF FreshAlone
<1>6. ASSUME NEW t \in Threads, Give(t) PROVE FreshAlone'
  <2>1. victim[t] \in Threads /\ ~Fresh(victim[t])
    BY <1>1, <1>4, <1>6 DEF Give, CInv, WInv, WakeInv, VictimInHand, FreshAlone, WakersOf
  <2>2. \A u \in Threads : Fresh(u)' => Fresh(u) /\ d'[u] = d[u]
    BY <1>1, <1>6, <2>1 DEF Give, Fresh
  <2>3. QED
    BY <1>4, <1>6, <2>2 DEF Give, FreshAlone, SeatsOf, WakersOf
<1>7. ASSUME NEW t \in Threads, Sit(t) \/ AwaitPost(t) \/ AwaitBarrier(t) \/ Exit(t) \/ Collect(t)
      PROVE  FreshAlone'
  <2>1. \A u \in Threads : Fresh(u)' => Fresh(u)
    BY <1>1, <1>7 DEF Sit, AwaitPost, Wait, AwaitBarrier, Exit, Collect, Fresh
  <2>2. UNCHANGED <<d, seat, victim>>
    BY <1>7 DEF Sit, AwaitPost, AwaitBarrier, Exit, Collect
  <2>3. QED
    BY <1>4, <2>1, <2>2 DEF FreshAlone, SeatsOf, WakersOf
<1>8. ASSUME NEW t \in Threads, Check(t) PROVE FreshAlone'
  <2>1. \A u \in Threads : Fresh(u)' => Fresh(u)
    BY <1>1, <1>4, <1>8 DEF Check, Over, Fresh
  <2>2. QED
    BY <1>4, <1>8, <2>1 DEF Check, FreshAlone, SeatsOf, WakersOf
<1>9. ASSUME NEW t \in Threads, PostVictim(t) PROVE FreshAlone'
  <2> DEFINE pcs == [pc EXCEPT ![t] = "wait"]
  <2>1. /\ victim[t] \in Threads
        /\ pcs \in [Threads -> Labels]
        /\ \A u \in Threads : u # t => pcs[u] = pc[u]
        /\ pcs[t] = "wait"
    BY <1>1, <1>9 DEF PostVictim, CInv, WInv, WakeInv, VictimInHand
  <2>2. Post(victim[t], pcs)
    BY <1>9 DEF PostVictim
  <2> HIDE DEF pcs
  <2>3. \A u \in Threads : Fresh(u)' => Fresh(u)
    BY <1>1, <2>1, <2>2 DEF Post, Fresh
  <2>4. d' = d /\ seat' = seat /\ victim' = [victim EXCEPT ![t] = Null]
    BY <1>9 DEF PostVictim
  <2>5. \A u \in Threads : SeatsOf(u)' = SeatsOf(u) /\ (WakersOf(u) = {} => WakersOf(u)' = {})
    BY <1>1, <2>4 DEF SeatsOf, WakersOf
  <2>6. QED
    BY <1>4, <2>3, <2>4, <2>5 DEF FreshAlone
<1>10. ASSUME StartPost \/ ShutPost \/ ReleasePost PROVE FreshAlone'
  <2>1. \E u \in Threads : Post(u, pc)
    BY <1>10 DEF StartPost, ShutPost, ReleasePost, CInv, WInv, MainIndex, WakeInv, MainVictimInHand, TypeOK
  <2>2. \A u \in Threads : Fresh(u)' => Fresh(u)
    BY <1>1, <2>1 DEF Post, Fresh
  <2>3. UNCHANGED <<d, seat, victim>>
    BY <1>10 DEF StartPost, ShutPost, ReleasePost
  <2>4. QED
    BY <1>4, <2>2, <2>3 DEF FreshAlone, SeatsOf, WakersOf
<1>11. ASSUME Release PROVE FreshAlone'
  <2>1. \A u \in Threads : SeatsOf(u)' \subseteq SeatsOf(u)
    BY <1>1, <1>11 DEF Release, SeatsOf
  <2>2. QED
    BY <1>4, <1>11, <2>1 DEF Release, FreshAlone, Fresh, WakersOf
<1>12. ASSUME OpenBarrier \/ Poll \/ Join \/ UNCHANGED vars PROVE FreshAlone'
  BY <1>4, <1>12 DEF OpenBarrier, Poll, Join, vars, FreshAlone, Fresh, SeatsOf, WakersOf
<1> HIDE DEF setup, spotvars, mainvars, threadvars
<1>13. QED
  BY <1>3, <1>5, <1>6, <1>7, <1>8, <1>9, <1>10, <1>11, <1>12, Actions DEF ThreadStep

LEMMA StepAInv == CInv /\ AInv /\ [Next]_vars => AInv'
  BY DisjointKept, OwnKept, FreshKept DEF AInv

\* Two threads never work on the same array in any of the five programs: until main stops
\* a run with --iterations, and in timed runs for good.
THEOREM ArraysAreExclusive == Spec => []ArraysExclusive
<1>1. CInv /\ AInv => ArraysExclusive
  <2> SUFFICES ASSUME CInv, AInv, clock_mode \/ ~stop, NEW t \in Threads, NEW u \in Threads,
                      t # u, pc[t] = "work", pc[u] = "work"
               PROVE  Array(t) # Array(u)
    BY DEF ArraysExclusive
  <2>1. d[t] # d[u]
    BY DEF AInv, OwnArrays, Disjoint, Holds, FreshAlone, Fresh
  <2>2. Releasing => held[t] = d[t] /\ held[u] = d[u]
    BY DEF AInv, HeldIsOwn
  <2>3. QED
    BY <2>1, <2>2 DEF Array
<1>2. QED
  BY <1>1, InitCInv, StepCInv, InitAInv, StepAInv, PTL DEF Spec
-----------------------------------------------------------------------------
(* put() as an atomic exchange.  Every step is one of SeatExchange, or none: the swap and *)
(* release() change the seats, the end of a wait rouses, everything else is not seen.     *)

Ruled == Releasing \/ ~stop

Promises ==
  \A t \in Threads :
    /\ Givers(t) = {} => Promised(t) = d[t]
    /\ \A u \in Threads : Givers(t) = {u} => Promised(t) = held[u]

LEMMA PromisesHold == Promises /\ Promises'
  BY DEF Promises, Promised

\* A promise stands as long as nobody makes another, and nobody keeps it.
LEMMA PromiseStands ==
  ASSUME NEW t \in Threads, Givers(t)' = Givers(t),
         \A u \in Givers(t) : held'[u] = held[u], Givers(t) = {} => d'[t] = d[t]
  PROVE  Promised(t)' = Promised(t)
<1>1. CASE Givers(t) = {}
  BY <1>1 DEF Promised
<1>2. CASE Givers(t) # {}
  <2>1. PICK u \in Givers(t) : u = CHOOSE w \in Givers(t) : TRUE
    BY <1>2
  <2>2. QED
    BY <1>2, <2>1 DEF Promised
<1>3. QED
  BY <1>1, <1>2

\* What the invariants say of the places a thread is referred to from.
LEMMA InPlace ==
  ASSUME CInv, Ruled, NEW t \in Threads
  PROVE  /\ t \in Roused <=> pc[t] \in InPut /\ SeatsOf(t) = {}
         /\ \A s \in Spots : seat[s] = t => /\ pc[t] \in InPut /\ sem[t] = 0
                                            /\ \A r \in Spots : seat[r] = t => r = s
                                            /\ Givers(t) = {}
         /\ Givers(t) = {} \/ \E u \in Threads : Givers(t) = {u}
         /\ \A u \in Threads :
              victim[u] = t => /\ pc[t] \in InPut /\ sem[t] = 0 /\ t \in Roused
                               /\ pc[u] = "give" => Givers(t) = {u}
         /\ mvictim = t => pc[t] \in InPut /\ sem[t] = 0 /\ t \in Roused
<1>1. /\ Claimed(t) => pc[t] \in InPut /\ sem[t] = 0
      /\ \A r, s \in SeatsOf(t) : r = s
      /\ \A u, v \in WakersOf(t) : u = v
      /\ SeatsOf(t) # {} => WakersOf(t) = {} /\ mvictim # t
      /\ WakersOf(t) # {} => mvictim # t
  BY DEF CInv, EInv, SeatsExclusive, Ruled
<1>2. t \in Roused <=> pc[t] \in InPut /\ SeatsOf(t) = {}
  BY DEF Roused, SeatsOf
<1>3. ASSUME NEW s \in Spots, seat[s] = t
      PROVE  /\ pc[t] \in InPut /\ sem[t] = 0 /\ \A r \in Spots : seat[r] = t => r = s
             /\ Givers(t) = {}
  BY <1>1, <1>3 DEF Claimed, SeatsOf, WakersOf, Givers
<1>4. Givers(t) \subseteq WakersOf(t)
  BY DEF Givers, WakersOf
<1>5. Givers(t) = {} \/ \E u \in Threads : Givers(t) = {u}
  BY <1>1, <1>4 DEF Givers
<1>6. ASSUME NEW u \in Threads, victim[u] = t
      PROVE  /\ pc[t] \in InPut /\ sem[t] = 0 /\ t \in Roused
             /\ pc[u] = "give" => Givers(t) = {u}
  <2>1. u \in WakersOf(t)
    BY <1>6 DEF WakersOf
  <2>2. pc[t] \in InPut /\ sem[t] = 0 /\ SeatsOf(t) = {}
    BY <1>1, <2>1 DEF Claimed
  <2>3. ASSUME pc[u] = "give" PROVE Givers(t) = {u}
    <3>1. u \in Givers(t)
      BY <1>6, <2>3 DEF Givers
    <3>2. QED
      BY <1>1, <1>4, <2>1, <3>1
  <2>4. QED
    BY <1>2, <2>2, <2>3
<1>7. mvictim = t => pc[t] \in InPut /\ sem[t] = 0 /\ t \in Roused
  BY <1>1, <1>2 DEF Claimed
<1>8. QED
  BY <1>2, <1>3, <1>5, <1>6, <1>7

\* What SeatExchange does not see: places inside put(), and arrays that are on their way.
Unseen ==
  /\ UNCHANGED <<prog, share, seat, stop>>
  /\ \A t \in Threads :
       /\ Givers(t)' = Givers(t)
       /\ \A u \in Givers(t) : held'[u] = held[u]
       /\ Givers(t) = {} => d'[t] = d[t]

LEMMA UnseenStutters ==
  ASSUME Unseen, \A t \in Threads : pc'[t] \in InPut <=> pc[t] \in InPut
  PROVE  UNCHANGED Exchange!vars
<1>1. Roused' = Roused
  BY DEF Unseen, Roused
<1>2. \A t \in Threads : Promised(t)' = Promised(t)
  BY PromiseStands DEF Unseen
<1>3. QED
  BY <1>1, <1>2 DEF Exchange!vars, Unseen, Releasing

LEMMA UnseenGetsUp ==
  ASSUME Unseen, Ruled, NEW v \in Threads, v \in Roused,
         \A t \in Threads : pc'[t] \in InPut <=> pc[t] \in InPut /\ t # v
  PROVE  Exchange!Next
<1>1. Roused' = Roused \ {v}
  BY DEF Unseen, Roused
<1>2. \A t \in Threads : Promised(t)' = Promised(t)
  BY PromiseStands DEF Unseen
<1>3. Exchange!GetUp(v)
  BY <1>1, <1>2 DEF Exchange!GetUp, Unseen, Releasing, Ruled
<1>4. QED
  BY <1>3 DEF Exchange!Next

\* The swap of put(): whoever sat in the seat is promised the taker's array.
LEMMA TakeSitsDown ==
  ASSUME CInv, AInv, Ruled, NEW t \in Threads, NEW s \in Spots, Take(t, s)
  PROVE  Exchange!Next
<1> DEFINE v == seat[s]
<1>1. /\ pc \in [Threads -> Labels] /\ held \in [Threads -> Threads]
      /\ seat \in [Spots -> Threads \cup {Null, One}]
      /\ victim \in [Threads -> Threads \cup {Null}]
  BY DEF CInv, WInv, TypeOK
<1>2. /\ pc[t] = "work" /\ v \in Threads \cup {Null} /\ seat' = [seat EXCEPT ![s] = t]
      /\ victim' = [victim EXCEPT ![t] = v] /\ d' = d
      /\ pc' = [pc EXCEPT ![t] = IF v = Null THEN "wait" ELSE IF share THEN "give" ELSE "post"]
      /\ UNCHANGED <<prog, share, stop>>
      /\ \A u \in Threads : u # t => held'[u] = held[u]
  BY <1>1 DEF Take, setup, mainvars
<1>3. t \notin Roused /\ (\A r \in Spots : seat[r] # t) /\ v # t /\ Givers(t) = {}
  BY <1>2, InPlace DEF Roused, Givers
<1>4. v # Null => v \in Threads /\ pc[v] \in InPut /\ (\A r \in Spots : seat[r] = v => r = s)
                  /\ Givers(v) = {}
  BY <1>2, InPlace
<1>5. Roused' = Roused \cup ({v} \ {Null})
  <2>1. ASSUME NEW u \in Threads PROVE u \in Roused' <=> u \in Roused \/ (u = v /\ v # Null)
    <3>1. CASE u = t
      <4>1. seat'[s] = t
        BY <1>1, <1>2
      <4>2. QED
        BY <1>3, <3>1, <4>1 DEF Roused
    <3>2. CASE u # t /\ u = v
      <4>1. \A r \in Spots : seat'[r] # u
        BY <1>1, <1>2, <1>4, <3>2
      <4>2. QED
        BY <1>1, <1>2, <1>4, <3>2, <4>1 DEF Roused
    <3>3. CASE u # t /\ u # v
      <4>1. (\E r \in Spots : seat'[r] = u) <=> (\E r \in Spots : seat[r] = u)
        BY <1>1, <1>2, <3>3
      <4>2. pc'[u] = pc[u]
        BY <1>1, <1>2, <3>3
      <4>3. QED
        BY <3>3, <4>1, <4>2 DEF Roused
    <3>4. QED
      BY <3>1, <3>2, <3>3
  <2>2. Roused \subseteq Threads /\ Roused' \subseteq Threads
    BY DEF Roused
  <2>3. QED
    BY <1>2, <2>1, <2>2
<1>6. ASSUME NEW u \in Threads
      PROVE  Promised(u)' = IF share /\ v # Null /\ u = v THEN Promised(t) ELSE Promised(u)
  <2>1. CASE share /\ v # Null /\ u = v
    <3>1. Givers(u)' = {t}
      BY <1>1, <1>2, <1>4, <2>1 DEF Givers
    <3>2. held'[t] = d[t]
      <4>1. CASE Releasing
        BY <1>2, <2>1, <4>1 DEF Take, AInv, HeldIsOwn
      <4>2. CASE ~Releasing
        BY <1>1, <2>1, <4>2 DEF Take
      <4>3. QED
        BY <4>1, <4>2
    <3>3. QED
      BY <1>3, <2>1, <3>1, <3>2, PromisesHold DEF Promises
  <2>2. CASE ~(share /\ v # Null /\ u = v)
    <3>1. Givers(u)' = Givers(u)
      BY <1>1, <1>2, <2>2 DEF Givers
    <3>2. \A w \in Givers(u) : held'[w] = held[w]
      BY <1>2 DEF Givers
    <3>3. Promised(u)' = Promised(u)
      BY <1>2, <3>1, <3>2, PromiseStands
    <3>4. QED
      BY <2>2, <3>3
  <2>3. QED
    BY <2>1, <2>2
<1>7. Exchange!SitDown(t, s)
  <2> HIDE DEF v
  <2> DEFINE array == [u \in Threads |-> Promised(u)]
  <2>1. array' = IF share /\ v # Null THEN [array EXCEPT ![v] = array[t]] ELSE array
    BY <1>2, <1>6
  <2>2. v # One /\ t \notin {seat[r] : r \in Spots} \cup Roused
    BY <1>2, <1>3
  <2>3. ~(stop /\ ~Releasing) /\ UNCHANGED <<share, stop /\ ~Releasing>>
    BY <1>2 DEF Ruled, Releasing
  <2>4. QED
    BY <1>2, <1>5, <2>1, <2>2, <2>3 DEF Exchange!SitDown, Exchange!Seated, v
<1>8. QED
  BY <1>7 DEF Exchange!Next

\* Who gives its array keeps its promise.
LEMMA GiveStutters ==
  ASSUME CInv, Ruled, NEW t \in Threads, Give(t)
  PROVE  UNCHANGED Exchange!vars
<1> DEFINE v == victim[t]
<1>1. /\ pc \in [Threads -> Labels] /\ held \in [Threads -> Threads] /\ d \in [Threads -> Threads]
      /\ pc[t] = "give" /\ v \in Threads
  BY DEF CInv, WInv, TypeOK, Give, WakeInv, VictimInHand
<1>2. /\ pc' = [pc EXCEPT ![t] = "post"] /\ d' = [d EXCEPT ![v] = held[t]]
      /\ UNCHANGED <<prog, share, stop, seat, victim>>
      /\ \A u \in Threads : u # t => held'[u] = held[u]
  BY <1>1 DEF Give, setup, mainvars
<1>3. Givers(v) = {t}
  BY <1>1, InPlace
<1>4. Promised(v)' = Promised(v)
  <2>1. Givers(v)' = {}
    BY <1>1, <1>2, <1>3 DEF Givers
  <2>2. QED
    BY <1>1, <1>2, <1>3, <2>1, PromisesHold DEF Promises
<1>5. ASSUME NEW u \in Threads, u # v PROVE Promised(u)' = Promised(u)
  <2>1. Givers(u)' = Givers(u) /\ t \notin Givers(u)
    BY <1>1, <1>2, <1>5 DEF Givers
  <2>2. d'[u] = d[u] /\ \A w \in Givers(u) : held'[w] = held[w]
    BY <1>1, <1>2, <1>5, <2>1 DEF Givers
  <2>3. QED
    BY <2>1, <2>2, PromiseStands
<1>6. Roused' = Roused
  BY <1>1, <1>2 DEF Roused
<1>7. QED
  BY <1>2, <1>4, <1>5, <1>6 DEF Exchange!vars, Releasing

\* A post to a thread that has been taken out of its seat wakes it if it sleeps.
LEMMA PostRouses ==
  ASSUME CInv, Ruled, Unseen, NEW v \in Threads, v \in Roused, pc[v] \in InPut,
         NEW pcs \in [Threads -> Labels],
         \A t \in Threads : pcs[t] \in InPut <=> pc[t] \in InPut, Post(v, pcs)
  PROVE  Exchange!Next \/ UNCHANGED Exchange!vars
<1>1. CASE pcs[v] = "asleep"
  <2>1. \A t \in Threads : pc'[t] \in InPut <=> pc[t] \in InPut /\ t # v
    BY <1>1 DEF Post
  <2>2. QED
    BY <2>1, UnseenGetsUp
<1>2. CASE pcs[v] # "asleep"
  <2>1. \A t \in Threads : pc'[t] \in InPut <=> pc[t] \in InPut
    BY <1>2 DEF Post
  <2>2. QED
    BY <2>1, UnseenStutters
<1>3. QED
  BY <1>1, <1>2

LEMMA PostVictimRouses ==
  ASSUME CInv, Ruled, NEW t \in Threads, PostVictim(t)
  PROVE  Exchange!Next \/ UNCHANGED Exchange!vars
<1> DEFINE v == victim[t]
           pcs == [pc EXCEPT ![t] = "wait"]
<1>1. /\ pc \in [Threads -> Labels] /\ pc[t] = "post" /\ v \in Threads
      /\ victim \in [Threads -> Threads \cup {Null}]
  BY DEF CInv, WInv, TypeOK, PostVictim, WakeInv, VictimInHand
<1>2. v \in Roused /\ pc[v] \in InPut
  BY <1>1, InPlace
<1>3. /\ pcs \in [Threads -> Labels] /\ \A u \in Threads : pcs[u] \in InPut <=> pc[u] \in InPut
      /\ \A u \in Threads : pcs[u] = "give" <=> pc[u] = "give"
  BY <1>1
<1>4. Post(v, pcs) /\ victim' = [victim EXCEPT ![t] = Null]
      /\ UNCHANGED <<prog, share, stop, seat, d, held>>
  BY DEF PostVictim, setup, mainvars
<1> HIDE DEF pcs, v
<1>5. Unseen
  <2>1. \A u \in Threads : pc'[u] = "give" <=> pc[u] = "give"
    BY <1>3, <1>4 DEF Post
  <2>2. \A u \in Threads : pc[u] = "give" => victim'[u] = victim[u]
    BY <1>1, <1>4
  <2>3. \A u \in Threads : Givers(u)' = Givers(u)
    BY <2>1, <2>2 DEF Givers
  <2>4. QED
    BY <1>4, <2>3 DEF Unseen
<1>6. QED
  BY <1>1, <1>2, <1>3, <1>4, <1>5, PostRouses

\* Who finds a post waiting has been taken out of its seat.
LEMMA SitRouses ==
  ASSUME CInv, Ruled, NEW t \in Threads, Sit(t)
  PROVE  Exchange!Next \/ UNCHANGED Exchange!vars
<1>1. pc \in [Threads -> Labels] /\ pc[t] = "wait" /\ Wait(t, "check", "asleep")
  BY DEF CInv, WInv, TypeOK, Sit
<1>2. Unseen
  BY <1>1 DEF Sit, Wait, setup, spotvars, mainvars, Unseen, Givers
<1>3. CASE sem[t] > 0
  <2>1. t \in Roused
    BY <1>1, <1>3, InPlace DEF SeatsOf
  <2>2. \A u \in Threads : pc'[u] \in InPut <=> pc[u] \in InPut /\ u # t
    BY <1>1, <1>3 DEF Wait
  <2>3. QED
    BY <1>2, <2>1, <2>2, UnseenGetsUp
<1>4. CASE ~(sem[t] > 0)
  BY <1>1, <1>2, <1>4, UnseenStutters DEF Wait
<1>5. QED
  BY <1>3, <1>4

\* Everything a thread does outside put() is not seen.
LEMMA OthersStutter ==
  ASSUME CInv, Ruled, NEW t \in Threads,
         \/ \E s \in Spots : FindClosed(t, s)
         \/ Check(t) \/ Exit(t) \/ AwaitPost(t) \/ AwaitBarrier(t) \/ Collect(t)
  PROVE  UNCHANGED Exchange!vars
<1>1. pc \in [Threads -> Labels] /\ held \in [Threads -> Threads]
  BY DEF CInv, WInv, TypeOK
<1>2. /\ \A u \in Threads : (pc'[u] \in InPut <=> pc[u] \in InPut) /\ (pc'[u] = "give" <=> pc[u] = "give")
      /\ \A u \in Threads : pc[u] = "give" => held'[u] = held[u]
      /\ UNCHANGED <<prog, share, stop, seat, victim, d>>
  BY <1>1 DEF FindClosed, Check, Exit, AwaitPost, Wait, AwaitBarrier, Collect, setup, spotvars,
     mainvars, threadvars
<1>3. Unseen
  BY <1>2 DEF Unseen, Givers
<1>4. QED
  BY <1>2, <1>3, UnseenStutters

\* Main closes a seat, whose sitter keeps the array it has.
LEMMA ReleaseCloses ==
  ASSUME CInv, Releasing, Release
  PROVE  Exchange!Next
<1> DEFINE v == seat[mi]
<1>1. /\ seat \in [Spots -> Threads \cup {Null, One}] /\ mi \in Spots /\ mpc = "release"
  BY DEF CInv, WInv, TypeOK, Release, MainIndex
<1>2. v \in Threads \cup {Null}
  BY <1>1, Ranges DEF CInv, WInv, SeatsClosed
<1>3. seat' = [seat EXCEPT ![mi] = One] /\ UNCHANGED <<prog, share, stop, victim, d, held, pc>>
  BY DEF Release, setup
<1>4. v # Null => pc[v] \in InPut /\ \A r \in Spots : seat[r] = v => r = mi
  BY <1>1, <1>2, InPlace DEF Ruled
<1>5. Roused' = Roused \cup ({v} \ {Null})
  <2>1. ASSUME NEW u \in Threads PROVE u \in Roused' <=> u \in Roused \/ (u = v /\ v # Null)
    <3>1. (\E r \in Spots : seat'[r] = u) <=> (\E r \in Spots : seat[r] = u) /\ u # v
      BY <1>1, <1>3, <1>4
    <3>2. QED
      BY <1>1, <1>3, <1>4, <3>1 DEF Roused
  <2>2. Roused \subseteq Threads /\ Roused' \subseteq Threads
    BY DEF Roused
  <2>3. QED
    BY <1>2, <2>1, <2>2
<1>6. \A u \in Threads : Promised(u)' = Promised(u)
  BY <1>3 DEF Promised, Givers
<1>7. Exchange!Close(mi)
  BY <1>2, <1>3, <1>5, <1>6 DEF Exchange!Close, Releasing
<1>8. QED
  BY <1>1, <1>7 DEF Exchange!Next

\* What main does besides: it starts the threads, stops the run, and wakes the sitters.
LEMMA MainRouses ==
  ASSUME CInv, Ruled,
         \/ ~Releasing /\ (StartPost \/ ShutPost)
         \/ Releasing /\ (OpenBarrier \/ ReleasePost)
         \/ Poll \/ Stop \/ Join \/ UNCHANGED vars
  PROVE  Exchange!Next \/ UNCHANGED Exchange!vars
<1>1. pc \in [Threads -> Labels]
  BY DEF CInv, WInv, TypeOK
<1>2. CASE OpenBarrier \/ Poll \/ Join \/ UNCHANGED vars
  <2>1. UNCHANGED <<prog, share, stop, seat, victim, d, held, pc>>
    BY <1>2 DEF OpenBarrier, Poll, Join, vars, setup, spotvars, mainvars, threadvars
  <2>2. Unseen
    BY <2>1 DEF Unseen, Givers
  <2>3. QED
    BY <2>1, <2>2, UnseenStutters
<1>3. CASE Stop
  <2>1. UNCHANGED <<prog, share, seat, victim, d, held, pc>> /\ stop'
    BY <1>3 DEF Stop, setup, spotvars, threadvars
  <2>2. Roused' = Roused /\ \A u \in Threads : Promised(u)' = Promised(u)
    BY <2>1 DEF Roused, Promised, Givers
  <2>3. CASE Releasing
    BY <2>1, <2>2, <2>3 DEF Exchange!vars, Releasing
  <2>4. CASE ~Releasing
    <3>1. Exchange!End
      BY <2>1, <2>2, <2>4 DEF Exchange!End, Ruled, Releasing
    <3>2. QED
      BY <3>1 DEF Exchange!Next
  <2>5. QED
    BY <2>3, <2>4
<1>4. CASE StartPost /\ ~Releasing
  <2>1. mi \in Threads /\ Post(mi, pc) /\ pc[mi] \in {"start", "startasleep"}
        /\ UNCHANGED <<prog, share, stop, seat, victim, d, held>>
    BY <1>4 DEF StartPost, Ruled, CInv, WInv, MainIndex, EInv, StartPosts, setup, spotvars, threadvars
  <2>2. \A u \in Threads : (pc'[u] \in InPut <=> pc[u] \in InPut) /\ (pc'[u] = "give" <=> pc[u] = "give")
    BY <1>1, <2>1 DEF Post
  <2>3. Unseen
    BY <2>1, <2>2 DEF Unseen, Givers
  <2>4. QED
    BY <2>2, <2>3, UnseenStutters
<1>5. CASE ReleasePost /\ Releasing
  <2>1. mvictim \in Threads /\ Post(mvictim, pc)
        /\ UNCHANGED <<prog, share, stop, seat, victim, d, held>>
    BY <1>5 DEF ReleasePost, CInv, WInv, TypeOK, WakeInv, MainVictimInHand, setup, spotvars, threadvars
  <2>2. \A u \in Threads : pc'[u] = "give" <=> pc[u] = "give"
    BY <1>1, <2>1 DEF Post
  <2>3. Unseen
    BY <2>1, <2>2 DEF Unseen, Givers
  <2>4. pc[mvictim] \in InPut /\ mvictim \in Roused
    BY <2>1, InPlace
  <2>5. QED
    BY <1>1, <2>1, <2>3, <2>4, PostRouses
<1>6. ASSUME ShutPost, ~Releasing PROVE FALSE
  BY <1>6 DEF ShutPost, Ruled, CInv, EInv, StopPhase
<1>7. QED
  BY <1>2, <1>3, <1>4, <1>5, <1>6

\* Once main has stopped the C programs there is no more to say.
LEMMA UnruledForGood == CInv /\ ~Ruled /\ [Next]_vars => Exchange!Next
<1> SUFFICES ASSUME CInv, ~Ruled, [Next]_vars PROVE Exchange!Next
  OBVIOUS
<1>1. prog' = prog /\ (stop' = stop \/ stop')
  BY Actions DEF ThreadStep, FindClosed, Take, Give, PostVictim, Sit, Check, Exit, AwaitPost,
     AwaitBarrier, Collect, StartPost, ShutPost, OpenBarrier, Release, ReleasePost, Poll, Stop,
     Join, vars, setup, mainvars, threadvars
<1>2. Exchange!Unruled
  BY <1>1 DEF Exchange!Unruled, Ruled, Releasing
<1>3. QED
  BY <1>2 DEF Exchange!Next

LEMMA InitExchange == Init => Exchange!Init
<1> SUFFICES ASSUME Init PROVE Exchange!Init
  OBVIOUS
<1>1. \A t \in Threads : pc[t] = "start" /\ d[t] = t
  BY DEF Init
<1>2. Roused = {} /\ \A t \in Threads : Promised(t) = t
  BY <1>1 DEF Roused, Promised, Givers
<1>3. QED
  BY <1>2 DEF Init, Exchange!Init

LEMMA StepExchange == CInv /\ AInv /\ [Next]_vars => [Exchange!Next]_(Exchange!vars)
<1> SUFFICES ASSUME CInv, AInv, [Next]_vars PROVE Exchange!Next \/ UNCHANGED Exchange!vars
  OBVIOUS
<1>1. CASE ~Ruled
  BY <1>1, UnruledForGood
<1>2. ASSUME Ruled, NEW t \in Threads, ThreadStep(t)
      PROVE  Exchange!Next \/ UNCHANGED Exchange!vars
  BY <1>2, TakeSitsDown, GiveStutters, PostVictimRouses, SitRouses, OthersStutter DEF ThreadStep
<1>3. ASSUME Ruled, Releasing, Release PROVE Exchange!Next
  BY <1>3, ReleaseCloses
<1>4. ASSUME Ruled,
             \/ ~Releasing /\ (StartPost \/ ShutPost)
             \/ Releasing /\ (OpenBarrier \/ ReleasePost)
             \/ Poll \/ Stop \/ Join \/ UNCHANGED vars
      PROVE  Exchange!Next \/ UNCHANGED Exchange!vars
  BY <1>4, MainRouses
<1>5. QED
  BY <1>1, <1>2, <1>3, <1>4, Actions

\* put() is atomic in all five programs, for any number of threads and spots: whatever the
\* interleaving, its swap, its gift of the array and its post are one exchange of seats,
\* and release() closes a seat in one step.
THEOREM RefinesExchange == Spec => ImplementsExchange
<1>1. CInv /\ AInv /\ [Next]_vars => [Exchange!Next]_(Exchange!vars)
  BY StepExchange
<1>2. Spec => [](CInv /\ AInv)
  BY InitCInv, StepCInv, InitAInv, StepAInv, PTL DEF Spec
<1>3. QED
  BY <1>1, <1>2, InitExchange, PTL DEF Spec, ImplementsExchange, Exchange!Spec
-----------------------------------------------------------------------------
(* Where a run can stand still.  The guards that can close are written out, *)
(* since ENABLED is beyond the provers: a thread stops asleep, at Go's      *)
(* barrier, at Go's send or done, and main in one of its waits.             *)

Moving(t) ==
  /\ pc[t] \notin {"startasleep", "asleep", "send", "done"}
  /\ Releasing /\ mpc = "start" => pc[t] # "start"

MainMoves ==
  \/ mpc \in {"start", "stop", "shut", "release", "wake"}
  \/ mpc = "wait" /\ (clock_mode \/ threads_left = 0)
  \/ mpc = "join" /\ (IF prog = "go" THEN \E t \in Threads : pc[t] = "send" ELSE pc[mi] = "done")

\* Main waits for zero, and threads_left has come to rest beside it, below by the spots
\* nobody has sat in, above by the processors there are in excess.
BesideZero ==
  /\ mpc = "wait" /\ ~clock_mode
  /\ threads_left = Excess - Cardinality(Unused) /\ threads_left # 0

GoesOn == Ruled /\ mpc # "done" => MainMoves \/ BesideZero \/ \E t \in Threads : Moving(t)

\* Who waits for main's start post is still to get it, or holds it.
Due(t) == mpc = "start" /\ mi <= t
AtStart ==
  ~Releasing =>
    \A t \in Threads :
      /\ pc[t] = "startasleep" => Due(t)
      /\ pc[t] = "start" => sem[t] > 0 \/ Due(t)

\* Two places exist in some programs only.
Labelled ==
  \A t \in Threads : (pc[t] = "send" => prog = "go") /\ (pc[t] = "startasleep" => ~Releasing)

\* Main has closed the seats its loop has passed.
SeatsPassed ==
  Releasing =>
    \A s \in Spots :
      mpc = "join" \/ (mpc = "release" /\ s < mi) \/ (mpc = "wake" /\ s <= mi) => seat[s] = One

\* Go's main counts the results it has received by its index.
Received == {t \in Threads : pc[t] = "done"}
Collected ==
  prog = "go" /\ mpc # "done" =>
    Cardinality(Received) = IF mpc = "join" THEN mi - 1 ELSE 0

SInv == AtStart /\ Labelled /\ SeatsPassed /\ Collected

LEMMA ReceivedFinite == IsFiniteSet(Threads) /\ Cardinality(Threads) = NThreads /\ IsFiniteSet(Received)
<1>1. IsFiniteSet(Threads) /\ Cardinality(Threads) = NThreads
  BY Ranges, FS_Interval DEF Threads
<1>2. QED
  BY <1>1, FS_Subset DEF Received

\* The steps, with the programs that have them where that matters here.
LEMMA ProgramActions ==
  [Next]_vars =>
    /\ prog' = prog
    /\ \/ \E t \in Threads :
            \/ \E s \in Spots : FindClosed(t, s) \/ Take(t, s)
            \/ Give(t) \/ PostVictim(t) \/ Sit(t) \/ Check(t) \/ Exit(t)
            \/ ~Releasing /\ AwaitPost(t)
            \/ Releasing /\ AwaitBarrier(t)
            \/ prog = "go" /\ Collect(t)
       \/ ~Releasing /\ (StartPost \/ ShutPost)
       \/ Releasing /\ (OpenBarrier \/ Release \/ ReleasePost)
       \/ prog # "go" /\ Join
       \/ Poll \/ Stop \/ UNCHANGED vars
<1> SUFFICES ASSUME [Next]_vars
             PROVE  /\ prog' = prog
                    /\ \/ \E t \in Threads :
                            \/ \E s \in Spots : FindClosed(t, s) \/ Take(t, s)
                            \/ Give(t) \/ PostVictim(t) \/ Sit(t) \/ Check(t) \/ Exit(t)
                            \/ ~Releasing /\ AwaitPost(t)
                            \/ Releasing /\ AwaitBarrier(t)
                            \/ prog = "go" /\ Collect(t)
                       \/ ~Releasing /\ (StartPost \/ ShutPost)
                       \/ Releasing /\ (OpenBarrier \/ Release \/ ReleasePost)
                       \/ prog # "go" /\ Join
                       \/ Poll \/ Stop \/ UNCHANGED vars
  OBVIOUS
<1>1. prog' = prog
  BY Actions DEF ThreadStep, FindClosed, Take, Give, PostVictim, Sit, Check, Exit,
     AwaitPost, AwaitBarrier, Collect, StartPost, ShutPost, OpenBarrier, Release,
     ReleasePost, Poll, Stop, Join, setup, threadvars, vars
<1>2. QED
  BY <1>1 DEF Next, Main, Thread, Ended, Put, Picks, Releasing,
     FibreThread, PthreadThread, CfaThread, GoThread, TokioThread,
     FibreMain, PthreadMain, CfaMain, GoMain, TokioMain

\* A post wakes its sleeper or leaves it a post, and does nothing to the others.
LEMMA PostLeaves ==
  ASSUME TypeOK, NEW w \in Threads, NEW pcs \in [Threads -> Labels], Post(w, pcs)
  PROVE  /\ \A u \in Threads : u # w => pc'[u] = pcs[u] /\ sem'[u] = sem[u]
         /\ \/ pcs[w] \in Asleep /\ pc'[w] \in {"check", "work"}
            \/ pcs[w] \notin Asleep /\ pc'[w] = pcs[w] /\ sem'[w] > 0
<1>1. sem \in [Threads -> Nat]
  BY DEF TypeOK
<1>2. CASE pcs[w] \in Asleep
  <2>1. pc' = [pcs EXCEPT ![w] = IF @ = "asleep" THEN "check" ELSE "work"] /\ sem' = sem
    BY <1>2 DEF Post
  <2>2. QED
    BY <1>2, <2>1
<1>3. CASE pcs[w] \notin Asleep
  <2>1. pc' = pcs /\ sem' = [sem EXCEPT ![w] = IF Binary THEN 1 ELSE @ + 1]
    BY <1>3 DEF Post
  <2>2. sem'[w] > 0
    BY <1>1, <2>1
  <2>3. QED
    BY <1>1, <1>3, <2>1, <2>2
<1>4. QED
  BY <1>2, <1>3

LEMMA InitSInv == Init => SInv
<1> SUFFICES ASSUME Init PROVE SInv
  OBVIOUS
<1>1. AtStart /\ Labelled /\ SeatsPassed
  BY Ranges DEF Init, AtStart, Due, Labelled, SeatsPassed
<1>2. Received = {}
  BY DEF Init, Received
<1>3. QED
  BY <1>1, <1>2, FS_EmptySet DEF Init, SInv, Collected

LEMMA AtStartKept == CInv /\ SInv /\ [Next]_vars => AtStart'
<1> SUFFICES ASSUME CInv, SInv, [Next]_vars, ~Releasing PROVE AtStart'
  BY ProgramActions DEF AtStart, Releasing
<1>1. /\ TypeOK /\ pc \in [Threads -> Labels] /\ sem \in [Threads -> Nat] /\ AtStart
      /\ MainIndex /\ VictimInHand
  BY DEF CInv, WInv, WakeInv, TypeOK, SInv
<1>2. \A t \in Threads : /\ pc[t] = "startasleep" => Due(t)
                         /\ pc[t] = "start" => sem[t] > 0 \/ Due(t)
  BY <1>1 DEF AtStart
<1>3. ASSUME NEW t \in Threads, NEW s \in Spots, FindClosed(t, s) \/ Take(t, s) PROVE AtStart'
  BY <1>1, <1>2, <1>3 DEF FindClosed, Take, AtStart, Due, mainvars
<1>4. ASSUME NEW t \in Threads, Give(t) \/ Sit(t) \/ Check(t) \/ Exit(t) PROVE AtStart'
  BY <1>1, <1>2, <1>4 DEF Give, Sit, Wait, Check, Exit, AtStart, Due, mainvars
<1>5. ASSUME NEW t \in Threads, AwaitPost(t) PROVE AtStart'
  BY <1>1, <1>2, <1>5 DEF AwaitPost, Wait, AtStart, Due, mainvars
<1>6. ASSUME NEW t \in Threads, PostVictim(t) PROVE AtStart'
  <2>1. PICK w \in Threads : w = victim[t]
    BY <1>1, <1>6 DEF PostVictim, VictimInHand, TypeOK
  <2>2. PICK pcs \in [Threads -> Labels] : pcs = [pc EXCEPT ![t] = "wait"]
    BY <1>1
  <2>3. Post(w, pcs) /\ pc[t] = "post" /\ mpc' = mpc /\ mi' = mi
    BY <1>6, <2>1, <2>2 DEF PostVictim, mainvars
  <2>4. \A u \in Threads : Due(u)' <=> Due(u)
    BY <2>3 DEF Due
  <2>5. \A u \in Threads : pcs[u] = pc[u] \/ pcs[u] = "wait"
    BY <1>1, <2>2
  <2>6. \A u \in Threads : u # w => pc'[u] = pcs[u] /\ sem'[u] = sem[u]
    BY <1>1, <2>3, PostLeaves
  <2>7. pc'[w] \in {"check", "work"} \/ (pc'[w] = pcs[w] /\ pcs[w] \notin Asleep /\ sem'[w] > 0)
    BY <1>1, <2>3, PostLeaves
  <2>8. QED
    BY <1>2, <2>4, <2>5, <2>6, <2>7 DEF AtStart
<1>7. CASE StartPost
  <2>1. mi \in Threads /\ Post(mi, pc) /\ mpc = "start"
    BY <1>1, <1>7 DEF StartPost, MainIndex
  <2>2. \A u \in Threads : u # mi /\ Due(u) => Due(u)'
    BY <1>7, <2>1, Ranges DEF StartPost, Due
  <2>3. QED
    BY <1>1, <1>2, <2>1, <2>2, PostLeaves DEF AtStart
<1>8. CASE ShutPost
  <2>1. mi \in Threads /\ Post(mi, pc) /\ mpc = "shut"
    BY <1>1, <1>8 DEF ShutPost, MainIndex
  <2>2. QED
    BY <1>1, <1>2, <2>1, PostLeaves DEF AtStart, Due
<1>9. CASE Poll \/ Stop \/ Join
  BY <1>1, <1>2, <1>9 DEF Poll, Stop, Join, AtStart, Due
<1>10. CASE UNCHANGED vars
  BY <1>1, <1>10 DEF vars, mainvars, setup, AtStart, Due, Releasing
<1>11. QED
  BY <1>3, <1>4, <1>5, <1>6, <1>7, <1>8, <1>9, <1>10, ProgramActions DEF Releasing

LEMMA LabelledKept == CInv /\ SInv /\ [Next]_vars => Labelled'
<1> SUFFICES ASSUME CInv, SInv, [Next]_vars PROVE Labelled'
  OBVIOUS
<1>1. /\ TypeOK /\ pc \in [Threads -> Labels] /\ Labelled /\ prog' = prog
      /\ (Releasing' <=> Releasing)
      /\ MainIndex /\ VictimInHand /\ MainVictimInHand
  BY ProgramActions DEF CInv, WInv, WakeInv, TypeOK, SInv, Releasing
<1>2. ASSUME NEW t \in Threads, NEW s \in Spots, FindClosed(t, s) \/ Take(t, s) PROVE Labelled'
  BY <1>1, <1>2 DEF FindClosed, Take, Labelled
<1>3. ASSUME NEW t \in Threads, Give(t) \/ Sit(t) \/ Check(t) \/ Exit(t) PROVE Labelled'
  BY <1>1, <1>3 DEF Give, Sit, Wait, Check, Exit, Labelled
<1>4. ASSUME NEW t \in Threads,
             (~Releasing /\ AwaitPost(t)) \/ AwaitBarrier(t) \/ Collect(t)
      PROVE  Labelled'
  BY <1>1, <1>4 DEF AwaitPost, Wait, AwaitBarrier, Collect, Labelled
<1>5. ASSUME NEW t \in Threads, PostVictim(t) PROVE Labelled'
  BY <1>1, <1>5 DEF PostVictim, Post, Labelled
<1>6. CASE StartPost \/ ShutPost \/ ReleasePost
  BY <1>1, <1>6 DEF StartPost, ShutPost, ReleasePost, Post, Labelled
<1>7. CASE OpenBarrier \/ Release \/ Poll \/ Stop \/ Join \/ UNCHANGED vars
  BY <1>1, <1>7 DEF OpenBarrier, Release, Poll, Stop, Join, vars, Labelled
<1>8. QED
  BY <1>2, <1>3, <1>4, <1>5, <1>6, <1>7, ProgramActions

LEMMA PassedKept == CInv /\ SInv /\ [Next]_vars => SeatsPassed'
<1> SUFFICES ASSUME CInv, SInv, [Next]_vars, Releasing PROVE SeatsPassed'
  BY ProgramActions DEF SeatsPassed, Releasing
<1>1. /\ seat \in [Spots -> Threads \cup {Null, One}] /\ SeatsPassed /\ MainIndex
  BY DEF CInv, WInv, TypeOK, SInv
<1>2. ASSUME NEW t \in Threads, NEW s \in Spots, FindClosed(t, s) \/ Take(t, s) PROVE SeatsPassed'
  BY <1>1, <1>2 DEF FindClosed, Take, SeatsPassed, spotvars, mainvars
<1>3. ASSUME NEW t \in Threads,
             \/ Give(t) \/ PostVictim(t) \/ Sit(t) \/ Check(t) \/ Exit(t)
             \/ AwaitPost(t) \/ AwaitBarrier(t)
      PROVE  SeatsPassed'
  BY <1>1, <1>3 DEF Give, PostVictim, Sit, Check, Exit, AwaitPost, AwaitBarrier, SeatsPassed,
                    spotvars, mainvars
<1>4. ASSUME NEW t \in Threads, Collect(t) PROVE SeatsPassed'
  BY <1>1, <1>4 DEF Collect, SeatsPassed, spotvars, threadvars
<1>5. CASE OpenBarrier \/ Poll \/ Join
  BY <1>1, <1>5 DEF OpenBarrier, Poll, Join, SeatsPassed, spotvars, threadvars
<1>6. CASE Stop
  BY <1>1, <1>6, Ranges DEF Stop, SeatsPassed, MainIndex
<1>7. CASE Release
  BY <1>1, <1>7, Ranges DEF Release, SeatsPassed, MainIndex
<1>8. CASE ReleasePost
  BY <1>1, <1>8, Ranges DEF ReleasePost, SeatsPassed, MainIndex, spotvars, threadvars
<1>9. CASE UNCHANGED vars
  BY <1>1, <1>9 DEF vars, spotvars, mainvars, SeatsPassed
<1>10. QED
  BY <1>2, <1>3, <1>4, <1>5, <1>6, <1>7, <1>8, <1>9, ProgramActions

LEMMA CollectedKept == CInv /\ SInv /\ [Next]_vars => Collected'
<1> SUFFICES ASSUME CInv, SInv, [Next]_vars, prog = "go", mpc' # "done" PROVE Collected'
  BY ProgramActions DEF Collected
<1>1. /\ TypeOK /\ pc \in [Threads -> Labels] /\ mi \in Int /\ prog' = prog
      /\ Collected /\ MainIndex
  BY ProgramActions DEF CInv, WInv, TypeOK, SInv
<1>2. ASSUME NEW t \in Threads, NEW s \in Spots, FindClosed(t, s) \/ Take(t, s) PROVE Collected'
  <2>1. Received' = Received /\ mpc' = mpc /\ mi' = mi
    BY <1>1, <1>2 DEF FindClosed, Take, mainvars, Received
  <2>2. QED
    BY <1>1, <2>1 DEF Collected
<1>3. ASSUME NEW t \in Threads, Give(t) \/ Sit(t) \/ Check(t) \/ Exit(t) \/ AwaitBarrier(t)
      PROVE  Collected'
  <2>1. Received' = Received /\ mpc' = mpc /\ mi' = mi
    BY <1>1, <1>3 DEF Give, Sit, Wait, Check, Exit, AwaitBarrier, mainvars, Received
  <2>2. QED
    BY <1>1, <2>1 DEF Collected
<1>4. ASSUME NEW t \in Threads, PostVictim(t) PROVE Collected'
  <2>1. Received' = Received /\ mpc' = mpc /\ mi' = mi
    BY <1>1, <1>4 DEF PostVictim, Post, mainvars, Received
  <2>2. QED
    BY <1>1, <2>1 DEF Collected
<1>5. ASSUME NEW t \in Threads, Collect(t) PROVE Collected'
  <2>1. Received' = Received \cup {t} /\ t \notin Received
    BY <1>1, <1>5 DEF Collect, Received
  <2>2. Cardinality(Received') = Cardinality(Received) + 1
    BY <2>1, ReceivedFinite, FS_AddElement
  <2>3. Cardinality(Received) = mi - 1 /\ mpc' = "join" /\ mi' = mi + 1
    BY <1>1, <1>5 DEF Collect, Collected
  <2>4. QED
    BY <1>1, <2>2, <2>3 DEF Collected
<1>6. CASE ReleasePost
  <2>1. Received' = Received
    BY <1>1, <1>6 DEF ReleasePost, Post, Received
  <2>2. QED
    BY <1>1, <1>6, <2>1 DEF ReleasePost, Collected
<1>7. CASE OpenBarrier \/ Release \/ Poll \/ Stop
  <2>1. Received' = Received
    BY <1>7 DEF OpenBarrier, Release, Poll, Stop, Received
  <2>2. QED
    BY <1>1, <1>7, <2>1 DEF OpenBarrier, Release, Poll, Stop, Collected
<1>8. CASE UNCHANGED vars
  BY <1>1, <1>8 DEF vars, mainvars, setup, Received, Collected
<1>9. QED
  BY <1>2, <1>3, <1>4, <1>5, <1>6, <1>7, <1>8, ProgramActions DEF Releasing

LEMMA SInvAlways == Spec => [](CInv /\ SInv)
<1>1. Init => CInv /\ SInv
  BY InitCInv, InitSInv
<1>2. CInv /\ SInv /\ [Next]_vars => (CInv /\ SInv)'
  BY StepCInv, AtStartKept, LabelledKept, PassedKept, CollectedKept DEF SInv
<1>3. QED
  BY <1>1, <1>2, PTL DEF Spec

\* A sleeper that no thread and no main is waking is in a seat.
LEMMA SleeperSits ==
  ASSUME CInv, mpc # "wake", ~(\E u \in Threads : Moving(u)), mpc # "start",
         NEW t \in Threads, pc[t] = "asleep"
  PROVE  t \in Sleepers /\ \E s \in Spots : seat[s] = t
<1>1. sem[t] = 0 /\ Claimed(t) /\ mvictim = Null /\ t # Null
  BY DEF CInv, WInv, WakeInv, SleepersHaveNoPost, NoLostWakeup, MainVictimInHand
<1>2. WakersOf(t) = {}
  BY <1>1 DEF CInv, WInv, WakeInv, VictimInHand, WakersOf, Moving
<1>3. QED
  BY <1>1, <1>2 DEF Claimed, SeatsOf, Sleepers

\* While main waits and no thread can move, those that have not left sleep in different
\* seats: they are as many as the spots in use.
LEMMA WaitGoesOn ==
  ASSUME CInv, SInv, Ruled, mpc = "wait", ~(\E t \in Threads : Moving(t))
  PROVE  threads_left = Excess - Cardinality(Unused)
<1>1. \A t \in Threads : pc[t] \in {"asleep", "send", "done"}
  BY DEF SInv, AtStart, Due, Labelled, Moving
<1>2. Threads = Sleepers \cup Gone /\ Sleepers \cap Gone = {}
  BY <1>1, SleeperSits DEF Sleepers, Gone
<1>3. IsFiniteSet(Sleepers) /\ Cardinality(Sleepers) \in Nat
  BY <1>2, FiniteThreads, FS_Subset, FS_CardinalityType
<1>4. Cardinality(Sleepers) + Cardinality(Gone) = NThreads
  <2>1. Cardinality(Sleepers \cup Gone) =
          Cardinality(Sleepers) + Cardinality(Gone) - Cardinality(Sleepers \cap Gone)
    BY <1>3, FiniteThreads, FS_Union
  <2>2. Cardinality(Sleepers \cap Gone) = 0
    BY <1>2, FS_EmptySet
  <2>3. Cardinality(Sleepers \cup Gone) = NThreads
    BY <1>2, FiniteThreads, Zenon
  <2>4. QED
    BY <1>3, <2>1, <2>2, <2>3, FiniteThreads, Ranges
<1>5. Cardinality(Sleepers) <= Cardinality(Used)
  <2> DEFINE f == [t \in Sleepers |-> CHOOSE s \in Spots : seat[s] = t]
  <2>1. \A t \in Sleepers : \E s \in Spots : seat[s] = t
    BY SleeperSits DEF Sleepers
  <2>2. \A t \in Sleepers : f[t] \in Spots /\ seat[f[t]] = t /\ t # Null
    BY <2>1 DEF Sleepers
  <2>3. \A t \in Sleepers : f[t] \in Used
    BY <2>2 DEF Used, Unused
  <2>4. f \in Injection(Sleepers, Used)
    BY <2>2, <2>3 DEF Injection, IsInjective
  <2> HIDE DEF f
  <2>5. QED
    BY <2>4, UsedCounted, FS_Injection
<1>6. Cardinality(Used) <= NThreads - Cardinality(Gone)
  <2>1. \A s \in Spots : seat[s] # One
    BY DEF CInv, WInv, SeatsClosed
  <2>2. QED
    BY <2>1, UsedByTheRest DEF Ruled
<1>7. QED
  BY <1>3, <1>4, <1>5, <1>6, UsedCounted, LeftInExcess, FiniteThreads, Ranges

\* While main joins there is no seat left to sleep in.
LEMMA JoinGoesOn ==
  ASSUME CInv, SInv, Ruled, mpc = "join", ~MainMoves
  PROVE  \E t \in Threads : Moving(t)
<1> SUFFICES ASSUME ~(\E t \in Threads : Moving(t)) PROVE FALSE
  OBVIOUS
<1>1. Releasing /\ mi \in Threads
  BY DEF CInv, EInv, StopPhase, WInv, MainIndex, Ruled
<1>2. \A s \in Spots : seat[s] = One
  BY <1>1 DEF SInv, SeatsPassed
<1>3. \A t \in Threads : pc[t] \in {"send", "done"}
  BY <1>1, <1>2, SleeperSits DEF SInv, Labelled, Moving
<1>4. CASE prog # "go"
  BY <1>1, <1>3, <1>4 DEF SInv, Labelled, MainMoves
<1>5. CASE prog = "go"
  <2>1. Received = Threads
    BY <1>3, <1>5 DEF MainMoves, Received
  <2>2. QED
    BY <1>1, <1>5, <2>1, ReceivedFinite, Ranges DEF SInv, Collected
<1>6. QED
  BY <1>4, <1>5

\* Until main stops the C programs, and for good in Go and Tokio, whose main closes the
\* seats, a run can stand still in one place only: with main waiting for threads_left to
\* be zero when it has come to rest beside it.  With every spot in use and as many
\* processors as threads without a spot it comes to rest at zero.
THEOREM StandsStillBesideZero == Spec => []GoesOn
<1>1. CInv /\ SInv => GoesOn
  <2> SUFFICES ASSUME CInv, SInv, Ruled, mpc # "done", ~MainMoves, ~(\E t \in Threads : Moving(t))
               PROVE  BesideZero
    BY DEF GoesOn
  <2>1. mpc \in {"wait", "join"}
    BY DEF CInv, WInv, TypeOK, MainMoves
  <2>2. mpc = "wait" /\ ~clock_mode /\ threads_left # 0
    BY <2>1, JoinGoesOn DEF MainMoves
  <2>3. QED
    BY <2>2, WaitGoesOn DEF BesideZero
<1>2. QED
  BY <1>1, SInvAlways, PTL
=============================================================================
