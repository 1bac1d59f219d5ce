--------------------------- MODULE LocalityProofs ---------------------------
(***************************************************************************)
(* Proofs about the locality benchmark, for every number of threads, spots *)
(* and processors and all five programs.  WInv is about wake-ups: it holds *)
(* for ever, stale seats included.  EInv adds that the seats are exclusive *)
(* as long as Locality says they are.                                      *)
(***************************************************************************)
EXTENDS Locality, TLAPS, FiniteSetTheorems

\* A thread has somebody to wake exactly between its swap and its post.
VictimInHand == \A t \in Threads : victim[t] # Null <=> pc[t] \in {"give", "post"}
MainVictimInHand == mvictim # Null <=> mpc = "wake"

\* Nobody sleeps on a post.
SleepersHaveNoPost == \A t \in Threads : pc[t] \in Asleep => sem[t] = 0

\* Main's index is a thread or a spot, whichever its loop is about.
MainIndex ==
  /\ mi \in Nat
  /\ mpc \in {"start", "wait", "stop", "shut", "join", "done"} => mi \in Threads
  /\ mpc \in {"release", "wake"} => mi \in Spots /\ Releasing
  /\ mpc \in {"wait", "stop"} \/ (mpc = "start" /\ Releasing) => mi = 1

\* Main has closed only the seats its loop has passed.
SeatsClosed ==
  \A s \in Spots :
    seat[s] = One => \/ Releasing /\ mpc \in {"join", "done"}
                     \/ mpc = "release" /\ s < mi
                     \/ mpc = "wake" /\ s <= mi

WakeInv == VictimInHand /\ MainVictimInHand /\ SleepersHaveNoPost /\ NoLostWakeup

WInv == TypeOK /\ MainIndex /\ SeatsClosed /\ WakeInv

LEMMA Ranges ==
  /\ \A i : i \in Threads <=> i \in Int /\ 1 <= i /\ i <= NThreads
  /\ \A i : i \in Spots <=> i \in Int /\ 1 <= i /\ i <= NSpots
  /\ NThreads \in Int /\ NThreads >= 1 /\ NSpots \in Int /\ NSpots >= 1
  BY Counts DEF Threads, Spots

USE Markers DEF Asleep, InPut, Labels

\* Whether the processors are counted or not, threads_left starts at their number.
LEMMA ProcsCounted == nprocs \in NProcs => nprocs \in Int /\ ActiveThreads = nprocs
  BY Counts DEF NProcs, ActiveThreads

LEMMA InitWInv == Init => WInv
<1> SUFFICES ASSUME Init PROVE WInv
  OBVIOUS
<1>1. threads_left \in Int /\ mi \in Nat /\ mi \in Threads
  BY Ranges, ProcsCounted DEF Init
<1>2. stop \in BOOLEAN
  BY DEF Init
<1>3. /\ prog \in Programs /\ nprocs \in NProcs /\ clock_mode \in ClockModes /\ share \in BOOLEAN
      /\ d \in [Threads -> Threads] /\ held \in [Threads -> Threads]
  BY DEF Init
<1>4. /\ seat \in [Spots -> Threads \cup {Null, One}] /\ pc \in [Threads -> Labels]
      /\ sem \in [Threads -> Nat] /\ victim \in [Threads -> Threads \cup {Null}]
      /\ count \in [Threads -> 0..StopCount] /\ mpc = "start" /\ mvictim = Null
  BY Counts DEF Init
<1>5. TypeOK
  BY <1>1, <1>2, <1>3, <1>4 DEF TypeOK
<1>6. MainIndex
  BY <1>1 DEF Init, MainIndex
<1>7. SeatsClosed
  BY DEF Init, SeatsClosed
<1>8. WakeInv
  BY DEF Init, WakeInv, VictimInHand, MainVictimInHand, SleepersHaveNoPost, NoLostWakeup
<1>9. QED
  BY <1>5, <1>6, <1>7, <1>8 DEF WInv

\* Only main moves its index.
LEMMA IndexKept == WInv /\ [Next]_vars => MainIndex'
<1> SUFFICES ASSUME WInv, [Next]_vars PROVE MainIndex'
  OBVIOUS
<1> USE DEF setup, spotvars, mainvars, threadvars, Releasing
<1>1. ASSUME NEW t \in Threads,
            \/ \E s \in Spots : FindClosed(t, s) \/ Take(t, s)
            \/ Give(t) \/ PostVictim(t) \/ Sit(t) \/ AwaitPost(t)
            \/ AwaitBarrier(t) \/ Check(t) \/ Exit(t)
     PROVE  MainIndex'
  BY <1>1 DEF FindClosed, Take, Give, PostVictim, Sit, AwaitPost, AwaitBarrier, Check, Exit, WInv, MainIndex
<1>2. ASSUME ~Releasing, StartPost PROVE MainIndex'
  BY <1>2, Ranges DEF StartPost, Post, WInv, MainIndex
<1>3. ASSUME Releasing, OpenBarrier PROVE MainIndex'
  BY <1>3, Ranges DEF OpenBarrier, WInv, MainIndex
<1>4. ASSUME Poll PROVE MainIndex'
  BY <1>4, Ranges DEF Poll, WInv, MainIndex
<1>5. ASSUME Stop PROVE MainIndex'
  BY <1>5, Ranges DEF Stop, WInv, MainIndex
<1>6. ASSUME ~Releasing, ShutPost PROVE MainIndex'
  BY <1>6, Ranges DEF ShutPost, Post, WInv, MainIndex
<1>7. ASSUME Join PROVE MainIndex'
  BY <1>7, Ranges DEF Join, WInv, MainIndex
<1>8. ASSUME Releasing, Release PROVE MainIndex'
  BY <1>8, Ranges DEF Release, WInv, MainIndex
<1>9. ASSUME Releasing, ReleasePost PROVE MainIndex'
  BY <1>9, Ranges DEF ReleasePost, Post, WInv, MainIndex
<1>10. ASSUME NEW t \in Threads, Releasing, Collect(t) PROVE MainIndex'
  BY <1>10, Ranges DEF Collect, WInv, MainIndex
<1>11. ASSUME UNCHANGED vars PROVE MainIndex'
  BY <1>11, Ranges DEF vars, WInv, MainIndex
<1>12. QED
  BY <1>1, <1>2, <1>3, <1>4, <1>5, <1>6, <1>7, <1>8, <1>9, <1>10, <1>11
  DEF Next, Main, Thread, Ended, Put, Picks,
     FibreThread, PthreadThread, CfaThread, GoThread, TokioThread,
     FibreMain, PthreadMain, CfaMain, GoMain, TokioMain

\* Only main closes seats, in order.
LEMMA ClosedKept == WInv /\ [Next]_vars => SeatsClosed'
<1> SUFFICES ASSUME WInv, [Next]_vars PROVE SeatsClosed'
  OBVIOUS
<1> USE DEF WInv, TypeOK, SeatsClosed, Releasing, setup, spotvars, mainvars, threadvars
<1>1. ASSUME NEW t \in Threads, NEW s \in Spots, FindClosed(t, s) PROVE SeatsClosed'
  BY <1>1, Ranges DEF FindClosed, MainIndex
<1>2. ASSUME NEW t \in Threads, NEW s \in Spots, Take(t, s) PROVE SeatsClosed'
  BY <1>2, Ranges DEF Take, MainIndex
<1>3. ASSUME NEW t \in Threads, Give(t) PROVE SeatsClosed'
  BY <1>3, Ranges DEF Give, MainIndex
<1>4. ASSUME NEW t \in Threads, PostVictim(t) PROVE SeatsClosed'
  BY <1>4, Ranges DEF PostVictim, Post, MainIndex
<1>5. ASSUME NEW t \in Threads, Sit(t) PROVE SeatsClosed'
  BY <1>5, Ranges DEF Sit, Wait, MainIndex
<1>6. ASSUME NEW t \in Threads, ~Releasing, AwaitPost(t) PROVE SeatsClosed'
  BY <1>6, Ranges DEF AwaitPost, Wait, MainIndex
<1>7. ASSUME NEW t \in Threads, Releasing, AwaitBarrier(t) PROVE SeatsClosed'
  BY <1>7, Ranges DEF AwaitBarrier, MainIndex
<1>8. ASSUME NEW t \in Threads, Check(t) PROVE SeatsClosed'
  BY <1>8, Ranges DEF Check, Over, MainIndex
<1>9. ASSUME NEW t \in Threads, Exit(t) PROVE SeatsClosed'
  BY <1>9, Ranges DEF Exit, MainIndex
<1>10. ASSUME ~Releasing, StartPost PROVE SeatsClosed'
  BY <1>10, Ranges DEF StartPost, Post, MainIndex
<1>11. ASSUME Releasing, OpenBarrier PROVE SeatsClosed'
  BY <1>11, Ranges DEF OpenBarrier, MainIndex
<1>12. ASSUME Poll PROVE SeatsClosed'
  BY <1>12, Ranges DEF Poll, MainIndex
<1>13. ASSUME Stop PROVE SeatsClosed'
  BY <1>13, Ranges DEF Stop, MainIndex
<1>14. ASSUME ~Releasing, ShutPost PROVE SeatsClosed'
  BY <1>14, Ranges DEF ShutPost, Post, MainIndex
<1>15. ASSUME Join PROVE SeatsClosed'
  BY <1>15, Ranges DEF Join, MainIndex
<1>16. ASSUME Releasing, Release PROVE SeatsClosed'
  BY <1>16, Ranges DEF Release, MainIndex
<1>17. ASSUME Releasing, ReleasePost PROVE SeatsClosed'
  BY <1>17, Ranges DEF ReleasePost, Post, MainIndex
<1>18. ASSUME NEW t \in Threads, Releasing, Collect(t) PROVE SeatsClosed'
  BY <1>18, Ranges DEF Collect, MainIndex
<1>19. ASSUME UNCHANGED vars PROVE SeatsClosed'
  BY <1>19, Ranges DEF vars, MainIndex
<1>20. QED
  BY <1>1, <1>2, <1>3, <1>4, <1>5, <1>6, <1>7, <1>8, <1>9, <1>10, <1>11, <1>12,
     <1>13, <1>14, <1>15, <1>16, <1>17, <1>18, <1>19
  DEF Next, Main, Thread, Ended, Put, Picks,
     FibreThread, PthreadThread, CfaThread, GoThread, TokioThread,
     FibreMain, PthreadMain, CfaMain, GoMain, TokioMain

\* Every step keeps the types.
LEMMA TypesKept == WInv /\ MainIndex' /\ [Next]_vars => TypeOK'
<1> SUFFICES ASSUME WInv, MainIndex', [Next]_vars PROVE TypeOK'
  OBVIOUS
<1> USE DEF WInv, TypeOK, MainIndex, SeatsClosed, Releasing, Binary, NProcs, CountsProcs, setup, spotvars, mainvars, threadvars
<1>1. ASSUME NEW t \in Threads, NEW s \in Spots, FindClosed(t, s) PROVE TypeOK'
  BY <1>1, Counts DEF FindClosed, WakeInv, VictimInHand, MainVictimInHand
<1>2. ASSUME NEW t \in Threads, NEW s \in Spots, Take(t, s) PROVE TypeOK'
  BY <1>2, Counts DEF Take, WakeInv, VictimInHand, MainVictimInHand
<1>3. ASSUME NEW t \in Threads, Give(t) PROVE TypeOK'
  BY <1>3, Counts DEF Give, WakeInv, VictimInHand, MainVictimInHand
<1>4. ASSUME NEW t \in Threads, PostVictim(t) PROVE TypeOK'
  BY <1>4, Counts DEF PostVictim, Post, WakeInv, VictimInHand, MainVictimInHand
<1>5. ASSUME NEW t \in Threads, Sit(t) PROVE TypeOK'
  BY <1>5, Counts DEF Sit, Wait, WakeInv, VictimInHand, MainVictimInHand
<1>6. ASSUME NEW t \in Threads, ~Releasing, AwaitPost(t) PROVE TypeOK'
  BY <1>6, Counts DEF AwaitPost, Wait, WakeInv, VictimInHand, MainVictimInHand
<1>7. ASSUME NEW t \in Threads, Releasing, AwaitBarrier(t) PROVE TypeOK'
  BY <1>7, Counts DEF AwaitBarrier, WakeInv, VictimInHand, MainVictimInHand
<1>8. ASSUME NEW t \in Threads, Check(t) PROVE TypeOK'
  BY <1>8, Counts DEF Check, Over, WakeInv, VictimInHand, MainVictimInHand
<1>9. ASSUME NEW t \in Threads, Exit(t) PROVE TypeOK'
  BY <1>9, Counts DEF Exit, WakeInv, VictimInHand, MainVictimInHand
<1>10. ASSUME ~Releasing, StartPost PROVE TypeOK'
  BY <1>10, Counts DEF StartPost, Post, WakeInv, VictimInHand, MainVictimInHand
<1>11. ASSUME Releasing, OpenBarrier PROVE TypeOK'
  BY <1>11, Counts DEF OpenBarrier, WakeInv, VictimInHand, MainVictimInHand
<1>12. ASSUME Poll PROVE TypeOK'
  BY <1>12, Counts DEF Poll, WakeInv, VictimInHand, MainVictimInHand
<1>13. ASSUME Stop PROVE TypeOK'
  BY <1>13, Counts DEF Stop, WakeInv, VictimInHand, MainVictimInHand
<1>14. ASSUME ~Releasing, ShutPost PROVE TypeOK'
  BY <1>14, Counts DEF ShutPost, Post, WakeInv, VictimInHand, MainVictimInHand
<1>15. ASSUME Join PROVE TypeOK'
  BY <1>15, Counts DEF Join, WakeInv, VictimInHand, MainVictimInHand
<1>16. ASSUME Releasing, Release PROVE TypeOK'
  BY <1>16, Counts DEF Release, WakeInv, VictimInHand, MainVictimInHand
<1>17. ASSUME Releasing, ReleasePost PROVE TypeOK'
  BY <1>17, Counts DEF ReleasePost, Post, WakeInv, VictimInHand, MainVictimInHand
<1>18. ASSUME NEW t \in Threads, Releasing, Collect(t) PROVE TypeOK'
  BY <1>18, Counts DEF Collect, WakeInv, VictimInHand, MainVictimInHand
<1>19. ASSUME UNCHANGED vars PROVE TypeOK'
  BY <1>19, Counts DEF vars, WakeInv, VictimInHand, MainVictimInHand
<1>20. QED
  BY <1>1, <1>2, <1>3, <1>4, <1>5, <1>6, <1>7, <1>8, <1>9, <1>10, <1>11, <1>12,
     <1>13, <1>14, <1>15, <1>16, <1>17, <1>18, <1>19
  DEF Next, Main, Thread, Ended, Put, Picks,
     FibreThread, PthreadThread, CfaThread, GoThread, TokioThread,
     FibreMain, PthreadMain, CfaMain, GoMain, TokioMain

\* Every step keeps a sleeper's wake-up: in a seat, or in somebody's hands.
LEMMA WakeKept == WInv /\ [Next]_vars => WakeInv'
<1> SUFFICES ASSUME WInv, [Next]_vars PROVE WakeInv'
  OBVIOUS
<1> USE DEF WInv, TypeOK, Releasing, Binary, setup, spotvars, mainvars, threadvars
<1>1. ASSUME NEW t \in Threads, NEW s \in Spots, FindClosed(t, s) PROVE WakeInv'
  BY <1>1 DEF FindClosed, MainIndex, WakeInv, VictimInHand, MainVictimInHand, SleepersHaveNoPost, NoLostWakeup, Claimed, SeatsOf, WakersOf
<1>2. ASSUME NEW t \in Threads, NEW s \in Spots, Take(t, s) PROVE WakeInv'
  BY <1>2 DEF Take, MainIndex, WakeInv, VictimInHand, MainVictimInHand, SleepersHaveNoPost, NoLostWakeup, Claimed, SeatsOf, WakersOf
<1>3. ASSUME NEW t \in Threads, Give(t) PROVE WakeInv'
  BY <1>3 DEF Give, MainIndex, WakeInv, VictimInHand, MainVictimInHand, SleepersHaveNoPost, NoLostWakeup, Claimed, SeatsOf, WakersOf
<1>4. ASSUME NEW t \in Threads, PostVictim(t) PROVE WakeInv'
  BY <1>4 DEF PostVictim, Post, MainIndex, WakeInv, VictimInHand, MainVictimInHand, SleepersHaveNoPost, NoLostWakeup, Claimed, SeatsOf, WakersOf
<1>5. ASSUME NEW t \in Threads, Sit(t) PROVE WakeInv'
  BY <1>5 DEF Sit, Wait, MainIndex, WakeInv, VictimInHand, MainVictimInHand, SleepersHaveNoPost, NoLostWakeup, Claimed, SeatsOf, WakersOf
<1>6. ASSUME NEW t \in Threads, ~Releasing, AwaitPost(t) PROVE WakeInv'
  BY <1>6 DEF AwaitPost, Wait, MainIndex, WakeInv, VictimInHand, MainVictimInHand, SleepersHaveNoPost, NoLostWakeup, Claimed, SeatsOf, WakersOf
<1>7. ASSUME NEW t \in Threads, Releasing, AwaitBarrier(t) PROVE WakeInv'
  BY <1>7 DEF AwaitBarrier, MainIndex, WakeInv, VictimInHand, MainVictimInHand, SleepersHaveNoPost, NoLostWakeup, Claimed, SeatsOf, WakersOf
<1>8. ASSUME NEW t \in Threads, Check(t) PROVE WakeInv'
  BY <1>8 DEF Check, Over, MainIndex, WakeInv, VictimInHand, MainVictimInHand, SleepersHaveNoPost, NoLostWakeup, Claimed, SeatsOf, WakersOf
<1>9. ASSUME NEW t \in Threads, Exit(t) PROVE WakeInv'
  BY <1>9 DEF Exit, MainIndex, WakeInv, VictimInHand, MainVictimInHand, SleepersHaveNoPost, NoLostWakeup, Claimed, SeatsOf, WakersOf
<1>10. ASSUME ~Releasing, StartPost PROVE WakeInv'
  BY <1>10 DEF StartPost, Post, MainIndex, WakeInv, VictimInHand, MainVictimInHand, SleepersHaveNoPost, NoLostWakeup, Claimed, SeatsOf, WakersOf
<1>11. ASSUME Releasing, OpenBarrier PROVE WakeInv'
  BY <1>11 DEF OpenBarrier, MainIndex, WakeInv, VictimInHand, MainVictimInHand, SleepersHaveNoPost, NoLostWakeup, Claimed, SeatsOf, WakersOf
<1>12. ASSUME Poll PROVE WakeInv'
  BY <1>12 DEF Poll, MainIndex, WakeInv, VictimInHand, MainVictimInHand, SleepersHaveNoPost, NoLostWakeup, Claimed, SeatsOf, WakersOf
<1>13. ASSUME Stop PROVE WakeInv'
  BY <1>13 DEF Stop, MainIndex, WakeInv, VictimInHand, MainVictimInHand, SleepersHaveNoPost, NoLostWakeup, Claimed, SeatsOf, WakersOf
<1>14. ASSUME ~Releasing, ShutPost PROVE WakeInv'
  BY <1>14 DEF ShutPost, Post, MainIndex, WakeInv, VictimInHand, MainVictimInHand, SleepersHaveNoPost, NoLostWakeup, Claimed, SeatsOf, WakersOf
<1>15. ASSUME Join PROVE WakeInv'
  BY <1>15 DEF Join, MainIndex, WakeInv, VictimInHand, MainVictimInHand, SleepersHaveNoPost, NoLostWakeup, Claimed, SeatsOf, WakersOf
<1>16. ASSUME Releasing, Release PROVE WakeInv'
  BY <1>16 DEF Release, MainIndex, WakeInv, VictimInHand, MainVictimInHand, SleepersHaveNoPost, NoLostWakeup, Claimed, SeatsOf, WakersOf
<1>17. ASSUME Releasing, ReleasePost PROVE WakeInv'
  BY <1>17 DEF ReleasePost, Post, MainIndex, WakeInv, VictimInHand, MainVictimInHand, SleepersHaveNoPost, NoLostWakeup, Claimed, SeatsOf, WakersOf
<1>18. ASSUME NEW t \in Threads, Releasing, Collect(t) PROVE WakeInv'
  BY <1>18 DEF Collect, MainIndex, WakeInv, VictimInHand, MainVictimInHand, SleepersHaveNoPost, NoLostWakeup, Claimed, SeatsOf, WakersOf
<1>19. ASSUME UNCHANGED vars PROVE WakeInv'
  BY <1>19 DEF vars, MainIndex, WakeInv, VictimInHand, MainVictimInHand, SleepersHaveNoPost, NoLostWakeup, Claimed, SeatsOf, WakersOf
<1>20. QED
  BY <1>1, <1>2, <1>3, <1>4, <1>5, <1>6, <1>7, <1>8, <1>9, <1>10, <1>11, <1>12,
     <1>13, <1>14, <1>15, <1>16, <1>17, <1>18, <1>19
  DEF Next, Main, Thread, Ended, Put, Picks,
     FibreThread, PthreadThread, CfaThread, GoThread, TokioThread,
     FibreMain, PthreadMain, CfaMain, GoMain, TokioMain

LEMMA StepWInv == WInv /\ [Next]_vars => WInv'
  BY IndexKept, ClosedKept, TypesKept, WakeKept DEF WInv

LEMMA WInvAlways == Spec => []WInv
  BY InitWInv, StepWInv, PTL DEF Spec

\* The state of every program stays in its types: seats hold threads, indices stay in
\* their loops' ranges, nobody counts more rounds than --iterations asks for.
THEOREM TypeCorrect == Spec => []TypeOK
<1>1. WInv => TypeOK
  BY DEF WInv
<1>2. QED
  BY <1>1, WInvAlways, PTL

\* No wake-up of put() is lost, in any of the five programs and in either mode.
THEOREM WakeupsArrive == Spec => []NoLostWakeup
<1>1. WInv => NoLostWakeup
  BY DEF WInv, WakeInv
<1>2. QED
  BY <1>1, WInvAlways, PTL

\* Each sleeper is in a seat, and no seat holds two.
LEMMA WakingFit == WInv => SleepersFitSpots
<1> SUFFICES ASSUME WInv PROVE SleepersFitSpots
  OBVIOUS
<1>1. \A t \in Sleepers : \E s \in Spots : seat[s] = t
  BY DEF WInv, WakeInv, SleepersHaveNoPost, NoLostWakeup, Sleepers, Claimed, SeatsOf
<1> DEFINE f == [t \in Sleepers |-> CHOOSE s \in Spots : seat[s] = t]
<1>2. \A t \in Sleepers : f[t] \in Spots /\ seat[f[t]] = t
  BY <1>1
<1>3. f \in Injection(Sleepers, Spots)
  BY <1>2 DEF Injection, IsInjective
<1>4. IsFiniteSet(Spots) /\ Cardinality(Spots) = NSpots
  BY Ranges, FS_Interval DEF Spots
<1>5. Cardinality(Sleepers) <= Cardinality(Spots)
  BY <1>3, <1>4, FS_Injection
<1>6. QED
  BY <1>4, <1>5 DEF SleepersFitSpots

\* At most nspots threads sleep, so nthreads - nspots are active, in all five programs.
THEOREM SleepersFit == Spec => []SleepersFitSpots
  BY WakingFit, WInvAlways, PTL
-----------------------------------------------------------------------------
(* The seats are exclusive. *)

\* The C programs post the sleepers only after they have set stop.
StopPhase == mpc \in {"shut", "join", "done"} /\ ~Releasing => stop

\* A post is spent before its thread works, so no thread ever owes two.
PostsSpent ==
  \A t \in Threads :
    /\ pc[t] \in {"work", "check", "exit", "send", "done"} => sem[t] = 0
    /\ Releasing /\ pc[t] = "start" => sem[t] = 0
    /\ sem[t] <= 1

\* Nobody has passed the start whom main has yet to post.
StartPosts ==
  ~Releasing /\ mpc = "start" =>
    \A t \in Threads : t >= mi => pc[t] \in {"start", "startasleep"} /\ sem[t] = 0

EInv == StopPhase /\ SeatsExclusive /\ (Releasing \/ ~stop => PostsSpent /\ StartPosts)

LEMMA InitEInv == Init => EInv
  BY DEF Init, EInv, StopPhase, SeatsExclusive, PostsSpent, StartPosts, Claimed, SeatsOf, WakersOf

\* Main sets stop on its way to the shutdown.
LEMMA StopPhaseKept == WInv /\ EInv /\ [Next]_vars => StopPhase'
<1> SUFFICES ASSUME WInv, EInv, [Next]_vars PROVE StopPhase'
  OBVIOUS
<1> USE DEF Releasing, setup, spotvars, mainvars, threadvars
<1>1. ASSUME NEW t \in Threads,
            \/ \E s \in Spots : FindClosed(t, s) \/ Take(t, s)
            \/ Give(t) \/ PostVictim(t) \/ Sit(t) \/ AwaitPost(t)
            \/ AwaitBarrier(t) \/ Check(t) \/ Exit(t)
     PROVE  StopPhase'
  BY <1>1 DEF FindClosed, Take, Give, PostVictim, Sit, AwaitPost, AwaitBarrier, Check, Exit, EInv, StopPhase
<1>2. ASSUME ~Releasing, StartPost PROVE StopPhase'
  BY <1>2 DEF StartPost, Post, EInv, StopPhase
<1>3. ASSUME Releasing, OpenBarrier PROVE StopPhase'
  BY <1>3 DEF OpenBarrier, EInv, StopPhase
<1>4. ASSUME Poll PROVE StopPhase'
  BY <1>4 DEF Poll, EInv, StopPhase
<1>5. ASSUME Stop PROVE StopPhase'
  BY <1>5 DEF Stop, EInv, StopPhase
<1>6. ASSUME ~Releasing, ShutPost PROVE StopPhase'
  BY <1>6 DEF ShutPost, Post, EInv, StopPhase
<1>7. ASSUME Join PROVE StopPhase'
  BY <1>7 DEF Join, EInv, StopPhase
<1>8. ASSUME Releasing, Release PROVE StopPhase'
  BY <1>8 DEF Release, EInv, StopPhase
<1>9. ASSUME Releasing, ReleasePost PROVE StopPhase'
  BY <1>9 DEF ReleasePost, Post, EInv, StopPhase
<1>10. ASSUME NEW t \in Threads, Releasing, Collect(t) PROVE StopPhase'
  BY <1>10 DEF Collect, EInv, StopPhase
<1>11. ASSUME UNCHANGED vars PROVE StopPhase'
  BY <1>11 DEF vars, EInv, StopPhase
<1>12. QED
  BY <1>1, <1>2, <1>3, <1>4, <1>5, <1>6, <1>7, <1>8, <1>9, <1>10, <1>11
  DEF Next, Main, Thread, Ended, Put, Picks,
     FibreThread, PthreadThread, CfaThread, GoThread, TokioThread,
     FibreMain, PthreadMain, CfaMain, GoMain, TokioMain

\* Every step keeps the seats exclusive.
LEMMA SeatsKept == WInv /\ EInv /\ WInv' /\ [Next]_vars => SeatsExclusive'
<1> SUFFICES ASSUME WInv, EInv, WInv', [Next]_vars PROVE SeatsExclusive'
  OBVIOUS
<1> USE DEF WInv, TypeOK, Releasing, Binary, setup, spotvars, mainvars, threadvars
<1>1. ASSUME NEW t \in Threads, NEW s \in Spots, FindClosed(t, s) PROVE SeatsExclusive'
  BY <1>1 DEF FindClosed, EInv, SeatsExclusive, PostsSpent, StartPosts, MainIndex, SeatsClosed, WakeInv, VictimInHand, MainVictimInHand, Claimed, SeatsOf, WakersOf
<1>2. ASSUME NEW t \in Threads, NEW s \in Spots, Take(t, s) PROVE SeatsExclusive'
  <2> SUFFICES ASSUME Releasing \/ ~stop PROVE SeatsExclusive'
    BY <1>2 DEF Take, SeatsExclusive
  <2> DEFINE v == seat[s]
  <2>1. pc[t] = "work" /\ sem[t] = 0 /\ ~Claimed(t) /\ victim[t] = Null
    BY <1>2 DEF Take, EInv, PostsSpent, SeatsExclusive, WakeInv, VictimInHand
  <2>2. \A u \in Threads : SeatsOf(u)' = IF u = t THEN {s} ELSE SeatsOf(u) \ {s}
    BY <1>2, <2>1 DEF Take, SeatsOf, Claimed
  <2>3. \A u \in Threads : WakersOf(u)' = IF u = v THEN {t} \cup WakersOf(u) ELSE WakersOf(u)
    BY <1>2, <2>1 DEF Take, WakersOf
  <2>4. v \in Threads => SeatsOf(v) = {s} /\ WakersOf(v) = {} /\ mvictim # v /\ v # t
    BY <1>2, <2>1 DEF EInv, SeatsExclusive, SeatsOf, Claimed
  <2>5. /\ mvictim' = mvictim /\ sem' = sem /\ pc'[t] \in InPut
        /\ \A u \in Threads : u # t => pc'[u] = pc[u]
    BY <1>2 DEF Take
  <2>6. \A u \in Threads : u # t => (Claimed(u)' <=> Claimed(u))
    BY <2>2, <2>3, <2>4, <2>5 DEF Claimed, SeatsOf
  <2> HIDE DEF WInv, TypeOK, Releasing
  <2>7. QED
    BY <2>1, <2>2, <2>3, <2>4, <2>5, <2>6 DEF EInv, SeatsExclusive, Claimed
<1>3. ASSUME NEW t \in Threads, Give(t) PROVE SeatsExclusive'
  <2>1. \A u \in Threads :
          /\ SeatsOf(u)' = SeatsOf(u) /\ WakersOf(u)' = WakersOf(u)
          /\ Claimed(u)' <=> Claimed(u)
    BY <1>3 DEF Give, SeatsOf, WakersOf, Claimed
  <2>2. \A u \in Threads : pc[u] \in InPut => pc'[u] \in InPut
    BY <1>3 DEF Give
  <2>3. UNCHANGED <<sem, mvictim, stop, prog>>
    BY <1>3 DEF Give
  <2> HIDE DEF WInv, TypeOK
  <2>4. QED
    BY <2>1, <2>2, <2>3 DEF EInv, SeatsExclusive
<1>4. ASSUME NEW t \in Threads, PostVictim(t) PROVE SeatsExclusive'
  BY <1>4 DEF PostVictim, Post, EInv, SeatsExclusive, PostsSpent, StartPosts, MainIndex, SeatsClosed, WakeInv, VictimInHand, MainVictimInHand, Claimed, SeatsOf, WakersOf
<1>5. ASSUME NEW t \in Threads, Sit(t) PROVE SeatsExclusive'
  BY <1>5 DEF Sit, Wait, EInv, SeatsExclusive, PostsSpent, StartPosts, MainIndex, SeatsClosed, WakeInv, VictimInHand, MainVictimInHand, Claimed, SeatsOf, WakersOf
<1>6. ASSUME NEW t \in Threads, ~Releasing, AwaitPost(t) PROVE SeatsExclusive'
  BY <1>6 DEF AwaitPost, Wait, EInv, SeatsExclusive, PostsSpent, StartPosts, MainIndex, SeatsClosed, WakeInv, VictimInHand, MainVictimInHand, Claimed, SeatsOf, WakersOf
<1>7. ASSUME NEW t \in Threads, Releasing, AwaitBarrier(t) PROVE SeatsExclusive'
  BY <1>7 DEF AwaitBarrier, EInv, SeatsExclusive, PostsSpent, StartPosts, MainIndex, SeatsClosed, WakeInv, VictimInHand, MainVictimInHand, Claimed, SeatsOf, WakersOf
<1>8. ASSUME NEW t \in Threads, Check(t) PROVE SeatsExclusive'
  BY <1>8 DEF Check, Over, EInv, SeatsExclusive, PostsSpent, StartPosts, MainIndex, SeatsClosed, WakeInv, VictimInHand, MainVictimInHand, Claimed, SeatsOf, WakersOf
<1>9. ASSUME NEW t \in Threads, Exit(t) PROVE SeatsExclusive'
  BY <1>9 DEF Exit, EInv, SeatsExclusive, PostsSpent, StartPosts, MainIndex, SeatsClosed, WakeInv, VictimInHand, MainVictimInHand, Claimed, SeatsOf, WakersOf
<1>10. ASSUME ~Releasing, StartPost PROVE SeatsExclusive'
  BY <1>10 DEF StartPost, Post, EInv, SeatsExclusive, PostsSpent, StartPosts, MainIndex, SeatsClosed, WakeInv, VictimInHand, MainVictimInHand, Claimed, SeatsOf, WakersOf
<1>11. ASSUME Releasing, OpenBarrier PROVE SeatsExclusive'
  BY <1>11 DEF OpenBarrier, EInv, SeatsExclusive, PostsSpent, StartPosts, MainIndex, SeatsClosed, WakeInv, VictimInHand, MainVictimInHand, Claimed, SeatsOf, WakersOf
<1>12. ASSUME Poll PROVE SeatsExclusive'
  BY <1>12 DEF Poll, EInv, SeatsExclusive, PostsSpent, StartPosts, MainIndex, SeatsClosed, WakeInv, VictimInHand, MainVictimInHand, Claimed, SeatsOf, WakersOf
<1>13. ASSUME Stop PROVE SeatsExclusive'
  BY <1>13 DEF Stop, EInv, SeatsExclusive, PostsSpent, StartPosts, MainIndex, SeatsClosed, WakeInv, VictimInHand, MainVictimInHand, Claimed, SeatsOf, WakersOf
<1>14. ASSUME ~Releasing, ShutPost PROVE SeatsExclusive'
  <2>1. stop' /\ ~Releasing'
    BY <1>14 DEF ShutPost, EInv, StopPhase
  <2>2. QED
    BY <2>1 DEF SeatsExclusive
<1>15. ASSUME Join PROVE SeatsExclusive'
  BY <1>15 DEF Join, EInv, SeatsExclusive, PostsSpent, StartPosts, MainIndex, SeatsClosed, WakeInv, VictimInHand, MainVictimInHand, Claimed, SeatsOf, WakersOf
<1>16. ASSUME Releasing, Release PROVE SeatsExclusive'
  BY <1>16 DEF Release, EInv, SeatsExclusive, PostsSpent, StartPosts, MainIndex, SeatsClosed, WakeInv, VictimInHand, MainVictimInHand, Claimed, SeatsOf, WakersOf
<1>17. ASSUME Releasing, ReleasePost PROVE SeatsExclusive'
  BY <1>17 DEF ReleasePost, Post, EInv, SeatsExclusive, PostsSpent, StartPosts, MainIndex, SeatsClosed, WakeInv, VictimInHand, MainVictimInHand, Claimed, SeatsOf, WakersOf
<1>18. ASSUME NEW t \in Threads, Releasing, Collect(t) PROVE SeatsExclusive'
  BY <1>18 DEF Collect, EInv, SeatsExclusive, PostsSpent, StartPosts, MainIndex, SeatsClosed, WakeInv, VictimInHand, MainVictimInHand, Claimed, SeatsOf, WakersOf
<1>19. ASSUME UNCHANGED vars PROVE SeatsExclusive'
  BY <1>19 DEF vars, EInv, SeatsExclusive, PostsSpent, StartPosts, MainIndex, SeatsClosed, WakeInv, VictimInHand, MainVictimInHand, Claimed, SeatsOf, WakersOf
<1>20. QED
  BY <1>1, <1>2, <1>3, <1>4, <1>5, <1>6, <1>7, <1>8, <1>9, <1>10, <1>11, <1>12,
     <1>13, <1>14, <1>15, <1>16, <1>17, <1>18, <1>19
  DEF Next, Main, Thread, Ended, Put, Picks,
     FibreThread, PthreadThread, CfaThread, GoThread, TokioThread,
     FibreMain, PthreadMain, CfaMain, GoMain, TokioMain

\* Every step keeps the count of posts right.
LEMMA PostsKept == WInv /\ EInv /\ WInv' /\ [Next]_vars => (Releasing' \/ ~stop' => PostsSpent')
<1> SUFFICES ASSUME WInv, EInv, WInv', [Next]_vars PROVE (Releasing' \/ ~stop' => PostsSpent')
  OBVIOUS
<1> USE DEF WInv, TypeOK, Releasing, Binary, setup, spotvars, mainvars, threadvars
<1>1. ASSUME NEW t \in Threads, NEW s \in Spots, FindClosed(t, s) PROVE (Releasing' \/ ~stop' => PostsSpent')
  BY <1>1, Ranges DEF FindClosed, EInv, SeatsExclusive, PostsSpent, StartPosts, MainIndex, WakeInv, VictimInHand, MainVictimInHand, SleepersHaveNoPost, Claimed, SeatsOf, WakersOf
<1>2. ASSUME NEW t \in Threads, NEW s \in Spots, Take(t, s) PROVE (Releasing' \/ ~stop' => PostsSpent')
  BY <1>2, Ranges DEF Take, EInv, SeatsExclusive, PostsSpent, StartPosts, MainIndex, WakeInv, VictimInHand, MainVictimInHand, SleepersHaveNoPost, Claimed, SeatsOf, WakersOf
<1>3. ASSUME NEW t \in Threads, Give(t) PROVE (Releasing' \/ ~stop' => PostsSpent')
  BY <1>3, Ranges DEF Give, EInv, SeatsExclusive, PostsSpent, StartPosts, MainIndex, WakeInv, VictimInHand, MainVictimInHand, SleepersHaveNoPost, Claimed, SeatsOf, WakersOf
<1>4. ASSUME NEW t \in Threads, PostVictim(t) PROVE (Releasing' \/ ~stop' => PostsSpent')
  <2> SUFFICES ASSUME Releasing \/ ~stop PROVE PostsSpent'
    BY <1>4 DEF PostVictim
  <2> DEFINE u == victim[t]
  <2>1. u \in Threads /\ pc[t] = "post" /\ t \in WakersOf(u)
    BY <1>4 DEF PostVictim, EInv, SeatsExclusive, WakeInv, VictimInHand, Claimed, WakersOf, InPut
  <2>2. pc[u] \in InPut /\ sem[u] = 0
    BY <2>1 DEF EInv, SeatsExclusive, Claimed
  <2>3. PostsSpent
    BY DEF EInv
  <2>4. QED
    BY <1>4, <2>1, <2>2, <2>3 DEF PostVictim, Post, PostsSpent, InPut, Asleep
<1>5. ASSUME NEW t \in Threads, Sit(t) PROVE (Releasing' \/ ~stop' => PostsSpent')
  BY <1>5, Ranges DEF Sit, Wait, EInv, SeatsExclusive, PostsSpent, StartPosts, MainIndex, WakeInv, VictimInHand, MainVictimInHand, SleepersHaveNoPost, Claimed, SeatsOf, WakersOf
<1>6. ASSUME NEW t \in Threads, ~Releasing, AwaitPost(t) PROVE (Releasing' \/ ~stop' => PostsSpent')
  BY <1>6, Ranges DEF AwaitPost, Wait, EInv, SeatsExclusive, PostsSpent, StartPosts, MainIndex, WakeInv, VictimInHand, MainVictimInHand, SleepersHaveNoPost, Claimed, SeatsOf, WakersOf
<1>7. ASSUME NEW t \in Threads, Releasing, AwaitBarrier(t) PROVE (Releasing' \/ ~stop' => PostsSpent')
  BY <1>7, Ranges DEF AwaitBarrier, EInv, SeatsExclusive, PostsSpent, StartPosts, MainIndex, WakeInv, VictimInHand, MainVictimInHand, SleepersHaveNoPost, Claimed, SeatsOf, WakersOf
<1>8. ASSUME NEW t \in Threads, Check(t) PROVE (Releasing' \/ ~stop' => PostsSpent')
  BY <1>8, Ranges DEF Check, Over, EInv, SeatsExclusive, PostsSpent, StartPosts, MainIndex, WakeInv, VictimInHand, MainVictimInHand, SleepersHaveNoPost, Claimed, SeatsOf, WakersOf
<1>9. ASSUME NEW t \in Threads, Exit(t) PROVE (Releasing' \/ ~stop' => PostsSpent')
  BY <1>9, Ranges DEF Exit, EInv, SeatsExclusive, PostsSpent, StartPosts, MainIndex, WakeInv, VictimInHand, MainVictimInHand, SleepersHaveNoPost, Claimed, SeatsOf, WakersOf
<1>10. ASSUME ~Releasing, StartPost PROVE (Releasing' \/ ~stop' => PostsSpent')
  <2> SUFFICES ASSUME ~stop PROVE PostsSpent'
    BY <1>10 DEF StartPost
  <2>1. mi \in Threads /\ mi \in Nat /\ pc[mi] \in {"start", "startasleep"} /\ sem[mi] = 0
    BY <1>10 DEF StartPost, MainIndex, EInv, StartPosts
  <2>2. QED
    BY <1>10, <2>1 DEF StartPost, Post, EInv, PostsSpent
<1>11. ASSUME Releasing, OpenBarrier PROVE (Releasing' \/ ~stop' => PostsSpent')
  BY <1>11, Ranges DEF OpenBarrier, EInv, SeatsExclusive, PostsSpent, StartPosts, MainIndex, WakeInv, VictimInHand, MainVictimInHand, SleepersHaveNoPost, Claimed, SeatsOf, WakersOf
<1>12. ASSUME Poll PROVE (Releasing' \/ ~stop' => PostsSpent')
  BY <1>12, Ranges DEF Poll, EInv, SeatsExclusive, PostsSpent, StartPosts, MainIndex, WakeInv, VictimInHand, MainVictimInHand, SleepersHaveNoPost, Claimed, SeatsOf, WakersOf
<1>13. ASSUME Stop PROVE (Releasing' \/ ~stop' => PostsSpent')
  BY <1>13, Ranges DEF Stop, EInv, SeatsExclusive, PostsSpent, StartPosts, MainIndex, WakeInv, VictimInHand, MainVictimInHand, SleepersHaveNoPost, Claimed, SeatsOf, WakersOf
<1>14. ASSUME ~Releasing, ShutPost PROVE (Releasing' \/ ~stop' => PostsSpent')
  <2>1. stop' /\ ~Releasing'
    BY <1>14 DEF ShutPost, EInv, StopPhase
  <2>2. QED
    BY <2>1 DEF Releasing
<1>15. ASSUME Join PROVE (Releasing' \/ ~stop' => PostsSpent')
  BY <1>15, Ranges DEF Join, EInv, SeatsExclusive, PostsSpent, StartPosts, MainIndex, WakeInv, VictimInHand, MainVictimInHand, SleepersHaveNoPost, Claimed, SeatsOf, WakersOf
<1>16. ASSUME Releasing, Release PROVE (Releasing' \/ ~stop' => PostsSpent')
  BY <1>16, Ranges DEF Release, EInv, SeatsExclusive, PostsSpent, StartPosts, MainIndex, WakeInv, VictimInHand, MainVictimInHand, SleepersHaveNoPost, Claimed, SeatsOf, WakersOf
<1>17. ASSUME Releasing, ReleasePost PROVE (Releasing' \/ ~stop' => PostsSpent')
  BY <1>17, Ranges DEF ReleasePost, Post, EInv, SeatsExclusive, PostsSpent, StartPosts, MainIndex, WakeInv, VictimInHand, MainVictimInHand, SleepersHaveNoPost, Claimed, SeatsOf, WakersOf
<1>18. ASSUME NEW t \in Threads, Releasing, Collect(t) PROVE (Releasing' \/ ~stop' => PostsSpent')
  BY <1>18, Ranges DEF Collect, EInv, SeatsExclusive, PostsSpent, StartPosts, MainIndex, WakeInv, VictimInHand, MainVictimInHand, SleepersHaveNoPost, Claimed, SeatsOf, WakersOf
<1>19. ASSUME UNCHANGED vars PROVE (Releasing' \/ ~stop' => PostsSpent')
  BY <1>19, Ranges DEF vars, EInv, SeatsExclusive, PostsSpent, StartPosts, MainIndex, WakeInv, VictimInHand, MainVictimInHand, SleepersHaveNoPost, Claimed, SeatsOf, WakersOf
<1>20. QED
  BY <1>1, <1>2, <1>3, <1>4, <1>5, <1>6, <1>7, <1>8, <1>9, <1>10, <1>11, <1>12,
     <1>13, <1>14, <1>15, <1>16, <1>17, <1>18, <1>19
  DEF Next, Main, Thread, Ended, Put, Picks,
     FibreThread, PthreadThread, CfaThread, GoThread, TokioThread,
     FibreMain, PthreadMain, CfaMain, GoMain, TokioMain

\* Every step keeps the start posts in order.
LEMMA StartKept == WInv /\ EInv /\ WInv' /\ [Next]_vars => (Releasing' \/ ~stop' => StartPosts')
<1> SUFFICES ASSUME WInv, EInv, WInv', [Next]_vars PROVE (Releasing' \/ ~stop' => StartPosts')
  OBVIOUS
<1> USE DEF WInv, TypeOK, Releasing, Binary, setup, spotvars, mainvars, threadvars
<1>1. ASSUME NEW t \in Threads, NEW s \in Spots, FindClosed(t, s) PROVE (Releasing' \/ ~stop' => StartPosts')
  BY <1>1, Ranges DEF FindClosed, EInv, SeatsExclusive, PostsSpent, StartPosts, MainIndex, WakeInv, VictimInHand, MainVictimInHand, SleepersHaveNoPost, Claimed, SeatsOf, WakersOf
<1>2. ASSUME NEW t \in Threads, NEW s \in Spots, Take(t, s) PROVE (Releasing' \/ ~stop' => StartPosts')
  BY <1>2, Ranges DEF Take, EInv, SeatsExclusive, PostsSpent, StartPosts, MainIndex, WakeInv, VictimInHand, MainVictimInHand, SleepersHaveNoPost, Claimed, SeatsOf, WakersOf
<1>3. ASSUME NEW t \in Threads, Give(t) PROVE (Releasing' \/ ~stop' => StartPosts')
  BY <1>3, Ranges DEF Give, EInv, SeatsExclusive, PostsSpent, StartPosts, MainIndex, WakeInv, VictimInHand, MainVictimInHand, SleepersHaveNoPost, Claimed, SeatsOf, WakersOf
<1>4. ASSUME NEW t \in Threads, PostVictim(t) PROVE (Releasing' \/ ~stop' => StartPosts')
  BY <1>4, Ranges DEF PostVictim, Post, EInv, SeatsExclusive, PostsSpent, StartPosts, MainIndex, WakeInv, VictimInHand, MainVictimInHand, SleepersHaveNoPost, Claimed, SeatsOf, WakersOf
<1>5. ASSUME NEW t \in Threads, Sit(t) PROVE (Releasing' \/ ~stop' => StartPosts')
  BY <1>5, Ranges DEF Sit, Wait, EInv, SeatsExclusive, PostsSpent, StartPosts, MainIndex, WakeInv, VictimInHand, MainVictimInHand, SleepersHaveNoPost, Claimed, SeatsOf, WakersOf
<1>6. ASSUME NEW t \in Threads, ~Releasing, AwaitPost(t) PROVE (Releasing' \/ ~stop' => StartPosts')
  BY <1>6, Ranges DEF AwaitPost, Wait, EInv, SeatsExclusive, PostsSpent, StartPosts, MainIndex, WakeInv, VictimInHand, MainVictimInHand, SleepersHaveNoPost, Claimed, SeatsOf, WakersOf
<1>7. ASSUME NEW t \in Threads, Releasing, AwaitBarrier(t) PROVE (Releasing' \/ ~stop' => StartPosts')
  BY <1>7, Ranges DEF AwaitBarrier, EInv, SeatsExclusive, PostsSpent, StartPosts, MainIndex, WakeInv, VictimInHand, MainVictimInHand, SleepersHaveNoPost, Claimed, SeatsOf, WakersOf
<1>8. ASSUME NEW t \in Threads, Check(t) PROVE (Releasing' \/ ~stop' => StartPosts')
  BY <1>8, Ranges DEF Check, Over, EInv, SeatsExclusive, PostsSpent, StartPosts, MainIndex, WakeInv, VictimInHand, MainVictimInHand, SleepersHaveNoPost, Claimed, SeatsOf, WakersOf
<1>9. ASSUME NEW t \in Threads, Exit(t) PROVE (Releasing' \/ ~stop' => StartPosts')
  BY <1>9, Ranges DEF Exit, EInv, SeatsExclusive, PostsSpent, StartPosts, MainIndex, WakeInv, VictimInHand, MainVictimInHand, SleepersHaveNoPost, Claimed, SeatsOf, WakersOf
<1>10. ASSUME ~Releasing, StartPost PROVE (Releasing' \/ ~stop' => StartPosts')
  BY <1>10, Ranges DEF StartPost, Post, EInv, SeatsExclusive, PostsSpent, StartPosts, MainIndex, WakeInv, VictimInHand, MainVictimInHand, SleepersHaveNoPost, Claimed, SeatsOf, WakersOf
<1>11. ASSUME Releasing, OpenBarrier PROVE (Releasing' \/ ~stop' => StartPosts')
  BY <1>11, Ranges DEF OpenBarrier, EInv, SeatsExclusive, PostsSpent, StartPosts, MainIndex, WakeInv, VictimInHand, MainVictimInHand, SleepersHaveNoPost, Claimed, SeatsOf, WakersOf
<1>12. ASSUME Poll PROVE (Releasing' \/ ~stop' => StartPosts')
  BY <1>12, Ranges DEF Poll, EInv, SeatsExclusive, PostsSpent, StartPosts, MainIndex, WakeInv, VictimInHand, MainVictimInHand, SleepersHaveNoPost, Claimed, SeatsOf, WakersOf
<1>13. ASSUME Stop PROVE (Releasing' \/ ~stop' => StartPosts')
  BY <1>13, Ranges DEF Stop, EInv, SeatsExclusive, PostsSpent, StartPosts, MainIndex, WakeInv, VictimInHand, MainVictimInHand, SleepersHaveNoPost, Claimed, SeatsOf, WakersOf
<1>14. ASSUME ~Releasing, ShutPost PROVE (Releasing' \/ ~stop' => StartPosts')
  <2>1. stop' /\ ~Releasing'
    BY <1>14 DEF ShutPost, EInv, StopPhase
  <2>2. QED
    BY <2>1 DEF Releasing
<1>15. ASSUME Join PROVE (Releasing' \/ ~stop' => StartPosts')
  BY <1>15, Ranges DEF Join, EInv, SeatsExclusive, PostsSpent, StartPosts, MainIndex, WakeInv, VictimInHand, MainVictimInHand, SleepersHaveNoPost, Claimed, SeatsOf, WakersOf
<1>16. ASSUME Releasing, Release PROVE (Releasing' \/ ~stop' => StartPosts')
  BY <1>16, Ranges DEF Release, EInv, SeatsExclusive, PostsSpent, StartPosts, MainIndex, WakeInv, VictimInHand, MainVictimInHand, SleepersHaveNoPost, Claimed, SeatsOf, WakersOf
<1>17. ASSUME Releasing, ReleasePost PROVE (Releasing' \/ ~stop' => StartPosts')
  BY <1>17, Ranges DEF ReleasePost, Post, EInv, SeatsExclusive, PostsSpent, StartPosts, MainIndex, WakeInv, VictimInHand, MainVictimInHand, SleepersHaveNoPost, Claimed, SeatsOf, WakersOf
<1>18. ASSUME NEW t \in Threads, Releasing, Collect(t) PROVE (Releasing' \/ ~stop' => StartPosts')
  BY <1>18, Ranges DEF Collect, EInv, SeatsExclusive, PostsSpent, StartPosts, MainIndex, WakeInv, VictimInHand, MainVictimInHand, SleepersHaveNoPost, Claimed, SeatsOf, WakersOf
<1>19. ASSUME UNCHANGED vars PROVE (Releasing' \/ ~stop' => StartPosts')
  BY <1>19, Ranges DEF vars, EInv, SeatsExclusive, PostsSpent, StartPosts, MainIndex, WakeInv, VictimInHand, MainVictimInHand, SleepersHaveNoPost, Claimed, SeatsOf, WakersOf
<1>20. QED
  BY <1>1, <1>2, <1>3, <1>4, <1>5, <1>6, <1>7, <1>8, <1>9, <1>10, <1>11, <1>12,
     <1>13, <1>14, <1>15, <1>16, <1>17, <1>18, <1>19
  DEF Next, Main, Thread, Ended, Put, Picks,
     FibreThread, PthreadThread, CfaThread, GoThread, TokioThread,
     FibreMain, PthreadMain, CfaMain, GoMain, TokioMain

LEMMA StepEInv == WInv /\ EInv /\ [Next]_vars => EInv'
  BY StepWInv, StopPhaseKept, SeatsKept, PostsKept, StartKept DEF EInv

\* Until main stops the C programs, and for good in Go and Tokio, a thread is in one
\* seat or in one waker's hands, and only while it is in put(): no seat and no waker
\* ever refers to the context of a thread that has ended.
THEOREM SeatsAreExclusive == Spec => []SeatsExclusive
<1>1. EInv => SeatsExclusive
  BY DEF EInv
<1>2. QED
  BY <1>1, InitWInv, StepWInv, InitEInv, StepEInv, PTL DEF Spec
=============================================================================
