----------------------------- MODULE ChurnProofs -----------------------------
(***************************************************************************)
(* Proofs about the churn benchmark, for every number of threads, spots,   *)
(* rounds and shutdown posts.                                              *)
(***************************************************************************)
EXTENDS Churn, TLAPS, FiniteSetTheorems

\* The threads that have yet to leave, which threads_left counts.
Live == {t \in Threads : pc[t] \notin {"result", "done"}}
LeftIsLive == threads_left = Cardinality(Live)

\* A thread in its loop has rounds to make.
RoundsLeft ==
  \A t \in Threads :
    /\ clock => count[t] = 0
    /\ ~clock /\ pc[t] \notin {"leave", "result", "done"} => count[t] < StopCount

\* Main's index is a thread or a spot, whichever its loop is about.
MainIndex ==
  /\ mpc \in {"start", "join"} => mi \in Threads
  /\ mpc = "wait" => mi = 0
  /\ mpc \in {"post", "drain", "fill"} => mi \in Spots
  /\ mpc # "post" => mj = 0

\* Main stops the run before it wakes the sleepers.
MainPhase ==
  /\ ~stop => mpc \in {"start", "wait"}
  /\ mpc \in {"drain", "fill"} => prog = "go"

\* Goroutines leave no send out, and only they wait to send.
ProgramsDiffer ==
  /\ prog = "go" => \A t \in Threads : ~skip[t]
  /\ prog # "go" => \A t \in Threads : pc[t] # "sending"

\* Nobody sleeps on a spot that has a permit.
SleepersWait == \A s \in Spots : Asleep(s) # {} => permits[s] = 0

TInv == /\ TypeOK /\ LeftIsLive /\ RoundsLeft
        /\ MainIndex /\ MainPhase /\ ProgramsDiffer /\ SleepersWait

LEMMA Ranges ==
  /\ \A i : i \in Threads <=> i \in Int /\ 0 <= i /\ i <= NThreads - 1
  /\ \A i : i \in Spots <=> i \in Int /\ 0 <= i /\ i <= NSpots - 1
  /\ NThreads \in Int /\ NThreads >= 1 /\ NSpots \in Int /\ NSpots >= 1
  /\ StopCount \in Int /\ StopCount >= 1 /\ ShutPosts \in Int /\ ShutPosts >= 1
  /\ 0 \in Threads /\ 0 \in Spots
  /\ IsFiniteSet(Threads) /\ Cardinality(Threads) = NThreads
<1>1. /\ NThreads \in Int /\ NThreads >= 1 /\ NSpots \in Int /\ NSpots >= 1
      /\ StopCount \in Int /\ StopCount >= 1 /\ ShutPosts \in Int /\ ShutPosts >= 1
  BY Sizes, EnoughPosts
<1>2. /\ \A i : i \in Threads <=> i \in Int /\ 0 <= i /\ i <= NThreads - 1
      /\ \A i : i \in Spots <=> i \in Int /\ 0 <= i /\ i <= NSpots - 1
  BY <1>1 DEF Threads, Spots
<1>3. IsFiniteSet(Threads) /\ Cardinality(Threads) = NThreads
  BY <1>1, FS_Interval DEF Threads
<1>4. QED
  BY <1>1, <1>2, <1>3

\* Every step is one of the actions.
LEMMA Actions ==
  [Next]_vars =>
    \/ \E t \in Threads : Begin(t) \/ Post(t) \/ Wait(t) \/ Check(t) \/ Leave(t) \/ Join(t)
    \/ Start \/ Stop \/ ShutPost \/ Drain \/ Fill \/ UNCHANGED vars
  BY DEF Next, Main, Thread, Ended

\* A post wakes a sleeper, who moves on to the end of its round, or leaves a permit where
\* nobody sleeps.
LEMMA GiveMoves ==
  ASSUME NEW s \in Spots, NEW pcs \in [Threads -> Labels], permits \in [Spots -> Nat],
         Give(s, pcs), \A t \in Threads : pc[t] = "asleep" => pcs[t] = "asleep"
  PROVE  /\ pc' \in [Threads -> Labels] /\ permits' \in [Spots -> Nat]
         /\ \A t \in Threads : pc'[t] = pcs[t] \/ (pcs[t] = "asleep" /\ pc'[t] = "check")
         /\ \A r \in Spots : permits'[r] = permits[r] \/ (r = s /\ Asleep(s) = {})
<1>1. \A u \in Asleep(s) : u \in Threads /\ pcs[u] = "asleep"
  BY DEF Asleep
<1>2. CASE Asleep(s) = {}
  BY <1>2 DEF Give
<1>3. CASE Asleep(s) # {}
  BY <1>1, <1>3 DEF Give, Labels
<1>4. QED
  BY <1>2, <1>3

\* Taking a permit lets a waiting sender go on, or leaves one permit less.
LEMMA RemoveMoves ==
  ASSUME NEW s \in Spots, NEW pcs \in [Threads -> Labels], permits \in [Spots -> Nat],
         permits[s] > 0, Remove(s, pcs), \A t \in Threads : pc[t] = "sending" => pcs[t] = "sending"
  PROVE  /\ pc' \in [Threads -> Labels] /\ permits' \in [Spots -> Nat]
         /\ \A t \in Threads : pc'[t] = pcs[t] \/ (pcs[t] = "sending" /\ pc'[t] = "take")
         /\ \A r \in Spots : permits'[r] = permits[r] \/ r = s
<1>1. \A u \in Sending(s) : u \in Threads /\ pcs[u] = "sending"
  BY DEF Sending
<1>2. CASE Sending(s) = {}
  BY <1>2 DEF Remove
<1>3. CASE Sending(s) # {}
  BY <1>1, <1>3 DEF Remove, Labels
<1>4. QED
  BY <1>2, <1>3

LEMMA InitTInv == Init => TInv
<1> SUFFICES ASSUME Init PROVE TInv
  OBVIOUS
<1>1. TypeOK
  <2>1. 0 \in 0..StopCount /\ 0 \in 0..ShutPosts - 1 /\ NThreads \in 0..NThreads /\ 0 \in Nat
    BY Ranges
  <2>2. skip \in [Threads -> BOOLEAN]
    BY DEF Init, Skips
  <2>3. /\ permits \in [Spots -> Nat] /\ pc \in [Threads -> Labels] /\ spot \in [Threads -> Spots]
        /\ count \in [Threads -> 0..StopCount]
    BY <2>1, Ranges DEF Init, Labels
  <2>4. prog \in Programs /\ clock \in BOOLEAN
    BY DEF Init
  <2>5. stop \in BOOLEAN
    BY DEF Init
  <2>6. QED
    BY <2>1, <2>2, <2>3, <2>4, <2>5, Ranges DEF Init, TypeOK
<1>2. LeftIsLive
  <2>1. Live = Threads
    BY DEF Init, Live
  <2>2. QED
    BY <2>1, Ranges DEF Init, LeftIsLive
<1>3. RoundsLeft /\ MainIndex /\ MainPhase
  BY Ranges DEF Init, RoundsLeft, MainIndex, MainPhase
<1>4. ProgramsDiffer
  BY DEF Init, ProgramsDiffer, Skips
<1>5. SleepersWait
  BY DEF Init, SleepersWait
<1>6. QED
  BY <1>1, <1>2, <1>3, <1>4, <1>5 DEF TInv

\* threads_left counts the threads that have not left.
LEMMA LiveKept == TInv /\ [Next]_vars => LeftIsLive'
<1> SUFFICES ASSUME TInv, [Next]_vars PROVE LeftIsLive'
  OBVIOUS
<1>1. /\ pc \in [Threads -> Labels] /\ permits \in [Spots -> Nat] /\ spot \in [Threads -> Spots]
  BY DEF TInv, TypeOK
<1>2. CASE Live' = Live /\ threads_left' = threads_left
  BY <1>2 DEF TInv, LeftIsLive
<1>3. ASSUME NEW t \in Threads, Leave(t) PROVE LeftIsLive'
  <2>1. Live' = Live \ {t} /\ t \in Live /\ threads_left' = threads_left - 1
    BY <1>1, <1>3 DEF Leave, Live, Go
  <2>2. IsFiniteSet(Live)
    BY Ranges, FS_Subset DEF Live
  <2>3. Cardinality(Live') = Cardinality(Live) - 1
    BY <2>1, <2>2, FS_RemoveElement
  <2>4. QED
    BY <2>1, <2>3 DEF TInv, LeftIsLive
<1>4. ASSUME NEW t \in Threads, Begin(t) \/ Check(t) \/ Join(t)
      PROVE  Live' = Live /\ threads_left' = threads_left
  BY <1>1, <1>4 DEF Begin, Check, Join, Go, Live, mainvars
<1>5. ASSUME NEW t \in Threads, Post(t) PROVE Live' = Live /\ threads_left' = threads_left
  BY <1>1, <1>5, GiveMoves DEF Post, Give, Asleep, Go, Live
<1>6. ASSUME NEW t \in Threads, Wait(t) PROVE Live' = Live /\ threads_left' = threads_left
  BY <1>1, <1>6 DEF Wait, Remove, Sending, Go, Live
<1>7. ASSUME ShutPost \/ Drain \/ Fill PROVE Live' = Live /\ threads_left' = threads_left
  BY <1>1, <1>7 DEF ShutPost, Drain, Fill, Give, Remove, Asleep, Sending, Live
<1>8. ASSUME Start \/ Stop \/ UNCHANGED vars PROVE Live' = Live /\ threads_left' = threads_left
  BY <1>8 DEF Start, Stop, vars, Live
<1>9. QED
  BY <1>2, <1>3, <1>4, <1>5, <1>6, <1>7, <1>8, Actions

\* Every step keeps the types.
LEMMA TypesKept == TInv /\ [Next]_vars => TypeOK'
<1> SUFFICES ASSUME TInv, [Next]_vars PROVE TypeOK'
  OBVIOUS
<1>1. threads_left' \in 0..NThreads
  <2>1. Live' \subseteq Threads
    BY DEF Live
  <2>2. Cardinality(Live') \in Nat /\ Cardinality(Live') <= NThreads
    BY <2>1, Ranges, FS_Subset, FS_CardinalityType
  <2>3. QED
    BY <2>2, LiveKept, Ranges DEF LeftIsLive
<1> USE DEF TInv, TypeOK, setup, mainvars, Go
<1>2. ASSUME NEW t \in Threads, Begin(t) \/ Leave(t) PROVE TypeOK'
  BY <1>1, <1>2 DEF Begin, Leave, Labels
<1>3. ASSUME NEW t \in Threads, Post(t) PROVE TypeOK'
  <2>1. PICK s \in Spots :
          /\ spot' = [spot EXCEPT ![t] = s]
          /\ \/ Go(t, "take") /\ UNCHANGED permits
             \/ Go(t, "sending") /\ UNCHANGED permits
             \/ Give(s, [pc EXCEPT ![t] = "take"])
    BY <1>3 DEF Post
  <2>2. [pc EXCEPT ![t] = "take"] \in [Threads -> Labels]
    BY DEF Labels
  <2>3. \A u \in Threads : pc[u] = "asleep" => [pc EXCEPT ![t] = "take"][u] = "asleep"
    BY <1>3 DEF Post
  <2>4. pc' \in [Threads -> Labels] /\ permits' \in [Spots -> Nat]
    BY <2>1, <2>2, <2>3, GiveMoves DEF Labels
  <2>5. QED
    BY <1>1, <1>3, <2>1, <2>4 DEF Post
<1>4. ASSUME NEW t \in Threads, Wait(t) PROVE TypeOK'
  <2>1. [pc EXCEPT ![t] = "check"] \in [Threads -> Labels]
    BY DEF Labels
  <2>2. \A u \in Threads : pc[u] = "sending" => [pc EXCEPT ![t] = "check"][u] = "sending"
    BY <1>4 DEF Wait
  <2>3. pc' \in [Threads -> Labels] /\ permits' \in [Spots -> Nat]
    BY <1>4, <2>1, <2>2, RemoveMoves DEF Wait, Labels
  <2>4. QED
    BY <1>1, <1>4, <2>3 DEF Wait
<1>5. ASSUME NEW t \in Threads, Check(t) PROVE TypeOK'
  <2>1. ~clock => count[t] + 1 \in 0..StopCount
    BY <1>5, Ranges DEF Check, RoundsLeft
  <2>2. count' \in [Threads -> 0..StopCount]
    BY <1>5, <2>1 DEF Check
  <2>3. skip' \in [Threads -> BOOLEAN]
    BY <1>5 DEF Check
  <2>4. pc' \in [Threads -> Labels]
    BY <1>5 DEF Check, Labels
  <2>5. QED
    BY <1>1, <1>5, <2>2, <2>3, <2>4 DEF Check
<1>6. ASSUME NEW t \in Threads, Join(t) PROVE TypeOK'
  <2>1. mi' \in Threads
    BY <1>6, Ranges DEF Join, MainIndex
  <2>2. pc' \in [Threads -> Labels]
    BY <1>6 DEF Join, Labels
  <2>3. QED
    BY <1>1, <1>6, <2>1, <2>2 DEF Join
<1>7. ASSUME Start \/ Stop PROVE TypeOK'
  <2>1. CASE Start
    <3>1. mi' \in Threads
      BY <2>1, Ranges DEF Start, MainIndex
    <3>2. QED
      BY <1>1, <2>1, <3>1 DEF Start
  <2>2. CASE Stop
    BY <1>1, <2>2 DEF Stop
  <2>3. QED
    BY <1>7, <2>1, <2>2
<1>8. ASSUME ShutPost PROVE TypeOK'
  <2>1. pc' \in [Threads -> Labels] /\ permits' \in [Spots -> Nat]
    BY <1>8, GiveMoves DEF ShutPost, MainIndex
  <2>2. mi' \in Threads \cup Spots /\ mj' \in 0..ShutPosts - 1
    BY <1>8, Ranges DEF ShutPost, MainIndex
  <2>3. QED
    BY <1>1, <1>8, <2>1, <2>2 DEF ShutPost
<1>9. ASSUME Drain PROVE TypeOK'
  <2>1. pc' \in [Threads -> Labels] /\ permits' \in [Spots -> Nat]
    BY <1>9, RemoveMoves DEF Drain, MainIndex
  <2>2. QED
    BY <1>1, <1>9, <2>1 DEF Drain
<1>10. ASSUME Fill PROVE TypeOK'
  <2>1. pc' \in [Threads -> Labels] /\ permits' \in [Spots -> Nat]
    BY <1>10, GiveMoves DEF Fill, MainIndex
  <2>2. mi' \in Spots
    BY <1>10, Ranges DEF Fill, MainIndex
  <2>3. QED
    BY <1>1, <1>10, <2>1, <2>2 DEF Fill
<1>11. ASSUME UNCHANGED vars PROVE TypeOK'
  BY <1>1, <1>11 DEF vars
<1> HIDE DEF TInv, TypeOK, setup, mainvars, Go
<1>12. QED
  BY <1>2, <1>3, <1>4, <1>5, <1>6, <1>7, <1>8, <1>9, <1>10, <1>11, Actions

\* Every step keeps main's index and place.
LEMMA MainKept == TInv /\ [Next]_vars => MainIndex' /\ MainPhase'
<1> SUFFICES ASSUME TInv, [Next]_vars PROVE MainIndex' /\ MainPhase'
  OBVIOUS
<1>1. ASSUME NEW t \in Threads, Begin(t) \/ Post(t) \/ Wait(t) \/ Check(t) \/ Leave(t)
      PROVE  UNCHANGED <<setup, mainvars>>
  BY <1>1 DEF Begin, Post, Wait, Check, Leave, mainvars
<1>2. ASSUME UNCHANGED <<setup, mainvars>> PROVE MainIndex' /\ MainPhase'
  BY <1>2 DEF TInv, MainIndex, MainPhase, mainvars, setup
<1>3. ASSUME NEW t \in Threads, Join(t) PROVE MainIndex' /\ MainPhase'
  BY <1>3, Ranges DEF Join, TInv, MainIndex, MainPhase, setup
<1>4. CASE Start
  BY <1>4, Ranges DEF Start, TInv, MainIndex, MainPhase, setup
<1>5. CASE Stop
  BY <1>5, Ranges DEF Stop, TInv, MainIndex, MainPhase, setup
<1>6. CASE ShutPost
  BY <1>6, Ranges DEF ShutPost, TInv, MainIndex, MainPhase, setup
<1>7. CASE Drain \/ Fill
  BY <1>7, Ranges DEF Drain, Drained, Fill, TInv, MainIndex, MainPhase, setup
<1>8. CASE UNCHANGED vars
  BY <1>2, <1>8 DEF vars
<1>9. QED
  BY <1>1, <1>2, <1>3, <1>4, <1>5, <1>6, <1>7, <1>8, Actions

\* Every step keeps the rounds to make.
LEMMA RoundsKept == TInv /\ [Next]_vars => RoundsLeft'
<1> SUFFICES ASSUME TInv, [Next]_vars PROVE RoundsLeft'
  OBVIOUS
<1>1. /\ pc \in [Threads -> Labels] /\ permits \in [Spots -> Nat] /\ spot \in [Threads -> Spots]
      /\ count \in [Threads -> 0..StopCount]
  BY DEF TInv, TypeOK
<1>2. ASSUME UNCHANGED <<clock, count>>,
             \A t \in Threads : pc'[t] \in {"leave", "result", "done"} \/
                                pc[t] \notin {"leave", "result", "done"}
      PROVE  RoundsLeft'
  BY <1>2 DEF TInv, RoundsLeft
<1>3. ASSUME NEW t \in Threads, Check(t) PROVE RoundsLeft'
  <2>1. count[t] \in Int /\ StopCount \in Int
    BY <1>1, Ranges
  <2>2. QED
    BY <1>1, <1>3, <2>1 DEF Check, Over, Go, TInv, RoundsLeft, setup
<1>4. ASSUME NEW t \in Threads, Begin(t) \/ Leave(t) \/ Join(t) PROVE RoundsLeft'
  BY <1>1, <1>2, <1>4 DEF Begin, Leave, Join, Go, setup
<1>5. ASSUME NEW t \in Threads, Post(t) PROVE RoundsLeft'
  BY <1>1, <1>2, <1>5 DEF Post, Give, Asleep, Go, setup
<1>6. ASSUME NEW t \in Threads, Wait(t) PROVE RoundsLeft'
  BY <1>1, <1>2, <1>6 DEF Wait, Remove, Sending, Go, setup
<1>7. ASSUME ShutPost \/ Drain \/ Fill PROVE RoundsLeft'
  BY <1>1, <1>2, <1>7 DEF ShutPost, Drain, Fill, Give, Remove, Asleep, Sending, setup
<1>8. ASSUME Start \/ Stop \/ UNCHANGED vars PROVE RoundsLeft'
  BY <1>2, <1>8 DEF Start, Stop, vars, setup
<1>9. QED
  BY <1>3, <1>4, <1>5, <1>6, <1>7, <1>8, Actions

\* Every step keeps the programs apart.
LEMMA ProgramsKept == TInv /\ [Next]_vars => ProgramsDiffer'
<1> SUFFICES ASSUME TInv, [Next]_vars PROVE ProgramsDiffer'
  OBVIOUS
<1>1. /\ pc \in [Threads -> Labels] /\ permits \in [Spots -> Nat] /\ spot \in [Threads -> Spots]
      /\ skip \in [Threads -> BOOLEAN]
  BY DEF TInv, TypeOK
<1>2. ASSUME prog' = prog, \A t \in Threads : skip'[t] => skip[t],
             prog # "go" => \A t \in Threads : pc'[t] = "sending" => pc[t] = "sending"
      PROVE  ProgramsDiffer'
  BY <1>2 DEF TInv, ProgramsDiffer
<1>3. ASSUME NEW t \in Threads, Begin(t) \/ Check(t) \/ Leave(t) \/ Join(t) PROVE ProgramsDiffer'
  BY <1>1, <1>2, <1>3 DEF Begin, Check, Leave, Join, Go, setup
<1>4. ASSUME NEW t \in Threads, Post(t) PROVE ProgramsDiffer'
  BY <1>1, <1>2, <1>4 DEF Post, Full, Give, Asleep, Go, setup
<1>5. ASSUME NEW t \in Threads, Wait(t) PROVE ProgramsDiffer'
  BY <1>1, <1>2, <1>5 DEF Wait, Remove, Sending, Go, setup
<1>6. ASSUME ShutPost \/ Drain \/ Fill PROVE ProgramsDiffer'
  BY <1>1, <1>2, <1>6 DEF ShutPost, Drain, Fill, Give, Remove, Asleep, Sending, setup
<1>7. ASSUME Start \/ Stop \/ UNCHANGED vars PROVE ProgramsDiffer'
  BY <1>2, <1>7 DEF Start, Stop, vars, setup
<1>8. QED
  BY <1>3, <1>4, <1>5, <1>6, <1>7, Actions

\* Every step keeps the sleepers on spots without permits.
LEMMA SleepKept == TInv /\ [Next]_vars => SleepersWait'
<1> SUFFICES ASSUME TInv, [Next]_vars PROVE SleepersWait'
  OBVIOUS
<1>1. /\ pc \in [Threads -> Labels] /\ permits \in [Spots -> Nat] /\ spot \in [Threads -> Spots]
      /\ SleepersWait
  BY DEF TInv, TypeOK
<1>2. ASSUME \A s \in Spots : Asleep(s)' \subseteq Asleep(s)
                              /\ (permits'[s] = permits[s] \/ Asleep(s)' = {})
      PROVE  SleepersWait'
  BY <1>2 DEF TInv, SleepersWait
<1>3. ASSUME NEW t \in Threads, Begin(t) \/ Check(t) \/ Leave(t) \/ Join(t) PROVE SleepersWait'
  <2>1. \A s \in Spots : Asleep(s)' \subseteq Asleep(s)
    BY <1>1, <1>3 DEF Begin, Check, Leave, Join, Go, Asleep
  <2>2. permits' = permits
    BY <1>3 DEF Begin, Check, Leave, Join
  <2>3. QED
    BY <1>2, <2>1, <2>2
<1>4. ASSUME NEW t \in Threads, Post(t) PROVE SleepersWait'
  <2>1. PICK s \in Spots :
          /\ spot' = [spot EXCEPT ![t] = s]
          /\ \/ Go(t, "take") /\ UNCHANGED permits
             \/ Go(t, "sending") /\ UNCHANGED permits
             \/ Give(s, [pc EXCEPT ![t] = "take"])
    BY <1>4 DEF Post
  <2>2. pc[t] = "loop"
    BY <1>4 DEF Post
  <2>3. \A r \in Spots : Asleep(r)' \subseteq Asleep(r)
    BY <1>1, <2>1, <2>2 DEF Give, Go, Asleep
  <2>4. \A r \in Spots : permits'[r] = permits[r] \/ Asleep(r) = {}
    BY <1>1, <2>1 DEF Give
  <2>5. QED
    BY <1>2, <2>3, <2>4
<1>5. ASSUME NEW t \in Threads, Wait(t) PROVE SleepersWait'
  <2>1. CASE permits[spot[t]] > 0 /\ Remove(spot[t], [pc EXCEPT ![t] = "check"])
    <3>1. \A s \in Spots : Asleep(s)' \subseteq Asleep(s)
      BY <1>1, <1>5, <2>1 DEF Wait, Remove, Sending, Asleep
    <3>2. \A s \in Spots : permits'[s] = permits[s] \/ Asleep(s) = {}
      BY <1>1, <2>1 DEF Remove, SleepersWait
    <3>3. QED
      BY <1>2, <3>1, <3>2
  <2>2. CASE permits[spot[t]] = 0 /\ Go(t, "asleep") /\ UNCHANGED permits
    BY <1>1, <1>5, <2>2 DEF Wait, Go, SleepersWait, Asleep
  <2>3. QED
    BY <1>5, <2>1, <2>2 DEF Wait
<1>6. ASSUME NEW s \in Spots, Give(s, pc), spot' = spot PROVE SleepersWait'
  <2>1. \A r \in Spots : Asleep(r)' \subseteq Asleep(r)
    BY <1>1, <1>6 DEF Give, Asleep
  <2>2. \A r \in Spots : permits'[r] = permits[r] \/ Asleep(r) = {}
    BY <1>1, <1>6 DEF Give
  <2>3. QED
    BY <1>2, <2>1, <2>2
<1>7. ASSUME NEW s \in Spots, permits[s] > 0, Remove(s, pc), spot' = spot PROVE SleepersWait'
  <2>1. \A r \in Spots : Asleep(r)' \subseteq Asleep(r)
    BY <1>1, <1>7 DEF Remove, Sending, Asleep
  <2>2. \A r \in Spots : permits'[r] = permits[r] \/ Asleep(r) = {}
    BY <1>1, <1>7 DEF Remove, SleepersWait
  <2>3. QED
    BY <1>2, <2>1, <2>2
<1>8. ASSUME UNCHANGED <<pc, spot, permits>> PROVE SleepersWait'
  BY <1>1, <1>8 DEF SleepersWait, Asleep
<1>9. ASSUME ShutPost \/ Drain \/ Fill PROVE SleepersWait'
  <2>1. mi \in Spots /\ spot' = spot
    BY <1>9 DEF ShutPost, Drain, Fill, TInv, MainIndex
  <2>2. \/ Give(mi, pc)
        \/ permits[mi] > 0 /\ Remove(mi, pc)
        \/ UNCHANGED <<pc, spot, permits>>
    BY <1>9 DEF ShutPost, Drain, Fill
  <2>3. QED
    BY <1>6, <1>7, <1>8, <2>1, <2>2
<1>10. ASSUME Start \/ Stop \/ UNCHANGED vars PROVE SleepersWait'
  BY <1>8, <1>10 DEF Start, Stop, vars
<1>11. QED
  BY <1>3, <1>4, <1>5, <1>9, <1>10, Actions

LEMMA StepTInv == TInv /\ [Next]_vars => TInv'
  BY TypesKept, LiveKept, RoundsKept, MainKept, ProgramsKept, SleepKept DEF TInv

LEMMA TInvAlways == Spec => []TInv
  BY InitTInv, StepTInv, PTL DEF Spec

\* The variables of the four churn programs keep their types: no spot is posted below
\* zero, no thread makes more rounds than --iterations, no index of main runs too far.
THEOREM TypeCorrect == Spec => []TypeOK
<1>1. TInv => TypeOK
  BY DEF TInv
<1>2. QED
  BY <1>1, TInvAlways, PTL
-----------------------------------------------------------------------------
(* Go: the channels as mutexes *)

Takers(s) == {t \in Threads : pc[t] = "take" /\ spot[t] = s}
MutexAt(s) ==
  /\ permits[s] = Cardinality(Takers(s)) /\ permits[s] <= 1
  /\ Asleep(s) = {}
  /\ Sending(s) # {} => permits[s] = 1
Mutexes == prog = "go" /\ ~stop => \A s \in Spots : MutexAt(s)

LEMMA FiniteTakers == \A s \in Spots : IsFiniteSet(Takers(s)) /\ Cardinality(Takers(s)) \in Nat
<1>1. \A s \in Spots : Takers(s) \subseteq Threads
  BY DEF Takers
<1>2. QED
  BY <1>1, Ranges, FS_Subset, FS_CardinalityType

LEMMA InitMutexes == Init => Mutexes
<1> SUFFICES ASSUME Init, NEW s \in Spots PROVE MutexAt(s)
  BY DEF Mutexes
<1>1. Takers(s) = {} /\ Asleep(s) = {} /\ Sending(s) = {}
  BY DEF Init, Takers, Asleep, Sending
<1>2. QED
  BY <1>1, FS_EmptySet DEF Init, MutexAt

\* What is at no spot in this step stays as it is.
LEMMA MutexUntouched ==
  ASSUME NEW s \in Spots, MutexAt(s), permits'[s] = permits[s],
         Takers(s)' = Takers(s), Asleep(s)' = Asleep(s), Sending(s)' = Sending(s)
  PROVE  MutexAt(s)'
  BY DEF MutexAt

LEMMA PostKeepsMutexes ==
  ASSUME TInv, prog = "go", \A s \in Spots : MutexAt(s), NEW t \in Threads, Post(t)
  PROVE  \A s \in Spots : MutexAt(s)'
<1>1. /\ pc \in [Threads -> Labels] /\ permits \in [Spots -> Nat] /\ spot \in [Threads -> Spots]
      /\ ~skip[t] /\ pc[t] = "loop"
  BY DEF TInv, TypeOK, ProgramsDiffer, Post
<1>2. PICK s \in Spots :
        /\ spot' = [spot EXCEPT ![t] = s]
        /\ IF Full(s) THEN Go(t, "sending") /\ UNCHANGED permits
           ELSE Give(s, [pc EXCEPT ![t] = "take"])
  BY <1>1 DEF Post
<1>3. CASE Full(s)
  <2>1. /\ permits' = permits /\ pc' = [pc EXCEPT ![t] = "sending"] /\ permits[s] = 1
    BY <1>2, <1>3 DEF Full, Go
  <2>2. \A r \in Spots : /\ Takers(r)' = Takers(r) /\ Asleep(r)' = Asleep(r)
                         /\ r # s => Sending(r)' = Sending(r)
    BY <1>1, <1>2, <2>1 DEF Takers, Asleep, Sending
  <2>3. QED
    BY <2>1, <2>2 DEF MutexAt
<1>4. CASE ~Full(s)
  <2>1. permits[s] = 0 /\ Asleep(s) = {} /\ Sending(s) = {} /\ Cardinality(Takers(s)) = 0
    BY <1>1, <1>4 DEF MutexAt, Full
  <2>2. permits' = [permits EXCEPT ![s] = @ + 1] /\ pc' = [pc EXCEPT ![t] = "take"]
    BY <1>2, <1>4, <2>1 DEF Give
  <2>3. /\ Takers(s)' = Takers(s) \cup {t} /\ t \notin Takers(s)
        /\ Asleep(s)' = {} /\ Sending(s)' = {}
    BY <1>1, <1>2, <2>1, <2>2 DEF Takers, Asleep, Sending
  <2>4. Cardinality(Takers(s)') = 1
    BY <2>1, <2>3, FiniteTakers, FS_AddElement
  <2>5. MutexAt(s)'
    BY <1>1, <2>1, <2>2, <2>3, <2>4 DEF MutexAt
  <2>6. \A r \in Spots : r # s =>
          /\ permits'[r] = permits[r]
          /\ Takers(r)' = Takers(r) /\ Asleep(r)' = Asleep(r) /\ Sending(r)' = Sending(r)
    BY <1>1, <1>2, <2>2 DEF Takers, Asleep, Sending
  <2>7. QED
    BY <2>5, <2>6, MutexUntouched
<1>5. QED
  BY <1>3, <1>4

LEMMA WaitKeepsMutexes ==
  ASSUME TInv, prog = "go", \A s \in Spots : MutexAt(s), NEW t \in Threads, Wait(t)
  PROVE  \A s \in Spots : MutexAt(s)'
<1> PICK s \in Spots : s = spot[t]
  BY DEF TInv, TypeOK
<1>1. /\ pc \in [Threads -> Labels] /\ permits \in [Spots -> Nat] /\ spot \in [Threads -> Spots]
      /\ pc[t] = "take" /\ spot' = spot /\ s = spot[t]
  BY DEF TInv, TypeOK, Wait
<1>2. t \in Takers(s) /\ permits[s] = 1 /\ Cardinality(Takers(s)) = 1 /\ Asleep(s) = {}
  <2>1. t \in Takers(s)
    BY <1>1 DEF Takers
  <2>2. Cardinality(Takers(s)) # 0
    BY <1>1, <2>1, FiniteTakers, FS_EmptySet
  <2>3. QED
    BY <1>1, <2>1, <2>2 DEF MutexAt
<1>3. Remove(s, [pc EXCEPT ![t] = "check"])
  BY <1>1, <1>2 DEF Wait
<1>4. IsFiniteSet(Takers(s) \ {t}) /\ Cardinality(Takers(s) \ {t}) = 0
  <2>1. IsFiniteSet(Takers(s))
    BY FiniteTakers
  <2>2. /\ IsFiniteSet(Takers(s) \ {t})
        /\ Cardinality(Takers(s) \ {t}) = Cardinality(Takers(s)) - 1
    BY <1>2, <2>1, FS_RemoveElement
  <2>3. QED
    BY <1>2, <2>2
<1>5. CASE Sending(s) = {}
  <2>1. permits' = [permits EXCEPT ![s] = @ - 1] /\ pc' = [pc EXCEPT ![t] = "check"]
    BY <1>3, <1>5 DEF Remove
  <2>2. Takers(s)' = Takers(s) \ {t} /\ Asleep(s)' = {} /\ Sending(s)' = {}
    BY <1>1, <1>2, <1>5, <2>1 DEF Takers, Asleep, Sending
  <2>3. MutexAt(s)'
    BY <1>1, <1>2, <1>4, <2>1, <2>2 DEF MutexAt
  <2>4. \A r \in Spots : r # s =>
          /\ permits'[r] = permits[r]
          /\ Takers(r)' = Takers(r) /\ Asleep(r)' = Asleep(r) /\ Sending(r)' = Sending(r)
    BY <1>1, <2>1 DEF Takers, Asleep, Sending
  <2>5. QED
    BY <2>3, <2>4, MutexUntouched
<1>6. CASE Sending(s) # {}
  <2>1. PICK u \in Sending(s) : pc' = [[pc EXCEPT ![t] = "check"] EXCEPT ![u] = "take"]
                                /\ permits' = permits
    BY <1>3, <1>6 DEF Remove
  <2>2. u \in Threads /\ pc[u] = "sending" /\ spot[u] = s /\ u # t
    BY <1>1, <2>1 DEF Sending
  <2>3. /\ Takers(s)' = (Takers(s) \ {t}) \cup {u} /\ u \notin Takers(s) \ {t}
        /\ Asleep(s)' = {}
    BY <1>1, <1>2, <2>1, <2>2 DEF Takers, Asleep
  <2>4. Cardinality(Takers(s)') = 1
    BY <1>4, <2>3, FS_AddElement
  <2>5. MutexAt(s)'
    BY <1>1, <1>2, <2>1, <2>3, <2>4 DEF MutexAt
  <2>6. \A r \in Spots : r # s =>
          /\ permits'[r] = permits[r]
          /\ Takers(r)' = Takers(r) /\ Asleep(r)' = Asleep(r) /\ Sending(r)' = Sending(r)
    BY <1>1, <2>1, <2>2 DEF Takers, Asleep, Sending
  <2>7. QED
    BY <2>5, <2>6, MutexUntouched
<1>7. QED
  BY <1>5, <1>6

LEMMA MutexesKept == TInv /\ Mutexes /\ [Next]_vars => Mutexes'
<1> SUFFICES ASSUME TInv, Mutexes, [Next]_vars, prog' = "go", ~stop'
             PROVE  \A s \in Spots : MutexAt(s)'
  BY DEF Mutexes
<1>1. /\ pc \in [Threads -> Labels] /\ permits \in [Spots -> Nat] /\ spot \in [Threads -> Spots]
  BY DEF TInv, TypeOK
<1>2. prog = "go" /\ ~Stop /\ UNCHANGED <<prog, stop>>
  <2>1. ~Stop
    BY DEF Stop
  <2>2. UNCHANGED <<prog, stop>>
    BY <2>1, Actions DEF Begin, Post, Wait, Check, Leave, Join, Start, ShutPost, Drain, Fill,
       vars, setup, mainvars
  <2>3. QED
    BY <2>1, <2>2
<1>3. ~stop
  BY <1>2
<1>4. \A s \in Spots : MutexAt(s)
  BY <1>2, <1>3 DEF Mutexes
<1>5. mpc \in {"start", "wait"}
  BY <1>3 DEF TInv, MainPhase
<1>6. ASSUME NEW t \in Threads, Begin(t) \/ Check(t) \/ Leave(t) PROVE \A s \in Spots : MutexAt(s)'
  <2>1. \A s \in Spots :
          /\ permits'[s] = permits[s]
          /\ Takers(s)' = Takers(s) /\ Asleep(s)' = Asleep(s) /\ Sending(s)' = Sending(s)
    BY <1>1, <1>6 DEF Begin, Check, Leave, Go, Takers, Asleep, Sending
  <2>2. QED
    BY <1>4, <2>1, MutexUntouched
<1>7. ASSUME UNCHANGED <<pc, spot, permits>> PROVE \A s \in Spots : MutexAt(s)'
  <2>1. \A s \in Spots :
          /\ permits'[s] = permits[s]
          /\ Takers(s)' = Takers(s) /\ Asleep(s)' = Asleep(s) /\ Sending(s)' = Sending(s)
    BY <1>7 DEF Takers, Asleep, Sending
  <2>2. QED
    BY <1>4, <2>1, MutexUntouched
<1>8. ASSUME Start \/ UNCHANGED vars PROVE \A s \in Spots : MutexAt(s)'
  BY <1>7, <1>8 DEF Start, vars
<1>9. ~ShutPost /\ ~Drain /\ ~Fill /\ \A t \in Threads : ~Join(t)
  BY <1>5 DEF ShutPost, Drain, Fill, Join
<1>10. QED
  BY <1>2, <1>4, <1>6, <1>8, <1>9, PostKeepsMutexes, WaitKeepsMutexes, Actions

\* churn.go: until main drains them, a channel is full exactly while one goroutine is
\* between its send and its receive, so a send is a lock and a receive never waits.
THEOREM ChannelsAreMutexes == Spec => []SpotsAreMutexes
<1>1. Mutexes => SpotsAreMutexes
  BY DEF Mutexes, MutexAt, Takers, SpotsAreMutexes
<1>2. QED
  BY <1>1, InitTInv, StepTInv, InitMutexes, MutexesKept, PTL DEF Spec
-----------------------------------------------------------------------------
(* libfibre, Cforall and Tokio: what each spot owes *)

\* Who has to be posted at s, and who has taken from s without having posted: f says
\* where each thread left its post out.
Waiting(s) ==
  {t \in Threads : spot[t] = s /\ (pc[t] = "asleep" \/ (pc[t] = "take" /\ ~skip[t]))}
Owed(f, s) == {t \in Skipped : f[t] = s}

BalancedAt(f, s) == Cardinality(Waiting(s)) = permits[s] + Cardinality(Owed(f, s))
Balance ==
  /\ \A t \in Threads : skip[t] => Skips(t)
  /\ prog # "go" /\ ~stop => \E f \in [Threads -> Spots] : \A s \in Spots : BalancedAt(f, s)

LEMMA FiniteWaiting ==
  \A f, s : /\ IsFiniteSet(Waiting(s)) /\ Cardinality(Waiting(s)) \in Nat
            /\ IsFiniteSet(Owed(f, s)) /\ Cardinality(Owed(f, s)) \in Nat
<1>1. \A f, s : Waiting(s) \subseteq Threads /\ Owed(f, s) \subseteq Threads
  BY DEF Waiting, Owed, Skipped
<1>2. QED
  BY <1>1, Ranges, FS_Subset, FS_CardinalityType

LEMMA InitBalance == Init => Balance
<1> SUFFICES ASSUME Init PROVE Balance
  OBVIOUS
<1>1. \A t \in Threads : skip[t] => Skips(t)
  BY DEF Init
<1>2. PICK f \in [Threads -> Spots] : TRUE
  <2>1. [t \in Threads |-> 0] \in [Threads -> Spots]
    BY Ranges
  <2>2. QED
    BY <2>1
<1>3. ASSUME NEW s \in Spots PROVE BalancedAt(f, s)
  <2>1. Waiting(s) = {} /\ Owed(f, s) = {} /\ permits[s] = 0
    BY DEF Init, Waiting, Owed, Skipped
  <2>2. QED
    BY <2>1, FS_EmptySet DEF BalancedAt
<1>4. QED
  BY <1>1, <1>2, <1>3 DEF Balance

LEMMA BalanceUntouched ==
  ASSUME NEW f, NEW s \in Spots, BalancedAt(f, s), permits'[s] = permits[s],
         Waiting(s)' = Waiting(s), Owed(f, s)' = Owed(f, s)
  PROVE  BalancedAt(f, s)'
  BY DEF BalancedAt

LEMMA PostKeepsBalance ==
  ASSUME TInv, prog # "go", NEW f \in [Threads -> Spots], \A s \in Spots : BalancedAt(f, s),
         NEW t \in Threads, Post(t)
  PROVE  \A s \in Spots : BalancedAt(f, s)'
<1>1. /\ pc \in [Threads -> Labels] /\ permits \in [Spots -> Nat] /\ spot \in [Threads -> Spots]
      /\ pc[t] = "loop" /\ skip' = skip /\ prog' = prog
  BY DEF TInv, TypeOK, Post, setup
<1>2. PICK s \in Spots :
        /\ spot' = [spot EXCEPT ![t] = s]
        /\ IF skip[t] THEN Go(t, "take") /\ UNCHANGED permits
           ELSE Give(s, [pc EXCEPT ![t] = "take"])
  BY <1>1 DEF Post, Full
<1>3. CASE skip[t]
  <2>1. permits' = permits /\ pc' = [pc EXCEPT ![t] = "take"]
    BY <1>2, <1>3 DEF Go
  <2>2. \A r \in Spots : Waiting(r)' = Waiting(r) /\ Owed(f, r)' = Owed(f, r)
    BY <1>1, <1>2, <1>3, <2>1 DEF Waiting, Owed, Skipped, Skips
  <2>3. QED
    BY <2>1, <2>2, BalanceUntouched
<1>4. CASE ~skip[t] /\ Asleep(s) = {}
  <2>1. permits' = [permits EXCEPT ![s] = @ + 1] /\ pc' = [pc EXCEPT ![t] = "take"]
    BY <1>2, <1>4 DEF Give
  <2>2. \A r \in Spots : Owed(f, r)' = Owed(f, r)
    BY <1>1, <1>4, <2>1 DEF Owed, Skipped, Skips
  <2>3. \A r \in Spots : r # s => Waiting(r)' = Waiting(r) /\ permits'[r] = permits[r]
    BY <1>1, <1>2, <2>1 DEF Waiting
  <2>4. Waiting(s)' = Waiting(s) \cup {t} /\ t \notin Waiting(s)
    BY <1>1, <1>2, <1>4, <2>1 DEF Waiting
  <2>5. Cardinality(Waiting(s)') = Cardinality(Waiting(s)) + 1
    BY <2>4, FiniteWaiting, FS_AddElement
  <2>6. BalancedAt(f, s)'
    <3>1. permits'[s] = permits[s] + 1 /\ permits[s] \in Nat /\ Cardinality(Owed(f, s)) \in Nat
      BY <1>1, <2>1, FiniteWaiting
    <3>2. Cardinality(Owed(f, s)') = Cardinality(Owed(f, s))
      BY <2>2
    <3>3. QED
      BY <2>5, <3>1, <3>2 DEF BalancedAt
  <2>7. QED
    BY <2>2, <2>3, <2>6, BalanceUntouched
<1>5. CASE ~skip[t] /\ Asleep(s) # {}
  <2>1. PICK u \in Asleep(s) : pc' = [[pc EXCEPT ![t] = "take"] EXCEPT ![u] = "check"]
                               /\ permits' = permits
    BY <1>2, <1>5 DEF Give
  <2>2. u \in Threads /\ pc[u] = "asleep" /\ spot[u] = s /\ u # t
    BY <1>1, <2>1 DEF Asleep
  <2>3. \A r \in Spots : Owed(f, r)' = Owed(f, r)
    BY <1>1, <1>5, <2>1, <2>2 DEF Owed, Skipped, Skips
  <2>4. \A r \in Spots : r # s => Waiting(r)' = Waiting(r)
    BY <1>1, <1>2, <2>1, <2>2 DEF Waiting
  <2>5. /\ Waiting(s)' = (Waiting(s) \ {u}) \cup {t} /\ u \in Waiting(s)
        /\ t \notin Waiting(s) \ {u}
    BY <1>1, <1>2, <1>5, <2>1, <2>2 DEF Waiting
  <2>6. Cardinality(Waiting(s)') = Cardinality(Waiting(s))
    <3>1. /\ IsFiniteSet(Waiting(s) \ {u})
          /\ Cardinality(Waiting(s) \ {u}) = Cardinality(Waiting(s)) - 1
      BY <2>5, FiniteWaiting, FS_RemoveElement
    <3>2. Cardinality((Waiting(s) \ {u}) \cup {t}) = Cardinality(Waiting(s) \ {u}) + 1
      BY <2>5, <3>1, FS_AddElement
    <3>3. Cardinality(Waiting(s)) \in Nat
      BY FiniteWaiting
    <3>4. QED
      BY <2>5, <3>1, <3>2, <3>3
  <2>7. BalancedAt(f, s)'
    <3>1. Cardinality(Owed(f, s)') = Cardinality(Owed(f, s))
      BY <2>3
    <3>2. QED
      BY <2>1, <2>6, <3>1 DEF BalancedAt
  <2>8. QED
    BY <2>1, <2>3, <2>4, <2>7, BalanceUntouched
<1>6. QED
  BY <1>3, <1>4, <1>5

\* A thread that waits with a post of its own.
LEMMA WaitKeepsBalance ==
  ASSUME TInv, prog # "go", NEW f \in [Threads -> Spots], \A s \in Spots : BalancedAt(f, s),
         NEW t \in Threads, Wait(t), ~skip[t]
  PROVE  \A s \in Spots : BalancedAt(f, s)'
<1> PICK s \in Spots : s = spot[t]
  BY DEF TInv, TypeOK
<1>1. /\ pc \in [Threads -> Labels] /\ permits \in [Spots -> Nat] /\ spot \in [Threads -> Spots]
      /\ pc[t] = "take" /\ skip' = skip /\ spot' = spot /\ prog' = prog /\ s = spot[t]
      /\ Sending(s) = {}
  BY DEF TInv, TypeOK, ProgramsDiffer, Wait, setup, Sending
<1>2. CASE permits[s] > 0
  <2>1. permits' = [permits EXCEPT ![s] = @ - 1] /\ pc' = [pc EXCEPT ![t] = "check"]
    BY <1>1, <1>2 DEF Wait, Remove
  <2>2. \A r \in Spots : Owed(f, r)' = Owed(f, r)
    BY <1>1, <2>1 DEF Owed, Skipped, Skips
  <2>3. \A r \in Spots : r # s => Waiting(r)' = Waiting(r) /\ permits'[r] = permits[r]
    BY <1>1, <2>1 DEF Waiting
  <2>4. Waiting(s)' = Waiting(s) \ {t} /\ t \in Waiting(s)
    BY <1>1, <2>1 DEF Waiting
  <2>5. Cardinality(Waiting(s)') = Cardinality(Waiting(s)) - 1
    BY <2>4, FiniteWaiting, FS_RemoveElement
  <2>6. BalancedAt(f, s)'
    <3>1. permits'[s] = permits[s] - 1 /\ permits[s] \in Nat /\ Cardinality(Owed(f, s)) \in Nat
      BY <1>1, <2>1, FiniteWaiting
    <3>2. Cardinality(Owed(f, s)') = Cardinality(Owed(f, s))
      BY <2>2
    <3>3. QED
      BY <2>5, <3>1, <3>2 DEF BalancedAt
  <2>7. QED
    BY <2>2, <2>3, <2>6, BalanceUntouched
<1>3. CASE permits[s] = 0
  <2>1. permits' = permits /\ pc' = [pc EXCEPT ![t] = "asleep"]
    BY <1>1, <1>3 DEF Wait, Go
  <2>2. \A r \in Spots : Waiting(r)' = Waiting(r) /\ Owed(f, r)' = Owed(f, r)
    BY <1>1, <2>1 DEF Waiting, Owed, Skipped, Skips
  <2>3. QED
    BY <2>1, <2>2, BalanceUntouched
<1>4. permits[s] \in Nat
  BY <1>1
<1>5. QED
  BY <1>2, <1>3, <1>4

\* A thread that waits having left its post out: from now on that is owed to the spot.
LEMMA SkipKeepsBalance ==
  ASSUME TInv, prog # "go", NEW f \in [Threads -> Spots], \A s \in Spots : BalancedAt(f, s),
         NEW t \in Threads, Wait(t), skip[t], Skips(t)
  PROVE  \E g \in [Threads -> Spots] : \A s \in Spots : BalancedAt(g, s)'
<1> PICK s \in Spots : s = spot[t]
  BY DEF TInv, TypeOK
<1> PICK g \in [Threads -> Spots] : g = [f EXCEPT ![t] = s]
  OBVIOUS
<1>1. /\ pc \in [Threads -> Labels] /\ permits \in [Spots -> Nat] /\ spot \in [Threads -> Spots]
      /\ pc[t] = "take" /\ skip' = skip /\ spot' = spot /\ prog' = prog /\ s = spot[t]
      /\ Sending(s) = {} /\ g = [f EXCEPT ![t] = s]
  BY DEF TInv, TypeOK, ProgramsDiffer, Wait, setup, Sending
<1>2. t \notin Skipped
  BY <1>1 DEF Skipped
<1>3. ASSUME pc' = [pc EXCEPT ![t] = "check"] \/ pc' = [pc EXCEPT ![t] = "asleep"]
      PROVE  /\ \A r \in Spots : r # s => Owed(g, r)' = Owed(f, r)
             /\ Owed(g, s)' = Owed(f, s) \cup {t} /\ t \notin Owed(f, s)
  <2>1. Skipped' = Skipped \cup {t}
    BY <1>1, <1>3 DEF Skipped, Skips
  <2>2. \A u \in Skipped : g[u] = f[u]
    BY <1>1, <1>2 DEF Skipped
  <2>3. g[t] = s
    BY <1>1
  <2>4. QED
    BY <1>2, <2>1, <2>2, <2>3 DEF Owed
<1>4. CASE permits[s] > 0
  <2>1. permits' = [permits EXCEPT ![s] = @ - 1] /\ pc' = [pc EXCEPT ![t] = "check"]
    BY <1>1, <1>4 DEF Wait, Remove
  <2>2. \A r \in Spots : Waiting(r)' = Waiting(r)
    BY <1>1, <2>1 DEF Waiting
  <2>3. Cardinality(Owed(g, s)') = Cardinality(Owed(f, s)) + 1
    BY <1>3, <2>1, FiniteWaiting, FS_AddElement
  <2>4. BalancedAt(g, s)'
    <3>1. permits'[s] = permits[s] - 1 /\ permits[s] \in Nat /\ Cardinality(Owed(f, s)) \in Nat
      BY <1>1, <2>1, FiniteWaiting
    <3>2. Cardinality(Waiting(s)') = Cardinality(Waiting(s))
      BY <2>2
    <3>3. QED
      BY <2>3, <3>1, <3>2 DEF BalancedAt
  <2>5. \A r \in Spots : r # s => BalancedAt(g, r)'
    BY <1>1, <1>3, <2>1, <2>2 DEF BalancedAt
  <2>6. QED
    BY <2>4, <2>5
<1>5. CASE permits[s] = 0
  <2>1. permits' = permits /\ pc' = [pc EXCEPT ![t] = "asleep"]
    BY <1>1, <1>5 DEF Wait, Go
  <2>2. \A r \in Spots : r # s => Waiting(r)' = Waiting(r)
    BY <1>1, <2>1 DEF Waiting
  <2>3. Waiting(s)' = Waiting(s) \cup {t} /\ t \notin Waiting(s)
    BY <1>1, <2>1 DEF Waiting
  <2>4. /\ Cardinality(Owed(g, s)') = Cardinality(Owed(f, s)) + 1
        /\ Cardinality(Waiting(s)') = Cardinality(Waiting(s)) + 1
    BY <1>3, <2>1, <2>3, FiniteWaiting, FS_AddElement
  <2>5. BalancedAt(g, s)'
    <3>1. permits'[s] = permits[s] /\ permits[s] \in Nat /\ Cardinality(Owed(f, s)) \in Nat
      BY <1>1, <2>1, FiniteWaiting
    <3>2. QED
      BY <2>4, <3>1 DEF BalancedAt
  <2>6. \A r \in Spots : r # s => BalancedAt(g, r)'
    BY <1>1, <1>3, <2>1, <2>2 DEF BalancedAt
  <2>7. QED
    BY <2>5, <2>6
<1>6. permits[s] \in Nat
  BY <1>1
<1>7. QED
  BY <1>4, <1>5, <1>6

LEMMA BalanceKept == TInv /\ Balance /\ [Next]_vars => Balance'
<1> SUFFICES ASSUME TInv, Balance, [Next]_vars PROVE Balance'
  OBVIOUS
<1>1. /\ pc \in [Threads -> Labels] /\ permits \in [Spots -> Nat] /\ spot \in [Threads -> Spots]
      /\ skip \in [Threads -> BOOLEAN]
  BY DEF TInv, TypeOK
<1>2. prog' = prog
  BY Actions DEF Begin, Post, Wait, Check, Leave, Join, Start, Stop, ShutPost, Drain, Fill,
     vars, setup
<1>3. \A t \in Threads : skip'[t] => Skips(t)'
  <2>1. \A t \in Threads : skip'[t] => skip[t]
    BY <1>1, Actions DEF Begin, Post, Wait, Check, Leave, Join, Start, Stop, ShutPost, Drain,
       Fill, vars
  <2>2. QED
    BY <1>2, <2>1 DEF Balance, Skips
<1>4. SUFFICES ASSUME prog # "go", ~stop'
               PROVE  \E f \in [Threads -> Spots] : \A s \in Spots : BalancedAt(f, s)'
  BY <1>2, <1>3 DEF Balance
<1>5. ~Stop
  BY <1>4 DEF Stop
<1>6. ~stop
  <2>1. stop' = stop
    BY <1>5, Actions DEF Begin, Post, Wait, Check, Leave, Join, Start, ShutPost, Drain, Fill,
       vars, mainvars
  <2>2. QED
    BY <1>4, <2>1
<1>7. PICK f \in [Threads -> Spots] : \A s \in Spots : BalancedAt(f, s)
  BY <1>4, <1>6 DEF Balance
<1>8. mpc \in {"start", "wait"}
  BY <1>6 DEF TInv, MainPhase
<1>9. ASSUME NEW t \in Threads, Begin(t) \/ Check(t) \/ Leave(t)
      PROVE  \A s \in Spots : BalancedAt(f, s)'
  <2>1. \A s \in Spots : Waiting(s)' = Waiting(s) /\ Owed(f, s)' = Owed(f, s)
    BY <1>1, <1>2, <1>9 DEF Begin, Check, Leave, Go, Waiting, Owed, Skipped, Skips
  <2>2. permits' = permits
    BY <1>9 DEF Begin, Check, Leave
  <2>3. QED
    BY <1>7, <2>1, <2>2, BalanceUntouched
<1>10. ASSUME Start \/ UNCHANGED vars PROVE \A s \in Spots : BalancedAt(f, s)'
  <2>1. UNCHANGED <<pc, spot, permits, skip>>
    BY <1>10 DEF Start, vars
  <2>2. \A s \in Spots : Waiting(s)' = Waiting(s) /\ Owed(f, s)' = Owed(f, s)
    BY <1>2, <2>1 DEF Waiting, Owed, Skipped, Skips
  <2>3. QED
    BY <1>7, <2>1, <2>2, BalanceUntouched
<1>11. ASSUME NEW t \in Threads, Post(t) PROVE \A s \in Spots : BalancedAt(f, s)'
  BY <1>4, <1>7, <1>11, PostKeepsBalance
<1>12. ASSUME NEW t \in Threads, Wait(t)
       PROVE  \E g \in [Threads -> Spots] : \A s \in Spots : BalancedAt(g, s)'
  <2>1. CASE skip[t]
    <3>1. Skips(t)
      BY <2>1 DEF Balance
    <3>2. QED
      BY <1>4, <1>7, <1>12, <2>1, <3>1, SkipKeepsBalance
  <2>2. CASE ~skip[t]
    BY <1>4, <1>7, <1>12, <2>2, WaitKeepsBalance
  <2>3. QED
    BY <2>1, <2>2
<1>13. ~ShutPost /\ ~Drain /\ ~Fill /\ \A t \in Threads : ~Join(t)
  BY <1>8 DEF ShutPost, Drain, Fill, Join
<1>14. QED
  BY <1>5, <1>9, <1>10, <1>11, <1>12, <1>13, Actions

\* libfibre, Cforall and Tokio: threads that sleep while nobody else is left are no more
\* than the posts left out, one for each spot.
LEMMA SleepersFit ==
  ASSUME TInv, Balance, prog # "go", ~stop, Live \subseteq Sleepers
  PROVE  Cardinality(Live) <= NSpots
<1>1. PICK f \in [Threads -> Spots] : \A s \in Spots : BalancedAt(f, s)
  BY DEF Balance
<1>2. \A t \in Live : t \in Threads /\ pc[t] = "asleep" /\ spot[t] \in Spots
  BY DEF Live, Sleepers, TInv, TypeOK
<1>3. \A s \in Spots : Asleep(s) # {} => Cardinality(Asleep(s)) = Cardinality(Owed(f, s))
  <2> SUFFICES ASSUME NEW s \in Spots, Asleep(s) # {}
               PROVE  Cardinality(Asleep(s)) = Cardinality(Owed(f, s))
    OBVIOUS
  <2>1. permits[s] = 0
    BY DEF TInv, SleepersWait
  <2>2. \A t \in Threads : pc[t] # "take"
    BY DEF Live, Sleepers
  <2>3. Waiting(s) = Asleep(s)
    BY <2>2 DEF Waiting, Asleep
  <2>4. QED
    BY <1>1, <2>1, <2>3, FiniteWaiting DEF BalancedAt
<1>4. \A s \in Spots : \E g : Asleep(s) # {} => g \in Injection(Asleep(s), Owed(f, s))
  <2> SUFFICES ASSUME NEW s \in Spots, Asleep(s) # {}
               PROVE  \E g : g \in Injection(Asleep(s), Owed(f, s))
    OBVIOUS
  <2>1. IsFiniteSet(Asleep(s)) /\ IsFiniteSet(Owed(f, s))
    <3>1. Asleep(s) \subseteq Threads
      BY DEF Asleep
    <3>2. QED
      BY <3>1, Ranges, FS_Subset, FiniteWaiting
  <2>2. ExistsBijection(Asleep(s), Owed(f, s))
    BY <1>3, <2>1, FS_SameCardinalityBij
  <2>3. QED
    BY <2>2 DEF ExistsBijection, Bijection
<1> DEFINE g == [s \in Spots |->
                  CHOOSE k : Asleep(s) # {} => k \in Injection(Asleep(s), Owed(f, s))]
           h == [t \in Live |-> g[spot[t]][t]]
<1>5. \A s \in Spots : Asleep(s) # {} => g[s] \in Injection(Asleep(s), Owed(f, s))
  BY <1>4
<1> HIDE DEF g
<1>6. \A t \in Live : t \in Asleep(spot[t]) /\ h[t] \in Owed(f, spot[t])
  <2> SUFFICES ASSUME NEW t \in Live PROVE t \in Asleep(spot[t]) /\ h[t] \in Owed(f, spot[t])
    OBVIOUS
  <2>1. t \in Asleep(spot[t])
    BY <1>2 DEF Asleep
  <2>2. g[spot[t]] \in [Asleep(spot[t]) -> Owed(f, spot[t])]
    BY <1>2, <1>5, <2>1 DEF Injection
  <2>3. QED
    BY <2>1, <2>2
<1>7. \A t, u \in Live : h[t] = h[u] => t = u
  <2> SUFFICES ASSUME NEW t \in Live, NEW u \in Live, h[t] = h[u] PROVE t = u
    OBVIOUS
  <2>1. spot[t] = spot[u]
    BY <1>6 DEF Owed
  <2>2. g[spot[t]][t] = g[spot[t]][u] /\ t \in Asleep(spot[t]) /\ u \in Asleep(spot[t])
    BY <1>6, <2>1
  <2>3. IsInjective(g[spot[t]]) /\ DOMAIN g[spot[t]] = Asleep(spot[t])
    BY <1>2, <1>5, <2>2 DEF Injection
  <2>4. QED
    BY <2>2, <2>3 DEF IsInjective
<1>8. \A t \in Live : h[t] \in 0..NSpots - 1
  <2>1. \A s : Owed(f, s) \subseteq {t \in Threads : Skips(t)}
    BY DEF Owed, Skipped
  <2>2. \A t \in Threads : Skips(t) => t \in 0..NSpots - 1
    BY Ranges DEF Skips
  <2>3. QED
    BY <1>6, <2>1, <2>2
<1>9. h \in Injection(Live, 0..NSpots - 1)
  BY <1>7, <1>8 DEF Injection, IsInjective
<1>10. IsFiniteSet(0..NSpots - 1) /\ Cardinality(0..NSpots - 1) = NSpots
  BY Ranges, FS_Interval
<1>11. QED
  BY <1>9, <1>10, FS_Injection

\* As long as more threads are left than there are spots, one of them can move: the spots
\* never hold everybody, whatever the random choices.
THEOREM SpotsNeverHoldAll == Spec => []SomeoneRuns
<1>1. TInv /\ Mutexes /\ Balance => SomeoneRuns
  <2> SUFFICES ASSUME TInv, Mutexes, Balance, ~stop, Cardinality(Live) > NSpots,
                      \A t \in Live : pc[t] \in {"asleep", "sending"}
               PROVE  FALSE
    BY DEF SomeoneRuns, Live
  <2>1. CASE prog # "go"
    <3>1. Live \subseteq Sleepers
      BY <2>1 DEF TInv, ProgramsDiffer, Live, Sleepers
    <3>2. Cardinality(Live) <= NSpots /\ Cardinality(Live) \in Nat
      <4>1. IsFiniteSet(Live)
        BY Ranges, FS_Subset DEF Live
      <4>2. QED
        BY <2>1, <3>1, <4>1, SleepersFit, FS_CardinalityType
    <3>3. QED
      BY <3>2, Ranges
  <2>2. CASE prog = "go"
    <3>1. \A s \in Spots : Takers(s) = {} /\ Asleep(s) = {} /\ Sending(s) = {}
      <4> SUFFICES ASSUME NEW s \in Spots
                   PROVE  Takers(s) = {} /\ Asleep(s) = {} /\ Sending(s) = {}
        OBVIOUS
      <4>1. Takers(s) = {}
        BY DEF Takers, Live
      <4>2. MutexAt(s)
        BY <2>2 DEF Mutexes
      <4>3. QED
        BY <4>1, <4>2, FS_EmptySet DEF MutexAt
    <3>2. Live = {}
      BY <3>1 DEF Live, Asleep, Sending, TInv, TypeOK
    <3>3. QED
      BY <3>2, FS_EmptySet, Ranges
  <2>3. QED
    BY <2>1, <2>2
<1>2. QED
  BY <1>1, InitTInv, StepTInv, InitMutexes, MutexesKept, InitBalance, BalanceKept, PTL DEF Spec
-----------------------------------------------------------------------------
(* The balance of all spots *)

\* What the threads that wait at s wait for: a post nobody has taken, or one left out.
\* Posts are pairs of a spot and a number; those left out count as posts to spot NSpots.
Awaited(f, s) == ({s} \X (1..permits[s])) \cup ({NSpots} \X Owed(f, s))
AllWaiting == Sleepers \cup Between
AllAwaited == Untaken \cup ({NSpots} \X Skipped)

LEMMA AwaitedSize ==
  ASSUME TInv, NEW f \in [Threads -> Spots], NEW s \in Spots, BalancedAt(f, s)
  PROVE  ExistsBijection(Waiting(s), Awaited(f, s))
<1>1. PICK n \in Nat : n = permits[s]
  BY DEF TInv, TypeOK
<1>2. IsFiniteSet(1..n) /\ Cardinality(1..n) = n
  <2>1. IsFiniteSet(1..n) /\ Cardinality(1..n) = IF 1 > n THEN 0 ELSE n - 1 + 1
    BY FS_Interval
  <2>2. QED
    BY <2>1
<1> DEFINE A == {s} \X (1..n)
           B == {NSpots} \X Owed(f, s)
<1>3. IsFiniteSet({s}) /\ Cardinality({s}) = 1 /\ IsFiniteSet({NSpots}) /\ Cardinality({NSpots}) = 1
  BY FS_Singleton
<1>4. /\ IsFiniteSet(Owed(f, s)) /\ Cardinality(Owed(f, s)) \in Nat
      /\ IsFiniteSet(Waiting(s)) /\ Cardinality(Waiting(s)) \in Nat
  BY FiniteWaiting
<1>5. IsFiniteSet(A) /\ Cardinality(A) = n
  <2>1. IsFiniteSet(A) /\ Cardinality(A) = Cardinality({s}) * Cardinality(1..n)
    BY <1>2, <1>3, FS_Product
  <2>2. QED
    BY <1>2, <1>3, <2>1
<1>6. IsFiniteSet(B) /\ Cardinality(B) = Cardinality(Owed(f, s))
  <2>1. IsFiniteSet(B) /\ Cardinality(B) = Cardinality({NSpots}) * Cardinality(Owed(f, s))
    BY <1>3, <1>4, FS_Product
  <2>2. QED
    BY <1>3, <1>4, <2>1
<1>7. A \cap B = {}
  BY Ranges
<1> HIDE DEF A, B
<1>8. IsFiniteSet(A \cup B) /\ Cardinality(A \cup B) = Cardinality(A) + Cardinality(B)
  <2>1. Cardinality(A \cup B) = Cardinality(A) + Cardinality(B) - Cardinality(A \cap B)
        /\ IsFiniteSet(A \cup B)
    BY <1>5, <1>6, FS_Union
  <2>2. Cardinality(A \cap B) = 0
    BY <1>7, FS_EmptySet
  <2>3. QED
    BY <1>1, <1>4, <1>5, <1>6, <2>1, <2>2
<1>9. Awaited(f, s) = A \cup B
  BY <1>1 DEF Awaited, A, B
<1>10. Cardinality(Waiting(s)) = Cardinality(A \cup B)
  BY <1>1, <1>4, <1>5, <1>6, <1>8 DEF BalancedAt
<1>11. QED
  BY <1>4, <1>8, <1>9, <1>10, FS_SameCardinalityBij

\* The spots partition both.
LEMMA Partition ==
  ASSUME TInv, NEW f \in [Threads -> Spots]
  PROVE  /\ \A t \in AllWaiting : spot[t] \in Spots /\ t \in Waiting(spot[t])
         /\ \A s \in Spots : \A t \in Waiting(s) : t \in AllWaiting /\ spot[t] = s
         /\ \A s \in Spots : Awaited(f, s) \subseteq AllAwaited
         /\ \A x \in AllAwaited : \E s \in Spots : x \in Awaited(f, s)
         /\ \A r, s \in Spots : r # s => Awaited(f, r) \cap Awaited(f, s) = {}
<1>1. spot \in [Threads -> Spots]
  BY DEF TInv, TypeOK
<1>2. \A s \in Spots : s # NSpots
  BY Ranges
<1>3. \A t \in AllWaiting : spot[t] \in Spots /\ t \in Waiting(spot[t])
  BY <1>1 DEF AllWaiting, Sleepers, Between, Waiting
<1>4. \A s \in Spots : \A t \in Waiting(s) : t \in AllWaiting /\ spot[t] = s
  BY DEF AllWaiting, Sleepers, Between, Waiting
<1>5. \A s \in Spots : Owed(f, s) \subseteq Skipped
  BY DEF Owed
<1>6. \A t \in Skipped : f[t] \in Spots /\ t \in Owed(f, f[t])
  BY DEF Owed, Skipped
<1>7. \A s \in Spots : Awaited(f, s) \subseteq AllAwaited
  BY <1>5 DEF Awaited, AllAwaited, Untaken
<1>8. \A x \in AllAwaited : \E s \in Spots : x \in Awaited(f, s)
  <2>1. ASSUME NEW x \in Untaken PROVE \E s \in Spots : x \in Awaited(f, s)
    BY DEF Untaken, Awaited
  <2>2. ASSUME NEW x \in {NSpots} \X Skipped PROVE \E s \in Spots : x \in Awaited(f, s)
    <3>1. PICK t \in Skipped : x = <<NSpots, t>>
      OBVIOUS
    <3>2. x \in {NSpots} \X Owed(f, f[t])
      BY <1>6, <3>1
    <3>3. QED
      BY <1>6, <3>2 DEF Awaited
  <2>3. QED
    BY <2>1, <2>2 DEF AllAwaited
<1>9. ASSUME NEW r \in Spots, NEW s \in Spots, r # s, NEW x \in Awaited(f, r), x \in Awaited(f, s)
      PROVE  FALSE
  <2>1. CASE x \in {r} \X (1..permits[r])
    BY <1>2, <1>9, <2>1 DEF Awaited
  <2>2. CASE x \in {NSpots} \X Owed(f, r)
    <3>1. x[1] = NSpots /\ x[2] \in Owed(f, r)
      BY <2>2
    <3>2. x \in {NSpots} \X Owed(f, s)
      BY <1>2, <1>9, <3>1 DEF Awaited
    <3>3. x[2] \in Owed(f, s)
      BY <3>2
    <3>4. QED
      BY <1>9, <3>1, <3>3 DEF Owed
  <2>3. QED
    BY <1>9, <2>1, <2>2 DEF Awaited
<1>10. QED
  BY <1>3, <1>4, <1>7, <1>8, <1>9

LEMMA AllBalanced ==
  ASSUME TInv, NEW f \in [Threads -> Spots], \A s \in Spots : BalancedAt(f, s)
  PROVE  IsFiniteSet(AllAwaited) /\ Cardinality(AllAwaited) = Cardinality(AllWaiting)
<1>1. \A s \in Spots : \E g : g \in Bijection(Waiting(s), Awaited(f, s))
  BY AwaitedSize DEF ExistsBijection
<1> DEFINE g == [s \in Spots |-> CHOOSE k : k \in Bijection(Waiting(s), Awaited(f, s))]
           h == [t \in AllWaiting |-> g[spot[t]][t]]
<1>2. \A s \in Spots : g[s] \in Bijection(Waiting(s), Awaited(f, s))
  BY <1>1
<1> HIDE DEF g
<1>3. \A s \in Spots :
        /\ g[s] \in [Waiting(s) -> Awaited(f, s)]
        /\ \A t, u \in Waiting(s) : g[s][t] = g[s][u] => t = u
        /\ \A x \in Awaited(f, s) : \E t \in Waiting(s) : g[s][t] = x
  BY <1>2 DEF Bijection, Injection, Surjection, IsInjective
<1>4. \A t \in AllWaiting : h[t] \in Awaited(f, spot[t]) /\ h[t] \in AllAwaited
  BY <1>3, Partition
<1>5. ASSUME NEW t \in AllWaiting, NEW u \in AllWaiting, h[t] = h[u] PROVE t = u
  <2>1. spot[t] = spot[u]
    BY <1>4, <1>5, Partition
  <2>2. g[spot[t]][t] = g[spot[t]][u]
    BY <1>5, <2>1
  <2>3. spot[t] \in Spots /\ t \in Waiting(spot[t]) /\ u \in Waiting(spot[t])
    BY <2>1, Partition
  <2>4. QED
    BY <1>3, <2>2, <2>3
<1>6. ASSUME NEW x \in AllAwaited PROVE \E t \in AllWaiting : h[t] = x
  <2>1. PICK s \in Spots : x \in Awaited(f, s)
    BY Partition
  <2>2. PICK t \in Waiting(s) : g[s][t] = x
    BY <1>3, <2>1
  <2>3. t \in AllWaiting /\ spot[t] = s
    BY Partition
  <2>4. QED
    BY <2>2, <2>3
<1>7. h \in Bijection(AllWaiting, AllAwaited)
  <2>1. h \in [AllWaiting -> AllAwaited]
    BY <1>4
  <2>2. QED
    BY <1>5, <1>6, <2>1 DEF Bijection, Injection, Surjection, IsInjective
<1>8. ExistsBijection(AllWaiting, AllAwaited)
  BY <1>7 DEF ExistsBijection
<1>9. IsFiniteSet(AllWaiting)
  <2>1. AllWaiting \subseteq Threads
    BY DEF AllWaiting, Sleepers, Between
  <2>2. QED
    BY <2>1, Ranges, FS_Subset
<1>10. QED
  BY <1>8, <1>9, FS_Bijection

\* Until main shuts down, threads that sleep or are about to wait are as many as the posts
\* nobody has taken and those left out, over all spots: no post is lost or made twice.
THEOREM PostsAreBalanced == Spec => []PostsBalance
<1>1. TInv /\ Mutexes /\ Balance => PostsBalance
  <2> SUFFICES ASSUME TInv, Mutexes, Balance, ~stop
               PROVE  Cardinality(Sleepers) + Cardinality(Between)
                        = Cardinality(Untaken) + Cardinality(Skipped)
    BY DEF PostsBalance
  <2>1. PICK f \in [Threads -> Spots] : \A s \in Spots : BalancedAt(f, s)
    <3>1. CASE prog # "go"
      BY <3>1 DEF Balance
    <3>2. CASE prog = "go"
      <4>1. PICK f \in [Threads -> Spots] : f = [t \in Threads |-> 0]
        BY Ranges
      <4>2. ASSUME NEW s \in Spots PROVE BalancedAt(f, s)
        <5>1. Waiting(s) = Takers(s) \cup Asleep(s)
          BY <3>2 DEF Waiting, Takers, Asleep, TInv, ProgramsDiffer
        <5>2. MutexAt(s)
          BY <3>2 DEF Mutexes
        <5>3. Owed(f, s) = {}
          BY <3>2 DEF Owed, Skipped, Skips
        <5>4. Waiting(s) = Takers(s) /\ permits[s] = Cardinality(Takers(s))
          BY <5>1, <5>2 DEF MutexAt
        <5>5. Cardinality(Owed(f, s)) = 0 /\ Cardinality(Waiting(s)) \in Nat
          BY <5>3, FiniteWaiting, FS_EmptySet
        <5>6. QED
          BY <5>4, <5>5 DEF BalancedAt
      <4>3. QED
        BY <4>1, <4>2
    <3>3. QED
      BY <3>1, <3>2
  <2>2. IsFiniteSet(AllAwaited) /\ Cardinality(AllAwaited) = Cardinality(AllWaiting)
    BY <2>1, AllBalanced
  <2>3. Cardinality(AllWaiting) = Cardinality(Sleepers) + Cardinality(Between)
    <3>1. Sleepers \subseteq Threads /\ Between \subseteq Threads /\ Sleepers \cap Between = {}
      BY DEF Sleepers, Between
    <3>2. /\ IsFiniteSet(Sleepers) /\ IsFiniteSet(Between)
          /\ Cardinality(Sleepers) \in Nat /\ Cardinality(Between) \in Nat
      BY <3>1, Ranges, FS_Subset, FS_CardinalityType
    <3>3. Cardinality(AllWaiting)
            = Cardinality(Sleepers) + Cardinality(Between) - Cardinality(Sleepers \cap Between)
      BY <3>2, FS_Union DEF AllWaiting
    <3>4. Cardinality(Sleepers \cap Between) = 0
      BY <3>1, FS_EmptySet
    <3>5. QED
      BY <3>2, <3>3, <3>4
  <2>4. Cardinality(AllAwaited) = Cardinality(Untaken) + Cardinality(Skipped)
    <3> DEFINE Left == {NSpots} \X Skipped
    <3>1. IsFiniteSet(Skipped) /\ Cardinality(Skipped) \in Nat
      <4>1. Skipped \subseteq Threads
        BY DEF Skipped
      <4>2. QED
        BY <4>1, Ranges, FS_Subset, FS_CardinalityType
    <3>2. IsFiniteSet(Left) /\ Cardinality(Left) = Cardinality(Skipped)
      <4>1. IsFiniteSet({NSpots}) /\ Cardinality({NSpots}) = 1
        BY FS_Singleton
      <4>2. IsFiniteSet(Left) /\ Cardinality(Left) = Cardinality({NSpots}) * Cardinality(Skipped)
        BY <3>1, <4>1, FS_Product
      <4>3. QED
        BY <3>1, <4>1, <4>2
    <3>3. Untaken \cap Left = {}
      <4>1. \A x \in Untaken : x[1] \in Spots
        BY DEF Untaken
      <4>2. \A x \in Left : x[1] = NSpots
        OBVIOUS
      <4>3. NSpots \notin Spots
        BY Ranges
      <4>4. QED
        BY <4>1, <4>2, <4>3
    <3>4. AllAwaited = Untaken \cup Left
      BY DEF AllAwaited
    <3> HIDE DEF Left
    <3>5. IsFiniteSet(Untaken) /\ Cardinality(Untaken) \in Nat
      <4>1. Untaken \subseteq AllAwaited
        BY <3>4
      <4>2. QED
        BY <2>2, <4>1, FS_Subset, FS_CardinalityType
    <3>6. Cardinality(Untaken \cup Left)
            = Cardinality(Untaken) + Cardinality(Left) - Cardinality(Untaken \cap Left)
      BY <3>2, <3>5, FS_Union
    <3>7. Cardinality(Untaken \cap Left) = 0
      BY <3>3, FS_EmptySet
    <3>8. QED
      BY <3>1, <3>2, <3>4, <3>5, <3>6, <3>7
  <2>5. QED
    BY <2>2, <2>3, <2>4
<1>2. QED
  BY <1>1, InitTInv, StepTInv, InitMutexes, MutexesKept, InitBalance, BalanceKept, PTL DEF Spec
=============================================================================
