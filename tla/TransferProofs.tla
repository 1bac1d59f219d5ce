--------------------------- MODULE TransferProofs ---------------------------
(***************************************************************************)
(* Proofs about the transfer benchmark, for every number of threads and of *)
(* epochs: types, the uniqueness of the leader, the epochs of the threads, *)
(* the number of transfers, and the posts of wakegroup().                  *)
(***************************************************************************)
EXTENDS Transfer, FiniteSets, FiniteSetTheorems, TLAPS

\* A leader that has opened an epoch too many is on its way out.
Out == {"report", "over", "send", "done"}
Bounded == lead_idx > StopCount => leader \in Threads /\ pc[leader] \in Out

\* Nobody is ahead of the leader, even after one has given up.
Behind == \A t \in Threads : idx[t] <= lead_idx /\ (pc[t] = "bump" => idx[t] # lead_idx)

\* A thread is behind only while the leader waits for it, or after the last epoch.
Gap ==
  ~estop /\ (\E t \in Threads : idx[t] # lead_idx) =>
    leader \in Threads /\ (pc[leader] = "group" \/ lead_idx > StopCount)

\* Main hears of the end only when it has come, and a leader that gives up says so.
Told ==
  /\ ~estop /\ (main_sem > 0 \/ mpc \in {"shut", "join", "done"}) => lead_idx > StopCount
  /\ ~estop => \A t \in Threads : pc[t] = "report" => lead_idx > StopCount
  /\ \A t \in Threads : pc[t] = "alarm" => estop

Epochs == OneLeader /\ Bounded /\ Behind /\ EpochsInStep /\ Gap

IInv == TypeOK /\ Epochs /\ Told

USE DEF Labels

LEMMA Ranges ==
  /\ NThreads \in Nat /\ StopCount \in Nat /\ StopCount # 0
  /\ 0 \in Threads /\ Threads \subseteq 0..NThreads
  /\ \A t \in Threads : t \in Nat /\ t + 1 \in 0..NThreads /\ (t # NThreads - 1 => t + 1 \in Threads)
  BY Sizes DEF Threads

\* The actions that leave the epochs alone, and those that do not.
Quiet(t) ==
  \/ AwaitStart(t) \/ Report(t) \/ Alarm(t) \/ Wake(t) \/ WakeNobody(t) \/ Follow(t)
  \/ Recheck(t) \/ Park(t) \/ Over(t) \/ Join(t)
QuietMain == Start \/ Hear \/ Shut

LEMMA Actions ==
  ASSUME [Next]_vars
  PROVE  \/ \E t \in Threads : Quiet(t) \/ Lead(t) \/ Gathered(t) \/ TimeOut(t) \/ Elect(t) \/ Bump(t)
         \/ QuietMain
         \/ UNCHANGED vars
  BY DEF Next, Main, Ended, Thread, Leading, Following, Quiet, QuietMain

LEMMA InitIInv == Init => IInv
<1> SUFFICES ASSUME Init PROVE IInv
  OBVIOUS
<1>1. StopCount \in Nat /\ StopCount # 0 /\ NThreads \in Nat /\ 0 \in Threads /\ 0 \in 0..NThreads
  BY Ranges
<1>2. leader \in Threads \cup {NoLeader} /\ 0 \in 0..StopCount + 1
  BY <1>1 DEF Init, FirstLeaders
<1>3. exhaust \in BOOLEAN
  BY DEF Init
<1>4. estop \in BOOLEAN /\ failed \in BOOLEAN
  BY DEF Init
<1>5. TypeOK
  BY <1>1, <1>2, <1>3, <1>4 DEF Init, TypeOK
<1>6. Epochs
  BY <1>1 DEF Init, Epochs, OneLeader, Bounded, Behind, EpochsInStep, Gap
<1>7. Told
  BY DEF Init, Told
<1>8. QED
  BY <1>5, <1>6, <1>7 DEF IInv

\* How a thread may move while the epochs stay as they are.
Move(u) ==
  /\ pc'[u] \in {"group", "alarm", "report"} => pc'[u] = pc[u]
  /\ pc'[u] = "elect" => pc[u] \in {"elect", "alarm"}
  /\ pc'[u] = "bump" => pc[u] = "bump" \/ idx[u] # lead_idx
  /\ pc[u] = "group" => pc'[u] = "group"
  /\ pc[u] \in Out /\ Finished => pc'[u] \in Out

Still == UNCHANGED epoch /\ \A u \in Threads : Move(u)

\* A post moves nobody but a sleeper.
LEMMA PostMoves ==
  ASSUME TypeOK, NEW u \in Threads, Post(u, pc), NEW t \in Threads
  PROVE  Move(t)
  BY DEF TypeOK, Post, Move, Out

LEMMA QuietStill ==
  ASSUME TypeOK, NEW t \in Threads, Quiet(t) PROVE Still
<1> USE DEF TypeOK, Go, Move, Out
<1>1. UNCHANGED epoch
  BY DEF Quiet, AwaitStart, Report, Alarm, TellMain, Wake, WakeNobody, Follow, Recheck, Park,
         Over, Join
<1>2. ASSUME NEW u \in Threads PROVE Move(u)
  <2>1. CASE AwaitStart(t)
    BY <2>1 DEF AwaitStart, Wait
  <2>2. CASE Report(t) \/ Alarm(t)
    BY <2>2 DEF Report, Alarm, TellMain
  <2>3. CASE Wake(t)
    <3>1. CASE Post(wi[t], pc)
      BY <2>3, <3>1, PostMoves DEF Wake
    <3>2. CASE ~Post(wi[t], pc)
      BY <2>3, <3>2 DEF Wake
    <3>3. QED
      BY <3>1, <3>2
  <2>4. CASE WakeNobody(t) \/ Follow(t) \/ Recheck(t)
    BY <2>4 DEF WakeNobody, Follow, Recheck
  <2>5. CASE Park(t)
    BY <2>5 DEF Park, Wait
  <2>6. CASE Over(t) \/ Join(t)
    BY <2>6 DEF Over, Join
  <2>7. QED
    BY <2>1, <2>2, <2>3, <2>4, <2>5, <2>6 DEF Quiet
<1>3. QED
  BY <1>1, <1>2 DEF Still

LEMMA MainStill ==
  ASSUME TypeOK, QuietMain PROVE Still
<1>1. UNCHANGED epoch
  BY DEF QuietMain, Start, Hear, Shut
<1>2. ASSUME NEW u \in Threads PROVE Move(u)
  <2>1. CASE UNCHANGED pc
    BY <2>1 DEF Move
  <2>2. CASE Post(mi, pc)
    BY <2>2, PostMoves DEF TypeOK
  <2>3. QED
    BY <2>1, <2>2 DEF QuietMain, Start, Hear, Shut
<1>3. QED
  BY <1>1, <1>2 DEF Still

\* What the properties of the epochs need is that nobody begins to lead or to follow.
LEMMA StillKept == IInv /\ Still => Epochs'
<1> SUFFICES ASSUME IInv, Still PROVE Epochs'
  OBVIOUS
<1> USE DEF IInv, TypeOK, Epochs
<1>1. /\ leader' = leader /\ lead_idx' = lead_idx /\ estop' = estop /\ idx' = idx
      /\ \A u \in Threads : Move(u)
  BY DEF Still, epoch
<1>2. OneLeader'
  BY <1>1 DEF OneLeader, Move
<1>3. Bounded'
  BY <1>1 DEF Bounded, Move, Finished
<1>4. Behind'
  BY <1>1 DEF Behind, Move
<1>5. EpochsInStep'
  BY <1>1 DEF EpochsInStep, Move, Told
<1>6. Gap'
  BY <1>1 DEF Gap, Move
<1>7. QED
  BY <1>2, <1>3, <1>4, <1>5, <1>6

\* A new epoch is opened by the leader, when nobody is behind.
LEMMA LeadKept ==
  ASSUME IInv, NEW t \in Threads, Lead(t) PROVE Epochs'
<1> USE DEF IInv, TypeOK, Epochs
<1>1. /\ pc[t] = "loop" /\ leader = t /\ leader' = t /\ estop' = estop
      /\ lead_idx' = lead_idx + 1 /\ idx' = [idx EXCEPT ![t] = lead_idx + 1]
      /\ pc' = [pc EXCEPT ![t] = IF lead_idx + 1 > StopCount \/ estop THEN "report" ELSE "group"]
  BY DEF Lead, Finished, Go
<1>2. lead_idx <= StopCount /\ lead_idx \in Nat /\ StopCount \in Nat
  BY <1>1, Ranges DEF Bounded, Out
<1>3. ~estop => \A u \in Threads : idx[u] = lead_idx /\ pc[u] # "bump" /\ pc[u] # "elect"
  BY <1>1, <1>2 DEF Gap, Behind, OneLeader
<1>4. OneLeader'
  BY <1>1 DEF OneLeader
<1>5. Bounded'
  BY <1>1, <1>2 DEF Bounded, Out
<1>6. Behind'
  BY <1>1, <1>2 DEF Behind
<1>7. EpochsInStep'
  BY <1>1, <1>2, <1>3 DEF EpochsInStep
<1>8. Gap'
  BY <1>1, <1>2 DEF Gap
<1>9. QED
  BY <1>4, <1>5, <1>6, <1>7, <1>8

\* The leader is through with waiting, by success or by giving up, and names the next.
LEMMA GroupKept ==
  ASSUME IInv, NEW t \in Threads, Gathered(t) \/ TimeOut(t) \/ Elect(t) PROVE Epochs'
<1> USE DEF IInv, TypeOK, Epochs
<1>1. leader = t /\ lead_idx \in Nat /\ StopCount \in Nat /\ ~(lead_idx > StopCount)
  BY Ranges DEF Gathered, TimeOut, Elect, OneLeader, Bounded, Out
<1>2. \A u \in Threads : u # t => pc[u] \notin {"group", "alarm", "elect", "report"}
  BY <1>1 DEF OneLeader
<1>3. CASE Gathered(t)
  <2>1. /\ UNCHANGED <<leader, lead_idx, estop, idx>>
        /\ \A u \in Threads : pc'[u] = IF u = t THEN "elect" ELSE pc[u]
        /\ \A u \in Threads : idx[u] = lead_idx
    BY <1>3 DEF Gathered, Go, epoch
  <2>2. OneLeader' /\ Bounded'
    BY <1>1, <1>2, <2>1 DEF OneLeader, Bounded
  <2>3. Behind' /\ EpochsInStep' /\ Gap'
    BY <2>1 DEF Behind, EpochsInStep, Gap
  <2>4. QED
    BY <2>2, <2>3
<1>4. CASE TimeOut(t)
  BY <1>1, <1>2, <1>4 DEF TimeOut, Go, OneLeader, Bounded, Behind, EpochsInStep, Gap
<1>5. CASE Elect(t)
  <2>1. /\ pc[t] = "elect" /\ lead_idx' = lead_idx /\ estop' = estop /\ idx' = idx
        /\ \A u \in Threads : pc'[u] = IF u = t THEN (IF exhaust THEN "wake" ELSE "over") ELSE pc[u]
    BY <1>5 DEF Elect, Go
  <2>2. ~estop => \A u \in Threads : idx[u] = lead_idx
    BY <2>1 DEF EpochsInStep
  <2>3. OneLeader'
    BY <1>2, <2>1 DEF OneLeader
  <2>4. Bounded' /\ Gap'
    BY <1>1, <2>1, <2>2 DEF Bounded, Gap
  <2>5. Behind' /\ EpochsInStep'
    BY <2>1, <2>2 DEF Behind, EpochsInStep
  <2>6. QED
    BY <2>3, <2>4, <2>5
<1>6. QED
  BY <1>3, <1>4, <1>5

\* A follower enters the epoch.
LEMMA BumpKept ==
  ASSUME IInv, NEW t \in Threads, Bump(t) PROVE Epochs'
<1> USE DEF IInv, TypeOK, Epochs
<1>1. /\ leader' = leader /\ lead_idx' = lead_idx /\ estop' = estop /\ pc[t] = "bump"
      /\ lead_idx \in Nat /\ idx[t] \in Nat /\ idx[t] < lead_idx
  BY Ranges DEF Bump, Behind
<1>2. CASE UNCHANGED <<pc, idx>>
  BY <1>1, <1>2 DEF OneLeader, Bounded, Behind, EpochsInStep, Gap
<1>3. CASE /\ idx' = [idx EXCEPT ![t] = @ + 1]
           /\ pc' = [pc EXCEPT ![t] = IF exhaust THEN "park" ELSE "over"]
  <2>1. OneLeader' /\ Bounded'
    BY <1>1, <1>3 DEF OneLeader, Bounded, Out
  <2>2. Behind'
    BY <1>1, <1>3 DEF Behind
  <2>3. EpochsInStep'
    BY <1>1, <1>3 DEF EpochsInStep, Behind
  <2>4. Gap'
    BY <1>1, <1>3 DEF Gap, OneLeader
  <2>5. QED
    BY <2>1, <2>2, <2>3, <2>4
<1>4. QED
  BY <1>2, <1>3 DEF Bump, Go

LEMMA EpochsKept == IInv /\ [Next]_vars => Epochs'
<1> SUFFICES ASSUME IInv, [Next]_vars PROVE Epochs'
  OBVIOUS
<1>1. CASE UNCHANGED vars
  BY <1>1 DEF IInv, Epochs, OneLeader, Bounded, Behind, EpochsInStep, Gap, vars, epoch
<1>2. QED
  BY <1>1, Actions, QuietStill, MainStill, StillKept, LeadKept, GroupKept, BumpKept DEF IInv

-----------------------------------------------------------------------------
\* Main hears of the end from a leader that has reached it or has given up.
LEMMA ToldKept == IInv /\ [Next]_vars => Told'
<1> SUFFICES ASSUME IInv, [Next]_vars PROVE Told'
  OBVIOUS
<1> USE DEF IInv, TypeOK, Told
<1>1. lead_idx \in Nat /\ StopCount \in Nat /\ main_sem \in Nat
  BY Ranges
<1>2. ASSUME NEW t \in Threads, Quiet(t) PROVE Told'
  <2>1. /\ estop' = estop /\ lead_idx' = lead_idx
        /\ \A u \in Threads : pc'[u] \in {"alarm", "report"} => pc'[u] = pc[u]
    BY <1>2, QuietStill DEF Still, Move, epoch
  <2>2. CASE Report(t) \/ Alarm(t)
    <3>1. ~estop => lead_idx > StopCount
      BY <2>2 DEF Report, Alarm
    <3>2. QED
      BY <2>1, <3>1
  <2>3. CASE Join(t)
    BY <2>1, <2>3 DEF Join
  <2>4. CASE ~Report(t) /\ ~Alarm(t) /\ ~Join(t)
    <3>1. main_sem' = main_sem /\ mpc' = mpc
      BY <1>2, <2>4 DEF Quiet, AwaitStart, Wake, WakeNobody, Follow, Recheck, Park, Over, mainvars
    <3>2. QED
      BY <2>1, <3>1
  <2>5. QED
    BY <2>2, <2>3, <2>4
<1>3. CASE QuietMain
  <2>1. /\ estop' = estop /\ lead_idx' = lead_idx
        /\ \A u \in Threads : pc'[u] \in {"alarm", "report"} => pc'[u] = pc[u]
    BY <1>3, MainStill DEF Still, Move, epoch
  <2>2. (main_sem' > 0 => main_sem > 0) /\ (mpc' \in {"shut", "join", "done"} =>
          mpc \in {"shut", "join", "done"} \/ main_sem > 0)
    BY <1>1, <1>3 DEF QuietMain, Start, Hear, Shut
  <2>3. QED
    BY <2>1, <2>2
<1>4. ASSUME NEW t \in Threads, Lead(t) PROVE Told'
  <2>1. /\ estop' = estop /\ lead_idx' = lead_idx + 1 /\ main_sem' = main_sem /\ mpc' = mpc
        /\ pc' = [pc EXCEPT ![t] = IF lead_idx + 1 > StopCount \/ estop THEN "report" ELSE "group"]
    BY <1>4 DEF Lead, Finished, Go, mainvars
  <2>2. QED
    BY <1>1, <2>1
<1>5. ASSUME NEW t \in Threads, Gathered(t) \/ TimeOut(t) \/ Elect(t) \/ Bump(t) PROVE Told'
  <2>1. /\ estop => estop'
        /\ lead_idx' = lead_idx /\ main_sem' = main_sem /\ mpc' = mpc
        /\ \A u \in Threads : pc'[u] = "report" => pc[u] = "report"
        /\ \A u \in Threads : pc'[u] = "alarm" => pc[u] = "alarm" \/ estop'
    BY <1>5 DEF Gathered, TimeOut, Elect, Bump, Go, epoch, mainvars
  <2>2. QED
    BY <2>1
<1>6. CASE UNCHANGED vars
  BY <1>6 DEF vars, epoch, mainvars
<1>7. QED
  BY <1>2, <1>3, <1>4, <1>5, <1>6, Actions

-----------------------------------------------------------------------------
LEMMA PostTypes ==
  ASSUME TypeOK, NEW u \in Threads, Post(u, pc)
  PROVE  pc' \in [Threads -> Labels] /\ sem' \in [Threads -> Nat]
  BY DEF TypeOK, Post

\* What threads do to their own variables and to the posts.
LEMMA ThreadTypes ==
  ASSUME IInv, NEW t \in Threads,
         Quiet(t) \/ Lead(t) \/ Gathered(t) \/ TimeOut(t) \/ Elect(t) \/ Bump(t)
  PROVE  /\ pc' \in [Threads -> Labels] /\ sem' \in [Threads -> Nat]
         /\ wi' \in [Threads -> 0..NThreads]
<1> USE DEF IInv, TypeOK, Go
<1>1. CASE AwaitStart(t) \/ Park(t)
  BY <1>1 DEF AwaitStart, Park, Wait
<1>2. CASE Report(t) \/ Alarm(t)
  BY <1>2 DEF Report, Alarm, TellMain
<1>3. CASE Wake(t)
  <2>1. wi[t] \in Threads /\ wi[t] + 1 \in 0..NThreads /\ wi' = [wi EXCEPT ![t] = @ + 1]
    BY <1>3, Ranges DEF Wake
  <2>2. pc' \in [Threads -> Labels] /\ sem' \in [Threads -> Nat]
    BY <1>3, PostTypes DEF Wake
  <2>3. QED
    BY <2>1, <2>2
<1>4. CASE WakeNobody(t)
  <2>1. t + 1 \in 0..NThreads
    BY Ranges
  <2>2. QED
    BY <1>4, <2>1 DEF WakeNobody
<1>5. CASE Follow(t) \/ Recheck(t) \/ Over(t) \/ Join(t)
  BY <1>5 DEF Follow, Recheck, Over, Join
<1>6. CASE Lead(t) \/ Gathered(t) \/ TimeOut(t) \/ Bump(t)
  BY <1>6 DEF Lead, Gathered, TimeOut, Bump
<1>7. CASE Elect(t)
  <2>1. 0 \in 0..NThreads
    BY Ranges
  <2>2. QED
    BY <1>7, <2>1 DEF Elect
<1>8. QED
  BY <1>1, <1>2, <1>3, <1>4, <1>5, <1>6, <1>7 DEF Quiet

\* An epoch is opened, and entered, while there are any left.
LEMMA EpochTypes ==
  ASSUME IInv, NEW t \in Threads,
         Quiet(t) \/ Lead(t) \/ Gathered(t) \/ TimeOut(t) \/ Elect(t) \/ Bump(t)
  PROVE  /\ leader' \in Threads \cup {NoLeader} /\ lead_idx' \in 0..StopCount + 1
         /\ estop' \in BOOLEAN /\ idx' \in [Threads -> 0..StopCount + 1]
<1> USE DEF IInv, TypeOK, Go
<1>1. CASE Quiet(t)
  BY <1>1, QuietStill DEF Still, epoch
<1>2. CASE Lead(t)
  <2>1. lead_idx + 1 \in 0..StopCount + 1
    BY <1>2, Ranges DEF Lead, Epochs, Bounded, Out
  <2>2. QED
    BY <1>2, <2>1 DEF Lead
<1>3. CASE Gathered(t)
  BY <1>3 DEF Gathered, epoch
<1>4. CASE TimeOut(t)
  BY <1>4 DEF TimeOut
<1>5. CASE Elect(t)
  <2>1. NextLeaders \subseteq Threads
    BY Ranges DEF NextLeaders
  <2>2. QED
    BY <1>5, <2>1 DEF Elect
<1>6. CASE Bump(t)
  <2>1. idx[t] + 1 \in 0..StopCount + 1
    BY <1>6, Ranges DEF Bump, Epochs, Behind
  <2>2. QED
    BY <1>6, <2>1 DEF Bump
<1>7. QED
  BY <1>1, <1>2, <1>3, <1>4, <1>5, <1>6

\* The setup is fixed, and what belongs to main is of its type.
LEMMA MainTypes ==
  ASSUME IInv, [Next]_vars
  PROVE  /\ prog' = prog /\ exhaust' = exhaust /\ starves' = starves
         /\ main_sem' \in Nat /\ failed' \in BOOLEAN
         /\ mpc' \in {"start", "wait", "shut", "join", "done"} /\ mi' \in Threads
<1> USE DEF IInv, TypeOK
<1>1. prog' = prog /\ exhaust' = exhaust /\ starves' = starves
  BY Actions DEF Quiet, QuietMain, AwaitStart, Report, Alarm, TellMain, Wake, WakeNobody, Follow,
       Recheck, Park, Over, Join, Lead, Gathered, TimeOut, Elect, Bump, Start, Hear, Shut,
       setup, vars
<1>2. failed' \in BOOLEAN
  <2>1. failed \in BOOLEAN
    OBVIOUS
  <2>2. failed' = failed \/ failed' = TRUE
    BY Actions DEF Quiet, QuietMain, AwaitStart, Report, Alarm, TellMain, Wake, WakeNobody, Follow,
         Recheck, Park, Over, Join, Lead, Gathered, TimeOut, Elect, Bump, Start, Hear, Shut, vars
  <2>3. QED
    BY <2>1, <2>2
<1>3. ASSUME NEW t \in Threads, Report(t) \/ Alarm(t)
      PROVE  main_sem' \in Nat /\ mpc' \in {"shut", mpc} /\ mi' = mi
  BY <1>3 DEF Report, Alarm, TellMain, mainvars
<1>4. ASSUME NEW t \in Threads, Join(t)
      PROVE  main_sem' = main_sem /\ mpc' \in {"join", "done"} /\ mi' \in Threads
  BY <1>4, Ranges DEF Join
<1>5. ASSUME NEW t \in Threads, Quiet(t), ~Report(t), ~Alarm(t), ~Join(t)
      PROVE  main_sem' = main_sem /\ mpc' = mpc /\ mi' = mi
  BY <1>5 DEF Quiet, AwaitStart, Wake, WakeNobody, Follow, Recheck, Park, Over, mainvars
<1>6. ASSUME NEW t \in Threads, Lead(t) \/ Gathered(t) \/ TimeOut(t) \/ Elect(t) \/ Bump(t)
      PROVE  main_sem' = main_sem /\ mpc' = mpc /\ mi' = mi
  BY <1>6 DEF Lead, Gathered, TimeOut, Elect, Bump, mainvars
<1>7. ASSUME QuietMain
      PROVE  main_sem' \in Nat /\ mpc' \in {"start", "wait", "shut", "join"} /\ mi' \in Threads
  BY <1>7, Ranges DEF QuietMain, Start, Hear, Shut
<1>8. ASSUME UNCHANGED vars
      PROVE  main_sem' = main_sem /\ mpc' = mpc /\ mi' = mi
  BY <1>8 DEF vars, mainvars
<1>9. main_sem' \in Nat /\ mpc' \in {"start", "wait", "shut", "join", "done"} /\ mi' \in Threads
  BY <1>3, <1>4, <1>5, <1>6, <1>7, <1>8, Actions
<1>10. QED
  BY <1>1, <1>2, <1>9

LEMMA TypesKept == IInv /\ [Next]_vars => TypeOK'
<1> SUFFICES ASSUME IInv, [Next]_vars PROVE TypeOK'
  OBVIOUS
<1> DEFINE Own == /\ pc' \in [Threads -> Labels] /\ sem' \in [Threads -> Nat]
                  /\ wi' \in [Threads -> 0..NThreads]
           Shared == /\ leader' \in Threads \cup {NoLeader} /\ lead_idx' \in 0..StopCount + 1
                     /\ estop' \in BOOLEAN /\ idx' \in [Threads -> 0..StopCount + 1]
<1>1. CASE UNCHANGED vars
  BY <1>1 DEF IInv, TypeOK, vars, setup, epoch, mainvars
<1>2. ASSUME NEW t \in Threads,
             Quiet(t) \/ Lead(t) \/ Gathered(t) \/ TimeOut(t) \/ Elect(t) \/ Bump(t)
      PROVE  Own /\ Shared
  BY <1>2, ThreadTypes, EpochTypes
<1>3. CASE QuietMain
  <2>1. Shared
    BY <1>3, MainStill DEF IInv, TypeOK, Still, epoch
  <2>2. wi' = wi /\ (UNCHANGED <<pc, sem>> \/ Post(mi, pc))
    BY <1>3 DEF QuietMain, Start, Hear, Shut
  <2>3. Own
    BY <2>2, PostTypes DEF IInv, TypeOK
  <2>4. QED
    BY <2>1, <2>3, MainTypes DEF IInv, TypeOK
<1>4. QED
  BY <1>1, <1>2, <1>3, Actions, MainTypes DEF IInv, TypeOK

LEMMA StepIInv == IInv /\ [Next]_vars => IInv'
  BY EpochsKept, ToldKept, TypesKept DEF IInv

LEMMA IInvAlways == Spec => []IInv
  BY InitIInv, StepIInv, PTL DEF Spec
-----------------------------------------------------------------------------
\* Every variable keeps its type in all four programs: no epoch is opened beyond the one
\* that ends the run, even after a leader has given up.
THEOREM TypeCorrect == Spec => []TypeOK
<1>1. IInv => TypeOK
  BY DEF IInv
<1>2. QED
  BY <1>1, IInvAlways, PTL

\* A thread that opens an epoch, waits for it to be seen or reports the end is the
\* leader: no two threads lead at a time.
THEOREM LeaderIsUnique == Spec => []OneLeader
<1>1. IInv => OneLeader
  BY DEF IInv, Epochs
<1>2. QED
  BY <1>1, IInvAlways, PTL

\* As long as no leader has given up, no thread is more than one epoch behind, which is
\* the assertion of wait(), although it reads lead_idx once for its test and once more.
THEOREM EpochsStayInStep == Spec => []EpochsInStep
<1>1. IInv => EpochsInStep
  BY DEF IInv, Epochs
<1>2. QED
  BY <1>1, IInvAlways, PTL

\* When main goes on, --iterations epochs have been seen by all, for any number of
\* threads, unless a leader has given up.
THEOREM TransfersAreExact == Spec => []TransfersExact
<1>1. IInv => TransfersExact
  BY Ranges DEF IInv, Told, TypeOK, TransfersExact
<1>2. QED
  BY <1>1, IInvAlways, PTL

\* The assertion of wait() fails only after a leader has given up.
THEOREM AssertionUntilTimeOut == Spec => [](failed => estop)
<1> DEFINE F == failed => estop
<1>1. Init => F
  BY DEF Init
<1>2. IInv /\ F /\ [Next]_vars => F'
  <2> SUFFICES ASSUME IInv, F, [Next]_vars PROVE F'
    OBVIOUS
  <2>1. ASSUME NEW t \in Threads, Bump(t) PROVE F'
    BY <2>1 DEF Bump, IInv, Epochs, EpochsInStep, TypeOK
  <2>2. failed' = failed \/ \E t \in Threads : Bump(t)
    BY Actions DEF Quiet, QuietMain, AwaitStart, Report, Alarm, TellMain, Wake, WakeNobody, Follow,
         Recheck, Park, Over, Join, Lead, Gathered, TimeOut, Elect, Start, Hear, Shut, vars
  <2>3. estop => estop'
    BY Actions, QuietStill, MainStill DEF IInv, Still, epoch, Lead, Gathered, TimeOut, Elect, Bump,
         vars
  <2>4. QED
    BY <2>1, <2>2, <2>3
<1>3. QED
  BY <1>1, <1>2, IInvAlways, PTL DEF Spec
-----------------------------------------------------------------------------
(* The posts of wakegroup() *)

\* u is still to be woken by t, which has named the next leader.
Due(t, u) == u # t /\ (pc[t] = "elect" \/ (pc[t] = "wake" /\ wi[t] <= u))
Resting(u) == pc[u] \in {"park", "asleep"} /\ sem[u] = 0

OneWaker ==
  \A t, u \in Threads : pc[t] \in {"elect", "wake"} /\ pc[u] \in {"elect", "wake"} => t = u

\* Who is to be woken waits without a post, and so cannot have entered a newer epoch.
DueRest == \A t, u \in Threads : Due(t, u) => Resting(u)
DueLate == \A t, u, l \in Threads : Due(t, u) /\ pc[l] = "group" => idx[u] # lead_idx

\* Who has entered the epoch that the leader waits for has used up its posts.
Seen == \A t, u \in Threads : pc[t] = "group" /\ u # t /\ idx[u] = lead_idx => Resting(u)

\* A post is held by a thread that is to take it next, once.
Held ==
  \A u \in Threads :
    sem[u] = 0 \/ (sem[u] = 1 /\ (pc[u] = "park" \/ (prog = "cpp" /\ pc[u] = "start")))

\* Whom main has not posted yet has not started.
Unposted ==
  prog = "cpp" /\ mpc = "start" =>
    \A u \in Threads : mi <= u => pc[u] \in {"start", "startasleep"} /\ sem[u] = 0

Early == ~estop /\ mpc \in {"start", "wait"}
Posts == OneWaker /\ DueRest /\ DueLate /\ Seen /\ Held /\ Unposted
PInv == /\ Early /\ exhaust => Posts
        /\ ~exhaust => \A t \in Threads : pc[t] # "wake"

LEMMA InitPInv == Init => PInv
  BY Ranges DEF Init, PInv, Posts, OneWaker, DueRest, DueLate, Due, Seen, Held, Unposted

\* Steps that take no post, end no epoch and begin none.
Calm(t) == Follow(t) \/ Recheck(t) \/ Over(t) \/ Report(t)

Rests == {"start", "startasleep", "group", "elect", "wake", "park", "asleep"}

LEMMA CalmKept ==
  ASSUME IInv, Posts, NEW t \in Threads, Calm(t) PROVE Early' => Posts'
<1> USE DEF IInv, TypeOK, Go
<1>1. /\ idx' = idx /\ lead_idx' = lead_idx /\ sem' = sem /\ wi' = wi /\ mi' = mi /\ prog' = prog
      /\ \A u \in Threads : pc'[u] = pc[u] \/ (pc[u] \notin Rests /\ pc'[u] \notin Rests)
      /\ mpc' = mpc \/ mpc' = "shut"
  BY DEF Calm, Follow, Recheck, Over, Report, TellMain, epoch, mainvars, setup, Rests
<1>2. OneWaker' /\ DueRest' /\ Held'
  BY <1>1 DEF Posts, OneWaker, DueRest, Due, Resting, Held, Rests
<1>3. DueLate' /\ Seen'
  BY <1>1 DEF Posts, DueLate, Due, Seen, Resting, Rests
<1>4. Early' => Unposted'
  BY <1>1 DEF Posts, Unposted, Early, Rests
<1>5. QED
  BY <1>2, <1>3, <1>4 DEF Posts

LEMMA LeadKeepsPosts ==
  ASSUME IInv, Early, Posts, NEW t \in Threads, Lead(t) PROVE Posts'
<1> USE DEF IInv, TypeOK
<1>1. /\ pc[t] = "loop" /\ lead_idx' = lead_idx + 1 /\ sem' = sem /\ wi' = wi /\ mi' = mi
      /\ mpc' = mpc /\ prog' = prog /\ idx' = [idx EXCEPT ![t] = lead_idx + 1]
      /\ \A u \in Threads : pc'[u] = IF u = t THEN pc'[t] ELSE pc[u]
      /\ pc'[t] \in {"report", "group"}
  BY DEF Lead, Go, mainvars, setup
<1>2. \A u \in Threads : u # t => idx'[u] # lead_idx'
  BY <1>1 DEF Epochs, Behind
<1>3. OneWaker' /\ DueRest' /\ Held'
  BY <1>1 DEF Posts, OneWaker, DueRest, Due, Resting, Held
<1>4. Seen'
  <2>1. \A u \in Threads : u # t => pc[u] # "group"
    BY <1>1 DEF Lead, Epochs, OneLeader
  <2>2. QED
    BY <1>1, <1>2, <2>1 DEF Seen
<1>5. DueLate'
  <2>1. \A u, v \in Threads : Due(u, v)' => v # t
    BY <1>1 DEF Posts, DueRest, Due, Resting
  <2>2. QED
    BY <1>2, <2>1 DEF DueLate
<1>6. Unposted'
  BY <1>1 DEF Posts, Unposted
<1>7. QED
  BY <1>3, <1>4, <1>5, <1>6 DEF Posts

\* A leader that has waited for all is alone in waking, and all the others wait.
LEMMA GatheredKeepsPosts ==
  ASSUME IInv, Early, Posts, NEW t \in Threads, Gathered(t) PROVE Posts'
<1> USE DEF IInv, TypeOK
<1>1. /\ pc[t] = "group" /\ sem' = sem /\ wi' = wi /\ mi' = mi /\ mpc' = mpc /\ prog' = prog
      /\ idx' = idx /\ lead_idx' = lead_idx
      /\ \A u \in Threads : pc'[u] = IF u = t THEN "elect" ELSE pc[u]
      /\ \A u \in Threads : idx[u] = lead_idx
  BY DEF Gathered, Go, epoch, mainvars, setup
<1>2. \A u \in Threads : u # t => Resting(u)
  BY <1>1 DEF Posts, Seen
<1>3. OneWaker' /\ DueRest' /\ Held'
  BY <1>1, <1>2 DEF Posts, OneWaker, DueRest, Due, Resting, Held
<1>4. DueLate' /\ Seen'
  BY <1>1, <1>2 DEF DueLate, Seen, Resting
<1>5. Unposted'
  BY <1>1 DEF Posts, Unposted
<1>6. QED
  BY <1>3, <1>4, <1>5 DEF Posts

\* Steps by which t passes over itself or nobody in wakegroup(), or enters it.
LEMMA ElectKeepsPosts ==
  ASSUME IInv, Posts, exhaust, NEW t \in Threads, Elect(t) \/ WakeNobody(t) PROVE Posts'
<1> USE DEF IInv, TypeOK
<1>1. /\ sem' = sem /\ mi' = mi /\ mpc' = mpc /\ prog' = prog
      /\ idx' = idx /\ lead_idx' = lead_idx
      /\ \A u \in Threads : u # t => pc'[u] = pc[u] /\ wi'[u] = wi[u]
      /\ pc[t] \in {"elect", "wake"} /\ pc'[t] \in {"wake", "over"}
      /\ \/ pc[t] = "elect"
         \/ pc[t] = "wake" /\ pc'[t] = "over"
         \/ pc[t] = "wake" /\ wi'[t] = wi[t] + 1
  BY DEF Elect, WakeNobody, Go, epoch, mainvars, setup
<1>2. \A u, v \in Threads : Due(u, v)' => Due(u, v)
  <2> SUFFICES ASSUME NEW u \in Threads, NEW v \in Threads, Due(u, v)' PROVE Due(u, v)
    OBVIOUS
  <2>1. wi[u] \in Nat /\ wi[t] \in Nat /\ v \in Nat
    BY Ranges
  <2>2. QED
    BY <1>1, <2>1 DEF Due
<1>3. OneWaker' /\ DueRest' /\ Held'
  BY <1>1, <1>2 DEF Posts, OneWaker, DueRest, Resting, Held
<1>4. DueLate' /\ Seen'
  BY <1>1, <1>2 DEF Posts, DueLate, Seen, Resting
<1>5. Unposted'
  BY <1>1 DEF Posts, Unposted
<1>6. QED
  BY <1>3, <1>4, <1>5 DEF Posts

\* A thread that was due is woken, or holds its post: no post was there before.
LEMMA WakeKeepsPosts ==
  ASSUME IInv, Early, Posts, NEW t \in Threads, Wake(t) PROVE Posts'
<1> USE DEF IInv, TypeOK
<1>0. PICK w \in Threads : w = wi[t] /\ w # t
  BY DEF Wake, Woken
<1>1. /\ mi' = mi /\ mpc' = mpc /\ prog' = prog /\ idx' = idx /\ lead_idx' = lead_idx
      /\ pc[t] = "wake" /\ wi' = [wi EXCEPT ![t] = w + 1]
      /\ w \in Nat /\ \A u \in Threads : u \in Nat /\ wi[u] \in Nat
  BY <1>0, Ranges DEF Wake, epoch, mainvars, setup
<1>2. Due(t, w) /\ Resting(w)
  BY <1>0, <1>1 DEF Due, Posts, DueRest
<1>3. /\ \A u \in Threads : u # w => pc'[u] = pc[u] /\ sem'[u] = sem[u]
      /\ pc'[w] \in {"over", "park"} /\ sem'[w] \in {0, 1}
      /\ pc'[w] = "over" => sem'[w] = 0
  <2>1. CASE prog # "go"
    <3>1. Post(w, pc)
      BY <1>0, <2>1 DEF Wake
    <3>2. sem[w] = 0 /\ pc[w] \in {"park", "asleep"}
      BY <1>2 DEF Resting
    <3>3. CASE pc[w] = "asleep"
      BY <3>1, <3>2, <3>3 DEF Post
    <3>4. CASE pc[w] = "park"
      BY <3>1, <3>2, <3>4 DEF Post
    <3>5. QED
      BY <3>2, <3>3, <3>4
  <2>2. CASE prog = "go"
    <3>1. Go(w, "over") /\ sem' = sem
      BY <1>0, <2>2 DEF Wake
    <3>2. QED
      BY <1>2, <3>1 DEF Resting, Go
  <2>3. QED
    BY <2>1, <2>2
<1>4. \A u \in Threads : ~Due(u, w)'
  <2>1. \A u \in Threads : u # t => pc[u] \notin {"elect", "wake"}
    BY <1>1 DEF Posts, OneWaker
  <2>2. \A u \in Threads : u # t => pc'[u] \notin {"elect", "wake"}
    BY <1>3, <2>1
  <2>3. ~Due(t, w)'
    BY <1>0, <1>1, <1>3 DEF Due
  <2>4. QED
    BY <2>2, <2>3 DEF Due
<1>5. \A u, v \in Threads : Due(u, v)' => Due(u, v) /\ v # w
  <2> SUFFICES ASSUME NEW u \in Threads, NEW v \in Threads, Due(u, v)' PROVE Due(u, v) /\ v # w
    OBVIOUS
  <2>1. v # w
    BY <1>4
  <2>2. pc'[u] = pc[u]
    BY <1>3 DEF Due
  <2>3. wi[u] <= wi'[u]
    BY <1>0, <1>1
  <2>4. wi'[u] \in Nat
    BY <1>0, <1>1
  <2>5. QED
    BY <1>1, <2>1, <2>2, <2>3, <2>4 DEF Due
<1>6. OneWaker' /\ DueRest'
  BY <1>3, <1>5 DEF Posts, OneWaker, DueRest, Resting
<1>7. Held'
  BY <1>1, <1>3 DEF Posts, Held, Resting
<1>8. DueLate' /\ Seen'
  BY <1>1, <1>2, <1>3, <1>5 DEF Posts, DueLate, Seen, Resting
<1>9. Unposted'
  BY <1>1, <1>2, <1>3 DEF Posts, Unposted, Resting
<1>10. QED
  BY <1>6, <1>7, <1>8, <1>9 DEF Posts

\* A follower enters the epoch and has yet to wait for its post.
LEMMA BumpKeepsPosts ==
  ASSUME IInv, Posts, exhaust, NEW t \in Threads, Bump(t) PROVE Posts'
<1> USE DEF IInv, TypeOK
<1>1. /\ pc[t] = "bump" /\ sem' = sem /\ wi' = wi /\ mi' = mi /\ mpc' = mpc /\ prog' = prog
      /\ lead_idx' = lead_idx
      /\ \A u \in Threads : u # t => pc'[u] = pc[u] /\ idx'[u] = idx[u]
      /\ pc'[t] \in {"bump", "park"} /\ (pc'[t] = "bump" => idx'[t] = idx[t])
  BY DEF Bump, Go, mainvars, setup
<1>2. sem[t] = 0 /\ \A u \in Threads : ~Due(u, t)
  BY <1>1 DEF Posts, Held, DueRest, Resting
<1>3. OneWaker' /\ DueRest' /\ Held'
  BY <1>1, <1>2 DEF Posts, OneWaker, DueRest, Due, Resting, Held
<1>4. DueLate' /\ Seen'
  BY <1>1, <1>2 DEF Posts, DueLate, Due, Seen, Resting
<1>5. Unposted'
  BY <1>1 DEF Posts, Unposted
<1>6. QED
  BY <1>3, <1>4, <1>5 DEF Posts

\* A post is taken, or there is none and t falls asleep.
LEMMA WaitKeepsPosts ==
  ASSUME IInv, Early, Posts, NEW t \in Threads, AwaitStart(t) \/ Park(t) PROVE Posts'
<1> USE DEF IInv, TypeOK
<1>1. /\ wi' = wi /\ mi' = mi /\ mpc' = mpc /\ prog' = prog
      /\ idx' = idx /\ lead_idx' = lead_idx
      /\ \A u \in Threads : u # t => pc'[u] = pc[u] /\ sem'[u] = sem[u]
      /\ pc[t] \in {"start", "park"} /\ pc'[t] \in {"loop", "startasleep", "over", "asleep"}
  BY DEF AwaitStart, Park, Wait, Go, epoch, mainvars, setup
<1>2. /\ sem'[t] = 0
      /\ sem[t] = 0 /\ pc[t] = "park" => pc'[t] = "asleep"
      /\ sem[t] = 0 /\ pc[t] = "start" /\ prog = "cpp" => pc'[t] = "startasleep"
  <2>1. sem[t] \in {0, 1} /\ (prog # "cpp" => pc[t] = "park" \/ sem[t] = 0)
    BY <1>1 DEF Posts, Held
  <2>2. ~Closed(t)
    BY DEF Early, Closed
  <2>3. QED
    BY <2>1, <2>2 DEF AwaitStart, Park, Wait, Go
<1>3. OneWaker' /\ DueRest' /\ Held'
  BY <1>1, <1>2 DEF Posts, OneWaker, DueRest, Due, Resting, Held
<1>4. DueLate' /\ Seen'
  BY <1>1, <1>2 DEF Posts, DueLate, Due, Seen, Resting
<1>5. Unposted'
  BY <1>1, <1>2 DEF Posts, Unposted
<1>6. QED
  BY <1>3, <1>4, <1>5 DEF Posts

\* Main's posts at the start go to threads that have none and have not started.
LEMMA StartKeepsPosts ==
  ASSUME IInv, Posts, Start PROVE Posts'
<1> USE DEF IInv, TypeOK
<1>0. PICK w \in Threads : w = mi
  OBVIOUS
<1>1. /\ wi' = wi /\ prog' = prog /\ idx' = idx /\ lead_idx' = lead_idx /\ mpc = "start"
      /\ prog = "cpp" /\ mpc' = "start" => mi' = w + 1
      /\ w \in Nat /\ \A u \in Threads : u \in Nat
  BY <1>0, Ranges DEF Start, epoch, setup
<1>2. /\ \A u \in Threads : u # w \/ prog # "cpp" => pc'[u] = pc[u] /\ sem'[u] = sem[u]
      /\ prog = "cpp" => /\ pc[w] \in {"start", "startasleep"} /\ sem[w] = 0
                         /\ \/ pc'[w] = "loop" /\ sem'[w] = 0
                            \/ pc'[w] = "start" /\ sem'[w] = 1
  <2>1. CASE prog = "cpp"
    <3>1. pc[w] \in {"start", "startasleep"} /\ sem[w] = 0 /\ Post(w, pc)
      BY <1>0, <1>1, <2>1 DEF Posts, Unposted, Start
    <3>2. QED
      BY <2>1, <3>1 DEF Post
  <2>2. CASE prog # "cpp"
    BY <2>2 DEF Start
  <2>3. QED
    BY <2>1, <2>2
<1>3. OneWaker' /\ DueRest' /\ Held'
  BY <1>1, <1>2 DEF Posts, OneWaker, DueRest, Due, Resting, Held
<1>4. DueLate' /\ Seen'
  BY <1>1, <1>2 DEF Posts, DueLate, Due, Seen, Resting
<1>5. Unposted'
  <2> SUFFICES ASSUME prog = "cpp", mpc' = "start", NEW u \in Threads, mi' <= u
               PROVE  pc'[u] \in {"start", "startasleep"} /\ sem'[u] = 0
    BY <1>1 DEF Unposted
  <2>1. w + 1 <= u /\ u # w /\ mi <= u
    BY <1>0, <1>1
  <2>2. QED
    BY <1>1, <1>2, <2>1 DEF Posts, Unposted
<1>6. QED
  BY <1>3, <1>4, <1>5 DEF Posts

\* Once main has been told, or a leader has given up, the posts are no longer counted on.
LEMMA EarlyBefore == IInv /\ [Next]_vars /\ Early' => Early
<1> SUFFICES ASSUME IInv, [Next]_vars, Early' PROVE Early
  OBVIOUS
<1> USE DEF IInv, TypeOK, Early
<1>1. estop => estop'
  BY Actions, QuietStill, MainStill DEF Still, epoch, Lead, Gathered, TimeOut, Elect, Bump, vars
<1>2. mpc' = mpc \/ mpc' \notin {"start", "wait"} \/ mpc = "start"
  BY Actions DEF Quiet, QuietMain, AwaitStart, Report, Alarm, TellMain, Wake, WakeNobody, Follow,
       Recheck, Park, Over, Join, Lead, Gathered, TimeOut, Elect, Bump, Start, Hear, Shut, vars,
       mainvars
<1>3. QED
  BY <1>1, <1>2

LEMMA StepPInv == IInv /\ PInv /\ [Next]_vars => PInv'
<1> SUFFICES ASSUME IInv, PInv, [Next]_vars PROVE PInv'
  OBVIOUS
<1>1. exhaust' = exhaust
  BY MainTypes
<1>2. ASSUME Early', exhaust PROVE Posts'
  <2>0. Early /\ Posts
    BY <1>2, EarlyBefore DEF PInv
  <2>1. ASSUME NEW t \in Threads, Calm(t) \/ Alarm(t) \/ Join(t) \/ TimeOut(t) PROVE Posts'
    <3>1. ~Alarm(t)
      BY <2>0 DEF IInv, Told, Early, Alarm
    <3>2. ~Join(t) /\ ~TimeOut(t)
      BY <1>2 DEF Early, Join, TimeOut
    <3>3. QED
      BY <1>2, <2>0, <2>1, <3>1, <3>2, CalmKept
  <2>2. ASSUME NEW t \in Threads, Lead(t) \/ Gathered(t) \/ Elect(t) \/ Bump(t) PROVE Posts'
    BY <1>2, <2>0, <2>2, LeadKeepsPosts, GatheredKeepsPosts, ElectKeepsPosts, BumpKeepsPosts
  <2>3. ASSUME NEW t \in Threads, Wake(t) \/ WakeNobody(t) \/ AwaitStart(t) \/ Park(t) PROVE Posts'
    BY <1>2, <2>0, <2>3, WakeKeepsPosts, ElectKeepsPosts, WaitKeepsPosts
  <2>4. ASSUME QuietMain PROVE Posts'
    <3>1. ~Hear /\ ~Shut
      BY <1>2 DEF Early, Hear, Shut
    <3>2. QED
      BY <2>0, <2>4, <3>1, StartKeepsPosts DEF QuietMain
  <2>5. ASSUME UNCHANGED vars PROVE Posts'
    BY <2>0, <2>5 DEF vars, setup, epoch, mainvars, Posts, OneWaker, DueRest, DueLate, Due, Resting,
         Seen, Held, Unposted
  <2>6. QED
    BY <2>1, <2>2, <2>3, <2>4, <2>5, Actions DEF Quiet, Calm
<1>3. ASSUME ~exhaust, NEW u \in Threads PROVE pc'[u] # "wake"
  <2>1. pc[u] # "wake"
    BY <1>3 DEF PInv
  <2>2. ASSUME NEW t \in Threads, Elect(t) PROVE pc'[u] # "wake"
    BY <1>3, <2>1, <2>2 DEF Elect, Go, IInv, TypeOK
  <2>3. ASSUME Post(mi, pc) PROVE pc'[u] # "wake"
    BY <2>1, <2>3 DEF Post, IInv, TypeOK
  <2>4. ASSUME QuietMain PROVE pc'[u] # "wake"
    BY <2>1, <2>3, <2>4 DEF QuietMain, Start, Hear, Shut
  <2>5. ASSUME NEW t \in Threads, Quiet(t) PROVE pc'[u] # "wake"
    <3>1. ~Wake(t) /\ ~WakeNobody(t)
      BY <1>3 DEF PInv, Wake, WakeNobody
    <3>2. QED
      BY <2>1, <2>5, <3>1 DEF Quiet, AwaitStart, Report, Alarm, TellMain, Follow, Recheck, Park,
           Wait, Over, Join, Go, IInv, TypeOK
  <2>6. ASSUME NEW t \in Threads, Lead(t) \/ Gathered(t) \/ TimeOut(t) \/ Bump(t)
        PROVE  pc'[u] # "wake"
    BY <2>1, <2>6 DEF Lead, Gathered, TimeOut, Bump, Go, IInv, TypeOK
  <2>7. QED
    BY <2>1, <2>2, <2>4, <2>5, <2>6, Actions DEF vars
<1>4. QED
  BY <1>1, <1>2, <1>3 DEF PInv
-----------------------------------------------------------------------------
(* The leaders of libfibre and Cforall *)

\* next() always gives 0, so who leads from the second epoch on, and who is still waking
\* from one of those, is thread 0.
Zero ==
  /\ lead_idx > 1 => leader = 0
  /\ lead_idx = 1 /\ (\A t \in Threads : pc[t] \notin {"group", "elect"}) => leader = 0
  /\ \A t \in Threads : pc[t] \in {"elect", "wake"} /\ idx[t] > 1 => t = 0
ZInv == prog \in {"cpp", "cfa"} /\ ~estop => Zero

LEMMA InitZInv == Init => ZInv
  BY DEF Init, ZInv, Zero

\* The steps that leave the epochs alone enter and leave neither elect nor wakegroup(),
\* but by the end of the latter.
LEMMA StillElects ==
  ASSUME IInv, ~estop, NEW u \in Threads, (\E t \in Threads : Quiet(t)) \/ QuietMain
  PROVE  /\ pc'[u] = "wake" => pc[u] = "wake"
         /\ pc[u] = "elect" => pc'[u] = "elect"
<1> USE DEF IInv, TypeOK, Go
<1>1. ASSUME NEW v \in Threads, Post(v, pc)
      PROVE  (pc'[u] = "wake" => pc[u] = "wake") /\ (pc[u] = "elect" => pc'[u] = "elect")
  BY <1>1 DEF Post
<1>2. ASSUME QuietMain
      PROVE  (pc'[u] = "wake" => pc[u] = "wake") /\ (pc[u] = "elect" => pc'[u] = "elect")
  BY <1>1, <1>2 DEF QuietMain, Start, Hear, Shut
<1>3. ASSUME NEW t \in Threads, Wake(t)
      PROVE  (pc'[u] = "wake" => pc[u] = "wake") /\ (pc[u] = "elect" => pc'[u] = "elect")
  <2>1. CASE Post(wi[t], pc)
    BY <1>1, <1>3, <2>1 DEF Wake
  <2>2. CASE ~Post(wi[t], pc)
    BY <1>3, <2>2 DEF Wake
  <2>3. QED
    BY <2>1, <2>2
<1>4. ASSUME NEW t \in Threads, Quiet(t), ~Wake(t)
      PROVE  (pc'[u] = "wake" => pc[u] = "wake") /\ (pc[u] = "elect" => pc'[u] = "elect")
  <2>1. ~Alarm(t)
    BY DEF Told, Alarm
  <2>2. QED
    BY <1>4, <2>1 DEF Quiet, AwaitStart, Report, TellMain, WakeNobody, Follow, Recheck, Park, Wait,
         Over, Join
<1>5. QED
  BY <1>2, <1>3, <1>4

LEMMA StillKeepsZero ==
  ASSUME IInv, Zero, ~estop, (\E t \in Threads : Quiet(t)) \/ QuietMain
  PROVE  Zero'
<1>1. Still
  BY QuietStill, MainStill DEF IInv
<1>2. /\ leader' = leader /\ lead_idx' = lead_idx /\ idx' = idx
      /\ \A u \in Threads : Move(u) /\ pc[u] # "alarm"
  BY <1>1 DEF Still, epoch, IInv, Told
<1>3. QED
  BY <1>2, StillElects DEF Zero, Move, IInv, TypeOK

LEMMA StepZInv == IInv /\ ZInv /\ [Next]_vars => ZInv'
<1> SUFFICES ASSUME IInv, ZInv, [Next]_vars, prog' \in {"cpp", "cfa"}, ~estop' PROVE Zero'
  BY DEF ZInv
<1> USE DEF IInv, TypeOK
<1>1. prog \in {"cpp", "cfa"}
  BY MainTypes
<1>2. estop => estop'
  BY Actions, QuietStill, MainStill DEF Still, epoch, Lead, Gathered, TimeOut, Elect, Bump, vars
<1>3. Zero /\ ~estop
  BY <1>1, <1>2 DEF ZInv
<1>4. ASSUME (\E t \in Threads : Quiet(t)) \/ QuietMain PROVE Zero'
  BY <1>3, <1>4, StillKeepsZero
<1>5. ASSUME NEW t \in Threads, Lead(t) PROVE Zero'
  <2>1. /\ pc[t] = "loop" /\ leader = t /\ leader' = t /\ lead_idx' = lead_idx + 1
        /\ idx' = [idx EXCEPT ![t] = lead_idx + 1]
        /\ \A u \in Threads : u # t => pc'[u] = pc[u]
        /\ pc'[t] \in {"report", "group"} /\ lead_idx \in Nat
    BY <1>5, Ranges DEF Lead, Finished, Go
  <2>2. lead_idx = 0 => pc'[t] = "group"
    BY <1>3, <1>5, Ranges DEF Lead, Finished, Go
  <2>3. \A u \in Threads : pc[u] \notin {"group", "elect"}
    BY <2>1 DEF Epochs, OneLeader
  <2>4. lead_idx >= 1 => leader = 0
    BY <1>3, <2>1, <2>3 DEF Zero
  <2>5. QED
    BY <1>3, <2>1, <2>2, <2>4 DEF Zero
<1>6. ASSUME NEW t \in Threads, Gathered(t) PROVE Zero'
  <2>1. /\ pc[t] = "group" /\ leader' = leader /\ lead_idx' = lead_idx /\ idx' = idx
        /\ \A u \in Threads : pc'[u] = IF u = t THEN "elect" ELSE pc[u]
        /\ idx[t] = lead_idx
    BY <1>6 DEF Gathered, Go, epoch
  <2>2. leader = t
    BY <2>1 DEF Epochs, OneLeader
  <2>3. QED
    BY <1>3, <2>1, <2>2 DEF Zero
<1>7. ASSUME NEW t \in Threads, Elect(t) PROVE Zero'
  <2>1. /\ pc[t] = "elect" /\ leader' = 0 /\ lead_idx' = lead_idx /\ idx' = idx
        /\ \A u \in Threads : u # t => pc'[u] = pc[u]
    BY <1>1, <1>7 DEF Elect, Go, NextLeaders
  <2>2. QED
    BY <1>3, <2>1 DEF Zero
<1>8. ASSUME NEW t \in Threads, Bump(t) PROVE Zero'
  <2>1. /\ pc[t] = "bump" /\ leader' = leader /\ lead_idx' = lead_idx
        /\ \A u \in Threads : u # t => pc'[u] = pc[u] /\ idx'[u] = idx[u]
        /\ pc'[t] \in {"bump", "park", "over"}
    BY <1>8 DEF Bump, Go
  <2>2. QED
    BY <1>3, <2>1 DEF Zero
<1>9. ASSUME NEW t \in Threads, TimeOut(t) PROVE FALSE
  BY <1>9 DEF TimeOut
<1>10. ASSUME UNCHANGED vars PROVE Zero'
  BY <1>3, <1>10 DEF Zero, vars, epoch
<1>11. QED
  BY <1>4, <1>5, <1>6, <1>7, <1>8, <1>9, <1>10, Actions

LEMMA PostsAlways == Spec => [](IInv /\ PInv /\ ZInv)
<1>1. Init => IInv /\ PInv /\ ZInv
  BY InitIInv, InitPInv, InitZInv
<1>2. IInv /\ PInv /\ ZInv /\ [Next]_vars => (IInv /\ PInv /\ ZInv)'
  BY StepIInv, StepPInv, StepZInv
<1>3. QED
  BY <1>1, <1>2, PTL DEF Spec

\* Until main shuts down no post of wakegroup() is dropped: the thread it goes to has taken
\* the ones before.
THEOREM NoPostIsDropped == Spec => []PostsKept
<1>1. IInv /\ PInv => PostsKept
  <2> SUFFICES ASSUME IInv, PInv, ~estop, NEW t \in Threads, pc[t] = "wake", mpc = "wait",
                      NEW u \in Threads, u >= wi[t], u # t
               PROVE  sem[u] = 0
    BY DEF PostsKept
  <2>1. exhaust
    BY DEF PInv, IInv, TypeOK
  <2>2. Posts
    BY <2>1 DEF PInv, Early
  <2>3. Due(t, u)
    BY Ranges DEF Due, IInv, TypeOK
  <2>4. QED
    BY <2>2, <2>3 DEF Posts, DueRest, Resting
<1>2. QED
  BY <1>1, PostsAlways, PTL

\* From two epochs on wakegroup() of libfibre and Cforall posts no thread that main has
\* joined and deleted: nobody but the last leader is still waking by then, and it has done.
THEOREM WokenAreAlive == Spec => []WakesTheLiving
<1>1. IInv /\ ZInv => WakesTheLiving
  <2> SUFFICES ASSUME IInv, ZInv, StopCount > 1, ~estop, NEW t \in Threads, pc[t] = "wake",
                      wi[t] \in Threads, Deleted(wi[t])
               PROVE  FALSE
    BY DEF WakesTheLiving
  <2> USE DEF IInv, TypeOK
  <2>1. Zero
    BY DEF ZInv, Deleted
  <2>2. lead_idx > StopCount /\ lead_idx \in Nat /\ StopCount \in Nat /\ idx[t] \in Nat
    BY Ranges DEF Deleted, Told
  <2>3. idx[t] \in {lead_idx - 1, lead_idx}
    BY DEF Epochs, EpochsInStep
  <2>4. t = 0 /\ leader = 0
    BY <2>1, <2>2, <2>3 DEF Zero
  <2>5. QED
    BY <2>2, <2>4 DEF Epochs, Bounded, Out
<1>2. QED
  BY <1>1, PostsAlways, PTL
-----------------------------------------------------------------------------
(* Nobody is forgotten *)

\* Main hears of the end, or is about to.
Telling == main_sem > 0 \/ \E t \in Threads : pc[t] = "report"
MainHasPosted(t) == mpc \in {"join", "done"} \/ (mpc = "shut" /\ t < mi)

\* Who waits for main's start post is still to get it, or holds it.
AtStart ==
  /\ mpc = "wait" => mi = 0
  /\ \A t \in Threads :
       /\ pc[t] \in {"start", "startasleep"} => idx[t] = 0
       /\ pc[t] = "startasleep" => prog = "cpp" /\ mpc = "start" /\ mi <= t
       /\ prog = "cpp" /\ pc[t] = "start" => (mpc = "start" /\ mi <= t) \/ sem[t] > 0

\* Nobody parks unless told to; and Go's channels hold nothing.
Parking ==
  \A t \in Threads :
    /\ ~exhaust => pc[t] \notin {"park", "asleep"}
    /\ prog = "go" => sem[t] = 0 /\ pc[t] # "asleep"

\* Before the shutdown somebody is there to wake whoever rests without a post; what has no
\* leader to wait for is the last epoch.
Watched ==
  /\ lead_idx > StopCount => Telling
  /\ \A t \in Threads : Resting(t) => Telling \/ \E u \in Threads : StillWakes(u, t)

\* Who has main's last post does not fall asleep on its way out.
Leaving ==
  \A t \in Threads :
    MainHasPosted(t) =>
      /\ pc[t] \notin {"start", "startasleep", "asleep"}
      /\ pc[t] \in {"loop", "wait", "bump", "park"} => sem[t] > 0

FInv ==
  /\ AtStart /\ Parking
  /\ Early => Watched
  /\ ~estop /\ prog # "go" => Leaving

LEMMA InitFInv == Init => FInv
  BY Ranges DEF Init, FInv, AtStart, Parking, Watched, Resting, Leaving, MainHasPosted

\* A post wakes its sleeper or leaves it a post, and does nothing to the others.
LEMMA PostLeaves ==
  ASSUME TypeOK, NEW w \in Threads, Post(w, pc)
  PROVE  /\ \A u \in Threads : u # w => pc'[u] = pc[u] /\ sem'[u] = sem[u]
         /\ \/ pc[w] = "asleep" /\ pc'[w] = "over" /\ sem'[w] = sem[w]
            \/ pc[w] = "startasleep" /\ pc'[w] = "loop" /\ sem'[w] = sem[w]
            \/ /\ pc[w] \notin {"asleep", "startasleep"} /\ pc'[w] = pc[w]
               /\ sem'[w] > 0
  BY DEF TypeOK, Post

LEMMA AtStartKept == IInv /\ AtStart /\ [Next]_vars => AtStart'
<1> SUFFICES ASSUME IInv, AtStart, [Next]_vars PROVE AtStart'
  OBVIOUS
<1> USE DEF IInv, TypeOK, Go
<1>0. \A u \in Threads : u \in Nat /\ sem[u] \in Nat
  BY Ranges
<1>1. ASSUME NEW t \in Threads,
             \/ Follow(t) \/ Recheck(t) \/ Over(t) \/ WakeNobody(t)
             \/ Lead(t) \/ Gathered(t) \/ TimeOut(t) \/ Elect(t) \/ Bump(t)
      PROVE  AtStart'
  <2>1. /\ sem' = sem /\ prog' = prog /\ mpc' = mpc /\ mi' = mi
        /\ pc[t] \notin {"start", "startasleep"} /\ pc'[t] \notin {"start", "startasleep"}
        /\ \A u \in Threads : u # t => pc'[u] = pc[u] /\ idx'[u] = idx[u]
    BY <1>1 DEF Follow, Recheck, Over, WakeNobody, Lead, Gathered, TimeOut, Elect, Bump, setup,
         epoch, mainvars
  <2>2. QED
    BY <2>1 DEF AtStart
<1>2. ASSUME NEW t \in Threads, Report(t) \/ Alarm(t) PROVE AtStart'
  <2>1. /\ sem' = sem /\ prog' = prog /\ mi' = mi /\ idx' = idx
        /\ mpc' = mpc \/ (mpc = "wait" /\ mpc' = "shut")
        /\ pc[t] \notin {"start", "startasleep"} /\ pc'[t] \notin {"start", "startasleep"}
        /\ \A u \in Threads : u # t => pc'[u] = pc[u]
    BY <1>2 DEF Report, Alarm, TellMain, setup, epoch
  <2>2. QED
    BY <2>1 DEF AtStart
<1>3. ASSUME NEW t \in Threads, AwaitStart(t) \/ Park(t) PROVE AtStart'
  <2>1. /\ prog' = prog /\ mi' = mi /\ mpc' = mpc /\ idx' = idx
        /\ pc[t] \in {"start", "park"} /\ pc'[t] # "start"
        /\ pc'[t] = "startasleep" => pc[t] = "start" /\ prog = "cpp" /\ sem[t] = 0
        /\ \A u \in Threads : u # t => pc'[u] = pc[u] /\ sem'[u] = sem[u]
    BY <1>3 DEF AwaitStart, Park, Wait, setup, epoch, mainvars
  <2>2. QED
    BY <2>1 DEF AtStart
<1>4. ASSUME NEW t \in Threads, Wake(t) PROVE AtStart'
  <2>1. prog' = prog /\ mi' = mi /\ mpc' = mpc /\ idx' = idx /\ wi[t] \in Threads
    BY <1>4 DEF Wake, setup, epoch, mainvars
  <2>2. CASE Post(wi[t], pc)
    BY <1>0, <2>1, <2>2, PostLeaves DEF AtStart
  <2>3. CASE sem' = sem /\ pc[wi[t]] = "park" /\ Go(wi[t], "over")
    BY <2>1, <2>3 DEF AtStart
  <2>4. QED
    BY <1>4, <2>2, <2>3 DEF Wake
<1>5. CASE Start
  <2>1. /\ prog' = prog /\ idx' = idx /\ mpc = "start" /\ mi \in Threads
        /\ \/ mpc' = "wait" /\ mi' = 0 /\ (prog \in {"go", "rs"} \/ mi = NThreads - 1)
           \/ mpc' = mpc /\ mi' = mi + 1
        /\ \A u \in Threads : u \in Nat /\ u <= NThreads - 1
    BY <1>5 DEF Start, setup, epoch, Threads
  <2>2. CASE prog = "cpp"
    <3>1. Post(mi, pc)
      BY <1>5, <2>2 DEF Start
    <3>2. QED
      BY <1>0, <2>1, <2>2, <3>1, PostLeaves DEF AtStart
  <2>3. CASE prog # "cpp"
    <3>1. pc' = pc /\ sem' = sem
      BY <1>5, <2>3 DEF Start
    <3>2. QED
      BY <2>1, <2>3, <3>1 DEF AtStart
  <2>4. QED
    BY <2>2, <2>3
<1>6. CASE Hear
  BY <1>6 DEF Hear, AtStart, setup, epoch
<1>7. CASE Shut
  <2>1. prog' = prog /\ idx' = idx /\ mpc = "shut" /\ mpc' \in {"shut", "join"}
    BY <1>7 DEF Shut, setup, epoch
  <2>2. CASE Post(mi, pc)
    BY <1>0, <2>1, <2>2, PostLeaves DEF AtStart
  <2>3. CASE UNCHANGED <<pc, sem>>
    BY <2>1, <2>3 DEF AtStart
  <2>4. QED
    BY <1>7, <2>2, <2>3 DEF Shut
<1>8. ASSUME NEW t \in Threads, Join(t) PROVE AtStart'
  BY <1>8 DEF Join, AtStart, setup, epoch
<1>9. CASE UNCHANGED vars
  BY <1>9 DEF vars, setup, epoch, mainvars, AtStart
<1>10. QED
  BY <1>1, <1>2, <1>3, <1>4, <1>5, <1>6, <1>7, <1>8, <1>9, Actions DEF Quiet, QuietMain

LEMMA ParkingKept == IInv /\ Parking /\ [Next]_vars => Parking'
<1> SUFFICES ASSUME IInv, Parking, [Next]_vars PROVE Parking'
  OBVIOUS
<1> USE DEF IInv, TypeOK, Go
<1>0. exhaust' = exhaust /\ prog' = prog
  BY MainTypes
<1>1. ASSUME NEW t \in Threads,
             \/ Follow(t) \/ Recheck(t) \/ Over(t) \/ WakeNobody(t) \/ Join(t)
             \/ Lead(t) \/ Gathered(t) \/ TimeOut(t) \/ Elect(t) \/ Report(t) \/ Alarm(t)
      PROVE  Parking'
  <2>1. /\ sem' = sem
        /\ \A u \in Threads : pc'[u] = pc[u] \/ pc'[u] \notin {"park", "asleep"}
    BY <1>1 DEF Follow, Recheck, Over, WakeNobody, Join, Lead, Gathered, TimeOut, Elect, Report,
         Alarm, TellMain
  <2>2. QED
    BY <1>0, <2>1 DEF Parking
<1>2. ASSUME NEW t \in Threads, Bump(t) PROVE Parking'
  BY <1>0, <1>2 DEF Bump, Parking
<1>3. ASSUME NEW t \in Threads, AwaitStart(t) \/ Park(t) PROVE Parking'
  BY <1>0, <1>3 DEF AwaitStart, Park, Wait, Parking
<1>4. ASSUME NEW w \in Threads, prog # "go", Post(w, pc) PROVE Parking'
  <2>1. \A u \in Threads : pc'[u] \in {"park", "asleep"} => pc[u] \in {"park", "asleep"}
    BY <1>4, PostLeaves
  <2>2. QED
    BY <1>0, <1>4, <2>1 DEF Parking
<1>5. ASSUME NEW t \in Threads, Wake(t) PROVE Parking'
  <2>1. CASE prog = "go"
    BY <1>0, <1>5, <2>1 DEF Wake, Parking
  <2>2. CASE prog # "go"
    BY <1>4, <1>5, <2>2 DEF Wake
  <2>3. QED
    BY <2>1, <2>2
<1>6. CASE QuietMain
  <2>1. CASE UNCHANGED <<pc, sem>>
    BY <1>0, <2>1 DEF Parking
  <2>2. CASE prog # "go" /\ Post(mi, pc)
    BY <1>4, <2>2
  <2>3. QED
    BY <1>6, <2>1, <2>2 DEF QuietMain, Start, Hear, Shut
<1>7. CASE UNCHANGED vars
  BY <1>0, <1>7 DEF vars, Parking
<1>8. QED
  BY <1>1, <1>2, <1>3, <1>5, <1>6, <1>7, Actions DEF Quiet

\* A thread that is going to wake another goes on to do so, unless the step is its post.
LEMMA WatchersStay ==
  ASSUME IInv, exhaust, Early, Early', [Next]_vars,
         NEW t \in Threads, NEW u \in Threads, StillWakes(u, t)
  PROVE  StillWakes(u, t)' \/ (Wake(u) /\ wi[u] = t)
<1> USE DEF IInv, TypeOK, Go
<1>0. /\ \A v \in Threads : v \in Nat /\ wi[v] \in Nat /\ v # NThreads
      /\ \A v \in Threads : ~Closed(v)
      /\ 0 <= t
  BY Ranges DEF Threads, Early, Closed
<1> DEFINE Done == StillWakes(u, t)' \/ (Wake(u) /\ wi[u] = t)
<1>g. ASSUME pc[u] = "group", idx[t] = lead_idx PROVE idx'[t] = lead_idx'
  <2>1. leader = u
    BY <1>g DEF Epochs, OneLeader
  <2>2. ASSUME NEW v \in Threads, Lead(v) PROVE FALSE
    BY <1>g, <2>1, <2>2 DEF Lead
  <2>3. ASSUME NEW v \in Threads, Bump(v) PROVE idx'[t] = lead_idx'
    <3>1. v # t
      BY <1>g, <2>3 DEF Bump, Epochs, Behind
    <3>2. QED
      BY <1>g, <2>3, <3>1 DEF Bump
  <2>4. CASE Still \/ UNCHANGED vars
    BY <1>g, <2>4 DEF Still, epoch, vars
  <2>5. ASSUME NEW v \in Threads, Gathered(v) \/ TimeOut(v) \/ Elect(v)
        PROVE  idx'[t] = lead_idx'
    BY <1>g, <2>5 DEF Gathered, TimeOut, Elect, epoch
  <2>6. QED
    BY <2>2, <2>3, <2>4, <2>5, Actions, QuietStill, MainStill
<1>1. ASSUME pc'[u] = pc[u], wi'[u] = wi[u] PROVE Done
  BY <1>g, <1>1 DEF StillWakes
<1>2. ASSUME NEW v \in Threads,
             \/ Follow(v) \/ Recheck(v) \/ Over(v) \/ Join(v)
             \/ Lead(v) \/ Report(v) \/ Alarm(v) \/ Bump(v) \/ AwaitStart(v) \/ Park(v)
      PROVE  Done
  <2>1. u # v
    BY <1>2 DEF StillWakes, Follow, Recheck, Over, Join, Lead, Report, Alarm, Bump, AwaitStart, Park
  <2>2. pc'[u] = pc[u] /\ wi'[u] = wi[u]
    BY <1>2, <2>1 DEF Follow, Recheck, Over, Join, Lead, Report, Alarm, TellMain, Bump,
         AwaitStart, Park, Wait
  <2>3. QED
    BY <1>1, <2>2
<1>3. ASSUME NEW v \in Threads, Gathered(v) \/ Elect(v) PROVE Done
  <2>1. CASE u # v
    BY <1>1, <1>3, <2>1 DEF Gathered, Elect
  <2>2. CASE u = v /\ Gathered(v)
    BY <2>2 DEF Gathered, StillWakes
  <2>3. CASE u = v /\ Elect(v)
    BY <1>0, <2>3 DEF Elect, StillWakes
  <2>4. QED
    BY <1>3, <2>1, <2>2, <2>3
<1>4. ASSUME NEW v \in Threads, WakeNobody(v) PROVE Done
  <2>1. CASE u # v
    BY <1>1, <1>4, <2>1 DEF WakeNobody
  <2>2. CASE u = v
    <3>1. pc[u] = "wake" /\ wi[u] <= t /\ wi[u] \in 0..NThreads
      BY <1>4, <2>2 DEF WakeNobody, StillWakes
    <3>2. wi[u] \in Threads
      BY <3>1, <1>0, Ranges DEF Threads
    <3>3. wi[u] = u /\ wi'[u] = wi[u] + 1 /\ pc'[u] = pc[u]
      BY <1>0, <1>4, <2>2, <3>2 DEF WakeNobody
    <3>4. wi'[u] <= t
      BY <1>0, <3>1, <3>3 DEF StillWakes
    <3>5. QED
      BY <3>1, <3>3, <3>4 DEF StillWakes
  <2>3. QED
    BY <2>1, <2>2
<1>5. ASSUME NEW w \in Threads, Post(w, pc), wi' = wi PROVE Done
  <2>1. w # u \/ pc'[u] = pc[u]
    BY <1>5, PostLeaves DEF StillWakes
  <2>2. pc'[u] = pc[u]
    BY <1>5, <2>1, PostLeaves
  <2>3. QED
    BY <1>1, <1>5, <2>2
<1>6. ASSUME NEW v \in Threads, Wake(v) PROVE Done
  <2>1. PICK w \in Threads : w = wi[v]
    BY <1>6 DEF Wake
  <2>2. pc'[u] = pc[u]
    <3>1. CASE Post(w, pc)
      BY <3>1, PostLeaves DEF StillWakes
    <3>2. CASE pc[w] = "park" /\ Go(w, "over")
      BY <3>2 DEF StillWakes
    <3>3. QED
      BY <1>6, <2>1, <3>1, <3>2 DEF Wake
  <2>3. CASE u # v
    BY <1>1, <1>6, <2>2, <2>3 DEF Wake
  <2>4. CASE u = v /\ wi[u] # t
    BY <1>0, <1>6, <2>2, <2>4 DEF Wake, StillWakes
  <2>5. QED
    BY <1>6, <2>3, <2>4
<1>7. CASE QuietMain
  <2>1. wi' = wi /\ (pc' = pc \/ Post(mi, pc))
    BY <1>7 DEF QuietMain, Start, Hear, Shut
  <2>2. QED
    BY <1>1, <1>5, <2>1
<1>8. ASSUME NEW v \in Threads, TimeOut(v) PROVE FALSE
  BY <1>8 DEF TimeOut, Early
<1>9. CASE UNCHANGED vars
  BY <1>1, <1>9 DEF vars
<1>10. QED
  BY <1>2, <1>3, <1>4, <1>6, <1>7, <1>8, <1>9, Actions DEF Quiet

\* Until main shuts down, what it has been told it remembers.
LEMMA TellingKept ==
  ASSUME IInv, Early', Telling, [Next]_vars PROVE Telling'
<1> USE DEF IInv, TypeOK, Go, Telling, Early
<1>1. ASSUME NEW t \in Threads, Report(t) \/ Alarm(t) PROVE Telling'
  BY <1>1 DEF Report, Alarm, TellMain
<1>2. ASSUME NEW w \in Threads, Post(w, pc), main_sem' = main_sem PROVE Telling'
  <2>1. \A u \in Threads : pc[u] = "report" => pc'[u] = "report"
    BY <1>2, PostLeaves
  <2>2. QED
    BY <1>2, <2>1
<1>3. ASSUME NEW t \in Threads, Wake(t) PROVE Telling'
  <2>1. CASE Post(wi[t], pc)
    BY <1>2, <1>3, <2>1 DEF Wake, mainvars
  <2>2. CASE pc[wi[t]] = "park" /\ Go(wi[t], "over")
    BY <1>3, <2>2 DEF Wake, mainvars
  <2>3. QED
    BY <1>3, <2>1, <2>2 DEF Wake
<1>4. ASSUME NEW t \in Threads,
             \/ Follow(t) \/ Recheck(t) \/ Over(t) \/ WakeNobody(t) \/ Join(t) \/ Lead(t)
             \/ Gathered(t) \/ TimeOut(t) \/ Elect(t) \/ Bump(t) \/ AwaitStart(t) \/ Park(t)
      PROVE  Telling'
  BY <1>4 DEF Follow, Recheck, Over, WakeNobody, Join, Lead, Gathered, TimeOut, Elect, Bump,
       AwaitStart, Park, Wait, mainvars
<1>5. CASE QuietMain
  <2>1. main_sem' = main_sem /\ (pc' = pc \/ Post(mi, pc))
    BY <1>5 DEF QuietMain, Start, Hear, Shut
  <2>2. QED
    BY <1>2, <2>1
<1>6. CASE UNCHANGED vars
  BY <1>6 DEF vars, mainvars
<1>7. QED
  BY <1>1, <1>3, <1>4, <1>5, <1>6, Actions DEF Quiet

\* A thread comes to rest only when it enters an epoch.
LEMMA RestingBefore ==
  ASSUME IInv, Parking, Early, exhaust, Posts, [Next]_vars,
         NEW t \in Threads, Resting(t)'
  PROVE  Resting(t) \/ Bump(t)
<1> USE DEF IInv, TypeOK, Go, Resting
<1>1. ASSUME NEW w \in Threads, Post(w, pc) PROVE Resting(t)
  BY <1>1, PostLeaves
<1>2. ASSUME NEW u \in Threads, Wake(u) PROVE Resting(t)
  BY <1>1, <1>2 DEF Wake
<1>3. ASSUME NEW u \in Threads, AwaitStart(u) \/ Park(u) PROVE Resting(t)
  <2>1. ~Closed(u)
    BY DEF Early, Closed
  <2>2. QED
    BY <1>3, <2>1 DEF AwaitStart, Park, Wait
<1>4. ASSUME NEW u \in Threads,
             \/ Follow(u) \/ Recheck(u) \/ Over(u) \/ WakeNobody(u) \/ Join(u) \/ Lead(u)
             \/ Gathered(u) \/ TimeOut(u) \/ Elect(u) \/ Report(u) \/ Alarm(u)
      PROVE  Resting(t)
  BY <1>4 DEF Follow, Recheck, Over, WakeNobody, Join, Lead, Gathered, TimeOut, Elect, Report,
       Alarm, TellMain
<1>5. ASSUME NEW u \in Threads, Bump(u), u # t PROVE Resting(t)
  BY <1>5 DEF Bump
<1>6. CASE QuietMain
  <2>1. UNCHANGED <<pc, sem>> \/ Post(mi, pc)
    BY <1>6 DEF QuietMain, Start, Hear, Shut
  <2>2. QED
    BY <1>1, <2>1
<1>7. CASE UNCHANGED vars
  BY <1>7 DEF vars
<1>8. QED
  BY <1>2, <1>3, <1>4, <1>5, <1>6, <1>7, Actions DEF Quiet

\* The post of a leader ends the rest of its receiver.
LEMMA WokenUp ==
  ASSUME IInv, NEW u \in Threads, NEW t \in Threads, Wake(u), wi[u] = t
  PROVE  ~Resting(t)'
<1>1. CASE Post(t, pc)
  BY <1>1, PostLeaves DEF IInv, TypeOK, Resting
<1>2. CASE Go(t, "over")
  BY <1>2 DEF IInv, TypeOK, Go, Resting
<1>3. QED
  BY <1>1, <1>2 DEF Wake

LEMMA WatchedKept ==
  ASSUME IInv, PInv, FInv, Early', [Next]_vars PROVE Watched'
<1>0. Early /\ Watched /\ Parking /\ ~estop /\ ~estop'
  BY EarlyBefore DEF FInv, Early
<1>1. lead_idx' > StopCount => Telling'
  <2>1. CASE lead_idx > StopCount
    BY <1>0, <2>1, TellingKept DEF Watched
  <2>2. ASSUME lead_idx' # lead_idx PROVE \E t \in Threads : Lead(t)
    BY <2>2, Actions, QuietStill, MainStill DEF IInv, Still, epoch, Gathered, TimeOut, Elect, Bump,
       vars
  <2>3. ASSUME NEW t \in Threads, Lead(t), lead_idx' > StopCount PROVE Telling'
    <3>1. pc'[t] = "report"
      BY <2>3 DEF Lead, Finished, Go, IInv, TypeOK
    <3>2. QED
      BY <3>1 DEF Telling
  <2>4. QED
    BY <2>1, <2>2, <2>3
<1>2. ASSUME NEW t \in Threads, Resting(t)', ~Telling'
      PROVE  \E u \in Threads : StillWakes(u, t)'
  <2>1. ~Telling
    BY <1>2, TellingKept
  <2>2. exhaust
    <3>1. exhaust' = exhaust /\ Parking'
      BY <1>0, ParkingKept, MainTypes
    <3>2. QED
      BY <1>2, <3>1 DEF Parking, Resting
  <2>3. Posts
    BY <1>0, <2>2 DEF PInv
  <2>4. CASE Resting(t)
    <3>1. PICK u \in Threads : StillWakes(u, t)
      BY <1>0, <2>1, <2>4 DEF Watched
    <3>2. StillWakes(u, t)' \/ (Wake(u) /\ wi[u] = t)
      BY <1>0, <2>2, <3>1, WatchersStay
    <3>3. QED
      BY <1>2, <3>2, WokenUp
  <2>5. CASE Bump(t)
    <3>1. pc[t] = "bump" /\ idx[t] # lead_idx
      BY <2>5 DEF Bump, IInv, Epochs, Behind
    <3>2. leader \in Threads /\ pc[leader] = "group"
      BY <1>0, <2>1, <3>1 DEF Watched, IInv, Epochs, Gap
    <3>3. idx'[t] = lead_idx /\ lead_idx' = lead_idx
      BY <1>0, <2>5, <3>1 DEF Bump, IInv, TypeOK, Epochs, EpochsInStep
    <3>4. leader # t /\ pc'[leader] = "group"
      BY <2>5, <3>1, <3>2 DEF Bump, Go, IInv, TypeOK
    <3>5. QED
      BY <3>2, <3>3, <3>4 DEF StillWakes
  <2>6. QED
    BY <1>0, <1>2, <2>2, <2>3, <2>4, <2>5, RestingBefore
<1>3. QED
  BY <1>1, <1>2 DEF Watched

\* Once main shuts down every thread is in the last epoch or the one before, and nobody
\* begins another round.
LEMMA Ending ==
  ASSUME IInv, AtStart, ~estop, mpc \in {"shut", "join", "done"}
  PROVE  Finished /\ \A u \in Threads : pc[u] \notin {"start", "startasleep"}
<1>1. lead_idx > StopCount /\ lead_idx \in Nat /\ StopCount \in Nat /\ StopCount # 0
  BY Ranges DEF IInv, TypeOK, Told
<1>2. \A u \in Threads : idx[u] # 0
  BY <1>1 DEF IInv, Epochs, EpochsInStep
<1>3. QED
  BY <1>1, <1>2 DEF AtStart, Finished

\* A thread that moves while main stands still keeps main's post until it takes it.
LEMMA LeavingThread ==
  ASSUME IInv, AtStart, Leaving, ~estop, prog # "go", NEW t \in Threads,
         Quiet(t) \/ Lead(t) \/ Gathered(t) \/ Elect(t) \/ Bump(t), ~Join(t)
  PROVE  Leaving'
<1> USE DEF IInv, TypeOK, Go
<1>1. mpc' = mpc /\ mi' = mi
  BY DEF Quiet, Lead, Gathered, Elect, Bump, AwaitStart, Report, Alarm, TellMain, Wake, WakeNobody,
     Follow, Recheck, Park, Over, mainvars
<1> DEFINE Left(u) == /\ pc'[u] \notin {"start", "startasleep", "asleep"}
                      /\ pc'[u] \in {"loop", "wait", "bump", "park"} => sem'[u] > 0
<1> SUFFICES ASSUME NEW u \in Threads, MainHasPosted(u) PROVE Left(u)
  BY <1>1 DEF Leaving, MainHasPosted
<1>2. /\ pc[u] \notin {"start", "startasleep", "asleep"}
      /\ pc[u] \in {"loop", "wait", "bump", "park"} => sem[u] > 0
      /\ Finished /\ \A v \in Threads : pc[v] \notin {"start", "startasleep"}
  BY Ending DEF Leaving, MainHasPosted
<1>3. CASE \/ Follow(t) \/ Recheck(t) \/ WakeNobody(t) \/ Report(t) \/ Alarm(t)
           \/ Lead(t) \/ Gathered(t) \/ Elect(t) \/ Bump(t)
  BY <1>2, <1>3 DEF Follow, Recheck, WakeNobody, Report, Alarm, TellMain, Lead, Gathered, Elect, Bump
<1>4. CASE Over(t)
  BY <1>2, <1>4 DEF Over
<1>5. CASE Park(t)
  BY <1>2, <1>5 DEF Park, Wait
<1>6. CASE Wake(t)
  <2>1. wi[t] \in Threads /\ Post(wi[t], pc)
    BY <1>6 DEF Wake
  <2>2. QED
    BY <1>2, <2>1, PostLeaves
<1>7. CASE AwaitStart(t)
  BY <1>2, <1>7 DEF AwaitStart
<1>8. QED
  BY <1>3, <1>4, <1>5, <1>6, <1>7 DEF Quiet

LEMMA LeavingKept ==
  ASSUME IInv, FInv, ~estop', prog # "go", [Next]_vars PROVE Leaving'
<1> USE DEF IInv, TypeOK
<1>0. ~estop
  BY Actions, QuietStill, MainStill DEF Still, epoch, Lead, Gathered, TimeOut, Elect, Bump, vars
<1>1. Leaving /\ AtStart
  BY <1>0 DEF FInv
<1>2. \A u \in Threads : u \in Nat /\ u <= NThreads - 1
  BY Ranges DEF Threads
<1>3. ASSUME NEW t \in Threads, Join(t) PROVE Leaving'
  <2>1. pc' = pc /\ sem' = sem /\ mpc = "join"
    BY <1>3 DEF Join
  <2>2. QED
    BY <1>1, <2>1 DEF Leaving, MainHasPosted
<1>4. CASE Start
  BY <1>4 DEF Start, Leaving, MainHasPosted
<1>5. CASE Hear
  <2>1. mpc' = "shut" /\ mi' = 0
    BY <1>1, <1>5 DEF Hear, AtStart
  <2>2. QED
    BY <1>2, <2>1 DEF Leaving, MainHasPosted
<1>6. CASE Shut
  <2>1. /\ mpc = "shut" /\ mi \in Threads /\ Post(mi, pc)
        /\ \A u \in Threads : pc[u] \notin {"start", "startasleep"}
    BY <1>0, <1>1, <1>6, Ending DEF Shut
  <2>2. ASSUME NEW u \in Threads, MainHasPosted(u)' PROVE MainHasPosted(u) \/ u = mi
    BY <1>2, <1>6, <2>2 DEF Shut, MainHasPosted
  <2>3. QED
    BY <1>1, <2>1, <2>2, PostLeaves DEF Leaving
<1>7. ASSUME NEW t \in Threads, TimeOut(t) PROVE FALSE
  BY <1>7 DEF TimeOut
<1>8. CASE UNCHANGED vars
  BY <1>1, <1>8 DEF vars, mainvars, Leaving, MainHasPosted
<1>9. QED
  BY <1>0, <1>1, <1>3, <1>4, <1>5, <1>6, <1>7, <1>8, Actions, LeavingThread DEF QuietMain

LEMMA StepFInv == IInv /\ PInv /\ FInv /\ [Next]_vars => FInv'
<1> SUFFICES ASSUME IInv, PInv, FInv, [Next]_vars PROVE FInv'
  OBVIOUS
<1>1. AtStart' /\ Parking'
  BY AtStartKept, ParkingKept DEF FInv
<1>2. Early' => Watched'
  BY WatchedKept
<1>3. ~estop' /\ prog' # "go" => Leaving'
  BY LeavingKept, MainTypes
<1>4. QED
  BY <1>1, <1>2, <1>3 DEF FInv

LEMMA FInvAlways == Spec => [](IInv /\ PInv /\ FInv)
<1>1. Init => FInv
  BY InitFInv
<1>2. QED
  BY <1>1, StepFInv, PostsAlways, PTL DEF Spec

\* As long as no leader gives up, no wake-up is lost: wakegroup() drops none, and whoever
\* sleeps has a leader or main still to come to it, though main may shut down while an
\* earlier leader is in the midst of its posts.
THEOREM NoWakeupIsLost == Spec => []NoLostWakeup
<1>1. IInv /\ PInv /\ FInv => NobodyForgotten
  <2> SUFFICES ASSUME IInv, PInv, FInv, ~estop, NEW t \in Threads
               PROVE  /\ Sleeps(t) => MainWillPost(t) \/ \E u \in Threads : StillWakes(u, t)
                      /\ pc[t] = "startasleep" => mpc = "start" /\ mi <= t
    BY DEF NobodyForgotten
  <2> USE DEF IInv, TypeOK
  <2>1. AtStart /\ Parking
    BY DEF FInv
  <2>2. ASSUME Sleeps(t), Early
        PROVE  MainWillPost(t) \/ \E u \in Threads : StillWakes(u, t)
    <3>1. exhaust
      BY <2>1, <2>2 DEF Parking, Sleeps
    <3>2. Resting(t)
      BY <2>1, <2>2, <3>1 DEF PInv, Posts, Held, Parking, Sleeps, Resting
    <3>3. Telling \/ \E u \in Threads : StillWakes(u, t)
      BY <2>2, <3>2 DEF FInv, Watched
    <3>4. QED
      BY <2>2, <3>3 DEF Telling, MainWillPost, Early
  <2>3. ASSUME Sleeps(t), ~Early PROVE MainWillPost(t)
    <3>1. mpc \in {"shut", "join", "done"} /\ t \in Nat /\ mi \in Nat
      BY <2>3, Ranges DEF Early
    <3>2. ~MainHasPosted(t)
      BY <2>1, <2>3 DEF FInv, Leaving, Parking, Sleeps, Closed, MainHasPosted
    <3>3. QED
      BY <3>1, <3>2 DEF MainHasPosted, MainWillPost
  <2>4. QED
    BY <2>1, <2>2, <2>3 DEF AtStart
<1>2. PostsKept /\ NobodyForgotten => NoLostWakeup
  BY DEF NoLostWakeup
<1>3. QED
  BY <1>1, <1>2, FInvAlways, NoPostIsDropped, PTL
-----------------------------------------------------------------------------
(* Where a run can stand still: nowhere, until a leader gives up.  The      *)
(* guards that can close are written out, since ENABLED is beyond the       *)
(* provers: a thread stops asleep or blocked on one of Go's channels, or    *)
(* leads a group that has not seen its epoch.                               *)

Moving(t) ==
  \/ pc[t] \in {"loop", "elect", "wait", "bump", "over"}
  \/ pc[t] = "start" /\ (prog = "cpp" \/ Started(t))
  \/ pc[t] = "group" /\ (starves \/ \A u \in Threads : idx[u] = lead_idx)
  \/ pc[t] \in {"report", "alarm"} /\ (prog = "go" => mpc = "wait")
  \/ pc[t] = "wake" /\ (prog = "go" /\ wi[t] \in Threads /\ ~Woken(t) => pc[wi[t]] = "park")
  \/ pc[t] = "park" /\ (prog = "go" => Closed(t))

MainMoves ==
  \/ mpc \in {"start", "shut"}
  \/ mpc = "wait" /\ main_sem > 0
  \/ mpc = "join" /\ (IF prog = "go" THEN \E t \in Threads : pc[t] = "send" ELSE pc[mi] = "done")

GoesOn == ~estop /\ mpc # "done" => MainMoves \/ \E t \in Threads : Moving(t)

\* A leader that waits for the others is in its epoch.
Entered == \A t \in Threads : pc[t] = "group" => idx[t] = lead_idx

\* Threads leave at the end, those of Go by way of a send.
Left ==
  \A t \in Threads : /\ pc[t] \in {"send", "done"} => Finished
                     /\ pc[t] = "send" => prog = "go"

\* Main is told of the end once.
Reported ==
  ~estop /\ (main_sem > 0 \/ mpc \in {"shut", "join", "done"}) =>
    \A t \in Threads : pc[t] # "report"

\* Go's main counts the results it has received by its index.
Received == {t \in Threads : pc[t] = "done"}
Collected ==
  prog = "go" /\ mpc # "done" => Cardinality(Received) = IF mpc = "join" THEN mi ELSE 0

GInv == Entered /\ Left /\ Reported /\ Collected

LEMMA ReceivedFinite ==
  IsFiniteSet(Threads) /\ Cardinality(Threads) = NThreads /\ IsFiniteSet(Received)
<1>1. IsFiniteSet(Threads) /\ Cardinality(Threads) = NThreads
  BY Ranges, FS_Interval DEF Threads
<1>2. QED
  BY <1>1, FS_Subset DEF Received

LEMMA InitGInv == Init => GInv
<1> SUFFICES ASSUME Init PROVE GInv
  OBVIOUS
<1>1. Entered /\ Left /\ Reported
  BY DEF Init, Entered, Left, Reported
<1>2. Received = {}
  BY DEF Init, Received
<1>3. QED
  BY <1>1, <1>2, FS_EmptySet DEF Init, GInv, Collected

\* Where a step may take a thread.
LEMMA Arrivals ==
  ASSUME TypeOK, [Next]_vars, NEW t \in Threads
  PROVE  /\ pc'[t] = "send" => pc[t] = "send" \/ (Over(t) /\ Finished /\ prog = "go")
         /\ pc'[t] = "done" => \/ pc[t] = "done"
                               \/ Over(t) /\ Finished /\ prog # "go"
                               \/ Join(t) /\ prog = "go" /\ pc[t] = "send"
         /\ pc[t] = "done" => pc'[t] = "done"
         /\ pc'[t] = "group" => pc[t] = "group" \/ Lead(t)
         /\ pc'[t] = "report" => pc[t] = "report" \/ (Lead(t) /\ Finished')
<1> USE DEF TypeOK, Go
<1> DEFINE Places == {"send", "done", "group", "report"}
           Keeps(u) == /\ pc'[u] \in Places => pc'[u] = pc[u]
                       /\ pc[u] = "done" => pc'[u] = "done"
<1>1. ASSUME NEW u \in Threads,
             \/ Follow(u) \/ Recheck(u) \/ WakeNobody(u) \/ Gathered(u) \/ TimeOut(u)
             \/ Elect(u) \/ Bump(u)
      PROVE  Keeps(t)
  BY <1>1 DEF Follow, Recheck, WakeNobody, Gathered, TimeOut, Elect, Bump
<1>2. ASSUME NEW u \in Threads, AwaitStart(u) \/ Park(u) PROVE Keeps(t)
  BY <1>2 DEF AwaitStart, Park, Wait
<1>3. ASSUME NEW u \in Threads, Report(u) \/ Alarm(u) PROVE Keeps(t)
  BY <1>3 DEF Report, Alarm, TellMain
<1>4. ASSUME NEW w \in Threads, Post(w, pc) PROVE Keeps(t)
  BY <1>4, PostLeaves
<1>5. ASSUME NEW u \in Threads, Wake(u) PROVE Keeps(t)
  <2>1. CASE Post(wi[u], pc)
    BY <1>4, <1>5, <2>1 DEF Wake
  <2>2. CASE pc[wi[u]] = "park" /\ Go(wi[u], "over")
    BY <1>5, <2>2 DEF Wake
  <2>3. QED
    BY <1>5, <2>1, <2>2 DEF Wake
<1>6. CASE QuietMain
  <2>1. pc' = pc \/ Post(mi, pc)
    BY <1>6 DEF QuietMain, Start, Hear, Shut
  <2>2. QED
    BY <1>4, <2>1
<1>7. CASE UNCHANGED vars
  BY <1>7 DEF vars
<1>8. ASSUME NEW u \in Threads, Lead(u), ~Keeps(t)
      PROVE  u = t /\ (pc'[t] = "group" \/ (pc'[t] = "report" /\ Finished'))
  BY <1>8 DEF Lead
<1>9. ASSUME NEW u \in Threads, Over(u), ~Keeps(t)
      PROVE  u = t /\ Finished /\ pc'[t] = IF prog = "go" THEN "send" ELSE "done"
  BY <1>9 DEF Over
<1>10. ASSUME NEW u \in Threads, Join(u), ~Keeps(t)
       PROVE  u = t /\ prog = "go" /\ pc[t] = "send" /\ pc'[t] = "done"
  BY <1>10 DEF Join
<1>11. Keeps(t) \/ Lead(t) \/ Over(t) \/ Join(t)
  BY <1>1, <1>2, <1>3, <1>5, <1>6, <1>7, <1>8, <1>9, <1>10, Actions DEF Quiet
<1>12. QED
  <2>1. CASE Keeps(t)
    BY <2>1
  <2>2. CASE ~Keeps(t)
    BY <1>8, <1>9, <1>10, <1>11, <2>2 DEF Lead, Over
  <2>3. QED
    BY <2>1, <2>2

\* The end stays the end.
LEMMA EndStays == IInv /\ [Next]_vars /\ Finished => Finished'
<1> SUFFICES ASSUME IInv, [Next]_vars, Finished PROVE Finished'
  OBVIOUS
<1> USE DEF IInv, TypeOK
<1>1. CASE Still \/ UNCHANGED vars
  BY <1>1 DEF Still, epoch, vars, Finished
<1>2. ASSUME NEW t \in Threads, Lead(t) PROVE Finished'
  BY <1>2, Ranges DEF Lead, Finished
<1>3. ASSUME NEW t \in Threads, Gathered(t) \/ TimeOut(t) \/ Elect(t) \/ Bump(t) PROVE Finished'
  BY <1>3 DEF Gathered, TimeOut, Elect, Bump, epoch, Finished
<1>4. QED
  BY <1>1, <1>2, <1>3, Actions, QuietStill, MainStill

LEMMA EnteredKept == IInv /\ Entered /\ [Next]_vars => Entered'
<1> SUFFICES ASSUME IInv, Entered, [Next]_vars, NEW t \in Threads, pc'[t] = "group"
             PROVE  idx'[t] = lead_idx'
  BY DEF Entered
<1> USE DEF IInv, TypeOK
<1>1. CASE Lead(t)
  BY <1>1 DEF Lead
<1>2. CASE pc[t] = "group"
  <2>1. leader = t /\ idx[t] = lead_idx
    BY <1>2 DEF Epochs, OneLeader, Entered
  <2>2. ASSUME NEW u \in Threads, Lead(u) PROVE FALSE
    BY <1>2, <2>1, <2>2 DEF Lead
  <2>3. ASSUME NEW u \in Threads, Bump(u) PROVE idx'[t] = lead_idx'
    BY <1>2, <2>1, <2>3 DEF Bump
  <2>4. ASSUME NEW u \in Threads, Gathered(u) \/ TimeOut(u) \/ Elect(u)
        PROVE  idx'[t] = lead_idx'
    BY <2>1, <2>4 DEF Gathered, TimeOut, Elect, epoch
  <2>5. CASE Still \/ UNCHANGED vars
    BY <2>1, <2>5 DEF Still, epoch, vars
  <2>6. QED
    BY <2>2, <2>3, <2>4, <2>5, Actions, QuietStill, MainStill
<1>3. QED
  BY <1>1, <1>2, Arrivals

LEMMA LeftKept == IInv /\ Left /\ [Next]_vars => Left'
<1> SUFFICES ASSUME IInv, Left, [Next]_vars, NEW t \in Threads
             PROVE  /\ pc'[t] \in {"send", "done"} => Finished'
                    /\ pc'[t] = "send" => prog' = "go"
  BY DEF Left
<1>1. pc'[t] \in {"send", "done"} => Finished
  BY Arrivals DEF IInv, Left
<1>2. pc'[t] = "send" => prog = "go"
  BY Arrivals DEF IInv, Left
<1>3. QED
  BY <1>1, <1>2, EndStays, MainTypes

\* The leader that reports the last epoch is the only one, and opens no other.
LEMMA ReportedKept == IInv /\ Reported /\ [Next]_vars => Reported'
<1> SUFFICES ASSUME IInv, Reported, [Next]_vars, ~estop',
                    main_sem' > 0 \/ mpc' \in {"shut", "join", "done"},
                    NEW t \in Threads, pc'[t] = "report"
             PROVE  FALSE
  BY DEF Reported
<1> USE DEF IInv, TypeOK
<1>1. ~estop
  BY Actions, QuietStill, MainStill DEF Still, epoch, Lead, Gathered, TimeOut, Elect, Bump, vars
<1>2. ASSUME NEW u \in Threads, Report(u) \/ Alarm(u) PROVE FALSE
  <2>1. Report(u) /\ pc[u] = "report" /\ pc'[u] = "over"
    BY <1>1, <1>2 DEF Report, Alarm, TellMain, Told, Go
  <2>2. pc[t] = "report" /\ t # u
    BY <1>2, <2>1, Arrivals DEF Lead, Go, Report, TellMain
  <2>3. QED
    BY <2>1, <2>2 DEF Epochs, OneLeader
<1>3. main_sem > 0 \/ mpc \in {"shut", "join", "done"}
  <2>1. CASE QuietMain
    BY <2>1 DEF QuietMain, Start, Hear, Shut
  <2>2. ASSUME NEW u \in Threads,
               \/ Quiet(u) \/ Lead(u) \/ Gathered(u) \/ TimeOut(u) \/ Elect(u) \/ Bump(u)
        PROVE  main_sem > 0 \/ mpc \in {"shut", "join", "done"}
    BY <1>2, <2>2 DEF Quiet, AwaitStart, Wake, WakeNobody, Follow, Recheck, Park, Over, Join, Lead,
         Gathered, TimeOut, Elect, Bump, mainvars
  <2>3. CASE UNCHANGED vars
    BY <2>3 DEF vars, mainvars
  <2>4. QED
    BY <2>1, <2>2, <2>3, Actions
<1>4. Lead(t)
  BY <1>1, <1>3, Arrivals DEF Reported
<1>5. QED
  BY <1>1, <1>3, <1>4 DEF Lead, Told, Epochs, Bounded, Out

LEMMA CollectedKept == IInv /\ AtStart /\ Left /\ Collected /\ [Next]_vars => Collected'
<1> SUFFICES ASSUME IInv, AtStart, Left, Collected, [Next]_vars, prog = "go", mpc' # "done"
             PROVE  Cardinality(Received') = IF mpc' = "join" THEN mi' ELSE 0
  BY MainTypes DEF Collected
<1> USE DEF IInv, TypeOK
<1>1. ASSUME NEW t \in Threads, Join(t)
      PROVE  Cardinality(Received') = IF mpc' = "join" THEN mi' ELSE 0
  <2>1. pc[t] = "send" /\ pc' = [pc EXCEPT ![t] = "done"] /\ mpc = "join"
    BY <1>1 DEF Join, Go
  <2>2. Received' = Received \cup {t} /\ t \notin Received
    BY <2>1 DEF Received
  <2>3. Cardinality(Received') = Cardinality(Received) + 1
    BY <2>2, ReceivedFinite, FS_AddElement
  <2>4. mpc' = "join" /\ mi' = mi + 1
    BY <1>1, <2>1 DEF Join
  <2>5. QED
    BY <2>1, <2>3, <2>4 DEF Collected
<1>2. ASSUME \A t \in Threads : ~Join(t)
      PROVE  Cardinality(Received') = IF mpc' = "join" THEN mi' ELSE 0
  <2>1. Received' = Received
    <3>1. \A t \in Threads : pc'[t] = "done" <=> pc[t] = "done"
      BY <1>2, Arrivals
    <3>2. QED
      BY <3>1 DEF Received
  <2>2. mpc # "done" /\ (IF mpc' = "join" THEN mi' ELSE 0) = (IF mpc = "join" THEN mi ELSE 0)
    <3>1. CASE QuietMain
      BY <3>1 DEF QuietMain, Start, Hear, Shut
    <3>2. ASSUME NEW u \in Threads, Report(u) \/ Alarm(u)
          PROVE  mi' = mi /\ mpc = "wait" /\ mpc' = "shut"
      BY <3>2 DEF Report, Alarm, TellMain
    <3>3. ASSUME NEW u \in Threads, ~Report(u), ~Alarm(u),
                 \/ Quiet(u) \/ Lead(u) \/ Gathered(u) \/ TimeOut(u) \/ Elect(u) \/ Bump(u)
          PROVE  mi' = mi /\ mpc' = mpc
      BY <1>2, <3>3 DEF Quiet, AwaitStart, Wake, WakeNobody, Follow, Recheck, Park, Over, Lead,
           Gathered, TimeOut, Elect, Bump, mainvars
    <3>4. CASE UNCHANGED vars
      BY <3>4 DEF vars, mainvars
    <3>5. QED
      BY <3>1, <3>2, <3>3, <3>4, Actions
  <2>3. QED
    BY <2>1, <2>2 DEF Collected
<1>3. QED
  BY <1>1, <1>2

LEMMA GInvAlways == Spec => [](IInv /\ PInv /\ FInv /\ GInv)
<1>1. Init => GInv
  BY InitGInv
<1>2. IInv /\ FInv /\ GInv /\ [Next]_vars => GInv'
  BY EnteredKept, LeftKept, ReportedKept, CollectedKept DEF FInv, GInv
<1>3. QED
  BY <1>1, <1>2, FInvAlways, PTL DEF Spec

\* While main waits: whoever rests has a leader that waits for others than it, or that is
\* in the midst of its posts, which a rested receiver cannot block.
LEMMA WaitGoesOn ==
  ASSUME IInv, PInv, FInv, GInv, ~estop, mpc = "wait", ~MainMoves
  PROVE  \E t \in Threads : Moving(t)
<1> SUFFICES ASSUME ~(\E t \in Threads : Moving(t)) PROVE FALSE
  OBVIOUS
<1> USE DEF IInv, TypeOK
<1>1. ~Telling /\ lead_idx <= StopCount
  BY Ranges DEF MainMoves, Moving, Telling, FInv, Early, Watched
<1>2. \A t \in Threads : pc[t] \in {"group", "wake", "park", "asleep"}
  BY <1>1, Ranges DEF Moving, Started, FInv, AtStart, GInv, Left, Finished
<1>3. ASSUME NEW t \in Threads, pc[t] = "wake" PROVE FALSE
  <2>1. prog = "go" /\ wi[t] \in Threads /\ wi[t] # t /\ pc[wi[t]] # "park"
    BY <1>3 DEF Moving, Woken
  <2>2. Posts /\ Due(t, wi[t])
    BY <1>3, <2>1, Ranges DEF PInv, Early, Due
  <2>3. QED
    BY <2>1, <2>2 DEF Posts, DueRest, Resting, FInv, Parking
<1>4. ASSUME NEW t \in Threads, pc[t] # "group"
      PROVE  idx[t] = lead_idx /\ \E u \in Threads : pc[u] = "group"
  <2>1. pc[t] \in {"park", "asleep"} /\ (pc[t] = "park" => prog = "go") /\ exhaust
    BY <1>2, <1>3, <1>4 DEF Moving, FInv, Parking
  <2>2. Resting(t)
    BY <2>1 DEF Resting, PInv, Early, Posts, Held, FInv, Parking
  <2>3. PICK u \in Threads : StillWakes(u, t)
    BY <1>1, <2>2 DEF FInv, Early, Watched
  <2>4. QED
    BY <1>2, <1>3, <2>3 DEF StillWakes
<1>5. PICK u \in Threads : pc[u] = "group"
  BY <1>4, Ranges
<1>6. PICK v \in Threads : idx[v] # lead_idx
  BY <1>5 DEF Moving
<1>7. pc[v] = "group" /\ v = u
  BY <1>4, <1>5, <1>6 DEF Epochs, OneLeader
<1>8. QED
  BY <1>6, <1>7 DEF GInv, Entered

\* While main joins, every thread has the post it leaves with, and Go's main is short of
\* results.
LEMMA JoinGoesOn ==
  ASSUME IInv, PInv, FInv, GInv, ~estop, mpc = "join", ~MainMoves
  PROVE  \E t \in Threads : Moving(t)
<1> SUFFICES ASSUME ~(\E t \in Threads : Moving(t)) PROVE FALSE
  OBVIOUS
<1> USE DEF IInv, TypeOK
<1>1. /\ lead_idx > StopCount
      /\ \A t \in Threads : pc[t] \notin {"group", "alarm", "elect", "report", "loop", "wait",
                                          "bump", "over"}
  BY Ranges DEF Told, Epochs, Bounded, Out, OneLeader, Moving, GInv, Reported
<1>2. \A t \in Threads : pc[t] \notin {"start", "startasleep"}
  BY Ending DEF FInv
<1>3. CASE prog # "go"
  <2>1. \A t \in Threads : pc[t] \notin {"asleep", "park", "wake", "send"}
    BY <1>3 DEF FInv, Leaving, MainHasPosted, Moving, GInv, Left
  <2>2. QED
    BY <1>1, <1>2, <1>3, <2>1 DEF MainMoves
<1>4. CASE prog = "go"
  <2>1. \A t \in Threads : pc[t] \notin {"asleep", "park", "wake", "send"}
    BY <1>4 DEF FInv, Parking, Moving, Woken, Closed, MainMoves
  <2>2. Received = Threads
    BY <1>1, <1>2, <2>1 DEF Received
  <2>3. QED
    BY <1>4, <2>2, ReceivedFinite, Ranges DEF GInv, Collected, Threads
<1>5. QED
  BY <1>3, <1>4

\* As long as no leader gives up, no run of the four programs comes to a stop before main
\* is done: neither with everyone asleep, nor in a circle of threads, leader and main in
\* which each waits for the next, though Go's channels make the sender wait too.
THEOREM TransferGoesOn == Spec => []GoesOn
<1>1. IInv /\ PInv /\ FInv /\ GInv => GoesOn
  <2> SUFFICES ASSUME IInv, PInv, FInv, GInv, ~estop, mpc # "done", ~MainMoves
               PROVE  \E t \in Threads : Moving(t)
    BY DEF GoesOn
  <2>1. mpc \in {"wait", "join"}
    BY DEF IInv, TypeOK, MainMoves
  <2>2. QED
    BY <2>1, WaitGoesOn, JoinGoesOn
<1>2. QED
  BY <1>1, GInvAlways, PTL
=============================================================================
