------------------------------ MODULE Transfer ------------------------------
(***************************************************************************)
(* The transfer benchmark: transfer.cpp, transfer.cfa, transfer.go and     *)
(* transfer.rs.  One of the threads leads: it opens a new epoch, spins     *)
(* until every thread has seen it, names the next leader, and wakes the    *)
(* others if they park after seeing an epoch (--exhaust) instead of        *)
(* yielding.  A leader that spins for five seconds gives up and stops the  *)
(* experiment: whether that can happen is starves.                         *)
(*                                                                         *)
(* prog, exhaust and starves are fixed at the start.  Threads are numbered *)
(* from zero.                                                              *)
(***************************************************************************)
EXTENDS Integers

CONSTANTS
  NThreads,    \* --nthreads
  StopCount,   \* --iterations
  Programs, Starvation,
  NoLeader     \* a leader that is none of the threads

Threads == 0..NThreads - 1

ASSUME Sizes == NThreads \in Nat \ {0} /\ StopCount \in Nat \ {0}
ASSUME Outside == NoLeader \notin Threads

VARIABLES
  prog, exhaust, starves,
  leader, lead_idx, estop,
  idx,         \* idx[t]: the last epoch t has seen
  pc, sem,     \* sem[t]: posts t has not consumed; Go's channels keep none
  wi,          \* wi[t]: whom t wakes next, in wakegroup()
  main_sem,    \* posts main has not consumed
  failed,      \* an assertion has ended the program
  mpc, mi      \* main's place and loop index

setup == <<prog, exhaust, starves>>
epoch == <<leader, lead_idx, estop, idx>>
mainvars == <<main_sem, mpc, mi>>
vars == <<setup, epoch, pc, sem, wi, failed, mainvars>>

Labels == {"start", "startasleep", "loop", "group", "alarm", "elect", "wake", "report",
           "wait", "bump", "park", "asleep", "over", "send", "done"}

\* Mutant of NextLeaders: the seed of next() is the one that main sets.
AnyLeaders == Threads

\* The leaders that may be chosen.  lead_seed of the C programs is hidden by a local of
\* main: next() starts from zero and stays there.
NextLeaders == IF prog \in {"cpp", "cfa"} THEN {0} ELSE Threads

\* Tokio makes between zero and nine choices to begin with; without one nobody leads.
FirstLeaders == IF prog = "rs" THEN Threads \cup {NoLeader} ELSE Threads

Init ==
  /\ prog \in Programs
  /\ exhaust \in BOOLEAN
  /\ starves \in Starvation
  /\ leader \in FirstLeaders
  /\ lead_idx = 0
  /\ estop = FALSE
  /\ idx = [t \in Threads |-> 0]
  /\ pc = [t \in Threads |-> "start"]
  /\ sem = [t \in Threads |-> 0]
  /\ wi = [t \in Threads |-> 0]
  /\ main_sem = 0
  /\ failed = FALSE
  /\ mpc = "start" /\ mi = 0

Go(t, label) == pc' = [pc EXCEPT ![t] = label]

\* A post wakes the sleeper or is remembered, once by bench_sem; pcs is pc with the
\* poster moved on.
Post(u, pcs) ==
  \/ /\ pcs[u] \in {"asleep", "startasleep"}
     /\ pc' = [pcs EXCEPT ![u] = IF @ = "asleep" THEN "over" ELSE "loop"]
     /\ UNCHANGED sem
  \/ /\ pcs[u] \notin {"asleep", "startasleep"}
     /\ pc' = pcs
     /\ sem' = [sem EXCEPT ![u] = IF prog \in {"cpp", "cfa"} THEN 1 ELSE @ + 1]

\* t takes a remembered post and goes on to next, or falls asleep.
Wait(t, next, sleep) ==
  \/ /\ sem[t] > 0
     /\ sem' = [sem EXCEPT ![t] = @ - 1]
     /\ Go(t, next)
  \/ /\ sem[t] = 0
     /\ Go(t, sleep)
     /\ UNCHANGED sem

\* Go's main has closed t's channel.
Closed(t) == prog = "go" /\ (mpc \in {"join", "done"} \/ (mpc = "shut" /\ t < mi))

\* Main has let t start.
Started(t) == mpc # "start" \/ (prog = "cfa" /\ t < mi)
-----------------------------------------------------------------------------
(* The main function of the threads *)

\* The wait for the start: on the semaphore of the epochs in libfibre.
AwaitStart(t) ==
  /\ pc[t] = "start"
  /\ \/ prog = "cpp" /\ Wait(t, "loop", "startasleep")
     \/ prog # "cpp" /\ Started(t) /\ Go(t, "loop") /\ UNCHANGED sem
  /\ UNCHANGED <<setup, epoch, wi, failed, mainvars>>

\* Mutants of Finished: a round less, a round more.
FinishedEarly == lead_idx >= StopCount \/ estop
FinishedLate == lead_idx > StopCount + 1 \/ estop

\* The experiment is over.
Finished == lead_idx > StopCount \/ estop

\* Mutant of Lead: the next leader is named before the epoch has been seen by all.
LeadElectsFirst(t) ==
  /\ pc[t] = "loop" /\ leader = t
  /\ lead_idx' = lead_idx + 1
  /\ idx' = [idx EXCEPT ![t] = lead_idx + 1]
  /\ leader' \in NextLeaders /\ UNCHANGED estop
  /\ Go(t, IF Finished' THEN "report" ELSE "group")
  /\ UNCHANGED <<setup, sem, wi, failed, mainvars>>

\* lead(): t opens an epoch, in which it is the first, unless it was the last.
Lead(t) ==
  /\ pc[t] = "loop" /\ leader = t
  /\ lead_idx' = lead_idx + 1
  /\ idx' = [idx EXCEPT ![t] = lead_idx + 1]
  /\ UNCHANGED <<leader, estop>>
  /\ Go(t, IF Finished' THEN "report" ELSE "group")
  /\ UNCHANGED <<setup, sem, wi, failed, mainvars>>

\* Main hears of the end.  Go's channel has no room: the sender waits for main to wait.
TellMain(t, next) ==
  /\ Go(t, next)
  /\ \/ /\ prog = "go" /\ mpc = "wait"
        /\ mpc' = "shut"
        /\ UNCHANGED main_sem
     \/ /\ prog # "go"
        /\ main_sem' = IF prog = "cpp" THEN 1 ELSE main_sem + 1
        /\ UNCHANGED mpc
  /\ UNCHANGED <<setup, epoch, sem, wi, failed, mi>>

Report(t) == pc[t] = "report" /\ TellMain(t, "over")

\* Mutant of Gathered: the leader does not wait.
GatheredOrNot(t) ==
  /\ pc[t] = "group"
  /\ Go(t, "elect")
  /\ UNCHANGED <<setup, epoch, sem, wi, failed, mainvars>>

\* waitgroup() ends with every thread in the epoch; idx[u] stays there once it is.
Gathered(t) ==
  /\ pc[t] = "group"
  /\ \A u \in Threads : idx[u] = lead_idx
  /\ Go(t, "elect")
  /\ UNCHANGED <<setup, epoch, sem, wi, failed, mainvars>>

\* waitgroup() has waited for five seconds.
TimeOut(t) ==
  /\ pc[t] = "group" /\ starves
  /\ \E u \in Threads : idx[u] # lead_idx
  /\ estop' = TRUE
  /\ Go(t, "alarm")
  /\ UNCHANGED <<setup, leader, lead_idx, idx, sem, wi, failed, mainvars>>

Alarm(t) == pc[t] = "alarm" /\ TellMain(t, "elect")

\* Mutant of Elect: wakegroup() starts with the second thread.
ElectSkipsFirst(t) ==
  /\ pc[t] = "elect"
  /\ leader' \in NextLeaders
  /\ wi' = [wi EXCEPT ![t] = 1]
  /\ Go(t, IF exhaust THEN "wake" ELSE "over")
  /\ UNCHANGED <<setup, lead_idx, estop, idx, sem, failed, mainvars>>

\* The next leader is named.
Elect(t) ==
  /\ pc[t] = "elect"
  /\ leader' \in NextLeaders
  /\ wi' = [wi EXCEPT ![t] = 0]
  /\ Go(t, IF exhaust THEN "wake" ELSE "over")
  /\ UNCHANGED <<setup, lead_idx, estop, idx, sem, failed, mainvars>>

Woken(t) == wi[t] = t \/ Closed(wi[t])

\* wakegroup(): one post, or in Go a send that waits for the receiver.
Wake(t) ==
  /\ pc[t] = "wake" /\ wi[t] \in Threads /\ ~Woken(t)
  /\ \/ prog # "go" /\ Post(wi[t], pc)
     \/ prog = "go" /\ pc[wi[t]] = "park" /\ Go(wi[t], "over") /\ UNCHANGED sem
  /\ wi' = [wi EXCEPT ![t] = @ + 1]
  /\ UNCHANGED <<setup, epoch, failed, mainvars>>

WakeNobody(t) ==
  /\ pc[t] = "wake"
  /\ \/ /\ wi[t] = t     \* t itself is left out
        /\ wi' = [wi EXCEPT ![t] = @ + 1]
        /\ UNCHANGED pc
     \/ /\ wi[t] \notin Threads \/ (wi[t] # t /\ Closed(wi[t]))
        /\ Go(t, "over")   \* the end, or Go's panic on a closed channel, recovered from
        /\ UNCHANGED wi
  /\ UNCHANGED <<setup, epoch, sem, failed, mainvars>>

\* wait(): has t seen the epoch?
Follow(t) ==
  /\ pc[t] = "loop" /\ leader # t
  /\ Go(t, "wait")
  /\ UNCHANGED <<setup, epoch, sem, wi, failed, mainvars>>

Recheck(t) ==
  /\ pc[t] = "wait"
  /\ Go(t, IF lead_idx = idx[t] THEN "over" ELSE "bump")
  /\ UNCHANGED <<setup, epoch, sem, wi, failed, mainvars>>

\* assert( (lead_idx - 1) == this->idx ), in libfibre and Cforall, and the next epoch.
Bump(t) ==
  /\ pc[t] = "bump"
  /\ \/ /\ prog \in {"cpp", "cfa"} /\ lead_idx - 1 # idx[t]
        /\ failed' = TRUE
        /\ UNCHANGED <<pc, idx>>
     \/ /\ prog \in {"cpp", "cfa"} => lead_idx - 1 = idx[t]
        /\ idx' = [idx EXCEPT ![t] = @ + 1]
        /\ Go(t, IF exhaust THEN "park" ELSE "over")
        /\ UNCHANGED failed
  /\ UNCHANGED <<setup, leader, lead_idx, estop, sem, wi, mainvars>>

\* The wait for the leader's post; Go receives at once from a closed channel.
Park(t) ==
  /\ pc[t] = "park"
  /\ \/ prog # "go" /\ Wait(t, "over", "asleep")
     \/ prog = "go" /\ Closed(t) /\ Go(t, "over") /\ UNCHANGED sem
  /\ UNCHANGED <<setup, epoch, wi, failed, mainvars>>

\* The end of a round of the loop, or of the thread.
Over(t) ==
  /\ pc[t] = "over"
  /\ Go(t, IF ~Finished THEN "loop" ELSE IF prog = "go" THEN "send" ELSE "done")
  /\ UNCHANGED <<setup, epoch, sem, wi, failed, mainvars>>

Leading(t) ==
  \/ Lead(t) \/ Report(t) \/ Gathered(t) \/ TimeOut(t) \/ Alarm(t)
  \/ Elect(t) \/ Wake(t) \/ WakeNobody(t)
Following(t) == Follow(t) \/ Recheck(t) \/ Bump(t) \/ Park(t)

Thread(t) == ~failed /\ (AwaitStart(t) \/ Leading(t) \/ Following(t) \/ Over(t))
-----------------------------------------------------------------------------
(* main() *)

\* The threads are posted or unparked one by one, or a barrier opens.
Start ==
  /\ mpc = "start"
  /\ IF prog = "cpp" THEN Post(mi, pc) ELSE UNCHANGED <<pc, sem>>
  /\ IF prog \in {"go", "rs"} \/ mi = NThreads - 1 THEN mpc' = "wait" /\ mi' = 0
     ELSE mpc' = mpc /\ mi' = mi + 1
  /\ UNCHANGED <<setup, epoch, wi, failed, main_sem>>

Hear ==
  /\ mpc = "wait" /\ main_sem > 0
  /\ main_sem' = main_sem - 1
  /\ mpc' = "shut"
  /\ UNCHANGED <<setup, epoch, pc, sem, wi, failed, mi>>

\* Every semaphore is posted, or every channel closed.
Shut ==
  /\ mpc = "shut"
  /\ IF prog = "go" THEN UNCHANGED <<pc, sem>> ELSE Post(mi, pc)
  /\ IF mi = NThreads - 1 THEN mpc' = "join" /\ mi' = 0 ELSE mpc' = mpc /\ mi' = mi + 1
  /\ UNCHANGED <<setup, epoch, wi, failed, main_sem>>

\* Join the next thread, or receive whichever result is ready.
Join(t) ==
  /\ mpc = "join"
  /\ \/ prog # "go" /\ t = mi /\ pc[t] = "done" /\ UNCHANGED pc
     \/ prog = "go" /\ pc[t] = "send" /\ Go(t, "done")
  /\ IF mi = NThreads - 1 THEN mpc' = "done" /\ mi' = 0 ELSE mpc' = mpc /\ mi' = mi + 1
  /\ UNCHANGED <<setup, epoch, sem, wi, failed, main_sem>>

Main == ~failed /\ (Start \/ Hear \/ Shut \/ \E t \in Threads : Join(t))

Ended == (mpc = "done" \/ failed) /\ UNCHANGED vars

Next == Main \/ Ended \/ \E t \in Threads : Thread(t)

\* Every thread is scheduled; the five seconds need not pass.
Spec ==
  /\ Init /\ [][Next]_vars
  /\ WF_vars(Main) /\ \A t \in Threads : WF_vars(Thread(t))
-----------------------------------------------------------------------------
TypeOK ==
  /\ prog \in Programs /\ exhaust \in BOOLEAN /\ starves \in Starvation
  /\ leader \in Threads \cup {NoLeader}
  /\ lead_idx \in 0..StopCount + 1
  /\ estop \in BOOLEAN
  /\ idx \in [Threads -> 0..StopCount + 1]
  /\ pc \in [Threads -> Labels]
  /\ sem \in [Threads -> Nat]
  /\ wi \in [Threads -> 0..NThreads]
  /\ main_sem \in Nat
  /\ failed \in BOOLEAN
  /\ mpc \in {"start", "wait", "shut", "join", "done"}
  /\ mi \in Threads

\* One thread leads at a time: it opens no epoch, and names no leader, while another is
\* still waiting for its epoch to be seen.
OneLeader ==
  \A t \in Threads : pc[t] \in {"group", "alarm", "elect", "report"} => leader = t

\* Until a leader gives up, every thread is in the leader's epoch or the one before,
\* which is what the assertion of wait() says, and a leader moves on when all are in its.
EpochsInStep ==
  ~estop =>
    \A t \in Threads :
      /\ idx[t] \in {lead_idx - 1, lead_idx}
      /\ pc[t] = "elect" => \A u \in Threads : idx[u] = lead_idx
      /\ pc[t] = "bump" => idx[t] = lead_idx - 1

\* Until main shuts down, a post of wakegroup() never finds another one that its
\* receiver has not consumed: bench_sem would drop it.
PostsKept ==
  ~estop =>
    \A t \in Threads :
      pc[t] = "wake" /\ mpc = "wait" =>
        \A u \in Threads : u >= wi[t] /\ u # t => sem[u] = 0

\* t waits for a post; and who is still going to post it: a leader that has not come to it
\* in wakegroup(), and does not wait for t to see its epoch before it does, or main,
\* which has been told of the end or is about to be.
Sleeps(t) == pc[t] = "asleep" \/ (prog = "go" /\ pc[t] = "park" /\ ~Closed(t))
StillWakes(u, t) ==
  /\ u # t
  /\ \/ pc[u] = "group" /\ idx[t] = lead_idx
     \/ pc[u] = "elect"
     \/ pc[u] = "wake" /\ wi[u] <= t
MainWillPost(t) ==
  \/ mpc = "shut" /\ mi <= t
  \/ mpc \in {"start", "wait"} /\ (main_sem > 0 \/ \E u \in Threads : pc[u] = "report")

\* Nobody is left asleep: while a thread sleeps there is a leader that has not come to it
\* yet, or main has not, though leaders change while the group is being woken, and threads
\* still enter the last epoch, from which only main wakes them.
NobodyForgotten ==
  ~estop =>
    \A t \in Threads :
      /\ Sleeps(t) => MainWillPost(t) \/ \E u \in Threads : StillWakes(u, t)
      /\ pc[t] = "startasleep" => mpc = "start" /\ mi <= t

\* No wake-up is lost as long as no leader gives up: none is dropped, none is left out.
NoLostWakeup == PostsKept /\ NobodyForgotten

\* Main of the C programs has joined t and deleted it, with its semaphore.
Deleted(t) == prog \in {"cpp", "cfa"} /\ (mpc = "done" \/ (mpc = "join" /\ t < mi))

\* wakegroup() finds the thread it posts.  Main, once it hears of the end, wakes, joins
\* and deletes the threads whatever an earlier leader is doing: that one must have been
\* the last leader itself.  So it is from the second epoch on, since next() always
\* chooses thread 0; with one epoch (--iterations 1) it need not be.
WakesTheLiving ==
  StopCount > 1 /\ ~estop =>
    \A t \in Threads :
      pc[t] = "wake" /\ wi[t] \in Threads \ {t} => ~Deleted(wi[t])

\* The transfers reported, lead_idx - 1, are --iterations.
TransfersExact == mpc \in {"shut", "join", "done"} /\ ~estop => lead_idx = StopCount + 1

\* Every run ends that has a leader and in which no leader gives up, under Cforall and
\* Tokio also those in which one does.
RunEnds ==
  leader # NoLeader /\ (~starves \/ prog \in {"cfa", "rs"}) => <>(mpc = "done" \/ failed)

\* "assert( (lead_idx - 1) == this->idx );" (transfer.cpp, transfer.cfa)
AssertionHolds == ~failed
=============================================================================
