------------------------------- MODULE Churn -------------------------------
(***************************************************************************)
(* The churn benchmark: churn.cpp, churn.cfa, churn.go and churn.rs.  A    *)
(* thread picks a spot at random, posts its semaphore and waits on it; the *)
(* first nspots threads leave out their first post, so that somebody       *)
(* blocks.  In Go a spot is a channel with room for one, sent to and       *)
(* received from, and nobody leaves out a send.  At the end main posts     *)
(* each semaphore 10000 times, or drains and fills the channels until all  *)
(* threads have left.                                                      *)
(*                                                                         *)
(* libfibre, Cforall and Tokio differ in nothing modelled: their           *)
(* semaphores hand a post to a thread that waits.  Which of them gets it   *)
(* is left open.                                                           *)
(***************************************************************************)
EXTENDS Integers, FiniteSets

CONSTANTS
  NThreads, NSpots,   \* --nthreads, --spots
  StopCount,          \* --iterations
  ShutPosts,          \* main's posts to each semaphore
  Programs

Threads == 0..NThreads - 1
Spots == 0..NSpots - 1

ASSUME Sizes == /\ NThreads \in Nat \ {0} /\ NSpots \in Nat \ {0}
                /\ StopCount \in Nat \ {0}

\* At most nspots threads wait on one spot: 10000 posts do for 10000 spots.
ASSUME EnoughPosts == ShutPosts \in Nat /\ ShutPosts >= NSpots

VARIABLES
  prog, clock,        \* the program, and whether it runs for --duration
  permits,            \* permits[s]: posts nobody has taken, or the channel's items
  pc,
  spot,               \* spot[t]: the spot t has picked
  skip, count,
  stop, threads_left,
  mpc, mi, mj         \* main's place and loop indices

setup == <<prog, clock>>
mainvars == <<stop, mpc, mi, mj>>
vars == <<setup, permits, pc, spot, skip, count, threads_left, mainvars>>

Labels == {"start", "loop", "sending", "take", "asleep", "check", "leave", "result", "done"}

\* Mutant of Skips: nobody leaves out a post.
SkipsNone(t) == FALSE

\* The threads that leave out their first post.
Skips(t) == prog # "go" /\ t < NSpots

Init ==
  /\ prog \in Programs
  /\ clock \in BOOLEAN
  /\ permits = [s \in Spots |-> 0]
  /\ pc = [t \in Threads |-> "start"]
  /\ spot = [t \in Threads |-> 0]
  /\ skip = [t \in Threads |-> Skips(t)]
  /\ count = [t \in Threads |-> 0]
  /\ stop = FALSE
  /\ threads_left = NThreads
  /\ mpc = "start" /\ mi = 0 /\ mj = 0

Go(t, label) == pc' = [pc EXCEPT ![t] = label]

Asleep(s) == {t \in Threads : pc[t] = "asleep" /\ spot[t] = s}
Sending(s) == {t \in Threads : pc[t] = "sending" /\ spot[t] = s}

\* A post, or a send for which there is room: it goes to a thread that waits, if there is
\* one.  pcs is pc with the poster moved on.
Give(s, pcs) ==
  \/ \E u \in Asleep(s) : pc' = [pcs EXCEPT ![u] = "check"] /\ UNCHANGED permits
  \/ /\ Asleep(s) = {}
     /\ pc' = pcs
     /\ permits' = [permits EXCEPT ![s] = @ + 1]

\* A permit or an item is taken; Go puts the item of a waiting sender in its place.
Remove(s, pcs) ==
  \/ \E u \in Sending(s) : pc' = [pcs EXCEPT ![u] = "take"] /\ UNCHANGED permits
  \/ /\ Sending(s) = {}
     /\ pc' = pcs
     /\ permits' = [permits EXCEPT ![s] = @ - 1]

Full(s) == prog = "go" /\ permits[s] = 1
-----------------------------------------------------------------------------
(* The main function of the threads *)

\* Main has let t start.
Started(t) == mpc # "start" \/ t < mi

Begin(t) ==
  /\ pc[t] = "start" /\ Started(t)
  /\ Go(t, "loop")
  /\ UNCHANGED <<setup, permits, spot, skip, count, threads_left, mainvars>>

\* Mutant of Post: every round of a thread that skips goes without a post.
PostNever(t) ==
  /\ pc[t] = "loop"
  /\ \E s \in Spots :
       /\ spot' = [spot EXCEPT ![t] = s]
       /\ IF Skips(t) THEN Go(t, "take") /\ UNCHANGED permits
          ELSE IF Full(s) THEN Go(t, "sending") /\ UNCHANGED permits
          ELSE Give(s, [pc EXCEPT ![t] = "take"])
  /\ UNCHANGED <<setup, skip, count, threads_left, mainvars>>

\* Mutant of Post: two items fit into a channel.
PostWide(t) ==
  /\ pc[t] = "loop"
  /\ \E s \in Spots :
       /\ spot' = [spot EXCEPT ![t] = s]
       /\ IF skip[t] THEN Go(t, "take") /\ UNCHANGED permits
          ELSE IF permits[s] = 2 THEN Go(t, "sending") /\ UNCHANGED permits
          ELSE Give(s, [pc EXCEPT ![t] = "take"])
  /\ UNCHANGED <<setup, skip, count, threads_left, mainvars>>

\* A spot is picked and posted, unless t leaves it out; a full channel makes t wait.
Post(t) ==
  /\ pc[t] = "loop"
  /\ \E s \in Spots :
       /\ spot' = [spot EXCEPT ![t] = s]
       /\ IF skip[t] THEN Go(t, "take") /\ UNCHANGED permits
          ELSE IF Full(s) THEN Go(t, "sending") /\ UNCHANGED permits
          ELSE Give(s, [pc EXCEPT ![t] = "take"])
  /\ UNCHANGED <<setup, skip, count, threads_left, mainvars>>

\* The wait on the spot, or the receive.
Wait(t) ==
  /\ pc[t] = "take"
  /\ \/ permits[spot[t]] > 0 /\ Remove(spot[t], [pc EXCEPT ![t] = "check"])
     \/ permits[spot[t]] = 0 /\ Go(t, "asleep") /\ UNCHANGED permits
  /\ UNCHANGED <<setup, spot, skip, count, threads_left, mainvars>>

\* Mutant of Over: a round too many.
OverLate(n) == IF clock THEN stop ELSE n > StopCount

\* The end of the loop after n rounds; a timed run does not look at n.
Over(n) == IF clock THEN stop ELSE n >= StopCount

Check(t) ==
  /\ pc[t] = "check"
  /\ skip' = [skip EXCEPT ![t] = FALSE]
  /\ count' = IF clock THEN count ELSE [count EXCEPT ![t] = @ + 1]
  /\ Go(t, IF Over(count[t] + 1) THEN "leave" ELSE "loop")
  /\ UNCHANGED <<setup, permits, spot, threads_left, mainvars>>

Leave(t) ==
  /\ pc[t] = "leave"
  /\ threads_left' = threads_left - 1
  /\ Go(t, IF prog = "go" THEN "result" ELSE "done")
  /\ UNCHANGED <<setup, permits, spot, skip, count, mainvars>>

Thread(t) == Begin(t) \/ Post(t) \/ Wait(t) \/ Check(t) \/ Leave(t)
-----------------------------------------------------------------------------
(* main() *)

\* The threads are started one by one, in Go all at once.
Start ==
  /\ mpc = "start"
  /\ IF prog = "go" \/ mi = NThreads - 1 THEN mpc' = "wait" /\ mi' = 0
     ELSE mpc' = mpc /\ mi' = mi + 1
  /\ UNCHANGED <<setup, permits, pc, spot, skip, count, stop, threads_left, mj>>

\* wait() returns, and main sets stop.
Stop ==
  /\ mpc = "wait"
  /\ clock \/ threads_left = 0
  /\ stop' = TRUE
  /\ mpc' = IF prog = "go" THEN "drain" ELSE "post"
  /\ UNCHANGED <<setup, permits, pc, spot, skip, count, threads_left, mi, mj>>

\* Mutant of ShutPost: one post for each semaphore.
ShutPostOnce ==
  /\ mpc = "post"
  /\ Give(mi, pc)
  /\ IF mi < NSpots - 1 THEN mpc' = mpc /\ mi' = mi + 1 ELSE mpc' = "join" /\ mi' = 0
  /\ UNCHANGED <<setup, spot, skip, count, threads_left, stop, mj>>

\* One of the posts of the two loops.
ShutPost ==
  /\ mpc = "post"
  /\ Give(mi, pc)
  /\ IF mj < ShutPosts - 1 THEN mj' = mj + 1 /\ UNCHANGED <<mpc, mi>>
     ELSE /\ mj' = 0
          /\ IF mi < NSpots - 1 THEN mpc' = mpc /\ mi' = mi + 1
             ELSE mpc' = "join" /\ mi' = 0
  /\ UNCHANGED <<setup, spot, skip, count, threads_left, stop>>

\* Go: another pass over the channels, until the threads have left ...
Drained == prog = "go" /\ mi = 0 /\ threads_left = 0

\* ... which receives what there is ...
Drain ==
  /\ mpc = "drain"
  /\ IF Drained THEN mpc' = "join" /\ UNCHANGED <<permits, pc>>
     ELSE /\ mpc' = "fill"
          /\ \/ permits[mi] > 0 /\ Remove(mi, pc)
             \/ permits[mi] = 0 /\ UNCHANGED <<permits, pc>>
  /\ UNCHANGED <<setup, spot, skip, count, threads_left, stop, mi, mj>>

\* ... and sends where there is room.
Fill ==
  /\ mpc = "fill"
  /\ IF Full(mi) THEN UNCHANGED <<permits, pc>> ELSE Give(mi, pc)
  /\ mpc' = "drain" /\ mi' = IF mi < NSpots - 1 THEN mi + 1 ELSE 0
  /\ UNCHANGED <<setup, spot, skip, count, threads_left, stop, mj>>

\* Join the next thread, or receive whichever result is ready.
Join(t) ==
  /\ mpc = "join"
  /\ \/ prog # "go" /\ t = mi /\ pc[t] = "done" /\ UNCHANGED pc
     \/ prog = "go" /\ pc[t] = "result" /\ Go(t, "done")
  /\ IF mi < NThreads - 1 THEN mpc' = mpc /\ mi' = mi + 1 ELSE mpc' = "done" /\ mi' = 0
  /\ UNCHANGED <<setup, permits, spot, skip, count, threads_left, stop, mj>>

Main == Start \/ Stop \/ ShutPost \/ Drain \/ Fill \/ \E t \in Threads : Join(t)

Ended == mpc = "done" /\ UNCHANGED vars

Next == Main \/ Ended \/ \E t \in Threads : Thread(t)

\* Every thread is scheduled.
Spec ==
  /\ Init /\ [][Next]_vars
  /\ WF_vars(Main) /\ \A t \in Threads : WF_vars(Thread(t))
-----------------------------------------------------------------------------
TypeOK ==
  /\ prog \in Programs /\ clock \in BOOLEAN
  /\ permits \in [Spots -> Nat]
  /\ pc \in [Threads -> Labels]
  /\ spot \in [Threads -> Spots]
  /\ skip \in [Threads -> BOOLEAN]
  /\ count \in [Threads -> 0..StopCount]
  /\ stop \in BOOLEAN
  /\ threads_left \in 0..NThreads
  /\ mpc \in {"start", "wait", "post", "drain", "fill", "join", "done"}
  /\ mi \in Threads \cup Spots /\ mj \in 0..ShutPosts - 1

Between == {t \in Threads : pc[t] = "take" /\ ~skip[t]}
Sleepers == {t \in Threads : pc[t] = "asleep"}
Skipped == {t \in Threads : Skips(t) /\ (~skip[t] \/ pc[t] \in {"asleep", "check"})}

\* The posts that nobody has taken, as pairs of a spot and a number.
Untaken == UNION {{s} \X (1..permits[s]) : s \in Spots}

\* Until main shuts down, what keeps threads asleep is the posts left out, one for each
\* thread that has done so: no post is lost on the way, and none is made twice.
PostsBalance ==
  ~stop =>
    Cardinality(Sleepers) + Cardinality(Between)
      = Cardinality(Untaken) + Cardinality(Skipped)

\* As long as more threads are left than there are spots, some of them can move: the spots
\* never hold them all, in timed runs and with --iterations.
SomeoneRuns ==
  LET Left == {t \in Threads : pc[t] \notin {"result", "done"}}
  IN ~stop /\ Cardinality(Left) > NSpots =>
       \E t \in Left : pc[t] \notin {"asleep", "sending"}

\* Go: until main drains them, the channels are mutexes: full exactly while one thread is
\* between its send and its receive, and no receive waits.
SpotsAreMutexes ==
  prog = "go" /\ ~stop =>
    \A s \in Spots :
      /\ permits[s] = Cardinality({t \in Threads : pc[t] = "take" /\ spot[t] = s})
      /\ permits[s] <= 1
      /\ Asleep(s) = {}
      /\ Sending(s) # {} => permits[s] = 1

\* Timed runs end, and Go's ends with --iterations too.
RunEnds == clock \/ prog = "go" => <>(mpc = "done")

\* "Number of iterations of the experiments" (rq_bench.hpp): such a run ends.
IterationRunEnds == ~clock => <>(mpc = "done")
=============================================================================
