-------------------------------- MODULE Cycle --------------------------------
(***************************************************************************)
(* The cycle benchmark in its five forms (cycle.cpp, cycle.cc, cycle.cfa,  *)
(* cycle.go, cycle.rs).  nthreads rings of ring_size partners each pass    *)
(* one token around: a partner waits on its own semaphore, posts the next  *)
(* one's, and counts.  Partner i is followed by (i + nthreads) % tthreads. *)
(*                                                                         *)
(* prog and clock_mode are fixed at the start.  cpp and cfa use bench_sem, *)
(* cc and rs counting semaphores, and go channels of capacity one with     *)
(* non-blocking sends, which wake and remember like bench_sem: once.       *)
(***************************************************************************)
EXTENDS Integers, FiniteSets

CONSTANTS
  NRings,      \* --nthreads
  RingSize,    \* --ringsize
  StopCount,   \* --iterations
  Programs, ClockModes

ASSUME Sizes == NRings \in Nat \ {0} /\ RingSize \in Nat \ {0} /\ StopCount \in Nat \ {0}

TThreads == NRings * RingSize
Threads == 0..TThreads - 1

\* The mistake of posting every partner at the start, and the partners that are posted.
StartAll == TThreads
Started == NRings

\* thddata[i].next
NextOf(t) == (t + NRings) % TThreads

VARIABLES
  prog, clock_mode,
  pc, sem,        \* sem[t]: posts on t's semaphore, or messages in its channel
  count,          \* count[t]: rounds, counted in iteration mode only
  threads_left, stop,
  aborted,        \* the pthread program has called abort()
  mpc, mi         \* main's place and loop index

vars == <<prog, clock_mode, pc, sem, count, threads_left, stop, aborted, mpc, mi>>
mainvars == <<stop, mpc, mi>>

Binary == prog \in {"cpp", "cfa", "go"}
Labels == {"wait", "asleep", "hold", "check", "value", "exit", "send", "done"}

Init ==
  /\ prog \in Programs
  /\ clock_mode \in ClockModes
  /\ pc = [t \in Threads |-> "wait"]
  /\ sem = [t \in Threads |-> 0]
  /\ count = [t \in Threads |-> 0]
  /\ threads_left = TThreads
  /\ stop = FALSE /\ aborted = FALSE
  /\ mpc = "start" /\ mi = 0

\* A post wakes the sleeper or is remembered; pcs is pc with the poster moved on.
Post(u, pcs) ==
  \/ /\ pcs[u] = "asleep"
     /\ pc' = [pcs EXCEPT ![u] = "hold"]
     /\ UNCHANGED sem
  \/ /\ pcs[u] # "asleep"
     /\ pc' = pcs
     /\ sem' = [sem EXCEPT ![u] = IF Binary THEN 1 ELSE @ + 1]
-----------------------------------------------------------------------------
(* partner_main() *)

\* self->self.wait(): t takes the token, or sleeps until it comes.
Await(t) ==
  /\ pc[t] = "wait"
  /\ \/ /\ sem[t] > 0
        /\ sem' = [sem EXCEPT ![t] = @ - 1]
        /\ pc' = [pc EXCEPT ![t] = "hold"]
     \/ /\ sem[t] = 0
        /\ pc' = [pc EXCEPT ![t] = "asleep"]
        /\ UNCHANGED sem
  /\ UNCHANGED <<prog, clock_mode, count, threads_left, aborted, mainvars>>

\* self->next->post()
Pass(t) ==
  /\ pc[t] = "hold"
  /\ Post(NextOf(t), [pc EXCEPT ![t] = "check"])
  /\ UNCHANGED <<prog, clock_mode, count, threads_left, aborted, mainvars>>

\* Mutant of Over: one round too many.
OverLate(t) == IF clock_mode THEN stop ELSE count[t] >= StopCount

\* Whether the round t is finishing is its last.
Over(t) == IF clock_mode THEN stop ELSE count[t] + 1 >= StopCount

\* count++, and on to the next round unless the experiment is over.
Check(t) ==
  /\ pc[t] = "check"
  /\ count' = IF clock_mode THEN count ELSE [count EXCEPT ![t] = @ + 1]
  /\ pc' = [pc EXCEPT ![t] = IF Over(t) THEN "exit"
                             ELSE IF prog = "cc" THEN "value" ELSE "wait"]
  /\ UNCHANGED <<prog, clock_mode, sem, threads_left, aborted, mainvars>>

\* The pthread partner looks at its semaphore, and aborts if it holds two posts.
Value(t) ==
  /\ pc[t] = "value"
  /\ aborted' = (sem[t] > 1)
  /\ pc' = [pc EXCEPT ![t] = "wait"]
  /\ UNCHANGED <<prog, clock_mode, sem, count, threads_left, mainvars>>

Exit(t) ==
  /\ pc[t] = "exit"
  /\ threads_left' = threads_left - 1
  /\ pc' = [pc EXCEPT ![t] = IF prog = "go" THEN "send" ELSE "done"]
  /\ UNCHANGED <<prog, clock_mode, sem, count, aborted, mainvars>>

FibrePartner(t) == prog = "cpp" /\ (Await(t) \/ Pass(t) \/ Check(t) \/ Exit(t))
PthreadPartner(t) == prog = "cc" /\ (Await(t) \/ Pass(t) \/ Check(t) \/ Value(t) \/ Exit(t))
CfaPartner(t) == prog = "cfa" /\ (Await(t) \/ Pass(t) \/ Check(t) \/ Exit(t))
GoPartner(t) == prog = "go" /\ (Await(t) \/ Pass(t) \/ Check(t) \/ Exit(t))
TokioPartner(t) == prog = "rs" /\ (Await(t) \/ Pass(t) \/ Check(t) \/ Exit(t))

Partner(t) ==
  /\ ~aborted
  /\ FibrePartner(t) \/ PthreadPartner(t) \/ CfaPartner(t) \/ GoPartner(t) \/ TokioPartner(t)
-----------------------------------------------------------------------------
(* main() *)

threadvars == <<prog, clock_mode, count, threads_left, aborted>>

\* thddata[i].self.post() for the first partner of every ring.  In Go this send would
\* block on a full channel.
StartPost ==
  /\ mpc = "start"
  /\ prog = "go" => sem[mi] = 0
  /\ Post(mi, pc)
  /\ IF mi + 1 = Started THEN mpc' = "wait" /\ mi' = 0 ELSE mpc' = mpc /\ mi' = mi + 1
  /\ UNCHANGED <<threadvars, stop>>

\* wait(): the clock may come, or main sees threads_left at zero.
Poll ==
  /\ mpc = "wait"
  /\ clock_mode \/ threads_left = 0
  /\ mpc' = "stop"
  /\ UNCHANGED <<threadvars, pc, sem, mi, stop>>

\* Mutant of Stop: the partners are not told.
StopForgotten ==
  /\ mpc = "stop"
  /\ mpc' = "shut"
  /\ UNCHANGED <<threadvars, pc, sem, mi, stop>>

Stop ==
  /\ mpc = "stop"
  /\ stop' = TRUE
  /\ mpc' = "shut"
  /\ UNCHANGED <<threadvars, pc, sem, mi>>

\* thddata[i].self.post(); Tokio posts all before it joins.
ShutPost ==
  /\ mpc = "shut"
  /\ Post(mi, pc)
  /\ IF prog # "rs" THEN mpc' = "join" /\ mi' = mi
     ELSE IF mi + 1 = TThreads THEN mpc' = "join" /\ mi' = 0
     ELSE mpc' = mpc /\ mi' = mi + 1
  /\ UNCHANGED <<threadvars, stop>>

\* What main does once partner mi, or the mi-th result, is in.
Joined ==
  IF mi + 1 = TThreads THEN mpc' = "done" /\ mi' = 0
  ELSE mpc' = (IF prog = "rs" THEN "join" ELSE "shut") /\ mi' = mi + 1

Join ==
  /\ mpc = "join"
  /\ pc[mi] = "done"
  /\ Joined
  /\ UNCHANGED <<threadvars, pc, sem, stop>>

\* Go receives whichever result comes next.
Collect(t) ==
  /\ mpc = "join"
  /\ pc[t] = "send"
  /\ pc' = [pc EXCEPT ![t] = "done"]
  /\ Joined
  /\ UNCHANGED <<threadvars, sem, stop>>

FibreMain == prog = "cpp" /\ (StartPost \/ Poll \/ Stop \/ ShutPost \/ Join)
PthreadMain == prog = "cc" /\ (StartPost \/ Poll \/ Stop \/ ShutPost \/ Join)
CfaMain == prog = "cfa" /\ (StartPost \/ Poll \/ Stop \/ ShutPost \/ Join)
GoMain ==
  /\ prog = "go"
  /\ StartPost \/ Poll \/ Stop \/ ShutPost \/ \E t \in Threads : Collect(t)
TokioMain == prog = "rs" /\ (StartPost \/ Poll \/ Stop \/ ShutPost \/ Join)

Main == ~aborted /\ (FibreMain \/ PthreadMain \/ CfaMain \/ GoMain \/ TokioMain)

Ended == (mpc = "done" \/ aborted) /\ UNCHANGED vars

Next == Main \/ Ended \/ \E t \in Threads : Partner(t)

Spec == Init /\ [][Next]_vars /\ WF_vars(Main) /\ \A t \in Threads : WF_vars(Partner(t))
-----------------------------------------------------------------------------
TypeOK ==
  /\ prog \in Programs /\ clock_mode \in ClockModes
  /\ pc \in [Threads -> Labels]
  /\ sem \in [Threads -> Nat]
  /\ count \in [Threads -> 0..StopCount]
  /\ threads_left \in 0..TThreads
  /\ stop \in BOOLEAN /\ aborted \in BOOLEAN
  /\ mpc \in {"start", "wait", "stop", "shut", "join", "done"}
  /\ mi \in Threads

Ring(t) == t % NRings

\* Partners of ring r that the token is at.
Holders(r) == {t \in Threads : Ring(t) = r /\ (pc[t] = "hold" \/ sem[t] > 0)}

\* Until main stops the run, a ring whose first partner has been posted has one token,
\* at one place: none is dropped by a post that finds another (bench_sem, Go's
\* non-blocking send), and none is made.
OneTokenPerRing ==
  ~stop =>
    \A r \in 0..NRings - 1 :
      IF mpc = "start" /\ r >= mi THEN Holders(r) = {}
      ELSE \E t \in Threads :
             /\ Holders(r) = {t}
             /\ sem[t] = (IF pc[t] = "hold" THEN 0 ELSE 1)

\* Rounds t has passed the token in.
Rounds(t) == count[t] + (IF pc[t] = "check" THEN 1 ELSE 0)

\* No partner laps another: along a ring the rounds fall by at most one, from the
\* partner main posted to the last.  Until the shutdown posts bring more tokens.
RoundsInStep ==
  ~clock_mode /\ ~stop =>
    \A t \in Threads :
      /\ t + NRings < TThreads => Rounds(t) - Rounds(t + NRings) \in 0..1
      /\ Rounds(Ring(t)) - Rounds(t) \in 0..1

\* --iterations: every partner makes exactly that many rounds, in all five programs.
IterationsExact ==
  ~clock_mode /\ (stop \/ threads_left = 0) => \A t \in Threads : count[t] = StopCount

\* The pthread program's check of its semaphores can fail only because of the posts of
\* the shutdown.
AbortOnlyAtShutdown == aborted => stop /\ clock_mode

\* Every run ends, unless the pthread program aborts.
RunEnds == <>(mpc = "done" \/ aborted)

\* "if(sval > 1) std::abort();" (cycle.cc): no partner ever holds two posts.
NeverTwoPosts == ~aborted
=============================================================================
