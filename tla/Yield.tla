------------------------------- MODULE Yield -------------------------------
(***************************************************************************)
(* The yield benchmark, yield.cpp, yield.cfa, yield.go and yield.rs, with  *)
(* the time its wait() measures.  Threads yield and count until they have  *)
(* done so often enough or main sets stop; wait() of rq_bench.hpp,         *)
(* rq_bench.hfa and bench.go reads a clock after each sleep.  C++ and      *)
(* Cforall read CLOCK_REALTIME, which may be set while the benchmark runs; *)
(* Go and Tokio read a clock that cannot be set.                           *)
(*                                                                         *)
(* Time counts in half seconds from main's first reading; the clock is set *)
(* a bounded number of times, by no more than MaxSkew.                     *)
(***************************************************************************)
EXTENDS Integers, FiniteSets

CONSTANTS
  NThreads, StopCount,   \* --nthreads, --iterations
  Durations,             \* --duration, in half seconds
  Modulus,               \* uint64_t holds 0..Modulus - 1
  MaxTime, MaxSkew, MaxSets,
  Programs

Threads == 0..NThreads - 1

ASSUME Sizes == NThreads \in Nat \ {0} /\ StopCount \in Nat \ {0}
ASSUME Versions == Programs \subseteq {"cpp", "cfa", "go", "rs"}
ASSUME Clocks == /\ MaxTime \in Nat /\ MaxSkew \in Nat /\ MaxSets \in Nat
                 /\ \A d \in Durations : d \in Nat \ {0} /\ d + MaxSkew <= MaxTime
                 /\ Modulus \in Nat /\ Modulus > 2 * MaxTime

VARIABLES
  prog, clock_mode, duration,
  now,                \* the time that has passed
  skew, sets,         \* by how much the clock has been set, and how often
  pc, count,
  global_counter, threads_left, stop,
  mpc, mi             \* main's place and loop index

setup == <<prog, clock_mode, duration>>
time == <<now, skew, sets>>
mainvars == <<stop, mpc, mi>>
vars == <<setup, time, pc, count, global_counter, threads_left, mainvars>>

Init ==
  /\ prog \in Programs
  /\ clock_mode \in BOOLEAN /\ duration \in Durations
  /\ now = 0 /\ skew = 0 /\ sets = 0
  /\ pc = [t \in Threads |-> "start"]
  /\ count = [t \in Threads |-> 0]
  /\ global_counter = 0 /\ threads_left = NThreads /\ stop = FALSE
  /\ mpc = "unpark" /\ mi = 0

Go(t, label) == pc' = [pc EXCEPT ![t] = label]
-----------------------------------------------------------------------------
(* The clocks *)

Tick ==
  /\ now < MaxTime
  /\ now' = now + 1
  /\ UNCHANGED <<setup, skew, sets, pc, count, global_counter, threads_left, mainvars>>

\* Somebody sets the clock.
SetClock ==
  /\ sets < MaxSets
  /\ skew' \in -MaxSkew..MaxSkew \ {skew} /\ sets' = sets + 1
  /\ UNCHANGED <<setup, now, pc, count, global_counter, threads_left, mainvars>>

\* What a reading is past the first one: end - start is unsigned in C++, signed in Cforall.
Delta ==
  CASE prog = "cpp" -> (now + skew) % Modulus
    [] prog = "cfa" -> now + skew
    [] OTHER -> now

WholeSeconds == 2 * (duration \div 2)

\* Mutant of Limit: every program drops what is not a whole second.
LimitWhole == WholeSeconds

\* The time to run for, which Go has in whole seconds.
Limit == IF prog = "go" THEN WholeSeconds ELSE duration
-----------------------------------------------------------------------------
(* The main function of the threads *)

Begin(t) ==
  /\ pc[t] = "start" /\ (mpc # "unpark" \/ t < mi)
  /\ Go(t, "loop")
  /\ UNCHANGED <<setup, time, count, global_counter, threads_left, mainvars>>

\* Mutant of Over: a round too many.
OverLate(n) == IF clock_mode THEN stop ELSE n > StopCount

Over(n) == IF clock_mode THEN stop ELSE n >= StopCount

\* One yield.  The rounds of a timed run are counted up to StopCount.
Round(t) ==
  /\ pc[t] = "loop"
  /\ count' = [count EXCEPT ![t] = IF clock_mode /\ @ = StopCount THEN @ ELSE @ + 1]
  /\ IF Over(count[t] + 1) THEN Go(t, IF prog = "cpp" THEN "add" ELSE "leave")
     ELSE UNCHANGED pc
  /\ UNCHANGED <<setup, time, global_counter, threads_left, mainvars>>

\* Mutant of Add: the count replaces that of the others.
AddReplaces(t) ==
  /\ pc[t] = "add"
  /\ global_counter' = count[t]
  /\ Go(t, "leave")
  /\ UNCHANGED <<setup, time, count, threads_left, mainvars>>

\* C++: a thread adds up its own count.
Add(t) ==
  /\ pc[t] = "add"
  /\ global_counter' = global_counter + count[t]
  /\ Go(t, "leave")
  /\ UNCHANGED <<setup, time, count, threads_left, mainvars>>

Leave(t) ==
  /\ pc[t] = "leave"
  /\ threads_left' = threads_left - 1
  /\ Go(t, IF prog = "go" THEN "result" ELSE "done")
  /\ UNCHANGED <<setup, time, count, global_counter, mainvars>>

Thread(t) == Begin(t) \/ Round(t) \/ Add(t) \/ Leave(t)
-----------------------------------------------------------------------------
(* main() *)

\* The threads are released one by one, in Go all at once.
Unpark ==
  /\ mpc = "unpark"
  /\ IF prog = "go" \/ mi = NThreads - 1 THEN mpc' = "wait" /\ mi' = 0
     ELSE mpc' = mpc /\ mi' = mi + 1
  /\ UNCHANGED <<setup, time, pc, count, global_counter, threads_left, stop>>

\* wait() finds the run over after a sleep.
Poll ==
  /\ mpc = "wait"
  /\ IF clock_mode THEN Delta >= Limit ELSE threads_left = 0
  /\ mpc' = "stop"
  /\ UNCHANGED <<setup, time, pc, count, global_counter, threads_left, stop, mi>>

\* Mutant of Stop: main goes on to the joins without a word to the threads.
StopForgotten ==
  /\ mpc = "stop"
  /\ mpc' = "join"
  /\ UNCHANGED <<setup, time, pc, count, global_counter, threads_left, stop, mi>>

Stop ==
  /\ mpc = "stop"
  /\ stop' = TRUE
  /\ mpc' = "join"
  /\ UNCHANGED <<setup, time, pc, count, global_counter, threads_left, mi>>

\* The next thread is joined, in Go one whose result is ready; but for C++ main adds up.
Join(t) ==
  /\ mpc = "join"
  /\ \/ prog # "go" /\ t = mi /\ pc[t] = "done" /\ UNCHANGED pc
     \/ prog = "go" /\ pc[t] = "result" /\ Go(t, "done")
  /\ global_counter' = IF prog = "cpp" THEN global_counter ELSE global_counter + count[t]
  /\ IF mi < NThreads - 1 THEN mpc' = mpc /\ mi' = mi + 1 ELSE mpc' = "done" /\ mi' = 0
  /\ UNCHANGED <<setup, time, count, threads_left, stop>>

Main == Unpark \/ Poll \/ Stop \/ \E t \in Threads : Join(t)

Ended == mpc = "done" /\ UNCHANGED vars

Next == Tick \/ SetClock \/ Main \/ Ended \/ \E t \in Threads : Thread(t)

\* Time passes and every thread is scheduled, as they give up the processor themselves.
Spec ==
  /\ Init /\ [][Next]_vars
  /\ WF_vars(Tick) /\ WF_vars(Main) /\ \A t \in Threads : WF_vars(Thread(t))
-----------------------------------------------------------------------------
TypeOK ==
  /\ prog \in Programs /\ clock_mode \in BOOLEAN /\ duration \in Durations
  /\ now \in 0..MaxTime /\ skew \in -MaxSkew..MaxSkew /\ sets \in 0..MaxSets
  /\ pc \in [Threads -> {"start", "loop", "add", "leave", "result", "done"}]
  /\ count \in [Threads -> 0..StopCount]
  /\ global_counter \in Nat /\ threads_left \in Int /\ stop \in BOOLEAN
  /\ mpc \in {"unpark", "wait", "stop", "join", "done"} /\ mi \in Threads

\* "Duration of the experiments in seconds", "Number of iterations of the experiments"
\* (rq_bench.hpp): a timed run is not stopped before its time, unless the clock is set
\* while it runs or a Go program was asked for a fraction of a second; a run of iterations
\* not before every thread has left.
LastsAsAsked ==
  [][~stop /\ stop' =>
       IF clock_mode
       THEN \/ now >= duration
            \/ prog \in {"cpp", "cfa"} /\ sets > 0
            \/ prog = "go" /\ now >= WholeSeconds
       ELSE \A t \in Threads : pc[t] \in {"result", "done"}]_vars

\* The yields that the threads of S have counted, as pairs of a thread and a number.
Yields(S) == {y \in S \X (1..StopCount) : y[2] <= count[y[1]]}

\* --iterations for each thread; in C++ complete by the time threads_left tells main that
\* the run is over.
AsManyAsAsked ==
  ~clock_mode /\ (mpc = "done" \/ (prog = "cpp" /\ mpc \in {"stop", "join"})) =>
    global_counter = NThreads * StopCount

\* What the report gives as operations is what the threads counted, none of it lost or
\* added twice, and with --iterations it is what was asked for.
OpsExact == AsManyAsAsked /\ (mpc = "done" => global_counter = Cardinality(Yields(Threads)))

\* Every run ends, whatever happens to the clock.
RunEnds == <>(mpc = "done")
=============================================================================
