------------------------------ MODULE BenchSem ------------------------------
(***************************************************************************)
(* bench_sem, the semaphore the libfibre and CFA benchmarks block on       *)
(* (src/rq_bench.hpp, and line for line the same in src/rq_bench.hfa).     *)
(* One atomic word per semaphore holds null, "ready" (the value 1) or the  *)
(* waiting fibre.  Each load, each compare-and-swap, each park and each    *)
(* unpark is a step, so posters and the waiter interleave everywhere.      *)
(*                                                                         *)
(* Fibre f owns semaphore f: only f waits on it, as in every benchmark.    *)
(* Any fibre may post on any semaphore, its own included (a ring of one).  *)
(***************************************************************************)
EXTENDS Naturals

CONSTANTS Fibres, Null, Ready

ASSUME Distinct == Null \notin Fibres /\ Ready \notin Fibres /\ Null # Ready

VARIABLES
  ptr,       \* ptr[f]: the word of semaphore f
  pc,        \* pc[f]: where fibre f is in wait() or post(), "run" outside both
  expected,  \* expected[f]: the local of wait() and post()
  target,    \* target[f]: the semaphore fibre f is posting on
  token      \* token[f]: unparks of f that its park has not consumed (external)

vars == <<ptr, pc, expected, target, token>>

Labels == {"run", "wload", "wcas", "park", "pload", "pcas", "unpark"}

Init ==
  /\ ptr = [f \in Fibres |-> Null]
  /\ pc = [f \in Fibres |-> "run"]
  /\ expected = [f \in Fibres |-> Null]
  /\ target = [f \in Fibres |-> f]
  /\ token = [f \in Fibres |-> 0]

At(f, label) == pc[f] = label
Go(f, label) == pc' = [pc EXCEPT ![f] = label]
-----------------------------------------------------------------------------
(* bool bench_sem::wait() *)

CallWait(f) ==
  /\ At(f, "run")
  /\ Go(f, "wload")
  /\ UNCHANGED <<ptr, expected, target, token>>

WaitLoad(f) ==
  /\ At(f, "wload")
  /\ expected' = [expected EXCEPT ![f] = ptr[f]]
  /\ Go(f, "wcas")
  /\ UNCHANGED <<ptr, target, token>>

\* Mutant of WaitCas: the fibre is stored without comparing first.
WaitStore(f) ==
  /\ At(f, "wcas")
  /\ \/ /\ expected[f] = Ready
        /\ ptr' = [ptr EXCEPT ![f] = Null]
        /\ Go(f, "run")
     \/ /\ expected[f] # Ready
        /\ ptr' = [ptr EXCEPT ![f] = f]
        /\ Go(f, "park")
  /\ UNCHANGED <<expected, target, token>>

\* The swap takes a remembered post and returns, or seats the fibre and goes on
\* to park; when the word has changed since the load, the loop starts over.
WaitCas(f) ==
  /\ At(f, "wcas")
  /\ \/ /\ ptr[f] = expected[f] /\ expected[f] = Ready
        /\ ptr' = [ptr EXCEPT ![f] = Null]
        /\ Go(f, "run")
     \/ /\ ptr[f] = expected[f] /\ expected[f] # Ready
        /\ ptr' = [ptr EXCEPT ![f] = f]
        /\ Go(f, "park")
     \/ /\ ptr[f] # expected[f]
        /\ Go(f, "wload")
        /\ UNCHANGED ptr
  /\ UNCHANGED <<expected, target, token>>

\* fibre_park(): blocks until an unpark; one that came first is not lost.
Park(f) ==
  /\ At(f, "park")
  /\ token[f] > 0
  /\ token' = [token EXCEPT ![f] = @ - 1]
  /\ Go(f, "run")
  /\ UNCHANGED <<ptr, expected, target>>
-----------------------------------------------------------------------------
(* bool bench_sem::post() *)

CallPost(f, g) ==
  /\ At(f, "run")
  /\ target' = [target EXCEPT ![f] = g]
  /\ Go(f, "pload")
  /\ UNCHANGED <<ptr, expected, token>>

\* A post that finds another one remembered returns at once.
PostLoad(f) ==
  /\ At(f, "pload")
  /\ expected' = [expected EXCEPT ![f] = ptr[target[f]]]
  /\ Go(f, IF ptr[target[f]] = Ready THEN "run" ELSE "pcas")
  /\ UNCHANGED <<ptr, target, token>>

\* Mutants of PostCas: a store without comparing first; a fibre that is unparked but
\* left in the word; and one taken out but never unparked.
PostStore(f) ==
  LET g == target[f] IN
  /\ At(f, "pcas")
  /\ ptr' = [ptr EXCEPT ![g] = IF expected[f] = Null THEN Ready ELSE Null]
  /\ Go(f, IF expected[f] = Null THEN "run" ELSE "unpark")
  /\ UNCHANGED <<expected, target, token>>

PostKeepsFibre(f) ==
  LET g == target[f] IN
  /\ At(f, "pcas")
  /\ ptr' = IF ptr[g] = Null /\ expected[f] = Null THEN [ptr EXCEPT ![g] = Ready] ELSE ptr
  /\ Go(f, IF ptr[g] # expected[f] THEN "pload" ELSE IF expected[f] = Null THEN "run" ELSE "unpark")
  /\ UNCHANGED <<expected, target, token>>

PostForgetsUnpark(f) ==
  LET g == target[f] IN
  /\ At(f, "pcas")
  /\ ptr' = IF ptr[g] # expected[f] THEN ptr
            ELSE [ptr EXCEPT ![g] = IF expected[f] = Null THEN Ready ELSE Null]
  /\ Go(f, IF ptr[g] # expected[f] THEN "pload" ELSE "run")
  /\ UNCHANGED <<expected, target, token>>

PostCas(f) ==
  LET g == target[f] IN
  /\ At(f, "pcas")
  /\ \/ /\ ptr[g] = expected[f] /\ expected[f] = Null
        /\ ptr' = [ptr EXCEPT ![g] = Ready]
        /\ Go(f, "run")
     \/ /\ ptr[g] = expected[f] /\ expected[f] # Null
        /\ ptr' = [ptr EXCEPT ![g] = Null]
        /\ Go(f, "unpark")
     \/ /\ ptr[g] # expected[f]
        /\ Go(f, "pload")
        /\ UNCHANGED ptr
  /\ UNCHANGED <<expected, target, token>>

\* fibre_unpark( expected )
Unpark(f) ==
  /\ At(f, "unpark")
  /\ token' = [token EXCEPT ![expected[f]] = @ + 1]
  /\ Go(f, "run")
  /\ UNCHANGED <<ptr, expected, target>>
-----------------------------------------------------------------------------
Step(f) ==
  \/ WaitLoad(f) \/ WaitCas(f) \/ Park(f)
  \/ PostLoad(f) \/ PostCas(f) \/ Unpark(f)

Next == \E f \in Fibres : CallWait(f) \/ Step(f) \/ \E g \in Fibres : CallPost(f, g)

\* A fibre inside wait() or post() is scheduled until it leaves it, unless parked.
Spec == Init /\ [][Next]_vars /\ \A f \in Fibres : WF_vars(Step(f))
-----------------------------------------------------------------------------
TypeOK ==
  /\ ptr \in [Fibres -> Fibres \cup {Null, Ready}]
  /\ pc \in [Fibres -> Labels]
  /\ expected \in [Fibres -> Fibres \cup {Null, Ready}]
  /\ target \in [Fibres -> Fibres]
  /\ token \in [Fibres -> 0..1]

\* The fibres that took f out of its semaphore and have yet to unpark it.
Wakers(f) == {g \in Fibres : At(g, "unpark") /\ expected[g] = f}

\* f is out of its semaphore and has not resumed: it was granted a post.
Granted(f) == At(f, "park") /\ ptr[f] # f

\* No lost wake-up: a parked fibre that is no longer in its semaphore word has an
\* unpark under way or delivered (rq_bench.hpp wait() parks after the swap, so the
\* poster may unpark it before it parks).
NoLostWakeup == \A f \in Fibres : Granted(f) => token[f] = 1 \/ Wakers(f) # {}

\* Every unpark meets one park: a fibre is never unparked twice, nor unparked when it
\* does not park (the CFA kernel aborts on either).
UnparkOnce ==
  \A f \in Fibres :
    /\ Wakers(f) # {} => Granted(f) /\ token[f] = 0
    /\ token[f] = 1 => Granted(f)
    /\ \A g, h \in Wakers(f) : g = h

\* The "paranoid" assertion of wait(): a fibre never finds a fibre in its own
\* semaphore, and a remembered post it has seen cannot be taken from it, so
\* the loop of wait() runs at most twice.
WaitSeesNoFibre ==
  \A f \in Fibres :
    At(f, "wcas") =>
      /\ expected[f] \in {Null, Ready}
      /\ expected[f] = Ready => ptr[f] = Ready

\* The word holds only its owner, and only while the owner is going to park.
WordHoldsOwner ==
  \A f \in Fibres : ptr[f] \in {Null, Ready} \/ (ptr[f] = f /\ At(f, "park"))

\* bench_sem implements the hand-off semaphore.
Handoff == INSTANCE HandoffSem WITH
  avail <- {f \in Fibres : ptr[f] = Ready},
  owner <- [f \in Fibres |-> IF ptr[f] = f THEN "waiting"
                             ELSE IF At(f, "park") THEN "granted" ELSE "out"]

\* Every behaviour of the code is one of HandoffSem, liveness included: posts are
\* handed over or remembered, never both, and a granted fibre returns from wait().
ImplementsHandoff == Handoff!Spec
=============================================================================
