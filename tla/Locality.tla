------------------------------ MODULE Locality ------------------------------
(***************************************************************************)
(* The locality benchmark in its five forms: libfibre (locality.cpp),      *)
(* pthreads (locality.cc), Cforall (locality.cfa), Go (locality.go) and    *)
(* Tokio (locality.rs).  NThreads threads work on an array each, then sit  *)
(* down in a random spot: a thread that finds somebody in the seat takes   *)
(* the seat over, gives the sitter its array when sharing, wakes the       *)
(* sitter and sleeps in its place.                                         *)
(*                                                                         *)
(* prog, nprocs, clock_mode and share are fixed at the start, so one run   *)
(* checks several programs in both modes.  They differ in the semaphore a  *)
(* thread sleeps on, in how they start, and in how main ends them: the     *)
(* three C ones post every semaphore and join, Go and Tokio close every    *)
(* seat first.  A load and the compare-and-swap it feeds are one step (a   *)
(* failed swap starts over); everything else that another thread can see   *)
(* is a step of its own.                                                   *)
(***************************************************************************)
EXTENDS Integers, FiniteSets

CONSTANTS
  NThreads, NSpots,
  Procs,       \* the --nprocs to check of the programs that count with it
  StopCount,   \* --iterations
  Programs,    \* the programs to check, out of {"cpp", "cc", "cfa", "go", "rs"}
  ClockModes,  \* the modes to check, out of BOOLEAN
  Null,        \* the null seat
  One          \* the closed seat, MySpot::one()

Threads == 1..NThreads
Spots == 1..NSpots

ASSUME Counts ==
  NThreads \in Nat \ {0} /\ NSpots \in Nat \ {0} /\ Procs \subseteq Nat /\ StopCount \in Nat
ASSUME Markers == Null # One /\ Null \notin Threads /\ One \notin Threads
ASSUME Choices == Programs \subseteq {"cpp", "cc", "cfa", "go", "rs"} /\ ClockModes \subseteq BOOLEAN

VARIABLES
  prog, nprocs, clock_mode, share,
  seat,          \* seat[s]: MySpot::ptr
  pc,            \* pc[t]: where thread t is
  sem,           \* sem[t]: posts on t's semaphore that t has not consumed
  victim,        \* victim[t]: the thread t has taken the seat of and must wake
  d,             \* d[t]: the array in t's context
  held,          \* held[t]: the array t gives away in put(); in Go and Tokio t works on it
  count,         \* count[t]: result.count, counted in iteration mode only
  threads_left, stop,
  mpc, mi,       \* main's place and loop index
  mvictim        \* the sitter main took out of a seat and must wake

setup == <<prog, nprocs, clock_mode, share>>
spotvars == <<seat, victim, d, held>>
mainvars == <<mpc, mi, mvictim, stop>>
vars == <<setup, spotvars, pc, sem, count, threads_left, mainvars>>

Binary == prog \in {"cpp", "cfa"}     \* bench_sem keeps one post, the others count
Releasing == prog \in {"go", "rs"}    \* main closes the seats
Asleep == {"startasleep", "asleep"}
InPut == {"give", "post", "wait", "asleep"}
Labels == {"start", "startasleep", "work", "give", "post", "wait", "asleep",
           "check", "exit", "send", "done"}

\* Only Cforall and Tokio count with --nprocs, whatever --nspots is.  The others are taken
\* to be called without --nspots, which is then nthreads - nprocs.
CountsProcs == prog \in {"cfa", "rs"}
NProcs == IF CountsProcs THEN Procs ELSE {NThreads - NSpots}

\* Mutant of ActiveThreads: off by one.
ActiveOffByOne == NThreads - NSpots - 1

\* What threads_left starts at: the threads that can be active at once.
ActiveThreads == IF CountsProcs THEN nprocs ELSE NThreads - NSpots

Init ==
  /\ prog \in Programs
  /\ nprocs \in NProcs
  /\ clock_mode \in ClockModes
  /\ share \in BOOLEAN
  /\ seat = [s \in Spots |-> Null]
  /\ pc = [t \in Threads |-> "start"]
  /\ sem = [t \in Threads |-> 0]
  /\ victim = [t \in Threads |-> Null]
  /\ d = [t \in Threads |-> t]
  /\ held = d
  /\ count = [t \in Threads |-> 0]
  /\ threads_left = ActiveThreads
  /\ stop = FALSE
  /\ mpc = "start" /\ mi = 1
  /\ mvictim = Null
-----------------------------------------------------------------------------
(* The semaphore of a context, on which only its thread waits. *)

\* A post wakes the sleeper, or is remembered: once by bench_sem, always by sem_t
\* and by the semaphores of Go and Tokio.  pcs is pc with the poster moved on.
Post(u, pcs) ==
  \/ /\ pcs[u] \in Asleep
     /\ pc' = [pcs EXCEPT ![u] = IF @ = "asleep" THEN "check" ELSE "work"]
     /\ UNCHANGED sem
  \/ /\ pcs[u] \notin Asleep
     /\ pc' = pcs
     /\ sem' = [sem EXCEPT ![u] = IF Binary THEN 1 ELSE @ + 1]

\* t waits: it takes a remembered post and goes on to next, or falls asleep.
Wait(t, next, sleep) ==
  \/ /\ sem[t] > 0
     /\ sem' = [sem EXCEPT ![t] = @ - 1]
     /\ pc' = [pc EXCEPT ![t] = next]
  \/ /\ sem[t] = 0
     /\ pc' = [pc EXCEPT ![t] = sleep]
     /\ UNCHANGED sem
-----------------------------------------------------------------------------
(* MySpot::put() *)

\* put() finds the seat closed.
FindClosed(t, s) ==
  /\ pc[t] = "work"
  /\ seat[s] = One
  /\ pc' = [pc EXCEPT ![t] = "exit"]
  /\ UNCHANGED <<setup, spotvars, sem, count, threads_left, mainvars>>

\* Mutants of Take: the wake-up is skipped when nothing is shared; the sitter is woken
\* but its seat not taken.
TakeWakesIfSharing(t, s) ==
  /\ pc[t] = "work"
  /\ seat[s] # One
  /\ seat' = [seat EXCEPT ![s] = t]
  /\ victim' = IF share THEN [victim EXCEPT ![t] = seat[s]] ELSE victim
  /\ held' = IF Releasing \/ ~share \/ seat[s] = Null THEN held ELSE [held EXCEPT ![t] = d[t]]
  /\ pc' = [pc EXCEPT ![t] = IF seat[s] # Null /\ share THEN "give" ELSE "wait"]
  /\ UNCHANGED <<setup, d, sem, count, threads_left, mainvars>>

TakeLeavesSitter(t, s) ==
  /\ pc[t] = "work"
  /\ seat[s] # One
  /\ seat' = IF seat[s] = Null THEN [seat EXCEPT ![s] = t] ELSE seat
  /\ victim' = [victim EXCEPT ![t] = seat[s]]
  /\ held' = IF Releasing \/ ~share \/ seat[s] = Null THEN held ELSE [held EXCEPT ![t] = d[t]]
  /\ pc' = [pc EXCEPT ![t] = IF seat[s] = Null THEN "wait"
                             ELSE IF share THEN "give" ELSE "post"]
  /\ UNCHANGED <<setup, d, sem, count, threads_left, mainvars>>

\* The swap of put(): t is in the seat, whoever sat there is t's to wake.
Take(t, s) ==
  /\ pc[t] = "work"
  /\ seat[s] # One
  /\ seat' = [seat EXCEPT ![s] = t]
  /\ victim' = [victim EXCEPT ![t] = seat[s]]
  /\ held' = IF Releasing \/ ~share \/ seat[s] = Null THEN held ELSE [held EXCEPT ![t] = d[t]]
  /\ pc' = [pc EXCEPT ![t] = IF seat[s] = Null THEN "wait"
                             ELSE IF share THEN "give" ELSE "post"]
  /\ UNCHANGED <<setup, d, sem, count, threads_left, mainvars>>

\* Mutant of Give: the array is read from the context, where another thread may have put
\* its own.
GiveFromContext(t) ==
  /\ pc[t] = "give"
  /\ d' = [d EXCEPT ![victim[t]] = d[t]]
  /\ held' = IF Releasing THEN held ELSE [held EXCEPT ![t] = t]
  /\ pc' = [pc EXCEPT ![t] = "post"]
  /\ UNCHANGED <<setup, seat, victim, sem, count, threads_left, mainvars>>

\* expected->data = data; in the C programs the argument is dead after that.
Give(t) ==
  /\ pc[t] = "give"
  /\ d' = [d EXCEPT ![victim[t]] = held[t]]
  /\ held' = IF Releasing THEN held ELSE [held EXCEPT ![t] = t]
  /\ pc' = [pc EXCEPT ![t] = "post"]
  /\ UNCHANGED <<setup, seat, victim, sem, count, threads_left, mainvars>>

\* expected->sem.post()
PostVictim(t) ==
  /\ pc[t] = "post"
  /\ Post(victim[t], [pc EXCEPT ![t] = "wait"])
  /\ victim' = [victim EXCEPT ![t] = Null]
  /\ UNCHANGED <<setup, seat, d, held, count, threads_left, mainvars>>

\* ctx.sem.wait()
Sit(t) ==
  /\ pc[t] = "wait"
  /\ Wait(t, "check", "asleep")
  /\ UNCHANGED <<setup, spotvars, count, threads_left, mainvars>>

\* The random spots.  __xorshift64() never leaves the state 0, which is what the first
\* thread of the libfibre and pthread programs, the one with id 0, starts from.
Picks(t) == {s \in Spots : prog \in {"cpp", "cc"} /\ t = 1 => s = 1}

Put(t) ==
  \/ \E s \in Picks(t) : FindClosed(t, s) \/ Take(t, s)
  \/ Give(t) \/ PostVictim(t) \/ Sit(t)
-----------------------------------------------------------------------------
(* thread_main(): the loop around put() *)

\* Mutant of AwaitPost: the thread does not wait for the start.
StartAtOnce(t) ==
  /\ pc[t] = "start"
  /\ pc' = [pc EXCEPT ![t] = "work"]
  /\ UNCHANGED <<setup, spotvars, sem, count, threads_left, mainvars>>

\* The C programs wait for main's start post on the semaphore of put().
AwaitPost(t) ==
  /\ pc[t] = "start"
  /\ Wait(t, "work", "startasleep")
  /\ UNCHANGED <<setup, spotvars, count, threads_left, mainvars>>

\* Go and Tokio wait at a barrier that main opens.
AwaitBarrier(t) ==
  /\ pc[t] = "start"
  /\ mpc # "start"
  /\ pc' = [pc EXCEPT ![t] = "work"]
  /\ UNCHANGED <<setup, spotvars, sem, count, threads_left, mainvars>>

\* Mutant of Over: one round too many.
OverLate(t) == IF clock_mode THEN stop ELSE count[t] > StopCount

Over(t) == IF clock_mode THEN stop ELSE count[t] >= StopCount

\* Somebody woke t: the experiment is over, or t counts a round and works again,
\* in Go and Tokio on the array put() returned.
Check(t) ==
  /\ pc[t] = "check"
  /\ held' = IF Releasing THEN [held EXCEPT ![t] = d[t]] ELSE held
  /\ \/ /\ Over(t)
        /\ pc' = [pc EXCEPT ![t] = "exit"]
        /\ UNCHANGED count
     \/ /\ ~Over(t)
        /\ pc' = [pc EXCEPT ![t] = "work"]
        /\ count' = IF clock_mode THEN count ELSE [count EXCEPT ![t] = @ + 1]
  /\ UNCHANGED <<setup, seat, victim, d, sem, threads_left, mainvars>>

\* threads_left -= 1, and in Go the result is ready to be sent to main.
Exit(t) ==
  /\ pc[t] = "exit"
  /\ threads_left' = threads_left - 1
  /\ pc' = [pc EXCEPT ![t] = IF prog = "go" THEN "send" ELSE "done"]
  /\ UNCHANGED <<setup, spotvars, sem, count, mainvars>>

FibreThread(t) == prog = "cpp" /\ (AwaitPost(t) \/ Put(t) \/ Check(t) \/ Exit(t))
PthreadThread(t) == prog = "cc" /\ (AwaitPost(t) \/ Put(t) \/ Check(t) \/ Exit(t))
CfaThread(t) == prog = "cfa" /\ (AwaitPost(t) \/ Put(t) \/ Check(t) \/ Exit(t))
GoThread(t) == prog = "go" /\ (AwaitBarrier(t) \/ Put(t) \/ Check(t) \/ Exit(t))
TokioThread(t) == prog = "rs" /\ (AwaitBarrier(t) \/ Put(t) \/ Check(t) \/ Exit(t))

Thread(t) ==
  FibreThread(t) \/ PthreadThread(t) \/ CfaThread(t) \/ GoThread(t) \/ TokioThread(t)
-----------------------------------------------------------------------------
(* main() *)

threadvars == <<setup, spotvars, count, threads_left>>

\* thddata[i]->sem.post(), for each i in turn
StartPost ==
  /\ mpc = "start"
  /\ Post(mi, pc)
  /\ IF mi = NThreads THEN mpc' = "wait" /\ mi' = 1 ELSE mpc' = mpc /\ mi' = mi + 1
  /\ UNCHANGED <<threadvars, mvictim, stop>>

\* close(barrierStart), barr.wait()
OpenBarrier ==
  /\ mpc = "start"
  /\ mpc' = "wait"
  /\ UNCHANGED <<threadvars, pc, sem, mi, mvictim, stop>>

\* wait(): main looks every 100 ms at the clock, whose time can come whenever main
\* looks, or at threads_left, which must be zero at the moment main looks.
Poll ==
  /\ mpc = "wait"
  /\ clock_mode \/ threads_left = 0
  /\ mpc' = "stop"
  /\ UNCHANGED <<threadvars, pc, sem, mi, mvictim, stop>>

\* stop = true
Stop ==
  /\ mpc = "stop"
  /\ stop' = TRUE
  /\ mpc' = IF Releasing THEN "release" ELSE "shut"
  /\ UNCHANGED <<threadvars, pc, sem, mi, mvictim>>

\* thddata[i]->sem.post()
ShutPost ==
  /\ mpc = "shut"
  /\ Post(mi, pc)
  /\ mpc' = "join"
  /\ UNCHANGED <<threadvars, mi, mvictim, stop>>

\* fibre_join( threads[i] ), before the next semaphore is posted; Tokio only joins.
Join ==
  /\ mpc = "join"
  /\ pc[mi] = "done"
  /\ IF mi = NThreads THEN mpc' = "done" /\ mi' = 1
     ELSE mpc' = (IF Releasing THEN "join" ELSE "shut") /\ mi' = mi + 1
  /\ UNCHANGED <<threadvars, pc, sem, mvictim, stop>>

\* Mutant of Release: the seat is emptied, not closed.
ReleaseEmpties ==
  /\ mpc = "release"
  /\ seat' = [seat EXCEPT ![mi] = Null]
  /\ mvictim' = seat[mi]
  /\ IF seat[mi] # Null THEN mpc' = "wake" /\ mi' = mi
     ELSE IF mi = NSpots THEN mpc' = "join" /\ mi' = 1
     ELSE mpc' = mpc /\ mi' = mi + 1
  /\ UNCHANGED <<setup, victim, d, held, pc, sem, count, threads_left, stop>>

\* MySpot::release(): close the seat ...
Release ==
  /\ mpc = "release"
  /\ seat' = [seat EXCEPT ![mi] = One]
  /\ mvictim' = seat[mi]
  /\ IF seat[mi] # Null THEN mpc' = "wake" /\ mi' = mi
     ELSE IF mi = NSpots THEN mpc' = "join" /\ mi' = 1
     ELSE mpc' = mpc /\ mi' = mi + 1
  /\ UNCHANGED <<setup, victim, d, held, pc, sem, count, threads_left, stop>>

\* ... and wake whoever sat there.
ReleasePost ==
  /\ mpc = "wake"
  /\ Post(mvictim, pc)
  /\ mvictim' = Null
  /\ IF mi = NSpots THEN mpc' = "join" /\ mi' = 1
     ELSE mpc' = "release" /\ mi' = mi + 1
  /\ UNCHANGED <<threadvars, stop>>

\* r := <- result, from whichever goroutine is ready to send
Collect(t) ==
  /\ mpc = "join"
  /\ pc[t] = "send"
  /\ pc' = [pc EXCEPT ![t] = "done"]
  /\ IF mi = NThreads THEN mpc' = "done" /\ mi' = 1 ELSE mpc' = mpc /\ mi' = mi + 1
  /\ UNCHANGED <<threadvars, sem, mvictim, stop>>

FibreMain == prog = "cpp" /\ (StartPost \/ Poll \/ Stop \/ ShutPost \/ Join)
PthreadMain == prog = "cc" /\ (StartPost \/ Poll \/ Stop \/ ShutPost \/ Join)
CfaMain == prog = "cfa" /\ (StartPost \/ Poll \/ Stop \/ ShutPost \/ Join)
GoMain ==
  /\ prog = "go"
  /\ \/ OpenBarrier \/ Poll \/ Stop \/ Release \/ ReleasePost
     \/ \E t \in Threads : Collect(t)
TokioMain == prog = "rs" /\ (OpenBarrier \/ Poll \/ Stop \/ Release \/ ReleasePost \/ Join)

Main == FibreMain \/ PthreadMain \/ CfaMain \/ GoMain \/ TokioMain

Ended == mpc = "done" /\ UNCHANGED vars

Next == Main \/ Ended \/ \E t \in Threads : Thread(t)

\* The schedulers run whoever can run, and main's clock goes on.
Spec == Init /\ [][Next]_vars /\ WF_vars(Main) /\ \A t \in Threads : WF_vars(Thread(t))
-----------------------------------------------------------------------------
TypeOK ==
  /\ prog \in Programs /\ nprocs \in NProcs /\ clock_mode \in ClockModes /\ share \in BOOLEAN
  /\ seat \in [Spots -> Threads \cup {Null, One}]
  /\ pc \in [Threads -> Labels]
  /\ sem \in [Threads -> Nat]
  /\ victim \in [Threads -> Threads \cup {Null}]
  /\ d \in [Threads -> Threads] /\ held \in [Threads -> Threads]
  /\ count \in [Threads -> 0..StopCount]
  /\ threads_left \in Int
  /\ stop \in BOOLEAN
  /\ mpc \in {"start", "wait", "stop", "shut", "release", "wake", "join", "done"}
  /\ mi \in Nat
  /\ mvictim \in Threads \cup {Null}

\* Who is going to post t: the seat it is in, the threads and main that took it out.
SeatsOf(t) == {s \in Spots : seat[s] = t}
WakersOf(t) == {u \in Threads : victim[u] = t}
Claimed(t) == SeatsOf(t) # {} \/ WakersOf(t) # {} \/ mvictim = t

\* No lost wake-up in put(): a thread that sits, or is about to, and has no post left
\* is still in a seat or is somebody's to wake.  Holds in every program and mode,
\* stale seats after the C programs' shutdown posts included.
NoLostWakeup == \A t \in Threads : pc[t] \in InPut /\ sem[t] = 0 => Claimed(t)

\* "nthreads - nspots are active at the same time" (the help text of --nspots): no
\* more threads sleep than there are spots, those being woken left aside.
Sleepers == {t \in Threads : pc[t] = "asleep" /\ WakersOf(t) = {} /\ mvictim # t}
SleepersFitSpots == Cardinality(Sleepers) <= NSpots

\* The seats are exclusive until main stops the experiment, and in Go and Tokio for
\* good: a thread has one seat or one waker, and only while it is in put().  So nobody
\* reaches the context of a goroutine or a task that has ended: the seats hold it as
\* an integer, which keeps nothing alive.
SeatsExclusive ==
  (Releasing \/ ~stop) =>
    \A t \in Threads :
      /\ Claimed(t) => pc[t] \in InPut /\ sem[t] = 0
      /\ \A r, s \in SeatsOf(t) : r = s
      /\ \A u, v \in WakersOf(t) : u = v
      /\ SeatsOf(t) # {} => WakersOf(t) = {} /\ mvictim # t
      /\ WakersOf(t) # {} => mvictim # t

\* The array t works on.
Array(t) == IF Releasing THEN held[t] ELSE d[t]

\* Two threads never work on the same array, though arrays are handed from one to the
\* other without a lock.  Main's wake-ups carry no array, so in iteration mode this
\* ends when main begins to wake the sitters.
ArraysExclusive ==
  (clock_mode \/ ~stop) =>
    \A t, u \in Threads : t # u /\ pc[t] = "work" /\ pc[u] = "work" => Array(t) # Array(u)

\* What the threads make of their spots, as SeatExchange has it: who is in put() and in no
\* seat has been taken out of one, and the array is promised by then.
Givers(t) == {u \in Threads : pc[u] = "give" /\ victim[u] = t}
Promised(t) == IF Givers(t) = {} THEN d[t] ELSE held[CHOOSE u \in Givers(t) : TRUE]
Roused == {t \in Threads : pc[t] \in InPut} \ {seat[s] : s \in Spots}
Exchange == INSTANCE SeatExchange WITH
  Nobody <- Null, Closed <- One,
  roused <- Roused, array <- [t \in Threads |-> Promised(t)], over <- stop /\ ~Releasing

\* put() is atomic: for all that anybody can tell its swap, its gift of the array and its
\* post are one exchange, also when the taker is taken out and given an array itself
\* before it has given its own away.  In the C programs until main stops the run.
ImplementsExchange == Exchange!Spec

\* By how many the processors are more than the threads that find no spot: nothing, unless
\* --nspots is given; and the spots nobody ever sat in.
Excess == nprocs - (NThreads - NSpots)
Unused == {s \in Spots : seat[s] = Null}

\* threads_left passes zero by at most the number of spots nobody ever sat in: with every
\* spot in use main cannot miss the zero.  Where the processors are counted it stays as far
\* above zero as these are in excess: then main does not get to see a zero once the unused
\* spots are fewer than the excess.
LeftBoundedBySpots == ~stop => threads_left >= Excess - Cardinality(Unused)

\* Main ends a timed run.  bench_sem keeps one post only, so in cpp and cfa a thread must
\* have taken its start post when main comes to it with the shutdown post.
PostsMerge == Binary /\ mpc = "shut" /\ pc[mi] = "start"
ClockRunEnds == clock_mode /\ []~PostsMerge => <>(mpc = "done")

\* "--iterations: Number of iterations of the experiments" (rq_bench.hpp): once enough
\* threads have made them the run ends, as long as the zero main waits for is ahead:
\* threads_left has not passed it, and has the unused spots it takes to come down to it.
\* Holds where main closes the seats before it joins.
ZeroAhead == threads_left >= 0 /\ Excess <= Cardinality(Unused)
IterationRunEnds == [](ZeroAhead \/ stop) => <>(mpc = "done")

\* Timed runs end; where main closes the seats those with --iterations end too, unless
\* main waits for a zero that it has missed or that the counter cannot come to.
RunEnds == ClockRunEnds /\ (Releasing => IterationRunEnds)

\* "Counter for active threads (not 'nthreads' because at all times 'nthreads -
\* nprocs' are blocked)" (locality.go): the counter is not used up before main looks.
LeftCountsActive == ~stop => threads_left >= 0
=============================================================================
