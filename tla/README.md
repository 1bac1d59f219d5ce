# TLA+ models of the scheduling benchmarks

This directory holds a verification development of the benchmark programs in
`src/`: small programs that load a user-level scheduler (libfibre, Cforall, Go,
Tokio, pthreads) in a particular way. The same benchmark is written once per
runtime. What is modelled is the programs, not the runtimes: parking, channels,
`tokio::sync` and `sem_t` appear by what they promise.

## Inventory

| component | state | operations | interacts through | hard part |
|---|---|---|---|---|
| `bench_sem` (`rq_bench.hpp`, `rq_bench.hfa`) | one word: null, "ready" or the waiting thread | `wait`, `post` | every C benchmark blocks on it | compare-and-swap races, parking after the swap, a second post is dropped |
| locality | the seats, a semaphore and an array per thread, `threads_left`, `stop` | `put`, `release`, main's start, wait, shutdown | compare-and-swap on the seats, posts, arrays given away without a lock | who wakes whom, shutdown against `put`, the counter |
| cycle | a semaphore per partner, rounds | wait, post the next, leave | a ring of posts | shutdown posts meeting tokens, the last round |
| transfer | `leader`, `lead_idx`, `estop`, an epoch and a semaphore per thread | `lead`, `waitgroup`, `wakegroup`, `wait` | shared epochs read without a lock, posts | reads used later, the five-second escape, shutdown |
| churn | a semaphore (Go: a channel) per spot | post a random spot, wait on it | posts | everybody asleep, the end of the run |
| yield | a count per thread | yield, add up, main's start, wait, join | `stop`, `threads_left`, the counts | operations lost between the threads and the report |
| wait and the clocks | start time, duration | poll every 100 ms | `clock_mode`, `stop_count`, `threads_left`, `stop` | a clock that is set, unsigned differences, rounded seconds, polling for zero |
| options | `nprocs`, `nthreads`, `duration`, ... | `parse_args`, `usage`, main's checks and sizes | set before any thread exists | conversions at the edges of the types, zeros, unsigned differences, who refuses what |
| processor affinity (`cycle.cc`, `locality.cc`) | a set of processors | clear the extra ones | before the threads exist | an empty set, one too many |
| random numbers, data | seeds, arrays | pure | the choice of spots and leaders | generators that stick at 0 |
| `bench.rs` | `BenchData` | not in the repository | | |

What makes each part correct:

- `bench_sem`: no post is lost except onto a remembered one, no thread is
  unparked twice, and it behaves as a semaphore that hands a post over.
- locality: a thread that sits is somebody's to wake; seats and arrays have one
  owner; as many threads sleep as the help text says; the run ends.
- cycle: one token per ring, equal rounds, exact counts, the run ends.
- transfer: one leader, threads in the leader's epoch or the one before, no
  wake-up dropped, exact counts, the run ends.
- churn: posts and sleepers balance, the run does not stand still, it ends.
- yield and the clocks: no operation is lost, a run lasts as long as asked, it ends.
- options and affinity: a number is taken as it is written or refused, a run is
  timed or counts iterations but never both, the sizes main computes are those the
  benchmarks need.

`PROJECT.json` lists every component and, under `hazards`, what is hard to test,
each at its line with the properties that watch it.

## Modules

| module | models | correspondence |
|---|---|---|
| `HandoffSem` | what `bench_sem` promises | a set of remembered posts and what each owner is doing; a post is granted to a waiting owner, or remembered once |
| `BenchSem` | `wait()` and `post()` | `pc` is the place in the function, `expected` its local; one action per load, compare-and-swap, park and unpark; several posters. Refines `HandoffSem` |
| `BenchSemProofs` | | proofs about `BenchSem` |
| `SeatExchange` | what the spots of `locality` promise | sitting down is one step, in which whoever sat there is made to get up and is promised the array; closing a seat is one step too |
| `Locality` | `locality.{cpp,cc,cfa,go,rs}` | `seat` is `MySpot::ptr`, `victim` the context taken out of a seat, `d` and `held` the arrays. Implements `SeatExchange` |
| `LocalityProofs` | | proofs about the seats and wake-ups of `Locality` |
| `LocalityDataProofs` | | proofs about its arrays and its counter, and that it implements `SeatExchange` |
| `Cycle` | `cycle.{cpp,cc,cfa,go,rs}` | thread `t` posts `NextOf(t)`; `sem` is its semaphore or its channel's items |
| `CycleProofs` | | proofs about `Cycle` |
| `Transfer` | `transfer.{cpp,cfa,go,rs}` | `leader`, `lead_idx`, `idx`, `estop` as in the code, `wi` the index in `wakegroup()` |
| `TransferProofs` | | proofs about `Transfer` |
| `Churn` | `churn.{cpp,cfa,go,rs}` | `permits` is the count of a spot's semaphore or the items of its channel |
| `ChurnProofs` | | proofs about `Churn` |
| `Yield` | `yield.{cpp,cfa,go,rs}`, `wait()` and the clocks of `rq_bench.{hpp,hfa}` and `bench.go` | `now` is the time passed, `skew` by how much the clock has been set; `Delta` and `Limit` are the two sides of wait()'s comparison |
| `YieldProofs` | | proofs about `Yield` |
| `Setup` | `parse_args()`, `usage()`, the parse functions, `BENCH_OPT_PARSE`, the beginning of each C `main()` with the affinity mask | `stage` is how far main() has come, `given` and `val` the last argument and the value of each option, `size` what main() computes |
| `SetupProofs` | | proofs about `Setup` |

One module covers the programs of one benchmark: which program runs (`prog`)
and how it is called (`clock_mode`, `share`, `exhaust`, `nprocs`) are variables that the
initial state chooses and no step changes, so a run checks all of them together
and the differences between them (binary or counting semaphores, posts or
barriers at the start, closing seats or posting semaphores at the end) stand
next to each other in one action.

The components compose through the semaphore. In `Locality`, `Cycle` and
`Transfer` a post is one step: it wakes the sleeper or is remembered, at most
once in the programs that use `bench_sem`. That this is what `bench_sem` does is
the property `ImplementsHandoff` of `BenchSem`: every behaviour of the code with
its separate loads, swaps, parks and unparks is a behaviour of `HandoffSem`,
whose posts are one step. `Locality` has a promise of its own, `SeatExchange`: its
property `ImplementsExchange` says that the swap, the gift of the array and the
post of `put()` are together one exchange. The mapping is computed from `pc`:
whoever is in `put()` and in no seat has been made to get up (`Roused`), and its
array is the one that the thread that took its seat holds for it, or its own once
given (`Promised`). The C programs keep this until main stops the run, which is
when they begin to post sitters that keep their seats; `over` stands for that.
`Setup` stands before all the others: `SizesFit` says
that a sound command line leads to what they assume of their constants, but for
`EnoughPosts` of `Churn`: no program limits `--spots` to 10000. Go's channels, Tokio's semaphores and `sem_t` count,
so `sem` counts there.

## Abstractions

- Work between two synchronisations (on arrays, with random numbers, printing)
  is left out; a random spot or leader is a free choice. Two random choices are
  modelled as they are. `next()` in `transfer.cpp` and `transfer.cfa` always
  gives 0, because `main` has a local `lead_seed` that hides the global one,
  which stays 0 and is only ever multiplied (`NextLeaders`). And `__xorshift64`
  never leaves the state 0, which is where thread 0 of `locality.cpp` and
  `locality.cc` starts, so that thread always takes the first spot (`Picks`).
- Memory is sequentially consistent. The C code asks for seq_cst, Go's atomics
  are, Tokio's relaxed loads only feed loops that read again or compare-and-swaps.
- A load and the compare-and-swap it feeds are one step in `Locality` (a failed
  swap starts over), two in `BenchSem`.
- `threads_left` of the locality programs starts at nthreads - nspots, but at
  nprocs in Cforall and Tokio. `nprocs` is a variable of `Locality` for these two,
  any number in `Procs`, since with `--nspots` it has nothing to do with the other.
  The rest make no use of it once `nspots` is known, and are taken to be called with
  the default, nspots = nthreads - nprocs.
- In `Locality` and `Cycle`, the counts grow with `--iterations` only: a timed
  run never reads them back, and would make the state space infinite.
- `wait()` is modelled with time in `Yield`: half seconds pass, the realtime
  clock of C++ and Cforall may be set, the difference is unsigned in C++ and
  signed in Cforall, and Go's seconds are whole. Elsewhere it is a step that may return at any time in a timed run and when
  `threads_left` is zero otherwise: it polls, so it may also miss a zero, which
  it does there whenever the step is not taken while the counter is zero.
- `waitgroup()` reads the threads' epochs one after the other. It is one step
  that waits for all of them: until the leader is through, an epoch that has
  reached the leader's stays there. The five seconds are a step that may be
  taken while some thread is late (`starves`).
- Tokio's `Barrier` is main's opening of the start, as in Go; `debug_assert!` is
  off. Cforall's transfer unparks main instead of posting a semaphore; a second
  unpark after a leader has given up belongs to the runtime and is only counted.
- In `Setup` an argument is what `strtoull`, `strtod` and `strcmp` can tell of it:
  the number it starts with, whether more follows, the word it is. Of the help
  texts only the longest is printed. `getopt_long` hands out any option with any
  argument, asks for help, or complains.
- In `Churn`, libfibre, Cforall and Tokio differ in nothing that is modelled, so
  the run takes one of them. Which sleeper gets a post is left open, where the
  runtimes have queues; so what is checked does not rest on their order.

## Runs

| run | question | bounds |
|---|---|---|
| `bench_sem` | do the races of `wait()` and `post()` lose or double a wake-up; is it the hand-off semaphore | 3 fibres: one waits, two post, all roles changing; a fibre has one wait or post under way and there is no bound on calls |
| `locality` | all five programs, both modes, with and without sharing: who sits, who wakes whom, which array goes where, that put() is an atomic exchange, where `threads_left` comes to rest, that timed runs end, and that closing the seats ends the runs of Go and Tokio with `--iterations` whose zero is ahead of the counter | 3 threads, 2 spots, 1 iteration: one thread runs, takes a seat over and leaves; a spot may stay unused; 1 processor, as many as threads without a spot, and 2, one in excess (fewer would be none; the theorems cover any number) |
| `locality_iterations` | *violation*: `locality.cpp` with `--iterations` may not end | as above |
| `locality_counter` | *violation*: `threads_left` passes zero | as above |
| `cycle` | all five programs | 2 rings of 2, 2 iterations: tokens of two rings at once, a first and a last partner, a middle round |
| `cycle_abort` | *violation*: the pthread program may abort at shutdown | as above |
| `transfer` | four programs, parking and yielding, leaders that give up or do not: epochs, leaders, and whether a wake-up is dropped or left out | 3 threads, 2 iterations: a leader, one that has seen the epoch and one that has not; leadership passes and stays |
| `transfer_assert` | *violation*: the assertion fails after a leader has given up | as above |
| `churn` | semaphores and channels, both modes | 3 threads, 2 spots, 2 iterations, 2 shutdown posts: two threads leave out a post and may fall asleep on one spot |
| `churn_iterations` | *violation*: `churn.cpp` with `--iterations` does not end | as above |
| `yield` | all four programs, both modes: does a run last as asked, count everything and end, whatever is done to the clock | 2 threads, 2 iterations, durations of half a second, one and one and a half, the clock set up to twice by up to a second: back before the start, so that the difference is negative or wraps, and forth again |
| `setup` | every C program from the command line to its sizes: what is refused, what runs, in which mode, with which processors | up to 3 options, with numbers at 0, 1, `UINT_MAX` (3), `ULLONG_MAX` (7) and beyond both, negative, broken and with junk; 3 processors; terminals with no width, 0, 21 and 22 columns |

The bounds are enough in this sense: every action and every branch of every
program is taken in them, and what the properties relate, one thread being
waited for, one that comes too early and one too late, needs three threads. For
the properties that are proved the bounds do not matter; in `setup` that is what
carries the results from 3 and 7 to the true `UINT_MAX` and `ULLONG_MAX`.

`CHECK_DEADLOCK FALSE` stands in those configurations whose programs may really
stop before the end; each says why. `Cycle` always ends and checks deadlock.

**Fairness.** Weak fairness of main and of each thread: a thread that can go on
does, which schedulers with work stealing give, and main's timer fires. There is
no strong fairness and none on a choice: not on which spot or leader is chosen,
not on the five seconds of `waitgroup()`. In `Yield` time passes too, but nobody
has to set the clock. `Setup` is one sequential program: it goes on while it can,
which is what leaves a `--help` on a terminal of zero columns without an end.
`BenchSem` asks only that a fibre
inside `wait()` or `post()` is scheduled; nobody has to call them.

## What the runs show of the code

Each item is a finding in `PROJECT.json`, with the lines.

- `locality.cpp`, `.cc` and `.cfa` never call `release()`. With `--iterations`
  main posts every semaphore once; a thread woken by that may sit down again and
  sleep for ever.
- `threads_left` of `locality.{cpp,cc,go}` starts at nthreads - nspots. When a
  spot stays unused, more threads leave than that. `LeftBoundedBySpots` says by
  how many at most.
- `threads_left` of `locality.{cfa,rs}` starts at nprocs whatever `--nspots` is. With
  3 threads, 2 processors and 2 spots one thread leaves, two sleep, the counter
  rests at 1 and main waits for ever. `LeftBoundedBySpots` says how far above zero it
  stays; `RunEnds` speaks only of runs in which there are at least as many unused spots
  as processors in excess and the counter has not passed zero (`ZeroAhead`).
- `cycle.cc` may abort at the end of a timed run (`AbortOnlyAtShutdown` is
  proved: at no other time).
- The assertion of `transfer.{cpp,cfa}` fails after a leader has given up, and
  never before (`EpochsInStep`).
- One start in ten of `transfer.rs` has no leader and does not end.
- `churn.{cpp,cfa,rs}` do not end with `--iterations`.
- Go drops the fraction of `--duration`: half a second is none.
- `locality.cfa` tests for `nspots` zero where the unsigned difference has wrapped
  around; `locality.{cpp,cc}` do not test, and their default command line has no
  spot and divides by zero.

More results are in the hazards, since nothing in the repository states the
opposite. `printopt()` makes no progress on a terminal that reports zero columns
(`SetupEnds` has the exception). A realtime clock that is set ends a timed C++ or
Cforall run at once or late (`LastsAsAsked`). `wakegroup()` posts threads by pointer, and with `--iterations 1
--exhaust` main may have deleted them: `WakesTheLiving` holds from two iterations
on, and only because thread 0 always becomes the leader. And a timed run of
`locality.{cpp,cfa}` may not end if main's shutdown post meets a start post that its
thread has not taken, because `bench_sem` keeps one of the two. `ClockRunEnds` leaves
out these runs (`PostsMerge`) and no others: `sem_t`, Go and Tokio lose no post.

## Proofs

The theorems hold for every value of the constants that satisfies the named
assumptions (numbers of threads, spots, rings and iterations, distinct markers,
`Programs` among the five programs), in every mode.

- `BenchSemProofs`: types, `NoLostWakeup`, `UnparkOnce`, `WaitSeesNoFibre`,
  that a semaphore holds only its owner (`WordHoldsOwner`), and the safety half of the refinement (initial states and
  steps of `HandoffSem`). The inductive invariant is those properties with what a
  poster has in hand (`PostLocals`: null or the owner of the semaphore it posts,
  never another fibre). `NoLostWakeup` alone is not inductive: a stale `expected` could
  unpark a fibre that has gone on.
- `LocalityProofs`: types, `NoLostWakeup`, `SleepersFitSpots`, `SeatsExclusive`.
  `WInv` is what holds for ever: a victim is in hand exactly between the swap
  and the post (`VictimInHand`, `MainVictimInHand`), a sleeper has no post, main
  has closed exactly the seats it has passed, and `NoLostWakeup`.
  `SleepersFitSpots` follows by counting: sleepers that nobody is waking map to
  different seats. `EInv` adds what holds until the C programs stop, and always
  in Go and Tokio: `SeatsExclusive`, with the two facts that keep it, that a
  thread outside `put()` has no post left (`PostsSpent`) and main's start posts
  go to threads that have not started (`StartPosts`).
- `CycleProofs`: types, `OneTokenPerRing`, `RoundsInStep`, `IterationsExact`,
  `AbortOnlyAtShutdown`, and that nobody is stuck. `IInv` needs `threads_left` to be the number of threads
  that have not left (`LeftIsLive`), the token in three parts (`Tokens`: at most
  one holder, at most one post, at least one holder), and the difference of
  rounds along a ring, which depends on where the token is (`Steps`). The lemmas
  about `%` and about a ring as the threads r, r + NRings, r + 2 NRings, ... come
  first. Freedom from deadlock, which the run checks, is `SomebodyMoves`: the
  guards of main and of the partners, written out because the prover does not have
  ENABLED, are not all closed before the end. Before the shutdown it follows from
  the token: the ring of a sleeper with rounds to make has its token at a partner
  that can go on, since by `Steps` a partner that has left is no round short of
  the sleeper. From the shutdown on it needs `JInv`: whoever main has posted is awake
  and will not sleep again (`Woken`), and Go's main, which takes results in any
  order, has received as many as its index says (`Collected`), so that one of the
  partners it has posted is still on its way.
- `TransferProofs`: types, `OneLeader`, `EpochsInStep`, `TransfersExact`, and that
  the assertion fails only after a leader has given up. `EpochsInStep` needs to
  know that a leader finds nobody behind when it opens an epoch: `Gap` says that
  a thread is behind only while the leader waits or after the last epoch,
  `Behind` that nobody is ahead, `Bounded` that a leader past the last epoch is on
  its way out, `Told` that main hears of the end only then. Most actions leave
  the epochs alone; `StillKept` treats them at once, by how they move the threads
  (`Move`).

- `LocalityDataProofs`: `LeftBoundedBySpots`, `ArraysExclusive`, `ImplementsExchange`. The first counts:
  `threads_left` is exact (`LeftIsExact`), and every seat that has been used holds
  a different thread that has not left (`UsedByTheRest`). So it is never less than the
  processors in excess of nthreads - nspots (`Excess`, zero by default) less the
  unused spots, below zero or above. The second goes by live arrays: those of
  threads that run, have a post, or are about to be posted, and those on their
  way in `put()`; `Disjoint` says that no two are the same. When a timed run
  stops, C threads that have not sat down yet keep theirs and nobody can reach
  them (`FreshAlone`). For the exchange, each step of the code is shown to be a step
  of `SeatExchange` or none: the swap of `put()` is the exchange (`TakeSitsDown`),
  the gift is invisible (`GiveStutters`), and so is the post unless the sitter is
  asleep and gets up with it (`PostVictimRouses`). A sitter that is given an array
  while it is itself about to give one away does not lose either: the one it gives
  is in its argument, not in its context (`PromiseStands`); that exactly one thread
  has a promise to keep for it is `SeatsExclusive`. The last section says where a
  run can stand still (`GoesOn`): until main stops the C programs, and always in Go
  and Tokio, only where main waits for zero and `threads_left` has come to rest at another
  number, which is exactly that bound, `Excess` less the unused spots
  (`BesideZero`): below zero as in the runs that refute `LeftCountsActive`, above it
  with processors in excess.
  While main waits, threads that cannot move have left or sleep, in different seats, so
  the sleepers are exactly as many as the spots in use, which gives the number that have
  left; while main joins, it
  has closed every seat (`SeatsPassed`), so nobody sleeps, and Go's main is short of
  results (`Collected`).
- `TransferProofs` on posts: `NoLostWakeup` and `WakesTheLiving`. `NoLostWakeup` has
  two halves. For the first, that no post is dropped (`PostsKept`): a thread that a
  leader will still post rests without a post (`DueRest`) and has not entered
  the epoch that a newer leader waits for (`DueLate`), so that leader cannot get
  through before the post is taken; at most one leader is past its wait
  (`OneWaker`). For the second, that nobody is left asleep (`NobodyForgotten`): every
  thread that sleeps, or is at its park without a post, has a leader that has not
  come to it yet or a main that hears of the end (`Watched`); a leader
  passes a thread that rests only by posting it. After the shutdown post
  nobody sleeps, and who may still park has a post for it (`Leaving`); the same goes
  for the start (`AtStart`). A leader that waits for the others counts as somebody's
  waker only if it is not waiting for that very thread (`StillWakes`): otherwise each
  could be waiting for the other. From this follows that no run stops before main is
  done, as long as no leader gives up (`GoesOn`): a rested thread has a leader that can
  go on, or that waits for one that can; a sender on one of Go's channels finds its
  receiver parked (`DueRest`); at the end main is told once (`Reported`), every
  thread has the post it leaves with, and Go's main is short of results (`Collected`).
  `WakesTheLiving` rests on `Zero`: from the second epoch on
  the leader is thread 0, so it has finished its own posts before it can end the run.
- `ChurnProofs`: types, `SpotsAreMutexes`, `SomeoneRuns`, `PostsBalance`. For Go, a full channel
  has exactly one goroutine between its send and its receive (`MutexAt`). For the
  others the count is kept per spot: there is an assignment of the posts left out
  to spots under which waiting threads equal permits plus posts left out
  (`Balance`; the witness changes when a thread leaves its post out). Hence
  sleepers are at most as many as the posts left out, which are at most
  min(nthreads, spots). `PostsBalance` adds up the spots: the one bijection per spot
  is glued into one over all spots (`Untaken` holds a pair for each permit).
- `YieldProofs`: types, `LastsAsAsked`, `OpsExact`. The invariant remembers why main has left
  `wait()` (`EndedForReason`), that no thread leaves its loop early (`RoundsMade`),
  and that a clock nobody sets is right. For the total, `Yields` holds a pair for
  each yield, and `global_counter` is the number of those of the threads already
  added (`CounterRight`), who are everybody once main is done (`JoinsAll`).
- `SetupProofs`: types, `ValuesAsWritten`, `ModeDecided`, `SizesFit`, for every
  width of the two unsigned types with 2 <= `UMax` < `LMax`, every machine and any
  number of options. The invariant says what each value came from (`SizesRead`,
  `ModesRead`), that main's sizes are computed from values it has not refused
  (`Prepared`), and that the processors left and those to be cleared add up
  (`Clearing`).

Only model-checked: `NeverTwoPosts`, `LeftCountsActive`, `AssertionHolds` and the
other statements that runs refute.
Liveness (`RunEnds` of every benchmark, `SetupEnds`, and the fairness part of
`ImplementsHandoff`) is beyond the prover and stays with TLC, and so does ENABLED:
the guards in `SomebodyMoves` of `CycleProofs` and in `GoesOn` of
`LocalityDataProofs` and `TransferProofs` have been read off the actions and agree
with ENABLED on the instances of the runs, which TLC was asked apart; that they do
for every instance is not proved. `SeatExchange` states no fairness, so
`ImplementsExchange` is proved in full.

## Not modelled

- Parse functions that no program uses (`parse_settrue`, `parse_setfalse`, strings,
  `int`, `unsigned long`), `bench_init` of
  Go and the `clap` tables of the Rust programs, which only hand values over, and
  Cforall's own `parse_args`, taken to be the one of `rq_bench.hpp`.
- Random number generators beyond the two that stick: 128-bit arithmetic whose
  values no property tells apart. The contents of the arrays.
- The statistics (migrations, rechecks, blocks), the rates and the output. The
  divisions of the reports by zero threads or processors are listed as a hazard.
- `bench.rs`, which is not in the repository; modelled as the programs use it.
- Memory orders weaker than sequential consistency, and the runtimes.

## Plan

Done, in this order: `HandoffSem` and `BenchSem`, `Locality`, `Cycle`, `Transfer`,
`Churn`, `Yield` and `Setup`, each with its proofs, and `SeatExchange`, which
`Locality` implements. What could still be added is the set-up of the Go programs
(`bench_init` of bench.go), which hand their values over much as `Setup` describes.
