----------------------------- MODULE YieldProofs -----------------------------
(***************************************************************************)
(* Proofs about the yield benchmark, for every number of threads and       *)
(* rounds, every duration and every bound on time and on the clock.        *)
(***************************************************************************)
EXTENDS Yield, TLAPS, FiniteSetTheorems

\* The threads that have yet to leave, which threads_left counts.
Live == {t \in Threads : pc[t] \notin {"result", "done"}}
LeftIsLive == threads_left = Cardinality(Live)

\* With --iterations a thread leaves its loop with its rounds made, not before.
RoundsMade ==
  \A t \in Threads :
    IF pc[t] \in {"start", "loop"} THEN ~clock_mode => count[t] < StopCount
    ELSE ~clock_mode => count[t] = StopCount

\* The programs differ in the places that exist.
Places ==
  \A t \in Threads :
    /\ pc[t] = "add" => prog = "cpp"
    /\ pc[t] = "result" => prog = "go"

\* A clock that nobody sets is right.
ClockRight == sets = 0 => skew = 0

\* Why main has left wait().
TimeIsOver ==
  \/ now >= duration
  \/ prog \in {"cpp", "cfa"} /\ sets > 0
  \/ prog = "go" /\ now >= WholeSeconds
Reason == (clock_mode => TimeIsOver) /\ (~clock_mode => Live = {})
EndedForReason == mpc \in {"stop", "join", "done"} => Reason

IInv == TypeOK /\ LeftIsLive /\ RoundsMade /\ Places /\ ClockRight /\ EndedForReason

LEMMA Ranges ==
  /\ \A i : i \in Threads <=> i \in Int /\ 0 <= i /\ i <= NThreads - 1
  /\ NThreads \in Int /\ NThreads >= 1 /\ StopCount \in Int /\ StopCount >= 1
  /\ IsFiniteSet(Threads) /\ Cardinality(Threads) = NThreads
<1>1. NThreads \in Int /\ NThreads >= 1 /\ StopCount \in Int /\ StopCount >= 1
  BY Sizes
<1>2. \A i : i \in Threads <=> i \in Int /\ 0 <= i /\ i <= NThreads - 1
  BY <1>1 DEF Threads
<1>3. IsFiniteSet(Threads) /\ Cardinality(Threads) = NThreads
  BY <1>1, FS_Interval DEF Threads
<1>4. QED
  BY <1>1, <1>2, <1>3

\* Every step is one of the actions.
LEMMA Actions ==
  ASSUME [Next]_vars
  PROVE  \/ \E t \in Threads : Begin(t) \/ Round(t) \/ Add(t) \/ Leave(t) \/ Join(t)
         \/ Tick \/ SetClock \/ Unpark \/ Poll \/ Stop
         \/ UNCHANGED vars
  BY DEF Next, Main, Thread, Ended

LEMMA InitIInv == Init => IInv
<1> SUFFICES ASSUME Init PROVE IInv
  OBVIOUS
<1>1. TypeOK
  <2>1. 0 \in Threads /\ 0 \in 0..StopCount /\ 0 \in 0..MaxTime /\ 0 \in -MaxSkew..MaxSkew
        /\ 0 \in 0..MaxSets
    BY Ranges, Clocks
  <2>2. QED
    BY <2>1, Ranges DEF Init, TypeOK
<1>2. LeftIsLive
  <2>1. Live = Threads
    BY DEF Init, Live
  <2>2. QED
    BY <2>1, Ranges DEF Init, LeftIsLive
<1>3. RoundsMade /\ Places /\ ClockRight /\ EndedForReason
  BY Ranges DEF Init, RoundsMade, Places, ClockRight, EndedForReason
<1>4. QED
  BY <1>1, <1>2, <1>3 DEF IInv

\* threads_left counts the threads that have not left.
LEMMA LiveKept == IInv /\ [Next]_vars => LeftIsLive' /\ Live' \subseteq Live
<1> SUFFICES ASSUME IInv, [Next]_vars PROVE LeftIsLive' /\ Live' \subseteq Live
  OBVIOUS
<1> USE DEF IInv, LeftIsLive
<1>1. CASE Live' = Live /\ threads_left' = threads_left
  BY <1>1
<1>2. ASSUME NEW t \in Threads, Leave(t) PROVE LeftIsLive' /\ Live' \subseteq Live
  <2>1. Live' = Live \ {t} /\ t \in Live /\ threads_left' = threads_left - 1
    BY <1>2 DEF Leave, Live, Go, TypeOK
  <2>2. IsFiniteSet(Live)
    BY Ranges, FS_Subset DEF Live
  <2>3. Cardinality(Live') = Cardinality(Live) - 1
    BY <2>1, <2>2, FS_RemoveElement
  <2>4. QED
    BY <2>1, <2>3
<1>3. ASSUME NEW t \in Threads, Begin(t) \/ Round(t) \/ Add(t) \/ Join(t)
      PROVE  Live' = Live /\ threads_left' = threads_left
  BY <1>3 DEF Begin, Round, Add, Join, Live, Go, TypeOK
<1>4. ASSUME Tick \/ SetClock \/ Unpark \/ Poll \/ Stop \/ UNCHANGED vars
      PROVE  Live' = Live /\ threads_left' = threads_left
  BY <1>4 DEF Tick, SetClock, Unpark, Poll, Stop, vars, Live
<1>5. QED
  BY <1>1, <1>2, <1>3, <1>4, Actions

\* Every step keeps the types.
LEMMA TypesKept == IInv /\ [Next]_vars => TypeOK'
<1> SUFFICES ASSUME IInv, [Next]_vars PROVE TypeOK'
  OBVIOUS
<1> USE DEF IInv, TypeOK, setup, time, mainvars, Go
<1>1. ASSUME NEW t \in Threads, Begin(t) PROVE TypeOK'
  BY <1>1 DEF Begin
<1>2. ASSUME NEW t \in Threads, Round(t) PROVE TypeOK'
  <2>1. count[t] \in 0..StopCount /\ (count[t] # StopCount => count[t] + 1 \in 0..StopCount)
    BY Ranges
  <2>2. ~clock_mode => count[t] # StopCount
    BY <1>2, Ranges DEF Round, RoundsMade
  <2>3. count' \in [Threads -> 0..StopCount]
    BY <1>2, <2>1, <2>2 DEF Round
  <2>4. pc' \in [Threads -> {"start", "loop", "add", "leave", "result", "done"}]
    BY <1>2 DEF Round
  <2>5. QED
    BY <1>2, <2>3, <2>4 DEF Round
<1>3. ASSUME NEW t \in Threads, Add(t) PROVE TypeOK'
  BY <1>3, Ranges DEF Add
<1>4. ASSUME NEW t \in Threads, Leave(t) PROVE TypeOK'
  BY <1>4 DEF Leave
<1>5. ASSUME NEW t \in Threads, Join(t) PROVE TypeOK'
  BY <1>5, Ranges DEF Join
<1>6. ASSUME Tick PROVE TypeOK'
  BY <1>6, Clocks DEF Tick
<1>7. ASSUME SetClock PROVE TypeOK'
  BY <1>7, Clocks DEF SetClock
<1>8. ASSUME Unpark PROVE TypeOK'
  BY <1>8, Ranges DEF Unpark
<1>9. ASSUME Poll \/ Stop PROVE TypeOK'
  BY <1>9 DEF Poll, Stop
<1>10. ASSUME UNCHANGED vars PROVE TypeOK'
  BY <1>10 DEF vars
<1>11. QED
  BY <1>1, <1>2, <1>3, <1>4, <1>5, <1>6, <1>7, <1>8, <1>9, <1>10, Actions

\* Every step keeps the rounds and the places.
LEMMA RoundsKept == IInv /\ [Next]_vars => RoundsMade' /\ Places'
<1> SUFFICES ASSUME IInv, [Next]_vars PROVE RoundsMade' /\ Places'
  OBVIOUS
<1> USE DEF IInv, TypeOK, setup, time, mainvars, Go, RoundsMade, Places
<1>1. ASSUME NEW t \in Threads, Begin(t) PROVE RoundsMade' /\ Places'
  BY <1>1 DEF Begin
<1>2. ASSUME NEW t \in Threads, Round(t) PROVE RoundsMade' /\ Places'
  <2>1. count[t] \in Int /\ StopCount \in Int
    BY Ranges
  <2>2. RoundsMade'
    BY <1>2, <2>1 DEF Round, Over
  <2>3. Places'
    BY <1>2 DEF Round
  <2>4. QED
    BY <2>2, <2>3
<1>3. ASSUME NEW t \in Threads, Add(t) \/ Leave(t) \/ Join(t) PROVE RoundsMade' /\ Places'
  BY <1>3 DEF Add, Leave, Join
<1>4. ASSUME Tick \/ SetClock \/ Unpark \/ Poll \/ Stop \/ UNCHANGED vars
      PROVE  RoundsMade' /\ Places'
  BY <1>4 DEF Tick, SetClock, Unpark, Poll, Stop, vars
<1>5. QED
  BY <1>1, <1>2, <1>3, <1>4, Actions

\* A reason for the end stays one, and wait() returns only for one.
LEMMA ReasonKept == IInv /\ [Next]_vars => ClockRight' /\ EndedForReason'
<1> SUFFICES ASSUME IInv, [Next]_vars PROVE ClockRight' /\ EndedForReason'
  OBVIOUS
<1> USE DEF IInv
<1>1. /\ now \in Nat /\ now' \in Nat /\ sets \in Nat /\ sets' \in Nat /\ now <= now'
      /\ sets <= sets' /\ (sets' = sets => skew' = skew) /\ UNCHANGED setup
  <2>1. now \in Nat /\ sets \in Nat
    BY DEF TypeOK
  <2>2. \/ Tick \/ SetClock
        \/ UNCHANGED <<now, skew, sets>> /\ UNCHANGED setup
    BY Actions DEF Unpark, Poll, Stop, Begin, Round, Add, Leave, Join, time, vars
  <2>3. CASE Tick
    BY <2>1, <2>3 DEF Tick
  <2>4. CASE SetClock
    BY <2>1, <2>4 DEF SetClock
  <2>5. QED
    BY <2>1, <2>2, <2>3, <2>4
<1>2. ClockRight'
  BY <1>1 DEF ClockRight
<1>3. Reason => Reason'
  <2>1. duration \in Nat /\ UNCHANGED <<prog, clock_mode, duration>>
    BY <1>1, Clocks DEF TypeOK, setup
  <2>2. Live = {} => Live' = {}
    BY LiveKept
  <2>3. WholeSeconds \in Int /\ WholeSeconds' = WholeSeconds
    BY <2>1 DEF WholeSeconds
  <2>4. QED
    BY <1>1, <2>1, <2>2, <2>3 DEF Reason, TimeIsOver
<1>4. CASE Poll
  <2>1. ~clock_mode => Live = {}
    <3>1. IsFiniteSet(Live)
      BY Ranges, FS_Subset DEF Live
    <3>2. QED
      BY <1>4, <3>1, FS_EmptySet DEF Poll, LeftIsLive
  <2>2. ASSUME clock_mode PROVE TimeIsOver
    <3>1. duration \in Nat /\ now \in 0..MaxTime /\ Limit \in Int
      BY Clocks DEF TypeOK, Limit, WholeSeconds
    <3>2. sets = 0 => Delta = now
      <4>1. now + 0 = now /\ now % Modulus = now
        BY <3>1, Clocks
      <4>2. QED
        BY <4>1 DEF ClockRight, Delta
    <3>3. Delta >= Limit
      BY <1>4, <2>2 DEF Poll
    <3>4. prog \in {"cpp", "cfa"} \/ Delta = now
      BY DEF Delta
    <3>5. now >= Limit \/ (prog \in {"cpp", "cfa"} /\ sets > 0)
      BY <1>1, <3>1, <3>2, <3>3, <3>4
    <3>6. CASE prog = "go"
      BY <3>5, <3>6 DEF Limit, TimeIsOver
    <3>7. CASE prog # "go"
      BY <3>5, <3>7 DEF Limit, TimeIsOver
    <3>8. QED
      BY <3>6, <3>7
  <2>3. Reason
    BY <2>1, <2>2 DEF Reason
  <2>4. QED
    BY <1>2, <1>3, <2>3 DEF EndedForReason
<1>5. CASE ~Poll
  <2>1. mpc' \in {"stop", "join", "done"} => mpc \in {"stop", "join", "done"}
    BY <1>5, Actions DEF Tick, SetClock, Unpark, Stop, Begin, Round, Add, Leave, Join,
       mainvars, vars
  <2>2. QED
    BY <1>2, <1>3, <2>1 DEF EndedForReason
<1>6. QED
  BY <1>4, <1>5

LEMMA StepIInv == IInv /\ [Next]_vars => IInv'
  BY LiveKept, TypesKept, RoundsKept, ReasonKept DEF IInv

LEMMA IInvAlways == Spec => []IInv
  BY InitIInv, StepIInv, PTL DEF Spec

\* The variables of the four yield programs keep their types: no thread makes more rounds
\* than --iterations, no index of main runs past the threads.
THEOREM TypeCorrect == Spec => []TypeOK
<1>1. IInv => TypeOK
  BY DEF IInv
<1>2. QED
  BY <1>1, IInvAlways, PTL

\* Main sets stop when the time is over, but for a clock that was set and for Go's rounding,
\* and in a run of iterations when every thread has left.
THEOREM RunsLast == Spec => LastsAsAsked
<1>1. IInv /\ [Next]_vars =>
        [~stop /\ stop' =>
           IF clock_mode
           THEN \/ now >= duration
                \/ prog \in {"cpp", "cfa"} /\ sets > 0
                \/ prog = "go" /\ now >= WholeSeconds
           ELSE \A t \in Threads : pc[t] \in {"result", "done"}]_vars
  <2> SUFFICES ASSUME IInv, [Next]_vars, ~stop, stop'
               PROVE  IF clock_mode
                      THEN \/ now >= duration
                           \/ prog \in {"cpp", "cfa"} /\ sets > 0
                           \/ prog = "go" /\ now >= WholeSeconds
                      ELSE \A t \in Threads : pc[t] \in {"result", "done"}
    OBVIOUS
  <2>1. mpc = "stop"
    BY Actions DEF Tick, SetClock, Unpark, Poll, Stop, Begin, Round, Add, Leave, Join,
       mainvars, vars
  <2>2. Reason
    BY <2>1 DEF IInv, EndedForReason
  <2>3. QED
    BY <2>2 DEF Reason, TimeIsOver, Live
<1>2. QED
  BY <1>1, IInvAlways, PTL DEF Spec, LastsAsAsked
-----------------------------------------------------------------------------
(* The counts *)

\* Whose count is in global_counter: in C++ those who have added it themselves, elsewhere
\* those whom main has joined.
Added ==
  CASE prog = "cpp" -> {t \in Threads : pc[t] \in {"leave", "done"}}
    [] prog = "go" -> {t \in Threads : pc[t] = "done"}
    [] OTHER -> {t \in Threads : mpc = "done" \/ (mpc = "join" /\ t < mi)}

CounterRight == global_counter = Cardinality(Yields(Added))

\* Main joins every thread, in order or, in Go, as many as there are.
Finished == {t \in Threads : pc[t] = "done"}
JoinsAll ==
  /\ mpc \in {"wait", "stop"} => mi = 0
  /\ prog # "go" /\ mpc \in {"join", "done"} =>
       \A t \in Threads : mpc = "done" \/ t < mi => pc[t] = "done"
  /\ prog = "go" =>
       /\ mpc \notin {"join", "done"} => Finished = {}
       /\ mpc = "join" => Cardinality(Finished) = mi
       /\ mpc = "done" => Finished = Threads

OInv == IInv /\ CounterRight /\ JoinsAll

\* The yields of one more thread come on top.
LEMMA YieldsAdd ==
  ASSUME TypeOK, NEW S \in SUBSET Threads, NEW t \in Threads \ S
  PROVE  /\ IsFiniteSet(Yields(S)) /\ Cardinality(Yields(S)) \in Nat
         /\ Cardinality(Yields(S \cup {t})) = Cardinality(Yields(S)) + count[t]
<1> DEFINE Row == {t} \X (1..count[t])
<1>1. count[t] \in Nat /\ count[t] <= StopCount /\ StopCount \in Nat
  BY Ranges DEF TypeOK
<1>2. IsFiniteSet(1..StopCount) /\ IsFiniteSet(1..count[t]) /\ Cardinality(1..count[t]) = count[t]
  <2>1. PICK n \in Nat : n = count[t]
    BY <1>1
  <2>2. IsFiniteSet(1..n) /\ Cardinality(1..n) = IF 1 > n THEN 0 ELSE n - 1 + 1
    BY FS_Interval
  <2>3. Cardinality(1..n) = n
    BY <2>2
  <2>4. QED
    BY <1>1, <2>1, <2>2, <2>3, FS_Interval
<1>3. IsFiniteSet(Yields(S)) /\ Cardinality(Yields(S)) \in Nat
  <2>1. IsFiniteSet(S)
    BY Ranges, FS_Subset
  <2>2. IsFiniteSet(S \X (1..StopCount))
    BY <1>2, <2>1, FS_Product
  <2>3. Yields(S) \subseteq S \X (1..StopCount)
    BY DEF Yields
  <2>4. QED
    BY <2>2, <2>3, FS_Subset, FS_CardinalityType
<1>4. IsFiniteSet(Row) /\ Cardinality(Row) = count[t]
  <2>1. IsFiniteSet({t}) /\ Cardinality({t}) = 1
    BY FS_Singleton
  <2>2. IsFiniteSet(Row) /\ Cardinality(Row) = Cardinality({t}) * Cardinality(1..count[t])
    BY <1>2, <2>1, FS_Product
  <2>3. QED
    BY <1>1, <1>2, <2>1, <2>2
<1>5. Yields(S \cup {t}) = Yields(S) \cup Row
  <2>1. 1..count[t] = {i \in 1..StopCount : i <= count[t]}
    BY <1>1
  <2>2. QED
    BY <2>1 DEF Yields
<1>6. Yields(S) \cap Row = {}
  BY DEF Yields
<1> HIDE DEF Row
<1>7. Cardinality(Yields(S \cup {t}))
        = Cardinality(Yields(S)) + Cardinality(Row) - Cardinality(Yields(S) \cap Row)
  BY <1>3, <1>4, <1>5, FS_Union
<1>8. Cardinality(Yields(S) \cap Row) = 0
  BY <1>6, FS_EmptySet
<1>9. QED
  BY <1>1, <1>3, <1>4, <1>7, <1>8

LEMMA InitOInv == Init => OInv
<1> SUFFICES ASSUME Init PROVE OInv
  OBVIOUS
<1>1. Added = {} /\ Finished = {}
  BY DEF Init, Added, Finished
<1>2. Yields({}) = {}
  BY DEF Yields
<1>3. CounterRight
  BY <1>1, <1>2, FS_EmptySet DEF Init, CounterRight
<1>4. JoinsAll
  BY <1>1 DEF Init, JoinsAll
<1>5. QED
  BY <1>3, <1>4, InitIInv DEF OInv

\* Whose count is in the counter counts no more.
LEMMA AddedAreThrough ==
  ASSUME OInv PROVE \A t \in Added : t \in Threads /\ pc[t] \in {"leave", "done"}
<1>1. CASE prog = "cpp"
  BY <1>1 DEF Added
<1>2. CASE prog = "go"
  BY <1>2 DEF Added
<1>3. CASE prog \notin {"cpp", "go"}
  BY <1>3 DEF Added, OInv, JoinsAll
<1>4. QED
  BY <1>1, <1>2, <1>3

\* A step that adds nobody leaves the counter right.
LEMMA NobodyAdded ==
  ASSUME CounterRight, Added' = Added, global_counter' = global_counter,
         \A t \in Added : count'[t] = count[t]
  PROVE  CounterRight'
<1>1. Yields(Added)' = Yields(Added)
  <2>1. \A y \in Added \X (1..StopCount) : y[1] \in Added
    OBVIOUS
  <2>2. \A y \in Added \X (1..StopCount) : count'[y[1]] = count[y[1]]
    BY <2>1
  <2>3. QED
    BY <2>2 DEF Yields
<1>2. QED
  BY <1>1 DEF CounterRight

\* A step that adds one thread adds its count.
LEMMA OneAdded ==
  ASSUME TypeOK, CounterRight, Added \subseteq Threads, NEW t \in Threads \ Added,
         Added' = Added \cup {t}, count' = count, global_counter' = global_counter + count[t]
  PROVE  CounterRight'
<1>1. Yields(Added)' = Yields(Added \cup {t})
  BY DEF Yields
<1>2. QED
  BY <1>1, YieldsAdd DEF CounterRight

\* Every step keeps the counter right.
LEMMA CounterKept == OInv /\ [Next]_vars => CounterRight'
<1> SUFFICES ASSUME OInv, [Next]_vars PROVE CounterRight'
  OBVIOUS
<1>1. /\ TypeOK /\ CounterRight /\ Places /\ Added \subseteq Threads
      /\ pc \in [Threads -> {"start", "loop", "add", "leave", "result", "done"}]
      /\ \A t \in Added : t \in Threads /\ pc[t] \in {"leave", "done"}
  BY AddedAreThrough DEF OInv, IInv, TypeOK
<1>2. ASSUME NEW t \in Threads, Begin(t) PROVE CounterRight'
  <2>1. Added' = Added
    BY <1>1, <1>2 DEF Begin, Added, Go, setup, mainvars
  <2>2. QED
    BY <1>1, <1>2, <2>1, NobodyAdded DEF Begin
<1>3. ASSUME NEW t \in Threads, Round(t) PROVE CounterRight'
  <2>1. pc[t] = "loop" /\ pc' \in [Threads -> {"start", "loop", "add", "leave", "result", "done"}]
        /\ \A u \in Threads \ {t} : pc'[u] = pc[u]
    BY <1>1, <1>3 DEF Round, Go
  <2>2. pc'[t] \in {"loop", "add", "leave"} /\ (pc'[t] = "leave" => prog # "cpp")
    BY <1>1, <1>3 DEF Round, Go
  <2>3. Added' = Added
    BY <1>3, <2>1, <2>2 DEF Round, Added, setup, mainvars
  <2>4. \A u \in Added : count'[u] = count[u]
    BY <1>1, <1>3, <2>1 DEF Round, TypeOK
  <2>5. QED
    BY <1>1, <1>3, <2>3, <2>4, NobodyAdded DEF Round
<1>4. ASSUME NEW t \in Threads, Add(t) PROVE CounterRight'
  <2>1. prog = "cpp" /\ prog' = prog /\ pc[t] = "add" /\ pc' = [pc EXCEPT ![t] = "leave"]
    BY <1>1, <1>4 DEF Add, Places, Go, setup
  <2>2. t \notin Added /\ Added' = Added \cup {t}
    BY <1>1, <2>1 DEF Added
  <2>3. QED
    BY <1>1, <1>4, <2>2, OneAdded DEF Add
<1>5. ASSUME NEW t \in Threads, Leave(t) PROVE CounterRight'
  <2>1. /\ prog' = prog /\ mpc' = mpc /\ mi' = mi /\ pc[t] = "leave"
        /\ pc' = [pc EXCEPT ![t] = IF prog = "go" THEN "result" ELSE "done"]
    BY <1>5 DEF Leave, Go, setup, mainvars
  <2>2. Added' = Added
    BY <1>1, <2>1 DEF Added
  <2>3. QED
    BY <1>1, <1>5, <2>2, NobodyAdded DEF Leave
<1>6. ASSUME NEW t \in Threads, Join(t) PROVE CounterRight'
  <2>1. /\ prog' = prog /\ mpc = "join" /\ count' = count /\ mi \in Threads
        /\ IF mi < NThreads - 1 THEN mpc' = mpc /\ mi' = mi + 1 ELSE mpc' = "done" /\ mi' = 0
    BY <1>1, <1>6 DEF Join, setup, TypeOK
  <2>2. CASE prog = "cpp"
    <3>1. Added' = Added /\ global_counter' = global_counter
      BY <1>6, <2>1, <2>2 DEF Added, Join
    <3>2. QED
      BY <1>1, <2>1, <3>1, NobodyAdded
  <2>3. CASE prog = "go"
    <3>1. pc[t] = "result" /\ pc' = [pc EXCEPT ![t] = "done"]
          /\ global_counter' = global_counter + count[t]
      BY <1>6, <2>3 DEF Join, Go
    <3>2. t \notin Added /\ Added' = Added \cup {t}
      BY <1>1, <2>1, <2>3, <3>1 DEF Added
    <3>3. QED
      BY <1>1, <2>1, <3>1, <3>2, OneAdded
  <2>4. CASE prog \notin {"cpp", "go"}
    <3>1. t = mi /\ global_counter' = global_counter + count[t]
      BY <1>6, <2>4 DEF Join
    <3>2. Added = {u \in Threads : u < mi}
      BY <2>1, <2>4 DEF Added
    <3>3. Added' = {u \in Threads : u < mi + 1}
      BY <2>1, <2>4, Ranges DEF Added
    <3>4. t \notin Added /\ Added' = Added \cup {t}
      BY <2>1, <3>1, <3>2, <3>3, Ranges
    <3>5. QED
      BY <1>1, <2>1, <3>1, <3>4, OneAdded
  <2>5. QED
    BY <2>2, <2>3, <2>4
<1>7. ASSUME Tick \/ SetClock \/ Unpark \/ Poll \/ Stop \/ UNCHANGED vars PROVE CounterRight'
  <2>1. /\ prog' = prog /\ pc' = pc /\ count' = count /\ global_counter' = global_counter
        /\ \/ mpc' = mpc /\ mi' = mi
           \/ mpc \notin {"join", "done"} /\ mpc' \notin {"join", "done"}
           \/ mpc = "stop" /\ mpc' = "join" /\ mi' = mi
    BY <1>7 DEF Tick, SetClock, Unpark, Poll, Stop, vars, setup, mainvars
  <2>2. mpc = "stop" => mi = 0
    BY DEF OInv, JoinsAll
  <2>3. Added' = Added
    BY <2>1, <2>2, Ranges DEF Added
  <2>4. QED
    BY <1>1, <2>1, <2>3, NobodyAdded
<1>8. QED
  BY <1>2, <1>3, <1>4, <1>5, <1>6, <1>7, Actions

\* Every step keeps the joins in order.
LEMMA JoinsKept == OInv /\ [Next]_vars => JoinsAll'
<1> SUFFICES ASSUME OInv, [Next]_vars PROVE JoinsAll'
  OBVIOUS
<1>1. /\ JoinsAll /\ mi \in Threads
      /\ pc \in [Threads -> {"start", "loop", "add", "leave", "result", "done"}]
  BY DEF OInv, IInv, TypeOK
<1>2. ASSUME NEW t \in Threads, Begin(t) \/ Round(t) \/ Add(t) \/ Leave(t) PROVE JoinsAll'
  <2>1. /\ prog' = prog /\ mpc' = mpc /\ mi' = mi /\ pc[t] # "done"
        /\ \A u \in Threads \ {t} : pc'[u] = pc[u]
        /\ prog = "go" => pc'[t] # "done"
    BY <1>1, <1>2 DEF Begin, Round, Add, Leave, Go, setup, mainvars
  <2>2. prog = "go" => Finished' = Finished
    BY <2>1 DEF Finished
  <2>3. prog # "go" => \A u \in Threads : pc[u] = "done" => pc'[u] = "done"
    BY <2>1
  <2>4. QED
    BY <1>1, <2>1, <2>2, <2>3 DEF JoinsAll
<1>3. ASSUME NEW t \in Threads, Join(t) PROVE JoinsAll'
  <2>1. /\ prog' = prog /\ mpc = "join" /\ mpc' \in {"join", "done"} /\ mi \in Int
        /\ IF mi < NThreads - 1 THEN mpc' = mpc /\ mi' = mi + 1 ELSE mpc' = "done" /\ mi' = 0
    BY <1>1, <1>3, Ranges DEF Join, setup
  <2>2. CASE prog # "go"
    <3>1. t = mi /\ pc[t] = "done" /\ pc' = pc
      BY <1>3, <2>2 DEF Join
    <3>2. \A u \in Threads : mpc' = "done" \/ u < mi' => u < mi \/ u = mi
      BY <2>1, Ranges
    <3>3. QED
      BY <1>1, <2>1, <2>2, <3>1, <3>2 DEF JoinsAll
  <2>3. CASE prog = "go"
    <3>1. t \notin Finished /\ Finished' = Finished \cup {t} /\ Finished \subseteq Threads
      BY <1>1, <1>3, <2>3 DEF Join, Finished, Go
    <3>2. IsFiniteSet(Finished) /\ Cardinality(Finished) = mi
      BY <1>1, <2>1, <2>3, <3>1, Ranges, FS_Subset DEF JoinsAll
    <3>3. Cardinality(Finished') = mi + 1
      BY <3>1, <3>2, FS_AddElement
    <3>4. mpc' = "done" => Finished' = Threads
      <4>1. mpc' = "done" => mi + 1 = NThreads
        BY <1>1, <2>1, Ranges
      <4>2. Finished' \subseteq Threads
        BY <3>1
      <4>3. QED
        BY <3>3, <4>1, <4>2, Ranges, FS_Subset
    <3>5. QED
      BY <2>1, <2>3, <3>3, <3>4 DEF JoinsAll
  <2>4. QED
    BY <2>2, <2>3
<1>4. ASSUME Tick \/ SetClock \/ Unpark \/ Poll \/ Stop \/ UNCHANGED vars PROVE JoinsAll'
  <2>1. /\ prog' = prog /\ pc' = pc
        /\ \/ mpc' = mpc /\ mi' = mi
           \/ mpc = "unpark" /\ mpc' = "unpark"
           \/ mpc = "unpark" /\ mpc' = "wait" /\ mi' = 0
           \/ mpc = "wait" /\ mpc' = "stop" /\ mi' = mi
           \/ mpc = "stop" /\ mpc' = "join" /\ mi' = mi
    BY <1>4 DEF Tick, SetClock, Unpark, Poll, Stop, vars, setup, mainvars
  <2>2. Finished' = Finished
    BY <2>1 DEF Finished
  <2>3. mpc = "stop" /\ mpc' = "join" => (mi = 0 /\ \A t \in Threads : ~(t < mi))
    BY <1>1, Ranges DEF JoinsAll
  <2>4. prog = "go" /\ mpc \notin {"join", "done"} => Cardinality(Finished) = 0
    BY <1>1, FS_EmptySet DEF JoinsAll
  <2>5. QED
    BY <1>1, <2>1, <2>2, <2>3, <2>4 DEF JoinsAll
<1>5. QED
  BY <1>2, <1>3, <1>4, Actions

LEMMA StepOInv == OInv /\ [Next]_vars => OInv'
  BY StepIInv, CounterKept, JoinsKept DEF OInv

LEMMA OInvAlways == Spec => []OInv
  BY InitOInv, StepOInv, PTL DEF Spec

\* The operations reported are those the threads have counted, none lost between them, and
\* with --iterations as many as were asked for, for any number of threads.
THEOREM CountsAreExact == Spec => []OpsExact
<1>1. OInv => OpsExact
  <2> SUFFICES ASSUME OInv PROVE OpsExact
    OBVIOUS
  <2>1. mpc = "done" => Added = Threads
    <3>1. \A t \in Threads : mpc = "done" => pc[t] = "done"
      BY DEF OInv, JoinsAll, Finished
    <3>2. QED
      BY <3>1 DEF Added
  <2>2. ~clock_mode /\ prog = "cpp" /\ mpc \in {"stop", "join"} => Added = Threads
    <3> SUFFICES ASSUME ~clock_mode, prog = "cpp", mpc \in {"stop", "join"}, NEW t \in Threads
                 PROVE  pc[t] = "done"
      BY DEF Added
    <3>1. pc[t] \in {"result", "done"}
      BY DEF OInv, IInv, EndedForReason, Reason, Live
    <3>2. QED
      BY <3>1 DEF OInv, IInv, Places
  <2>3. ASSUME ~clock_mode, Added = Threads PROVE global_counter = NThreads * StopCount
    <3>1. \A t \in Threads : count[t] = StopCount
      BY <2>3, AddedAreThrough DEF OInv, IInv, RoundsMade
    <3>2. Yields(Threads) = Threads \X (1..StopCount)
      <4>1. \A y \in Threads \X (1..StopCount) : y[1] \in Threads /\ y[2] <= StopCount
        BY Ranges
      <4>2. QED
        BY <3>1, <4>1 DEF Yields
    <3>3. IsFiniteSet(1..StopCount) /\ Cardinality(1..StopCount) = StopCount
      BY Ranges, FS_Interval
    <3>4. Cardinality(Threads \X (1..StopCount)) = Cardinality(Threads) * Cardinality(1..StopCount)
      BY <3>3, Ranges, FS_Product
    <3>5. global_counter = Cardinality(Threads) * Cardinality(1..StopCount)
      BY <2>3, <3>2, <3>4 DEF OInv, CounterRight
    <3>6. QED
      BY <3>3, <3>5, Ranges
  <2>4. AsManyAsAsked
    BY <2>1, <2>2, <2>3 DEF AsManyAsAsked
  <2>5. mpc = "done" => global_counter = Cardinality(Yields(Threads))
    BY <2>1 DEF OInv, CounterRight
  <2>6. QED
    BY <2>4, <2>5 DEF OpsExact
<1>2. QED
  BY <1>1, OInvAlways, PTL
=============================================================================
