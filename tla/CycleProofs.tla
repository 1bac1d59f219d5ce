---------------------------- MODULE CycleProofs ----------------------------
(***************************************************************************)
(* Proofs about the cycle benchmark, for every number of rings, ring size  *)
(* and number of rounds and all five programs.  The invariants of Cycle    *)
(* are about one ring at a time; what has to be shown is that a post never *)
(* leaves its ring, that it finds its receiver without a token, and where  *)
(* the token stands in the count of the rounds.                            *)
(***************************************************************************)
EXTENDS Cycle, TLAPS, FiniteSetTheorems

\* The arithmetic of the rings: a quotient and a remainder are unique.
LEMMA Remainder ==
  ASSUME NEW N \in Nat \ {0}, NEW q \in Int, NEW r \in 0..N - 1,
         NEW p \in Int, NEW s \in 0..N - 1, N * q + r = N * p + s
  PROVE  r = s
<1>1. CASE q = p
  BY <1>1
<1>2. CASE q < p
  <2>1. N * (q + 1) <= N * p
    BY <1>2
  <2>2. N * q + N <= N * p
    BY <2>1
  <2>3. QED
    BY <2>2
<1>3. CASE p < q
  <2>1. N * (p + 1) <= N * q
    BY <1>3
  <2>2. N * p + N <= N * q
    BY <2>1
  <2>3. QED
    BY <2>2
<1>4. QED
  BY <1>1, <1>2, <1>3

LEMMA Division ==
  ASSUME NEW N \in Nat \ {0}, NEW i \in Int
  PROVE  \E q \in Int : i = N * q + (i % N) /\ i % N \in 0..N - 1
<1>1. i = N * (i \div N) + (i % N) /\ i % N \in 0..N - 1 /\ i \div N \in Int
  BY SMTT(20)
<1>2. QED
  BY <1>1

\* Threads are numbered from zero, and the partners that main posts are among them.
LEMMA Ranges ==
  /\ NRings \in Nat \ {0} /\ TThreads \in Nat /\ NRings <= TThreads
  /\ \A t : t \in Threads <=> t \in Int /\ 0 <= t /\ t <= TThreads - 1
<1>1. NRings * RingSize \in Nat /\ NRings * RingSize >= NRings
  BY Sizes
<1>2. QED
  BY <1>1, Sizes DEF TThreads, Threads

\* The next partner is in the same ring: NRings further on, or the ring's first.
LEMMA NextInRing ==
  ASSUME NEW t \in Threads
  PROVE  /\ NextOf(t) \in Threads /\ Ring(t) \in 0..NRings - 1
         /\ Ring(NextOf(t)) = Ring(t)
         /\ t + NRings < TThreads => NextOf(t) = t + NRings
         /\ t + NRings >= TThreads => NextOf(t) = Ring(t)
<1>1. /\ t \in Int /\ 0 <= t /\ t < TThreads
      /\ NRings \in Nat \ {0} /\ TThreads \in Int /\ NRings <= TThreads
  BY Ranges
<1>2. PICK q \in Int : t = NRings * q + (t % NRings) /\ t % NRings \in 0..NRings - 1
  BY <1>1, Division
<1>3. CASE t + NRings < TThreads
  <2>1. PICK n \in Int : n = t + NRings /\ n \in 0..TThreads - 1
    BY <1>1, <1>3
  <2>2. n % TThreads = n
    BY <2>1, <1>1, Ranges
  <2>3. NextOf(t) = n /\ n \in Threads
    BY <2>1, <2>2, Ranges DEF NextOf
  <2>4. PICK p \in Int : n = NRings * p + (n % NRings) /\ n % NRings \in 0..NRings - 1
    BY <1>1, <2>1, Division
  <2>5. PICK k \in Int : k = q + 1
    BY <1>2
  <2>6. NRings * k = NRings * q + NRings
    BY <1>1, <2>5
  <2>7. NRings * k + (t % NRings) = NRings * p + (n % NRings)
    BY <1>1, <1>2, <2>1, <2>4, <2>6
  <2>8. t % NRings = n % NRings
    BY <1>1, <1>2, <2>4, <2>7, Remainder
  <2>9. Ring(NextOf(t)) = Ring(t) /\ Ring(t) \in 0..NRings - 1
    BY <2>3, <2>8, <1>2 DEF Ring
  <2>10. QED
    BY <2>1, <2>3, <2>9, <1>1, <1>3
<1>4. CASE t + NRings >= TThreads
  <2>1. PICK n \in Int : n = t + NRings - TThreads
    BY <1>1, Ranges
  <2>2. n \in 0..NRings - 1 /\ n \in 0..TThreads - 1
    BY <1>1, <1>4, <2>1, Ranges
  <2>3. PICK m \in Int : m = t + NRings
    BY <1>1
  <2>4. m % TThreads = n
    <3>1. TThreads \in Nat \ {0}
      BY <1>1, Ranges
    <3>2. PICK p \in Int : m = TThreads * p + (m % TThreads) /\ m % TThreads \in 0..TThreads - 1
      BY <3>1, Division
    <3>3. TThreads * 1 + n = TThreads * p + (m % TThreads)
      BY <2>1, <2>3, <3>1, <3>2, <1>1
    <3>4. QED
      BY <2>2, <3>1, <3>2, <3>3, Remainder
  <2>5. n % NRings = n
    BY <2>2, <1>1
  <2>6. n = t % NRings
    <3>1. TThreads = NRings * RingSize /\ RingSize \in Int
      BY Sizes DEF TThreads
    <3>2. PICK k \in Int : k = q + 1 - RingSize
      BY <3>1
    <3>3. NRings * k = NRings * q + NRings - NRings * RingSize
      BY <1>1, <3>1, <3>2
    <3>4. PICK m1 \in Int, m2 \in Int, r \in Int :
            m1 = NRings * q /\ m2 = NRings * k /\ r = t % NRings
      BY <1>1, <1>2, <3>2
    <3>5. m2 = m1 + NRings - TThreads /\ t = m1 + r
      BY <1>2, <3>1, <3>3, <3>4
    <3>6. m2 + r = n
      BY <1>1, <2>1, <3>4, <3>5
    <3>7. NRings * k + (t % NRings) = NRings * 0 + n
      BY <1>1, <2>1, <3>4, <3>6
    <3>8. QED
      BY <1>1, <1>2, <2>2, <3>7, Remainder
  <2>7. NextOf(t) = n /\ n \in Threads
    BY <2>2, <2>3, <2>4, Ranges DEF NextOf
  <2>8. Ring(NextOf(t)) = Ring(t) /\ Ring(t) = n /\ Ring(t) \in 0..NRings - 1
    BY <2>5, <2>6, <2>7, <1>2 DEF Ring
  <2>9. QED
    BY <2>7, <2>8, <1>1, <1>4
<1>5. QED
  BY <1>1, <1>3, <1>4, Ranges

\* Within a ring the partners are NRings apart.
LEMMA RingOrder ==
  ASSUME NEW t \in Threads, NEW u \in Threads, Ring(t) = Ring(u), u < t + NRings
  PROVE  u <= t
<1>1. t \in Int /\ u \in Int /\ NRings \in Nat \ {0}
  BY Ranges
<1>2. PICK q \in Int : t = NRings * q + (t % NRings) /\ t % NRings \in 0..NRings - 1
  BY <1>1, Division
<1>3. PICK p \in Int : u = NRings * p + (u % NRings) /\ u % NRings \in 0..NRings - 1
  BY <1>1, Division
<1>4. t % NRings = u % NRings
  BY DEF Ring
<1>5. NRings * (q + 1) = NRings * q + NRings
  BY <1>1
<1>6. NRings * p < NRings * (q + 1)
  BY <1>1, <1>2, <1>3, <1>4, <1>5
<1>7. CASE p <= q
  <2>1. NRings * p <= NRings * q
    BY <1>1, <1>7
  <2>2. QED
    BY <1>1, <1>2, <1>3, <1>4, <2>1
<1>8. CASE p >= q + 1
  <2>1. NRings * (q + 1) <= NRings * p
    BY <1>1, <1>8
  <2>2. QED
    BY <1>1, <1>6, <2>1
<1>9. QED
  BY <1>7, <1>8

\* The first partner of a ring has the ring's number, and comes first.
LEMMA RingFirst ==
  /\ \A r \in 0..NRings - 1 : r \in Threads /\ Ring(r) = r
  /\ \A t \in Threads : Ring(t) \in Threads /\ Ring(Ring(t)) = Ring(t) /\ Ring(t) <= t
<1>1. \A r \in 0..NRings - 1 : r \in Threads /\ r % NRings = r
  BY Ranges
<1>2. ASSUME NEW t \in Threads PROVE Ring(t) <= t /\ Ring(t) \in 0..NRings - 1
  <2>1. t \in Int /\ t >= 0 /\ NRings \in Nat \ {0}
    BY Ranges
  <2>2. PICK q \in Int : t = NRings * q + (t % NRings) /\ t % NRings \in 0..NRings - 1
    BY <2>1, Division
  <2>3. CASE q >= 0
    <3>1. NRings * q >= 0
      BY <2>1, <2>3
    <3>2. QED
      BY <2>1, <2>2, <3>1 DEF Ring
  <2>4. CASE q <= -1
    <3>1. NRings * q <= NRings * (-1)
      BY <2>1, <2>4
    <3>2. QED
      BY <2>1, <2>2, <3>1
  <2>5. QED
    BY <2>3, <2>4
<1>3. QED
  BY <1>1, <1>2 DEF Ring
-----------------------------------------------------------------------------
\* Where main is, its index, and whether it has stopped the run.
MainPhase ==
  /\ mpc = "start" => mi < NRings
  /\ mpc \in {"wait", "stop"} => mi = 0
  /\ stop <=> mpc \in {"shut", "join", "done"}

\* threads_left counts the partners that have not left their loop.
Live == {t \in Threads : pc[t] \notin {"send", "done"}}
LeftIsLive == threads_left = Cardinality(Live)

\* In iteration mode a partner leaves its loop with its rounds made, not before, and
\* main goes on once all have.
RoundsCounted ==
  ~clock_mode =>
    /\ \A t \in Threads : count[t] = StopCount <=> pc[t] \in {"exit", "send", "done"}
    /\ mpc = "stop" \/ stop => Live = {}

\* The token of t's ring is at t.
Holds(t) == pc[t] = "hold" \/ sem[t] > 0

\* Until the run is stopped.
Unposted(r) == mpc = "start" /\ r >= mi
OneAtMost == \A t, u \in Threads : Holds(t) /\ Holds(u) /\ Ring(t) = Ring(u) => t = u
OnceAtMost == \A t \in Threads : sem[t] \in {0, 1} /\ (sem[t] = 1 => pc[t] \notin {"hold", "asleep"})
NoneUnposted == \A t \in Threads : Unposted(Ring(t)) => ~Holds(t)
OneAtLeast == \A r \in 0..NRings - 1 : Unposted(r) \/ \E t \in Threads : Ring(t) = r /\ Holds(t)
Tokens == OneAtMost /\ OnceAtMost /\ NoneUnposted /\ OneAtLeast

\* The partners before the token are one round ahead of those behind it.
Steps ==
  /\ \A t, u \in Threads :
       Holds(t) /\ Ring(t) = Ring(u) => Rounds(u) = Rounds(t) + (IF u < t THEN 1 ELSE 0)
  /\ \A t \in Threads : Unposted(Ring(t)) => Rounds(t) = 0

IInv ==
  /\ TypeOK /\ MainPhase /\ LeftIsLive /\ RoundsCounted
  /\ ~stop => Tokens
  /\ ~stop /\ ~clock_mode => Steps
  /\ AbortOnlyAtShutdown

USE DEF Labels

\* Every step is one of the actions.
LEMMA Actions ==
  ASSUME [Next]_vars
  PROVE  \/ \E t \in Threads : Await(t) \/ Pass(t) \/ Check(t) \/ Value(t) \/ Exit(t) \/ Collect(t)
         \/ StartPost \/ Poll \/ Stop \/ ShutPost \/ Join
         \/ UNCHANGED vars
  BY DEF Next, Main, Ended, Partner, FibrePartner, PthreadPartner, CfaPartner, GoPartner,
         TokioPartner, FibreMain, PthreadMain, CfaMain, GoMain, TokioMain

LEMMA InitIInv == Init => IInv
<1> SUFFICES ASSUME Init PROVE IInv
  OBVIOUS
<1>1. /\ NRings \in Nat \ {0} /\ TThreads \in Nat /\ 0 \in Threads /\ StopCount \in Nat \ {0}
      /\ StopCount # 0
  BY Ranges, Sizes
<1>2. IsFiniteSet(Threads) /\ Cardinality(Threads) = TThreads
  <2>1. 0 \in Int /\ TThreads - 1 \in Int /\ 0..TThreads - 1 = Threads
    BY <1>1 DEF Threads
  <2>2. QED
    BY <1>1, <2>1, FS_Interval
<1>3. TypeOK
  <2>1. stop \in BOOLEAN /\ aborted \in BOOLEAN
    BY DEF Init
  <2>2. prog \in Programs /\ clock_mode \in ClockModes /\ pc \in [Threads -> Labels]
    BY DEF Init
  <2>3. sem \in [Threads -> Nat] /\ count \in [Threads -> 0..StopCount]
    BY <1>1 DEF Init
  <2>4. threads_left \in 0..TThreads /\ mi \in Threads /\ mpc = "start"
    BY <1>1 DEF Init
  <2>5. QED
    BY <2>1, <2>2, <2>3, <2>4 DEF TypeOK
<1>4. MainPhase /\ AbortOnlyAtShutdown
  BY <1>1 DEF Init, MainPhase, AbortOnlyAtShutdown
<1>5. LeftIsLive
  <2>1. Live = Threads
    BY DEF Init, Live
  <2>2. QED
    BY <1>2, <2>1 DEF Init, LeftIsLive
<1>6. RoundsCounted
  BY <1>1 DEF Init, RoundsCounted
<1>7. Tokens /\ Steps
  <2>1. \A t \in Threads : ~Holds(t) /\ Rounds(t) = 0 /\ sem[t] = 0
    BY DEF Init, Holds, Rounds
  <2>2. \A r \in 0..NRings - 1 : Unposted(r)
    BY DEF Init, Unposted
  <2>3. QED
    BY <2>1, <2>2 DEF Tokens, Steps, OneAtMost, OnceAtMost, NoneUnposted, OneAtLeast
<1>8. QED
  BY <1>3, <1>4, <1>5, <1>6, <1>7 DEF IInv

LEMMA PhaseKept == IInv /\ [Next]_vars => MainPhase'
<1> SUFFICES ASSUME IInv, [Next]_vars PROVE MainPhase'
  OBVIOUS
<1> USE DEF IInv, MainPhase
<1>1. mi \in Int /\ NRings \in Int /\ 1 <= NRings
  BY Ranges DEF TypeOK
<1>2. ASSUME NEW t \in Threads, Await(t) \/ Pass(t) \/ Check(t) \/ Value(t) \/ Exit(t)
      PROVE  MainPhase'
  BY <1>2 DEF Await, Pass, Check, Value, Exit, mainvars
<1>3. ASSUME NEW t \in Threads, Collect(t) PROVE MainPhase'
  BY <1>3 DEF Collect, Joined
<1>4. CASE StartPost
  BY <1>1, <1>4 DEF StartPost, Started
<1>5. CASE Poll \/ Stop \/ ShutPost \/ Join
  BY <1>5 DEF Poll, Stop, ShutPost, Join, Joined
<1>6. CASE UNCHANGED vars
  BY <1>6 DEF vars
<1>7. QED
  BY <1>2, <1>3, <1>4, <1>5, <1>6, Actions

\* Only the step that counts threads_left down takes a partner out of Live.
LEMMA LiveKept == IInv /\ [Next]_vars => LeftIsLive' /\ (stop \/ mpc = "stop" => Live' \subseteq Live)
<1> SUFFICES ASSUME IInv, [Next]_vars
    PROVE LeftIsLive' /\ (stop \/ mpc = "stop" => Live' \subseteq Live)
  OBVIOUS
<1> USE DEF IInv, LeftIsLive
<1>1. pc \in [Threads -> Labels]
  BY DEF TypeOK
<1>2. CASE Live' = Live /\ threads_left' = threads_left
  BY <1>2
<1>3. ASSUME NEW t \in Threads, Exit(t)
      PROVE  LeftIsLive' /\ (stop \/ mpc = "stop" => Live' \subseteq Live)
  <2>1. Live' = Live \ {t} /\ t \in Live /\ threads_left' = threads_left - 1
    BY <1>1, <1>3 DEF Exit, Live
  <2>2. IsFiniteSet(Live)
    <3>1. 0 \in Int /\ TThreads - 1 \in Int /\ 0..TThreads - 1 = Threads
      BY Ranges DEF Threads
    <3>2. IsFiniteSet(Threads) /\ Live \subseteq Threads
      BY <3>1, FS_Interval DEF Live
    <3>3. QED
      BY <3>2, FS_Subset
  <2>3. Cardinality(Live') = Cardinality(Live) - 1
    BY <2>1, <2>2, FS_RemoveElement
  <2>4. QED
    BY <2>1, <2>3
<1>4. ASSUME NEW t \in Threads, Await(t) \/ Check(t) \/ Value(t) \/ Collect(t)
      PROVE  Live' = Live /\ threads_left' = threads_left
  BY <1>1, <1>4 DEF Await, Check, Value, Collect, threadvars, Live
<1>5. ASSUME NEW t \in Threads, Pass(t) PROVE Live' = Live /\ threads_left' = threads_left
  BY <1>1, <1>5 DEF Pass, Post, Live
<1>6. CASE StartPost \/ ShutPost
  BY <1>1, <1>2, <1>6 DEF StartPost, ShutPost, Post, threadvars, Live
<1>7. CASE Poll \/ Stop \/ Join
  BY <1>2, <1>7 DEF Poll, Stop, Join, threadvars, Live
<1>8. CASE UNCHANGED vars
  BY <1>2, <1>8 DEF vars, Live
<1>9. QED
  BY <1>2, <1>3, <1>4, <1>5, <1>6, <1>7, <1>8, Actions

LEMMA CountKept == IInv /\ [Next]_vars => RoundsCounted'
<1> SUFFICES ASSUME IInv, [Next]_vars, ~clock_mode' PROVE RoundsCounted'
  BY DEF RoundsCounted
<1>1. ~clock_mode
  BY Actions DEF Await, Pass, Check, Value, Exit, Collect, StartPost, Poll, Stop, ShutPost,
                 Join, threadvars, vars
<1>2. /\ \A t \in Threads : count[t] = StopCount <=> pc[t] \in {"exit", "send", "done"}
      /\ mpc = "stop" \/ stop => Live = {}
  BY <1>1 DEF IInv, RoundsCounted
<1>3. /\ pc \in [Threads -> Labels] /\ count \in [Threads -> 0..StopCount] /\ StopCount \in Nat
      /\ IsFiniteSet(Live) /\ threads_left = Cardinality(Live)
  <2>1. 0 \in Int /\ TThreads - 1 \in Int /\ 0..TThreads - 1 = Threads
    BY Ranges DEF Threads
  <2>2. IsFiniteSet(Threads) /\ Live \subseteq Threads
    BY <2>1, FS_Interval DEF Live
  <2>3. QED
    BY <2>2, FS_Subset, Sizes DEF IInv, TypeOK, LeftIsLive
<1>4. mpc' = "stop" \/ stop' => Live' = {}
  <2>1. CASE Poll
    <3>1. Live = {}
      BY <1>1, <1>3, <2>1, FS_EmptySet DEF Poll
    <3>2. QED
      BY <2>1, <3>1 DEF Poll, Live
  <2>2. CASE ~Poll
    <3>1. mpc' = "stop" \/ stop' => mpc = "stop" \/ stop
      BY <2>2, Actions DEF Await, Pass, Check, Value, Exit, Collect, StartPost, Stop, ShutPost,
                           Join, Joined, mainvars, vars
    <3>2. QED
      BY <1>2, <3>1, LiveKept
  <2>3. QED
    BY <2>1, <2>2
<1>5. \A u \in Threads : count'[u] = StopCount <=> pc'[u] \in {"exit", "send", "done"}
  <2>1. ASSUME NEW t \in Threads, Check(t), NEW u \in Threads
        PROVE  count'[u] = StopCount <=> pc'[u] \in {"exit", "send", "done"}
    <3>1. count'[u] = (IF u = t THEN count[t] + 1 ELSE count[u]) /\ pc[t] = "check"
      BY <1>1, <1>3, <2>1 DEF Check
    <3>2. Over(t) <=> count[t] + 1 >= StopCount
      BY <1>1 DEF Over
    <3>3. pc'[u] = IF u # t THEN pc[u] ELSE IF Over(t) THEN "exit" ELSE IF prog = "cc" THEN "value" ELSE "wait"
      BY <1>3, <2>1 DEF Check
    <3>4. count[t] \in 0..StopCount /\ count[t] # StopCount
      BY <1>2, <1>3, <3>1
    <3>5. CASE u = t
      <4>1. Over(t) <=> count[t] + 1 = StopCount
        BY <1>3, <3>2, <3>4
      <4>2. pc'[u] \in {"exit", "send", "done"} <=> Over(t)
        BY <3>3, <3>5
      <4>3. QED
        BY <3>1, <3>5, <4>1, <4>2
    <3>6. QED
      BY <1>2, <3>1, <3>3, <3>5
  <2>2. ASSUME NEW t \in Threads, Await(t) \/ Value(t) \/ Exit(t) \/ Collect(t)
        PROVE  \A u \in Threads : count'[u] = count[u] /\ (pc'[u] \in {"exit", "send", "done"} <=> pc[u] \in {"exit", "send", "done"})
    BY <1>3, <2>2 DEF Await, Value, Exit, Collect, threadvars
  <2>3. ASSUME NEW t \in Threads, Pass(t)
        PROVE  \A u \in Threads : count'[u] = count[u] /\ (pc'[u] \in {"exit", "send", "done"} <=> pc[u] \in {"exit", "send", "done"})
    BY <1>3, <2>3 DEF Pass, Post
  <2>4. CASE StartPost \/ ShutPost
    BY <1>2, <1>3, <2>4 DEF StartPost, ShutPost, Post, threadvars
  <2>5. CASE Poll \/ Stop \/ Join \/ UNCHANGED vars
    BY <1>2, <2>5 DEF Poll, Stop, Join, threadvars, vars
  <2>6. QED
    BY <1>2, <2>1, <2>2, <2>3, <2>4, <2>5, Actions
<1>6. QED
  BY <1>4, <1>5 DEF RoundsCounted

LEMMA TypesKept == IInv /\ [Next]_vars /\ LeftIsLive' => TypeOK'
<1> SUFFICES ASSUME IInv, [Next]_vars, LeftIsLive' PROVE TypeOK'
  OBVIOUS
<1>1. threads_left' \in 0..TThreads
  <2>1. 0 \in Int /\ TThreads - 1 \in Int /\ 0..TThreads - 1 = Threads /\ TThreads \in Nat
    BY Ranges DEF Threads
  <2>2. IsFiniteSet(Threads) /\ Cardinality(Threads) = TThreads /\ Live' \subseteq Threads
    BY <2>1, FS_Interval DEF Live
  <2>3. IsFiniteSet(Live') /\ Cardinality(Live') <= Cardinality(Threads)
    BY <2>2, FS_Subset
  <2>4. Cardinality(Live') \in Nat
    BY <2>3, FS_CardinalityType
  <2>5. QED
    BY <2>1, <2>2, <2>3, <2>4 DEF LeftIsLive
<1>2. prog' \in Programs /\ clock_mode' \in ClockModes
  BY Actions DEF IInv, TypeOK, Await, Pass, Check, Value, Exit, Collect, StartPost, Poll, Stop,
                 ShutPost, Join, threadvars, vars
<1>3. mpc' \in {"start", "wait", "stop", "shut", "join", "done"}
  BY Actions DEF IInv, TypeOK, Await, Pass, Check, Value, Exit, Collect, StartPost, Poll, Stop,
                 ShutPost, Join, Joined, mainvars, vars
<1>4. mi' \in Threads
  <2>1. mi \in Threads /\ 0 \in Threads /\ (mi + 1 # TThreads => mi + 1 \in Threads)
        /\ (mpc = "start" /\ mi + 1 # NRings => mi + 1 \in Threads)
    BY Ranges DEF IInv, TypeOK, MainPhase
  <2>2. ASSUME NEW t \in Threads,
               Await(t) \/ Pass(t) \/ Check(t) \/ Value(t) \/ Exit(t) \/ Collect(t)
        PROVE  mi' \in Threads
    BY <2>1, <2>2 DEF Await, Pass, Check, Value, Exit, Collect, Joined, mainvars
  <2>3. CASE StartPost \/ Poll \/ Stop \/ ShutPost \/ Join \/ UNCHANGED vars
    BY <2>1, <2>3 DEF StartPost, Started, Poll, Stop, ShutPost, Join, Joined, vars
  <2>4. QED
    BY <2>2, <2>3, Actions
<1>5. stop' \in BOOLEAN /\ aborted' \in BOOLEAN
  <2>1. stop \in BOOLEAN /\ aborted \in BOOLEAN
    BY DEF IInv, TypeOK
  <2>2. stop' \in BOOLEAN
    BY <2>1, Actions DEF Await, Pass, Check, Value, Exit, Collect, StartPost, Poll, Stop,
                         ShutPost, Join, mainvars, vars
  <2>3. ASSUME NEW t \in Threads, Value(t) PROVE aborted' \in BOOLEAN
    BY <2>3 DEF Value
  <2>4. aborted' \in BOOLEAN
    BY <2>1, <2>3, Actions DEF Await, Pass, Check, Exit, Collect, StartPost, Poll, Stop,
                               ShutPost, Join, threadvars, vars
  <2>5. QED
    BY <2>2, <2>4
<1>6. pc' \in [Threads -> Labels]
  <2>1. pc \in [Threads -> Labels]
    BY DEF IInv, TypeOK
  <2>2. QED
    BY <2>1, Actions DEF Await, Pass, Check, Value, Exit, Collect, StartPost, Poll, Stop,
                         ShutPost, Join, Post, threadvars, vars
<1>7. sem' \in [Threads -> Nat]
  <2>1. sem \in [Threads -> Nat]
    BY DEF IInv, TypeOK
  <2>2. ASSUME NEW t \in Threads, Await(t) PROVE sem' \in [Threads -> Nat]
    BY <2>1, <2>2 DEF Await
  <2>3. ASSUME NEW u, NEW pcs, Post(u, pcs) PROVE sem' \in [Threads -> Nat]
    BY <2>1, <2>3 DEF Post
  <2>4. QED
    BY <2>1, <2>2, <2>3, Actions DEF Pass, Check, Value, Exit, Collect, StartPost, Poll, Stop,
                                     ShutPost, Join, threadvars, vars
<1>8. count' \in [Threads -> 0..StopCount]
  <2>1. count \in [Threads -> 0..StopCount] /\ StopCount \in Nat
    BY Sizes DEF IInv, TypeOK
  <2>2. ASSUME NEW t \in Threads, Check(t) PROVE count' \in [Threads -> 0..StopCount]
    <3>1. ~clock_mode => count[t] # StopCount
      BY <2>2 DEF IInv, RoundsCounted, Check
    <3>2. ~clock_mode => count[t] + 1 \in 0..StopCount
      BY <2>1, <3>1
    <3>3. QED
      BY <2>1, <2>2, <3>2 DEF Check
  <2>3. QED
    BY <2>1, <2>2, Actions DEF Await, Pass, Value, Exit, Collect, StartPost, Poll, Stop,
                               ShutPost, Join, threadvars, vars
<1>9. QED
  BY <1>1, <1>2, <1>3, <1>4, <1>5, <1>6, <1>7, <1>8 DEF TypeOK

LEMMA AbortKept == IInv /\ [Next]_vars => AbortOnlyAtShutdown'
<1> SUFFICES ASSUME IInv, [Next]_vars PROVE AbortOnlyAtShutdown'
  OBVIOUS
<1> USE DEF IInv, AbortOnlyAtShutdown
<1>1. ASSUME NEW t \in Threads, Value(t) PROVE AbortOnlyAtShutdown'
  <2>1. sem[t] > 1 => stop
    BY <1>1 DEF Tokens, OnceAtMost
  <2>2. stop => clock_mode
    BY <1>1 DEF RoundsCounted, Live, Value
  <2>3. QED
    BY <1>1, <2>1, <2>2 DEF Value, mainvars
<1>2. QED
  BY <1>1, Actions DEF Await, Pass, Check, Exit, Collect, StartPost, Poll, Stop, ShutPost, Join,
                       mainvars, threadvars, vars
-----------------------------------------------------------------------------
(* The tokens.  Until the run is stopped a step leaves them where they are, *)
(* or moves one to the next partner, or brings a ring its first.            *)

SameUnposted == \A r \in 0..NRings - 1 : Unposted(r)' <=> Unposted(r)

TokensStay ==
  /\ \A v \in Threads : Holds(v)' <=> Holds(v)
  /\ ~clock_mode => \A v \in Threads : Rounds(v)' = Rounds(v)
  /\ SameUnposted

TokenMoves(t) ==
  /\ Holds(t)
  /\ \A v \in Threads : Holds(v)' <=> v = NextOf(t) \/ (Holds(v) /\ v # t)
  /\ ~clock_mode => \A v \in Threads : Rounds(v)' = Rounds(v) + (IF v = t THEN 1 ELSE 0)
  /\ SameUnposted

TokenComes ==
  /\ mi \in 0..NRings - 1 /\ Unposted(mi)
  /\ \A v \in Threads : Holds(v)' <=> v = mi \/ Holds(v)
  /\ ~clock_mode => \A v \in Threads : Rounds(v)' = Rounds(v)
  /\ \A r \in 0..NRings - 1 : Unposted(r)' <=> Unposted(r) /\ r # mi

LEMMA NotStopped == IInv /\ [Next]_vars /\ ~stop' => ~stop /\ Tokens
<1> SUFFICES ASSUME IInv, [Next]_vars, ~stop' PROVE ~stop
  BY DEF IInv
<1>1. QED
  BY Actions DEF IInv, MainPhase, Await, Pass, Check, Value, Exit, Collect, StartPost, Poll,
                 Stop, ShutPost, Join, mainvars, vars

LEMMA Moves ==
  ASSUME IInv, [Next]_vars, ~stop'
  PROVE  TokensStay \/ TokenComes \/ \E t \in Threads : TokenMoves(t)
<1>1. ~stop /\ Tokens /\ TypeOK /\ MainPhase
  BY NotStopped DEF IInv
<1>2. /\ pc \in [Threads -> Labels] /\ sem \in [Threads -> Nat]
      /\ \A v \in Threads : count[v] \in Int
  BY <1>1, Sizes DEF TypeOK
<1>3. ASSUME NEW t \in Threads, Await(t) PROVE TokensStay
  <2>1. \A v \in Threads : Holds(v)' <=> Holds(v)
    BY <1>1, <1>2, <1>3 DEF Await, Holds, Tokens, OnceAtMost
  <2>2. \A v \in Threads : Rounds(v)' = Rounds(v)
    BY <1>2, <1>3 DEF Await, Rounds
  <2>3. QED
    BY <1>3, <2>1, <2>2 DEF Await, mainvars, TokensStay, SameUnposted, Unposted
<1>4. ASSUME NEW t \in Threads, Check(t) PROVE TokensStay
  <2>1. \A v \in Threads : Holds(v)' <=> Holds(v)
    BY <1>2, <1>4 DEF Check, Holds
  <2>2. ~clock_mode => \A v \in Threads : Rounds(v)' = Rounds(v)
    <3>1. \A v \in Threads : pc'[v] = "check" <=> v # t /\ pc[v] = "check"
      BY <1>2, <1>4 DEF Check
    <3>2. pc[t] = "check"
      BY <1>4 DEF Check
    <3>3. count \in [Threads -> 0..StopCount]
      BY <1>1 DEF TypeOK
    <3>4. ~clock_mode => \A v \in Threads : count'[v] = count[v] + (IF v = t THEN 1 ELSE 0)
      BY <1>2, <1>4, <3>3 DEF Check
    <3>5. QED
      BY <1>2, <3>1, <3>2, <3>4 DEF Rounds
  <2>3. QED
    BY <1>4, <2>1, <2>2 DEF Check, mainvars, TokensStay, SameUnposted, Unposted
<1>5. ASSUME NEW t \in Threads, Value(t) \/ Exit(t) PROVE TokensStay
  <2>1. \A v \in Threads : Holds(v)' <=> Holds(v)
    BY <1>2, <1>5 DEF Value, Exit, Holds
  <2>2. \A v \in Threads : Rounds(v)' = Rounds(v)
    BY <1>2, <1>5 DEF Value, Exit, Rounds
  <2>3. QED
    BY <1>5, <2>1, <2>2 DEF Value, Exit, mainvars, TokensStay, SameUnposted, Unposted
<1>6. ASSUME NEW t \in Threads, Pass(t) PROVE TokenMoves(t)
  <2>1. PICK n \in Threads : n = NextOf(t) /\ Ring(n) = Ring(t)
    BY NextInRing
  <2>2. /\ pc[t] = "hold" /\ Post(n, [pc EXCEPT ![t] = "check"])
        /\ count' = count /\ mpc' = mpc /\ mi' = mi
    BY <1>6, <2>1 DEF Pass, mainvars
  <2>3. sem[t] = 0 /\ Holds(t)
    BY <1>1, <2>2 DEF Tokens, OnceAtMost, Holds
  <2>4. n # t => ~Holds(n)
    BY <1>1, <2>1, <2>3 DEF Tokens, OneAtMost
  <2>5. \A v \in Threads : Holds(v)' <=> v = n \/ (Holds(v) /\ v # t)
    BY <1>2, <2>1, <2>2, <2>3, <2>4 DEF Post, Holds
  <2>6. \A v \in Threads : Rounds(v)' = Rounds(v) + (IF v = t THEN 1 ELSE 0)
    <3>1. \A v \in Threads : pc'[v] = "check" <=> v = t \/ pc[v] = "check"
      BY <1>2, <2>1, <2>2 DEF Post
    <3>2. QED
      BY <1>2, <2>2, <3>1 DEF Rounds
  <2>7. QED
    BY <2>1, <2>2, <2>3, <2>5, <2>6 DEF TokenMoves, SameUnposted, Unposted
<1>7. CASE StartPost
  <2>1. mi \in 0..NRings - 1 /\ mi \in Threads /\ Ring(mi) = mi /\ mpc = "start" /\ Post(mi, pc)
    BY <1>1, <1>7, RingFirst, Ranges DEF StartPost, MainPhase, TypeOK
  <2>2. Unposted(mi) /\ ~Holds(mi)
    BY <1>1, <2>1, Ranges DEF Unposted, Tokens, NoneUnposted
  <2>3. \A v \in Threads : Holds(v)' <=> v = mi \/ Holds(v)
    BY <1>2, <2>1, <2>2 DEF Post, Holds
  <2>4. \A v \in Threads : Rounds(v)' = Rounds(v)
    BY <1>2, <1>7, <2>1 DEF StartPost, threadvars, Post, Rounds
  <2>5. \A r \in 0..NRings - 1 : Unposted(r)' <=> Unposted(r) /\ r # mi
    BY <1>7, <2>1, Ranges DEF StartPost, Started, Unposted
  <2>6. QED
    BY <2>1, <2>2, <2>3, <2>4, <2>5 DEF TokenComes
<1>8. CASE Poll
  BY <1>8 DEF Poll, threadvars, TokensStay, SameUnposted, Unposted, Holds, Rounds
<1>9. CASE UNCHANGED vars
  BY <1>9 DEF vars, TokensStay, SameUnposted, Unposted, Holds, Rounds
<1>10. ASSUME NEW t \in Threads, Collect(t) \/ Stop \/ ShutPost \/ Join PROVE FALSE
  BY <1>1, <1>10 DEF MainPhase, Collect, Stop, ShutPost, Join
<1>11. QED
  <2>1. 0 \in Threads
    BY Ranges
  <2>2. QED
    BY <1>3, <1>4, <1>5, <1>6, <1>7, <1>8, <1>9, <1>10, <2>1, Actions

LEMMA TokensKept == IInv /\ [Next]_vars => (~stop' => Tokens')
<1> SUFFICES ASSUME IInv, [Next]_vars, ~stop' PROVE Tokens'
  OBVIOUS
<1>1. ~stop /\ Tokens /\ TypeOK /\ MainPhase
  BY NotStopped DEF IInv
<1>2. /\ pc \in [Threads -> Labels] /\ sem \in [Threads -> Nat]
  BY <1>1 DEF TypeOK
<1>3. \A t \in Threads : /\ NextOf(t) \in Threads /\ Ring(t) \in 0..NRings - 1
                         /\ Ring(NextOf(t)) = Ring(t)
  BY NextInRing
<1>4. OneAtMost' /\ NoneUnposted' /\ OneAtLeast'
  <2>1. CASE TokensStay
    BY <1>1, <1>3, <2>1 DEF TokensStay, SameUnposted, Tokens, OneAtMost, NoneUnposted, OneAtLeast
  <2>2. ASSUME NEW t \in Threads, TokenMoves(t) PROVE OneAtMost' /\ NoneUnposted' /\ OneAtLeast'
    <3>1. OneAtMost'
      BY <1>1, <1>3, <2>2 DEF TokenMoves, Tokens, OneAtMost
    <3>2. NoneUnposted'
      BY <1>1, <1>3, <2>2 DEF TokenMoves, SameUnposted, Tokens, NoneUnposted
    <3>3. ASSUME NEW r \in 0..NRings - 1, ~Unposted(r)'
          PROVE  \E u \in Threads : Ring(u) = r /\ Holds(u)'
      <4>1. ~Unposted(r)
        BY <2>2, <3>3 DEF TokenMoves, SameUnposted
      <4>2. PICK u \in Threads : Ring(u) = r /\ Holds(u)
        BY <1>1, <4>1 DEF Tokens, OneAtLeast
      <4>3. CASE u = t
        BY <1>3, <2>2, <4>2, <4>3 DEF TokenMoves
      <4>4. CASE u # t
        BY <2>2, <4>2, <4>4 DEF TokenMoves
      <4>5. QED
        BY <4>3, <4>4
    <3>4. OneAtLeast'
      BY <3>3 DEF OneAtLeast
    <3>5. QED
      BY <3>1, <3>2, <3>4
  <2>3. CASE TokenComes
    <3>1. mi \in Threads /\ Ring(mi) = mi
      BY <2>3, RingFirst DEF TokenComes
    <3>2. OneAtMost'
      BY <1>1, <1>3, <2>3, <3>1 DEF TokenComes, Tokens, OneAtMost, NoneUnposted
    <3>3. NoneUnposted'
      BY <1>1, <1>3, <2>3, <3>1 DEF TokenComes, Tokens, NoneUnposted
    <3>4. ASSUME NEW r \in 0..NRings - 1, ~Unposted(r)'
          PROVE  \E u \in Threads : Ring(u) = r /\ Holds(u)'
      <4>1. CASE r = mi
        BY <2>3, <3>1, <4>1 DEF TokenComes
      <4>2. CASE r # mi
        BY <1>1, <2>3, <3>4, <4>2 DEF TokenComes, Tokens, OneAtLeast
      <4>3. QED
        BY <4>1, <4>2
    <3>5. OneAtLeast'
      BY <3>4 DEF OneAtLeast
    <3>6. QED
      BY <3>2, <3>3, <3>5
  <2>4. QED
    BY <2>1, <2>2, <2>3, Moves
<1>5. OnceAtMost'
  <2>1. OnceAtMost
    BY <1>1 DEF Tokens
  <2>2. ASSUME NEW t \in Threads, Await(t) PROVE OnceAtMost'
    BY <1>2, <2>1, <2>2 DEF OnceAtMost, Await
  <2>3. ASSUME NEW t \in Threads, Check(t) \/ Value(t) \/ Exit(t) PROVE OnceAtMost'
    BY <1>2, <2>1, <2>3 DEF OnceAtMost, Check, Value, Exit
  <2>4. ASSUME NEW t \in Threads, Pass(t) PROVE OnceAtMost'
    <3>1. PICK n \in Threads : n = NextOf(t) /\ Ring(n) = Ring(t)
      BY NextInRing
    <3>2. pc[t] = "hold" /\ Post(n, [pc EXCEPT ![t] = "check"])
      BY <2>4, <3>1 DEF Pass
    <3>3. sem[t] = 0 /\ Holds(t)
      BY <2>1, <3>2 DEF OnceAtMost, Holds
    <3>4. n # t => sem[n] = 0 /\ pc[n] # "hold"
      BY <1>1, <1>2, <3>1, <3>3 DEF Tokens, OneAtMost, Holds
    <3>5. QED
      BY <1>2, <2>1, <3>1, <3>2, <3>3, <3>4 DEF OnceAtMost, Post
  <2>5. CASE StartPost
    <3>1. mi \in 0..NRings - 1 /\ mi \in Threads /\ Ring(mi) = mi /\ mpc = "start" /\ Post(mi, pc)
      BY <1>1, <2>5, RingFirst, Ranges DEF StartPost, MainPhase, TypeOK
    <3>2. sem[mi] = 0 /\ pc[mi] # "hold"
      BY <1>1, <1>2, <3>1, Ranges DEF Unposted, Tokens, NoneUnposted, Holds
    <3>3. QED
      BY <1>2, <2>1, <3>1, <3>2 DEF OnceAtMost, Post
  <2>6. CASE Poll \/ UNCHANGED vars
    BY <2>1, <2>6 DEF OnceAtMost, Poll, vars
  <2>7. ASSUME NEW t \in Threads, Collect(t) \/ Stop \/ ShutPost \/ Join PROVE FALSE
    BY <1>1, <2>7 DEF MainPhase, Collect, Stop, ShutPost, Join
  <2>8. 0 \in Threads
    BY Ranges
  <2>9. QED
    BY <2>2, <2>3, <2>4, <2>5, <2>6, <2>7, <2>8, Actions
<1>6. QED
  BY <1>4, <1>5 DEF Tokens

LEMMA StepsKept == IInv /\ [Next]_vars => (~stop' /\ ~clock_mode' => Steps')
<1> SUFFICES ASSUME IInv, [Next]_vars, ~stop', ~clock_mode' PROVE Steps'
  OBVIOUS
<1>1. ~clock_mode
  BY Actions DEF Await, Pass, Check, Value, Exit, Collect, StartPost, Poll, Stop, ShutPost,
                 Join, threadvars, vars
<1>2. ~stop /\ Tokens /\ Steps
  BY <1>1, NotStopped DEF IInv
<1>3. \A t \in Threads : t \in Int /\ Rounds(t) \in Int /\ Ring(t) \in 0..NRings - 1
  <2>1. \A t \in Threads : count[t] \in Int
    BY Sizes DEF IInv, TypeOK
  <2>2. QED
    BY <2>1, Ranges, NextInRing DEF Rounds
<1>4. CASE TokensStay
  BY <1>1, <1>2, <1>3, <1>4 DEF TokensStay, SameUnposted, Steps
<1>5. CASE TokenComes
  <2>1. mi \in Threads /\ Ring(mi) = mi /\ \A u \in Threads : Ring(u) <= u
    BY <1>5, RingFirst DEF TokenComes
  <2>2. \A u \in Threads : Ring(u) = mi => Rounds(u) = 0 /\ ~Holds(u) /\ ~(u < mi)
    BY <1>2, <1>3, <1>5, <2>1 DEF TokenComes, Tokens, NoneUnposted, Steps
  <2>3. ASSUME NEW v \in Threads, NEW u \in Threads, Holds(v)', Ring(v) = Ring(u)
        PROVE  Rounds(u)' = Rounds(v)' + (IF u < v THEN 1 ELSE 0)
    <3>1. CASE v = mi
      BY <1>1, <1>5, <2>1, <2>2, <2>3, <3>1 DEF TokenComes
    <3>2. CASE v # mi
      BY <1>1, <1>2, <1>5, <2>3, <3>2 DEF TokenComes, Steps
    <3>3. QED
      BY <3>1, <3>2
  <2>4. \A v \in Threads : Unposted(Ring(v))' => Rounds(v)' = 0
    BY <1>1, <1>2, <1>3, <1>5 DEF TokenComes, Steps
  <2>5. QED
    BY <2>3, <2>4 DEF Steps
<1>6. ASSUME NEW t \in Threads, TokenMoves(t) PROVE Steps'
  <2>1. PICK n \in Threads :
          /\ n = NextOf(t) /\ Ring(n) = Ring(t)
          /\ t + NRings < TThreads => n = t + NRings
          /\ t + NRings >= TThreads => n = Ring(t)
    BY NextInRing
  <2>2. \A u \in Threads : Ring(u) = Ring(t) =>
          /\ Rounds(u) = Rounds(t) + (IF u < t THEN 1 ELSE 0)
          /\ Rounds(u)' = Rounds(u) + (IF u = t THEN 1 ELSE 0)
    BY <1>1, <1>2, <1>6 DEF TokenMoves, Steps
  <2>3. \A u \in Threads : Ring(u) = Ring(t) => Rounds(u)' = Rounds(t) + (IF u <= t THEN 1 ELSE 0)
    BY <1>3, <2>2
  <2>4. ASSUME NEW u \in Threads, Ring(u) = Ring(t)
        PROVE  Rounds(u)' = Rounds(n)' + (IF u < n THEN 1 ELSE 0)
    <3>1. Rounds(u)' = Rounds(t) + (IF u <= t THEN 1 ELSE 0)
      BY <2>3, <2>4
    <3>2. Rounds(n)' = Rounds(t) + (IF n <= t THEN 1 ELSE 0)
      BY <2>1, <2>3
    <3>3. NRings \in Int /\ NRings >= 1 /\ TThreads \in Int /\ u < TThreads
      BY <1>3, Ranges
    <3>4. CASE t + NRings < TThreads
      <4>1. n > t
        BY <1>3, <2>1, <3>3, <3>4
      <4>2. u < n <=> u <= t
        BY <1>3, <2>1, <2>4, <3>3, <3>4, RingOrder
      <4>3. QED
        BY <1>3, <3>1, <3>2, <4>1, <4>2
    <3>5. CASE t + NRings >= TThreads
      <4>1. u < t + NRings
        BY <1>3, <3>3, <3>5
      <4>2. u <= t
        BY <2>4, <4>1, RingOrder
      <4>3. n <= u /\ n <= t
        BY <2>1, <2>4, <3>5, RingFirst
      <4>4. QED
        BY <1>3, <3>1, <3>2, <4>2, <4>3
    <3>6. QED
      BY <1>3, <3>3, <3>4, <3>5
  <2>5. ASSUME NEW v \in Threads, NEW u \in Threads, Holds(v)', Ring(v) = Ring(u)
        PROVE  Rounds(u)' = Rounds(v)' + (IF u < v THEN 1 ELSE 0)
    <3>1. CASE v = n
      BY <2>1, <2>4, <2>5, <3>1
    <3>2. CASE v # n
      <4>1. Holds(v) /\ v # t /\ Holds(t)
        BY <1>6, <2>1, <2>5, <3>2 DEF TokenMoves
      <4>2. Ring(v) # Ring(t)
        BY <1>2, <4>1 DEF Tokens, OneAtMost
      <4>3. Rounds(v)' = Rounds(v) /\ Rounds(u)' = Rounds(u)
        BY <1>1, <1>3, <1>6, <2>5, <4>2 DEF TokenMoves
      <4>4. QED
        BY <1>2, <2>5, <4>1, <4>3 DEF Steps
    <3>3. QED
      BY <3>1, <3>2
  <2>6. ASSUME NEW v \in Threads, Unposted(Ring(v))' PROVE Rounds(v)' = 0
    <3>1. Unposted(Ring(v))
      BY <1>3, <1>6, <2>6 DEF TokenMoves, SameUnposted
    <3>2. Rounds(v) = 0 /\ v # t
      BY <1>2, <1>6, <3>1 DEF TokenMoves, Tokens, NoneUnposted, Steps
    <3>3. QED
      BY <1>1, <1>3, <1>6, <3>2 DEF TokenMoves
  <2>7. QED
    BY <2>5, <2>6 DEF Steps
<1>7. QED
  BY <1>4, <1>5, <1>6, Moves
-----------------------------------------------------------------------------
LEMMA StepIInv == IInv /\ [Next]_vars => IInv'
  BY PhaseKept, LiveKept, CountKept, TypesKept, AbortKept, TokensKept, StepsKept DEF IInv

LEMMA IInvAlways == Spec => []IInv
  BY InitIInv, StepIInv, PTL DEF Spec

\* Every variable keeps its type, in all five programs and for every size: no partner
\* counts past --iterations, and threads_left never passes zero.
THEOREM TypeCorrect == Spec => []TypeOK
<1>1. IInv => TypeOK
  BY DEF IInv
<1>2. QED
  BY <1>1, IInvAlways, PTL

\* Until main stops the run every ring has exactly one token, so bench_sem and Go's
\* non-blocking send, which drop a post that finds another, drop none.
THEOREM TokensAreUnique == Spec => []OneTokenPerRing
<1>1. IInv => OneTokenPerRing
  <2> SUFFICES ASSUME IInv, ~stop, NEW r \in 0..NRings - 1
               PROVE  IF mpc = "start" /\ r >= mi THEN Holders(r) = {}
                      ELSE \E t \in Threads :
                             /\ Holders(r) = {t}
                             /\ sem[t] = (IF pc[t] = "hold" THEN 0 ELSE 1)
    BY DEF OneTokenPerRing
  <2>1. Tokens /\ Holders(r) = {t \in Threads : Ring(t) = r /\ Holds(t)}
    BY DEF IInv, Holders, Holds
  <2>2. CASE Unposted(r)
    BY <2>1, <2>2 DEF Unposted, Tokens, NoneUnposted
  <2>3. CASE ~Unposted(r)
    <3>1. PICK t \in Threads : Ring(t) = r /\ Holds(t)
      BY <2>1, <2>3 DEF Tokens, OneAtLeast
    <3>2. Holders(r) = {t}
      BY <2>1, <3>1 DEF Tokens, OneAtMost
    <3>3. sem[t] = (IF pc[t] = "hold" THEN 0 ELSE 1)
      BY <2>1, <3>1 DEF Tokens, OnceAtMost, Holds
    <3>4. QED
      BY <2>3, <3>2, <3>3 DEF Unposted
  <2>4. QED
    BY <2>2, <2>3
<1>2. QED
  BY <1>1, IInvAlways, PTL

\* In iteration mode no partner laps another, whatever the size of the ring.
THEOREM RoundsStayInStep == Spec => []RoundsInStep
<1>1. IInv => RoundsInStep
  <2> SUFFICES ASSUME IInv, ~clock_mode, ~stop, NEW t \in Threads
               PROVE  /\ t + NRings < TThreads => Rounds(t) - Rounds(t + NRings) \in 0..1
                      /\ Rounds(Ring(t)) - Rounds(t) \in 0..1
    BY DEF RoundsInStep
  <2>1. Tokens /\ Steps /\ \A u \in Threads : count[u] \in Int
    BY Sizes DEF IInv, TypeOK
  <2>2. ASSUME NEW u \in Threads, NEW v \in Threads, Ring(u) = Ring(v), u <= v
        PROVE  Rounds(u) - Rounds(v) \in 0..1
    <3>1. u \in Int /\ v \in Int /\ Rounds(u) \in Int /\ Rounds(v) \in Int
      BY <2>1, Ranges DEF Rounds
    <3>2. CASE Unposted(Ring(u))
      BY <2>1, <2>2, <3>2 DEF Steps
    <3>3. CASE ~Unposted(Ring(u))
      <4>1. PICK h \in Threads : Ring(h) = Ring(u) /\ Holds(h)
        BY <2>1, <3>3, NextInRing DEF Tokens, OneAtLeast
      <4>2. h \in Int /\ Rounds(h) \in Int
        BY <2>1, Ranges DEF Rounds
      <4>3. /\ Rounds(u) = Rounds(h) + (IF u < h THEN 1 ELSE 0)
            /\ Rounds(v) = Rounds(h) + (IF v < h THEN 1 ELSE 0)
        BY <2>1, <2>2, <4>1 DEF Steps
      <4>4. QED
        BY <2>2, <3>1, <4>2, <4>3
    <3>4. QED
      BY <3>2, <3>3
  <2>3. t + NRings < TThreads => /\ t + NRings \in Threads /\ Ring(t + NRings) = Ring(t)
                                 /\ t <= t + NRings
    BY NextInRing, Ranges
  <2>4. Ring(t) \in Threads /\ Ring(Ring(t)) = Ring(t) /\ Ring(t) <= t
    BY RingFirst
  <2>5. QED
    BY <2>2, <2>3, <2>4
<1>2. QED
  BY <1>1, IInvAlways, PTL

\* When the run is over in iteration mode every partner has made --iterations rounds.
THEOREM RoundsAreExact == Spec => []IterationsExact
<1>1. IInv => IterationsExact
  <2> SUFFICES ASSUME IInv, ~clock_mode, stop \/ threads_left = 0, NEW t \in Threads
               PROVE  count[t] = StopCount
    BY DEF IterationsExact
  <2>1. Live = {}
    <3>1. CASE stop
      BY <3>1 DEF IInv, RoundsCounted
    <3>2. CASE threads_left = 0
      <4>1. 0 \in Int /\ TThreads - 1 \in Int /\ 0..TThreads - 1 = Threads
        BY Ranges DEF Threads
      <4>2. IsFiniteSet(Threads) /\ Live \subseteq Threads
        BY <4>1, FS_Interval DEF Live
      <4>3. IsFiniteSet(Live)
        BY <4>2, FS_Subset
      <4>4. QED
        BY <3>2, <4>3, FS_EmptySet DEF IInv, LeftIsLive
    <3>3. QED
      BY <3>1, <3>2
  <2>2. QED
    BY <2>1 DEF IInv, RoundsCounted, Live
<1>2. QED
  BY <1>1, IInvAlways, PTL

\* The pthread program's abort is out of reach until a timed run is stopped.
THEOREM AbortsOnlyAtShutdown == Spec => []AbortOnlyAtShutdown
<1>1. IInv => AbortOnlyAtShutdown
  BY DEF IInv
<1>2. QED
  BY <1>1, IInvAlways, PTL
-----------------------------------------------------------------------------
(* Nobody is stuck.  TLC finds deadlocks from ENABLED, which the provers    *)
(* cannot reach; here the guards that can close are written out: a partner  *)
(* stops only asleep, at Go's send or done, and main in one of its waits.   *)

Moving(t) == pc[t] \notin {"asleep", "send", "done"}

MainMoves ==
  \/ mpc = "start" /\ (prog = "go" => sem[mi] = 0)
  \/ mpc = "wait" /\ (clock_mode \/ threads_left = 0)
  \/ mpc \in {"stop", "shut"}
  \/ mpc = "join" /\ (IF prog = "go" THEN \E t \in Threads : pc[t] = "send" ELSE pc[mi] = "done")

SomebodyMoves == mpc = "done" \/ aborted \/ MainMoves \/ \E t \in Threads : Moving(t)

\* The shutdown has posted u: it is not asleep and will not sleep again.
Posted(u) ==
  \/ mpc = "shut" /\ u < mi
  \/ mpc = "join" /\ (prog = "rs" \/ u <= mi)
  \/ mpc = "done"
Up(u) == pc[u] # "asleep" /\ (pc[u] \in {"wait", "value"} => sem[u] > 0)
Woken == \A u \in Threads : Posted(u) => Up(u)

\* Two places exist in one program only.
Labelled == \A t \in Threads : (pc[t] = "value" => prog = "cc") /\ (pc[t] = "send" => prog = "go")

\* Go's main counts the results it has received by its index.
Received == {t \in Threads : pc[t] = "done"}
Collected ==
  prog = "go" /\ mpc # "done" =>
    Cardinality(Received) = IF mpc \in {"shut", "join"} THEN mi ELSE 0

JInv == Woken /\ Labelled /\ Collected

\* The steps, with the programs that have them where that matters here.
LEMMA ProgramActions ==
  ASSUME [Next]_vars
  PROVE  /\ prog' = prog
         /\ \/ \E t \in Threads :
                 \/ Await(t) \/ Pass(t) \/ Check(t) \/ Exit(t)
                 \/ prog = "cc" /\ Value(t)
                 \/ prog = "go" /\ Collect(t)
            \/ StartPost \/ Poll \/ Stop \/ ShutPost
            \/ prog # "go" /\ Join
            \/ UNCHANGED vars
<1>1. prog' = prog
  BY Actions DEF Await, Pass, Check, Value, Exit, Collect, StartPost, Poll, Stop, ShutPost,
                 Join, threadvars, vars
<1>2. QED
  BY <1>1 DEF Next, Main, Ended, Partner, FibrePartner, PthreadPartner, CfaPartner, GoPartner,
              TokioPartner, FibreMain, PthreadMain, CfaMain, GoMain, TokioMain

\* Whoever is posted is up, and the post leaves the others alone.
LEMMA PostRaises ==
  ASSUME TypeOK, NEW n \in Threads, NEW pcs \in [Threads -> Labels], Post(n, pcs)
  PROVE  /\ Up(n)'
         /\ \A u \in Threads : u # n => pc'[u] = pcs[u] /\ sem'[u] = sem[u]
<1>1. sem \in [Threads -> Nat]
  BY DEF TypeOK
<1>2. CASE pcs[n] = "asleep"
  <2>1. pc' = [pcs EXCEPT ![n] = "hold"] /\ sem' = sem
    BY <1>2 DEF Post
  <2>2. QED
    BY <1>2, <2>1 DEF Up
<1>3. CASE pcs[n] # "asleep"
  <2>1. pc' = pcs /\ sem' = [sem EXCEPT ![n] = IF Binary THEN 1 ELSE @ + 1]
    BY <1>3 DEF Post
  <2>2. sem'[n] > 0
    BY <1>1, <2>1
  <2>3. QED
    BY <1>1, <1>3, <2>1, <2>2 DEF Up
<1>4. QED
  BY <1>2, <1>3

LEMMA InitJInv == Init => JInv
<1> SUFFICES ASSUME Init PROVE JInv
  OBVIOUS
<1>1. Woken /\ Labelled
  BY DEF Init, Woken, Posted, Labelled
<1>2. Received = {}
  BY DEF Init, Received
<1>3. QED
  BY <1>1, <1>2, FS_EmptySet DEF Init, JInv, Collected

LEMMA WokenKept == IInv /\ JInv /\ [Next]_vars => Woken'
<1> SUFFICES ASSUME IInv, JInv, [Next]_vars, NEW u \in Threads, Posted(u)' PROVE Up(u)'
  BY DEF Woken
<1>1. /\ TypeOK /\ MainPhase /\ pc \in [Threads -> Labels] /\ sem \in [Threads -> Nat]
      /\ Posted(u) => Up(u)
  BY DEF IInv, TypeOK, JInv, Woken
<1>2. u \in Int /\ u >= 0 /\ u <= TThreads - 1 /\ mi \in Int /\ TThreads \in Int
  BY <1>1, Ranges DEF TypeOK
<1>3. ASSUME NEW t \in Threads, Await(t) PROVE Up(u)'
  <2>1. Up(u)
    BY <1>1, <1>3 DEF Await, mainvars, Posted
  <2>2. QED
    BY <1>1, <1>3, <2>1 DEF Await, Up
<1>4. ASSUME NEW t \in Threads, Pass(t) PROVE Up(u)'
  <2>1. PICK n \in Threads : n = NextOf(t)
    BY NextInRing
  <2>2. PICK pcs \in [Threads -> Labels] : pcs = [pc EXCEPT ![t] = "check"]
    BY <1>1
  <2>3. Up(u) /\ Post(n, pcs)
    BY <1>1, <1>4, <2>1, <2>2 DEF Pass, mainvars, Posted
  <2>4. CASE u = n
    BY <1>1, <2>3, <2>4, PostRaises
  <2>5. CASE u # n
    <3>1. pc'[u] = pcs[u] /\ sem'[u] = sem[u]
      BY <1>1, <2>3, <2>5, PostRaises
    <3>2. QED
      BY <1>1, <2>2, <2>3, <3>1 DEF Up
  <2>6. QED
    BY <2>4, <2>5
<1>5. ASSUME NEW t \in Threads, Check(t) PROVE Up(u)'
  <2>1. Up(u) /\ stop
    BY <1>1, <1>5 DEF Check, mainvars, Posted, MainPhase
  <2>2. clock_mode
    BY <1>5, <2>1 DEF IInv, RoundsCounted, Live, Check
  <2>3. QED
    BY <1>1, <1>5, <2>1, <2>2 DEF Check, Over, Up
<1>6. ASSUME NEW t \in Threads, Value(t) \/ Exit(t) PROVE Up(u)'
  <2>1. Up(u)
    BY <1>1, <1>6 DEF Value, Exit, mainvars, Posted
  <2>2. QED
    BY <1>1, <1>6, <2>1 DEF Value, Exit, Up
<1>7. ASSUME NEW t \in Threads, Collect(t) PROVE Up(u)'
  <2>1. Up(u)
    BY <1>1, <1>2, <1>7 DEF Collect, Joined, threadvars, Posted
  <2>2. QED
    BY <1>1, <1>7, <2>1 DEF Collect, Up
<1>8. CASE StartPost \/ Poll
  BY <1>8 DEF StartPost, Poll, Posted
<1>9. CASE Stop
  BY <1>1, <1>2, <1>9 DEF Stop, Posted, MainPhase
<1>10. CASE ShutPost
  <2>1. mi \in Threads /\ Post(mi, pc)
    BY <1>1, <1>10 DEF ShutPost, TypeOK
  <2>2. CASE u = mi
    BY <1>1, <2>1, <2>2, PostRaises
  <2>3. CASE u # mi
    <3>1. Up(u)
      BY <1>1, <1>2, <1>10, <2>3 DEF ShutPost, threadvars, Posted
    <3>2. pc'[u] = pc[u] /\ sem'[u] = sem[u]
      BY <1>1, <2>1, <2>3, PostRaises
    <3>3. QED
      BY <3>1, <3>2 DEF Up
  <2>4. QED
    BY <2>2, <2>3
<1>11. CASE Join
  <2>1. Up(u)
    BY <1>1, <1>2, <1>11 DEF Join, Joined, threadvars, Posted
  <2>2. QED
    BY <1>11, <2>1 DEF Join, Up
<1>12. CASE UNCHANGED vars
  BY <1>1, <1>12 DEF vars, Posted, Up
<1>13. QED
  BY <1>3, <1>4, <1>5, <1>6, <1>7, <1>8, <1>9, <1>10, <1>11, <1>12, Actions

LEMMA LabelledKept == IInv /\ JInv /\ [Next]_vars => Labelled'
<1> SUFFICES ASSUME IInv, JInv, [Next]_vars PROVE Labelled'
  OBVIOUS
<1>1. TypeOK /\ pc \in [Threads -> Labels] /\ Labelled /\ prog' = prog
  BY ProgramActions DEF IInv, TypeOK, JInv
<1>2. ASSUME NEW t \in Threads, Await(t) \/ Check(t) \/ Value(t) \/ Exit(t) \/ Collect(t)
      PROVE  Labelled'
  BY <1>1, <1>2 DEF Labelled, Await, Check, Value, Exit, Collect
<1>3. ASSUME NEW t \in Threads, Pass(t) PROVE Labelled'
  BY <1>1, <1>3 DEF Labelled, Pass, Post
<1>4. CASE StartPost \/ ShutPost
  BY <1>1, <1>4 DEF Labelled, StartPost, ShutPost, Post
<1>5. CASE Poll \/ Stop \/ Join \/ UNCHANGED vars
  BY <1>1, <1>5 DEF Labelled, Poll, Stop, Join, vars
<1>6. QED
  BY <1>2, <1>3, <1>4, <1>5, Actions

LEMMA CollectedKept == IInv /\ JInv /\ [Next]_vars => Collected'
<1> SUFFICES ASSUME IInv, JInv, [Next]_vars, prog = "go", mpc' # "done" PROVE Collected'
  BY ProgramActions DEF Collected
<1>1. /\ TypeOK /\ MainPhase /\ pc \in [Threads -> Labels] /\ mi \in Int
      /\ prog' = prog /\ Collected
  BY ProgramActions, Ranges DEF IInv, TypeOK, JInv
<1>2. ASSUME NEW t \in Threads, Await(t) \/ Check(t) \/ Exit(t) PROVE Collected'
  <2>1. Received' = Received /\ mpc' = mpc /\ mi' = mi
    BY <1>1, <1>2 DEF Await, Check, Exit, mainvars, Received
  <2>2. QED
    BY <1>1, <2>1 DEF Collected
<1>3. ASSUME NEW t \in Threads, Pass(t) PROVE Collected'
  <2>1. Received' = Received /\ mpc' = mpc /\ mi' = mi
    BY <1>1, <1>3 DEF Pass, Post, mainvars, Received
  <2>2. QED
    BY <1>1, <2>1 DEF Collected
<1>4. ASSUME NEW t \in Threads, Collect(t) PROVE Collected'
  <2>1. Received' = Received \cup {t} /\ t \notin Received
    BY <1>1, <1>4 DEF Collect, Received
  <2>2. IsFiniteSet(Received)
    <3>1. 0 \in Int /\ TThreads - 1 \in Int /\ 0..TThreads - 1 = Threads
      BY Ranges DEF Threads
    <3>2. IsFiniteSet(Threads) /\ Received \subseteq Threads
      BY <3>1, FS_Interval DEF Received
    <3>3. QED
      BY <3>2, FS_Subset
  <2>3. Cardinality(Received') = Cardinality(Received) + 1
    BY <2>1, <2>2, FS_AddElement
  <2>4. Cardinality(Received) = mi /\ mpc' = "shut" /\ mi' = mi + 1
    BY <1>1, <1>4 DEF Collect, Joined, Collected
  <2>5. QED
    BY <2>3, <2>4 DEF Collected
<1>5. CASE StartPost \/ ShutPost
  <2>1. Received' = Received
    BY <1>1, <1>5 DEF StartPost, ShutPost, Post, Received
  <2>2. QED
    BY <1>1, <1>5, <2>1 DEF StartPost, ShutPost, Collected
<1>6. CASE Poll \/ Stop
  <2>1. Received' = Received /\ mi = 0
    BY <1>1, <1>6 DEF Poll, Stop, Received, MainPhase
  <2>2. QED
    BY <1>1, <1>6, <2>1 DEF Poll, Stop, Collected
<1>7. CASE UNCHANGED vars
  BY <1>1, <1>7 DEF vars, Received, Collected
<1>8. QED
  BY <1>2, <1>3, <1>4, <1>5, <1>6, <1>7, ProgramActions

LEMMA JInvAlways == Spec => [](IInv /\ JInv)
<1>1. Init => IInv /\ JInv
  BY InitIInv, InitJInv
<1>2. IInv /\ JInv /\ [Next]_vars => (IInv /\ JInv)'
  BY StepIInv, WokenKept, LabelledKept, CollectedKept DEF JInv
<1>3. QED
  BY <1>1, <1>2, PTL DEF Spec

\* Until main stops an iteration run, the ring of a partner that sleeps with rounds to
\* make has its token at a partner that can move.
LEMMA TokenGoesOn ==
  ASSUME IInv, ~stop, ~clock_mode, mpc # "start", NEW t \in Threads, pc[t] = "asleep"
  PROVE  \E h \in Threads : Moving(h)
<1>1. /\ Tokens /\ Steps /\ StopCount \in Nat /\ count \in [Threads -> 0..StopCount]
      /\ \A u \in Threads : count[u] = StopCount <=> pc[u] \in {"exit", "send", "done"}
  BY Sizes DEF IInv, TypeOK, RoundsCounted
<1>2. PICK h \in Threads : Ring(h) = Ring(t) /\ Holds(h)
  BY <1>1, NextInRing DEF Tokens, OneAtLeast, Unposted
<1>3. CASE pc[h] \in {"send", "done"}
  <2>1. count[h] = StopCount /\ count[t] # StopCount /\ count[t] \in 0..StopCount
    BY <1>1, <1>3
  <2>2. Rounds(h) = StopCount /\ Rounds(t) = count[t]
    BY <1>1, <1>3, <2>1 DEF Rounds
  <2>3. Rounds(t) = Rounds(h) + (IF t < h THEN 1 ELSE 0)
    BY <1>1, <1>2 DEF Steps
  <2>4. QED
    BY <1>1, <2>1, <2>2, <2>3
<1>4. CASE pc[h] = "asleep"
  BY <1>1, <1>2, <1>4 DEF Tokens, OnceAtMost, Holds
<1>5. QED
  BY <1>3, <1>4 DEF Moving

\* While main waits, its partners are at work or have all left.
LEMMA WaitGoesOn ==
  ASSUME IInv, mpc = "wait", ~clock_mode, threads_left # 0
  PROVE  \E t \in Threads : Moving(t)
<1>1. ~stop
  BY DEF IInv, MainPhase
<1>2. Live # {}
  BY FS_EmptySet DEF IInv, LeftIsLive
<1>3. PICK t \in Threads : pc[t] \notin {"send", "done"}
  BY <1>2 DEF Live
<1>4. QED
  BY <1>1, <1>3, TokenGoesOn DEF Moving

\* The partner that main joins has been posted, and one of those that Go's main has
\* posted has not sent its result.
LEMMA JoinGoesOn ==
  ASSUME IInv, JInv, mpc = "join", ~MainMoves
  PROVE  \E t \in Threads : Moving(t)
<1>1. mi \in Threads /\ mi \in Int /\ 0 <= mi /\ mi <= TThreads - 1 /\ TThreads \in Int
  BY Ranges DEF IInv, TypeOK
<1>2. \A u \in Threads : u <= mi => pc[u] # "asleep"
  BY DEF JInv, Woken, Posted, Up
<1>3. CASE prog # "go"
  BY <1>1, <1>2, <1>3 DEF JInv, Labelled, MainMoves, Moving
<1>4. CASE prog = "go"
  <2>1. \A t \in Threads : pc[t] # "send"
    BY <1>4 DEF MainMoves
  <2>2. Cardinality(Received) = mi
    BY <1>4 DEF JInv, Collected
  <2>3. IsFiniteSet(Received)
    <3>1. 0 \in Int /\ TThreads - 1 \in Int /\ 0..TThreads - 1 = Threads
      BY Ranges DEF Threads
    <3>2. IsFiniteSet(Threads) /\ Received \subseteq Threads
      BY <3>1, FS_Interval DEF Received
    <3>3. QED
      BY <3>2, FS_Subset
  <2>4. Cardinality(0..mi) = mi + 1
    BY <1>1, FS_Interval
  <2>5. ~(0..mi \subseteq Received)
    <3>1. ASSUME 0..mi \subseteq Received PROVE FALSE
      <4>1. Cardinality(0..mi) <= Cardinality(Received)
        BY <2>3, <3>1, FS_Subset
      <4>2. QED
        BY <1>1, <2>2, <2>4, <4>1
    <3>2. QED
      BY <3>1
  <2>6. PICK u \in Threads : u <= mi /\ pc[u] # "done"
    BY <1>1, <2>5, Ranges DEF Received
  <2>7. QED
    BY <1>2, <2>1, <2>6 DEF Moving
<1>5. QED
  BY <1>3, <1>4

\* No run can stop half way, in any of the five programs and for any size: main or a
\* partner can always go on, until main is done or the pthread program aborts.  In
\* Go's start this is the send on a channel that may not be full.
THEOREM NobodyIsStuck == Spec => []SomebodyMoves
<1>1. IInv /\ JInv => SomebodyMoves
  <2> SUFFICES ASSUME IInv, JInv, mpc # "done", ~MainMoves PROVE \E t \in Threads : Moving(t)
    BY DEF SomebodyMoves
  <2>1. mpc \in {"start", "wait", "stop", "shut", "join"} /\ mi \in Threads
    BY DEF IInv, TypeOK
  <2>2. mpc # "start"
    <3>1. ASSUME mpc = "start" PROVE sem[mi] = 0
      <4>1. mi \in 0..NRings - 1 /\ ~stop /\ sem[mi] \in Nat
        BY <2>1, <3>1, Ranges DEF IInv, MainPhase, TypeOK
      <4>2. Unposted(Ring(mi))
        BY <3>1, <4>1, RingFirst, Ranges DEF Unposted
      <4>3. ~Holds(mi)
        BY <2>1, <4>1, <4>2 DEF IInv, Tokens, NoneUnposted
      <4>4. QED
        BY <4>1, <4>3 DEF Holds
    <3>2. QED
      BY <3>1 DEF MainMoves
  <2>3. CASE mpc = "wait"
    BY <2>3, WaitGoesOn DEF MainMoves
  <2>4. CASE mpc = "join"
    BY <2>4, JoinGoesOn
  <2>5. QED
    BY <2>1, <2>2, <2>3, <2>4 DEF MainMoves
<1>2. QED
  BY <1>1, JInvAlways, PTL
=============================================================================
