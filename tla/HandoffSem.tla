----------------------------- MODULE HandoffSem -----------------------------
(***************************************************************************)
(* What bench_sem promises its users: one binary semaphore per fibre, on   *)
(* which only that fibre waits and any fibre may post.  A post that finds  *)
(* the owner waiting is handed to it; otherwise it is remembered, once.    *)
(* Two posts therefore survive when the first was handed over, and only    *)
(* one survives when nobody waits.                                         *)
(***************************************************************************)
CONSTANT Fibres

VARIABLES
  avail,   \* the fibres on whose semaphore a post is remembered
  owner    \* owner[f]: "out" of wait(), "waiting" in it, or "granted" a post

vars == <<avail, owner>>

Init ==
  /\ avail = {}
  /\ owner = [f \in Fibres |-> "out"]

\* wait() finds a remembered post, takes it and returns false.
Pass(f) ==
  /\ owner[f] = "out"
  /\ f \in avail
  /\ avail' = avail \ {f}
  /\ UNCHANGED owner

\* wait() finds none and blocks.
Block(f) ==
  /\ owner[f] = "out"
  /\ f \notin avail
  /\ owner' = [owner EXCEPT ![f] = "waiting"]
  /\ UNCHANGED avail

\* post() wakes the waiting owner.
Grant(f) ==
  /\ owner[f] = "waiting"
  /\ owner' = [owner EXCEPT ![f] = "granted"]
  /\ UNCHANGED avail

\* post() finds nobody waiting and is remembered.
Remember(f) ==
  /\ owner[f] # "waiting"
  /\ f \notin avail
  /\ avail' = avail \cup {f}
  /\ UNCHANGED owner

\* A blocked wait() returns true, after exactly one grant.
Resume(f) ==
  /\ owner[f] = "granted"
  /\ owner' = [owner EXCEPT ![f] = "out"]
  /\ UNCHANGED avail

Next == \E f \in Fibres : Pass(f) \/ Block(f) \/ Grant(f) \/ Remember(f) \/ Resume(f)

\* A fibre that was granted a post does return.
Spec == Init /\ [][Next]_vars /\ \A f \in Fibres : WF_vars(Resume(f))
=============================================================================
