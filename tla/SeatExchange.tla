---------------------------- MODULE SeatExchange ----------------------------
(***************************************************************************)
(* What the spots of the locality benchmark promise: sitting down is one   *)
(* step.  Whoever takes a seat that is taken makes the sitter get up and,  *)
(* when sharing, hands it the array it has been working on; a closed seat  *)
(* takes nobody.  Nobody gets up without having been made to, or twice.    *)
(***************************************************************************)
CONSTANTS Threads, Spots, Nobody, Closed

VARIABLES
  share,    \* arrays are handed over
  seat,     \* seat[s]: who sits in spot s
  roused,   \* the threads that have to get up
  array,    \* array[t]: the array t works on, or will when it gets up
  over      \* nothing is promised any more

vars == <<share, seat, roused, array, over>>

Seated == {seat[s] : s \in Spots}

Init ==
  /\ share \in BOOLEAN
  /\ seat = [s \in Spots |-> Nobody]
  /\ roused = {}
  /\ array = [t \in Threads |-> t]
  /\ over = FALSE

\* t sits down in s, and whoever sat there has to get up.
SitDown(t, s) ==
  /\ ~over
  /\ seat[s] # Closed
  /\ seat' = [seat EXCEPT ![s] = t]
  /\ t \notin Seated \cup roused
  /\ roused' = roused \cup ({seat[s]} \ {Nobody})
  /\ array' = IF share /\ seat[s] # Nobody THEN [array EXCEPT ![seat[s]] = array[t]] ELSE array
  /\ UNCHANGED <<share, over>>

GetUp(t) ==
  /\ ~over
  /\ t \in roused
  /\ roused' = roused \ {t}
  /\ UNCHANGED <<share, seat, array, over>>

\* The seat is closed, and whoever sat there has to get up with the array it has.
Close(s) ==
  /\ ~over
  /\ seat[s] # Closed
  /\ seat' = [seat EXCEPT ![s] = Closed]
  /\ roused' = roused \cup ({seat[s]} \ {Nobody})
  /\ UNCHANGED <<share, array, over>>

End == ~over /\ over' /\ UNCHANGED <<share, seat, roused, array>>
Unruled == over /\ over'

Next ==
  \/ \E t \in Threads : GetUp(t) \/ \E s \in Spots : SitDown(t, s)
  \/ \E s \in Spots : Close(s)
  \/ End \/ Unruled

Spec == Init /\ [][Next]_vars
=============================================================================
