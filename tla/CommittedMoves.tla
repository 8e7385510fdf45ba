--------------------------- MODULE CommittedMoves ---------------------------
(***************************************************************************)
(* What the trading loop promises about one account, without saying how:   *)
(* a symbol commits to one destination at a time, inside the range Lo..Hi; *)
(* its position moves only while it is committed, only towards the         *)
(* destination and never past it; a new commitment is made only when the   *)
(* last one is over.                                                       *)
(***************************************************************************)
EXTENDS Integers

CONSTANTS Sym, Lo, Hi

VARIABLES pos,    \* the account's positions
          goals   \* per symbol the destination it is committed to, if any

vars == <<pos, goals>>

Between(x, y) == IF x <= y THEN x..y ELSE y..x

Init ==
  /\ pos \in [Sym -> Lo..Hi]
  /\ goals = [s \in Sym |-> {}]

Commit(s) ==
  /\ goals[s] = {}
  /\ \E g \in (Lo..Hi) \ {pos[s]} : goals' = [goals EXCEPT ![s] = {g}]
  /\ UNCHANGED pos

Move(s) ==
  \E g \in goals[s] : \E p \in Between(pos[s], g) \ {pos[s]} :
    /\ pos' = [pos EXCEPT ![s] = p]
    /\ goals' = [goals EXCEPT ![s] = IF p = g THEN {} ELSE @]

Abandon(s) ==
  /\ goals[s] # {}
  /\ goals' = [goals EXCEPT ![s] = {}]
  /\ UNCHANGED pos

Next == \E s \in Sym : Commit(s) \/ Move(s) \/ Abandon(s)

Spec == Init /\ [][Next]_vars
=============================================================================
