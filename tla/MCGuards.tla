------------------------------- MODULE MCGuards -------------------------------
(* The two guards a session consults before it trades: the drawdown and the      *)
(* trading hours.  They share no state, so a behaviour is of one of them, the    *)
(* other rests at its start, and the instance is their sum.                      *)
EXTENDS Drawdown, MarketHours

CONSTANT Guards   \* those of this instance

ASSUME GuardsAssumption == Guards \subseteq {"drawdown", "hours"}

VARIABLE guard

MCOneAccount == {"reconnect", "START", "RESET", "panic", "crash", "unsaved"}
MCReconnect == {"reconnect"}
MCSwitch == {"switch"}
MCCrash == {"crash"}
MCTorn == {"torn"}
MCStart == {"START"}
MCUnsavedReset == {"reconnect", "RESET", "unsaved", "unsavedReset"}

\* The trading hours begin with one state of the drawdown.
First == LET least(S) == CHOOSE n \in S : \A m \in S : n <= m
         IN  /\ equity = [a \in Account |-> least(Levels)]
             /\ account = CHOOSE a \in Account : TRUE

InitGuards == guard \in Guards /\ Init /\ FirstDay /\ (guard = "hours" => First)

NextGuards ==
  /\ guard' = guard
  /\ \/ guard = "drawdown" /\ Next /\ UNCHANGED wall
     \/ guard = "hours" /\ Tomorrow /\ UNCHANGED vars

SpecGuards == InitGuards /\ [][NextGuards]_<<guard, vars, wall>>

\* The gate is open exactly when New York trades (market_hours.rs, is_rth_at).
GateAgrees == guard = "hours" => OpenWhenTraded
===============================================================================
