------------------------------ MODULE MCMirrors ------------------------------
(* The two ways a book is mirrored, its positions and its resting orders, in one *)
(* run.  They share the sizing and no state, so a behaviour is of one or of the  *)
(* other, whose variables rest, and the instance is their sum.                   *)
EXTENDS MCReconcilePasses

CONSTANTS OrderSym, OrderUnit,  \* the instruments of the resting orders, and their unit
          RestingOrders, Sizings, MaxOrders, MaxPlaced, MaxFills, AnyOrder

VARIABLES which,
          masterBook, orders, working, client, live, sizing, onlyLong, placed, bought, fills,
          mirrored

ordersVars == <<masterBook, orders, working, client, live, sizing, onlyLong, placed, bought,
                fills, mirrored>>

Orders == INSTANCE WorkingOrders
            WITH Sym <- OrderSym, Unit <- OrderUnit, book <- masterBook, params <- sizing,
                 longOnly <- onlyLong

ASSUME OrdersAssumption == Orders!WorkingAssumption

Nothing == [s \in Sym |-> 0]

Order(side, qty, kind, limit, aux) ==
  [sym |-> "a", side |-> side, qty |-> qty, kind |-> kind, limit |-> limit, aux |-> aux]

\* Three buys of which the second is near both others, and these are not near each
\* other; a stop; a limit to sell.
MCOrders ==
  {Order("BUY", 97, "LMT", 10000, 0), Order("BUY", 100, "LMT", 10000, 0),
   Order("BUY", 103, "LMT", 10000, 0),
   Order("SELL", 100, "STP", 0, 9500), Order("SELL", 200, "LMT", 11000, 0)}

MCTwoSells == {o \in MCOrders : o.qty \in {100, 200}}

MCBuys == {o \in MCOrders : o.side = "BUY"}

\* At par, and after a wobble of 2%.
MCSizings ==
  {[clientBalance |-> b, masterBalance |-> 100, multiplier |-> 10, forceMinOne |-> TRUE] :
     b \in {100, 102}}

MCPar == {p \in MCSizings : p.clientBalance = 100}

InitMirrors ==
  \/ /\ which = "positions" /\ Init
     /\ masterBook = [s \in OrderSym |-> 0] /\ client = masterBook /\ bought = masterBook
     /\ orders = <<>> /\ working = <<>> /\ live = <<>>
     /\ sizing = MCEqual /\ onlyLong = FALSE
     /\ placed = 0 /\ fills = 0 /\ mirrored = FALSE
  \/ /\ which = "orders" /\ Orders!Init
     /\ master = Nothing /\ book = Nothing /\ target = Nothing
     /\ params = MCEqual /\ longOnly = FALSE
     /\ resting = {} /\ cooling = {} /\ todo = {} /\ refused = {}
     /\ passes = 0 /\ funds = 0 /\ avail = 0
     /\ blind = FALSE /\ failed = {} /\ unsent = 0

NextMirrors ==
  /\ which' = which
  /\ \/ which = "positions" /\ Next /\ UNCHANGED ordersVars
     \/ which = "orders" /\ Orders!Next /\ UNCHANGED vars

SpecMirrors == InitMirrors /\ [][NextMirrors]_<<which, vars, ordersVars>>

\* A second look at resting orders just mirrored finds nothing to place and nothing to
\* cancel (orders.rs, diff_working_orders).
Settles == Orders!Settles

\* Every resting order wanted has a live one of its own, and there is no other.
OneEach == Orders!OneEach

\* In Long Only mode a protective sell never leaves the client short: false of a stop
\* beside a limit, see MirrorOrder.cfg.
SellsOnlyClose == Orders!SellsOnlyClose

\* Positions and pending entries never come to more than all the master has ordered to
\* buy: false of a book captured before a fill, see MirrorOrder.cfg.
CountedOnce == Orders!CountedOnce
=============================================================================
