---------------------------- MODULE WorkingOrders ----------------------------
(***************************************************************************)
(* Resting orders: the master captures and tags its own                    *)
(* (pax-master/src/ib.rs, read_working_orders); the client scales them,    *)
(* holds them against those it has at its broker and places or cancels the *)
(* difference (pax-core/src/orders.rs).                                    *)
(*                                                                         *)
(* The engine of this version mirrors positions only and calls none of     *)
(* this, so who calls it (Mirror) is external: it carries out the whole    *)
(* difference.  A client order is never half filled.  Prices are in cents, *)
(* quantities in units as in Reconcile.                                    *)
(***************************************************************************)
EXTENDS Reconcile, SequencesExt

CONSTANTS
  RestingOrders,  \* what the master may place: side, qty, kind, limit and aux
  Sizings,        \* balances and multipliers
  MaxOrders,      \* how many orders the master has at a time
  MaxPlaced,      \* bound on the orders it places
  MaxFills,       \* bound on the fills of the client's orders
  AnyOrder        \* the client's broker lists its orders in no particular order

VARIABLES
  book, orders,   \* the master's positions and resting orders
  working,        \* the orders it captured last, tagged
  client, live,   \* the client's positions and resting orders
  params, longOnly,
  \* history
  placed, bought, \* how many orders the master has placed, and to buy how much of each
  fills,          \* fills of the client's orders so far
  mirrored        \* live is what the last diff made of these inputs

master == <<book, orders, placed, bought>>
account == <<client, live, fills>>
mode == <<params, longOnly>>
vars == <<master, working, account, mode, mirrored>>

Kind == {"LMT", "STP", "STP LMT"}

\* What an instance assumes of its constants.
WorkingAssumption ==
  /\ Unit \in Nat \ {0}
  /\ RestingOrders \subseteq [sym : Sym, side : Side, qty : Nat, kind : Kind, limit : Nat,
                             aux : Nat]
  /\ Sizings \subseteq [clientBalance : Nat, masterBalance : Nat, multiplier : Nat,
                        forceMinOne : BOOLEAN]
  /\ {MaxOrders, MaxPlaced, MaxFills} \subseteq Nat
  /\ AnyOrder \in BOOLEAN

Init ==
  /\ book = [s \in Sym |-> 0] /\ orders = <<>> /\ working = <<>> /\ placed = 0 /\ bought = book
  /\ client \in [Sym -> {0, 100 * Unit}] /\ live = <<>> /\ fills = 0
  /\ params \in Sizings /\ longOnly \in BOOLEAN
  /\ mirrored = FALSE

-----------------------------------------------------------------------------
(* The master's capture *)

\* An order on the side of the position it finds, or in a flat book, is an entry.
ReadWorkingOrders(os, positions) ==
  [i \in DOMAIN os |->
     [sym |-> os[i].sym, side |-> os[i].side, qty |-> os[i].qty, kind |-> os[i].kind,
      limit |-> os[i].limit, aux |-> os[i].aux,
      isEntry |-> Signum(positions[os[i].sym]) \in {0, Signum(Signed(os[i].side, 1))}]]

-----------------------------------------------------------------------------
(* The client's orders *)

\* Scaled as a position is; in Long Only mode a sell that would open a short is
\* dropped and one that protects a long is capped to it.
DesiredQty(o) ==
  LET scaled == RoundQty(o.qty * params.clientBalance * params.multiplier,
                         10 * params.masterBalance * Unit)
      qty    == Unit * (IF scaled = 0 /\ params.forceMinOne THEN 1 ELSE scaled)
  IN  IF ~longOnly \/ o.side = "BUY" THEN qty
      ELSE IF o.isEntry \/ client[o.sym] <= 0 THEN 0
      ELSE IF qty <= client[o.sym] THEN qty ELSE client[o.sym]

\* Those of a positive quantity, under the numbers the master's have.
DesiredWorkingOrders ==
  [i \in {j \in DOMAIN working : RatioKnown(params) /\ DesiredQty(working[j]) > 0} |->
     [working[i] EXCEPT !.qty = DesiredQty(working[i])]]

\* Mutant: the limit price is compared whatever the kind, though for a stop the
\* broker fills it in as it likes.
RelevantPriceLimit(o) == o.limit

RelevantPrice(o) == IF o.kind = "STP" THEN o.aux ELSE o.limit

\* The same resting order: within 3% or one share, and 0.5% of b's price or a cent.
SameWorkingOrder(a, b) ==
  LET qty   == Abs(a.qty - b.qty)
      price == Abs(RelevantPrice(a) - RelevantPrice(b))
  IN  /\ a.sym = b.sym /\ a.side = b.side /\ a.kind = b.kind
      /\ \/ qty <= Unit
         \/ \E x \in {a, b} : 100 * qty <= 3 * x.qty
      /\ price <= 1 \/ 200 * price <= RelevantPrice(b)

Matching(current, used, d) == {i \in DOMAIN current \ used : SameWorkingOrder(current[i], d)}

\* Mutant: one live order satisfies any number of desired ones.
TakenAgain(desired, current) ==
  [d \in DOMAIN desired |->
     LET found == Matching(current, {}, desired[d])
     IN  IF found = {} THEN 0 ELSE Min(found)]

\* Each desired order in turn takes the first live one left that is the same; 0 where
\* there is none.
Taken(desired, current) ==
  CHOOSE taken \in [DOMAIN desired -> DOMAIN current \cup {0}] :
    \A d \in DOMAIN desired :
      LET used  == {taken[e] : e \in {x \in DOMAIN desired : x < d}}
          found == Matching(current, used, desired[d])
      IN  taken[d] = IF found = {} THEN 0 ELSE Min(found)

\* What finds none is to be placed, and what is not used is to be cancelled.
DiffWorkingOrders(desired, current) ==
  LET taken == Taken(desired, current)
  IN  [toPlace |-> {d \in DOMAIN desired : taken[d] = 0},
       used |-> {taken[d] : d \in DOMAIN desired} \ {0}]

\* Positions with the entries pending on them.
EffectivePositions(positions, os) ==
  [s \in Sym |->
     LET sum == FoldLeft(LAMBDA q, o : IF o.sym = s /\ o.isEntry THEN q + Signed(o.side, o.qty)
                                       ELSE q,
                         positions[s], os)
     IN  IF 2 * Abs(sum) < Unit THEN 0 ELSE sum]

-----------------------------------------------------------------------------
(* Steps *)

\* The operator of the master places an order, withdraws one, or one fills.
Places(o) ==
  /\ placed < MaxPlaced /\ placed' = placed + 1
  /\ bought' = IF o.side = "BUY" THEN [bought EXCEPT ![o.sym] = @ + o.qty] ELSE bought
  /\ Len(orders) < MaxOrders
  /\ orders' = Append(orders, o)
  /\ UNCHANGED <<book, working, account, mode, mirrored>>

Leaves(i) ==
  /\ orders' = RemoveAt(orders, i)
  /\ \/ UNCHANGED book
     \/ book' = [book EXCEPT ![orders[i].sym] = @ + Signed(orders[i].side, orders[i].qty)]
  /\ UNCHANGED <<placed, bought, working, account, mode, mirrored>>

\* The worker's periodic capture, with the book as it is by then.
Capture ==
  /\ working' = ReadWorkingOrders(orders, book)
  /\ mirrored' = (mirrored /\ working' = working)
  /\ UNCHANGED <<master, account, mode>>

Wobble(p) ==
  /\ p # params /\ params' = p
  /\ mirrored' = FALSE
  /\ UNCHANGED <<master, working, account, longOnly>>

\* The broker's list, in the order of placing or in any.
Listed(os) ==
  IF AnyOrder THEN {[i \in DOMAIN os |-> os[f[i]]] : f \in Bijection(DOMAIN os, DOMAIN os)}
  ELSE {os}

\* The list of some numbered orders, in the order of their numbers.
InOrder(os) ==
  LET rank == [i \in DOMAIN os |-> Cardinality({j \in DOMAIN os : j <= i})]
  IN  [p \in 1..Cardinality(DOMAIN os) |-> os[CHOOSE i \in DOMAIN os : rank[i] = p]]

\* What the broker reads back of an order: the limit price of a stop may be its trigger.
ReadBack(o, echo) == IF echo /\ o.kind = "STP" THEN [o EXCEPT !.limit = o.aux] ELSE o

\* Cancels what is not wanted and places what is missing.
Mirror ==
  LET desired == DesiredWorkingOrders
      diff    == DiffWorkingOrders(desired, live)
      kept    == InOrder([i \in diff.used |-> live[i]])
  IN  /\ \E echo \in [diff.toPlace -> BOOLEAN] :
           live' \in Listed(kept \o InOrder([d \in diff.toPlace |->
                                               ReadBack(desired[d], echo[d])]))
      /\ mirrored' = TRUE
      /\ UNCHANGED <<master, working, client, fills, mode>>

\* An order of the client's fills.
Fills(i) ==
  /\ fills < MaxFills /\ fills' = fills + 1
  /\ live' = RemoveAt(live, i)
  /\ client' = [client EXCEPT ![live[i].sym] = @ + Signed(live[i].side, live[i].qty)]
  /\ mirrored' = FALSE
  /\ UNCHANGED <<master, working, mode>>

Next ==
  \/ \E o \in RestingOrders : Places(o)
  \/ \E i \in DOMAIN orders : Leaves(i)
  \/ Capture
  \/ \E p \in Sizings : Wobble(p)
  \/ Mirror
  \/ \E i \in DOMAIN live : Fills(i)

Spec == Init /\ [][Next]_vars

-----------------------------------------------------------------------------
(* Properties *)

\* "This stops the restart/drift churn": a second look at a book just mirrored finds
\* nothing to place and nothing to cancel, whatever prices the broker reads back.
Settles ==
  mirrored => LET diff == DiffWorkingOrders(DesiredWorkingOrders, live)
              IN  diff.toPlace = {} /\ diff.used = DOMAIN live

\* Every order wanted has a live one of its own, the same within tolerance, and there
\* is no other, although near orders are matched first come, first served.
OneEach ==
  mirrored =>
    LET desired == DesiredWorkingOrders
    IN  \E f \in Bijection(DOMAIN desired, DOMAIN live) :
          \A d \in DOMAIN desired : SameWorkingOrder(live[f[d]], desired[d])

\* orders.rs, protective sells are capped to the long "so they only ever close": in Long
\* Only mode no fill of the client's orders leaves it short.
SellsOnlyClose == longOnly => \A s \in Sym : client[s] >= 0

\* README, entries are folded into the target so that nothing is bought that a resting
\* order will cover: positions and pending entries together never come to more than
\* all the master has ordered to buy.
CountedOnce == \A s \in Sym : EffectivePositions(book, working)[s] <= bought[s]
=============================================================================
