------------------------------ MODULE Reconcile ------------------------------
(***************************************************************************)
(* The pure core of the client: proportional sizing                        *)
(* (pax-core/src/sizing.rs) and one pass of the target-position            *)
(* reconciliation (pax-core/src/reconcile.rs).                             *)
(*                                                                         *)
(* Quantities are integers counted in fractions of a share: Unit of them   *)
(* make one share, so the half-share tolerance and the flooring to whole   *)
(* shares are exact.  A book is a function from Sym to signed quantities;  *)
(* a symbol that is not in the program's list has quantity 0.              *)
(***************************************************************************)
EXTENDS Integers, FiniteSets

CONSTANTS Sym,   \* the instruments
          Unit   \* how many quantity units make one share

ASSUME UnitAssumption == Unit \in Nat \ {0}

Side == {"BUY", "SELL"}

Reason == {"OpenMissing", "IncreaseToTarget", "ReduceToTarget", "CloseOrphan",
           "FlattenLeg", "OpenLeg"}

Abs(q) == IF q >= 0 THEN q ELSE -q

Signum(q) == IF q > 0 THEN 1 ELSE IF q < 0 THEN -1 ELSE 0

\* The side that reduces a position, and the side that moves one by a delta.
Closing(q) == IF q > 0 THEN "SELL" ELSE "BUY"
FromDelta(d) == IF d >= 0 THEN "BUY" ELSE "SELL"

\* What an order of the given side and quantity adds to a position.
Signed(side, qty) == IF side = "BUY" THEN qty ELSE -qty

-----------------------------------------------------------------------------
(* Sizing.  A SizingParams record holds the two balances, the multiplier in *)
(* tenths (0.1x .. 5.0x) and the force_min_one switch.                      *)

RatioKnown(p) == p.masterBalance > 0 /\ p.clientBalance > 0

\* Mutant: halves, and everything between, truncated towards zero.
RoundQtyTruncating(num, den) == Signum(num) * (Abs(num) \div den)

\* num / den rounded to the nearest integer, halves away from zero.
RoundQty(num, den) == Signum(num) * ((2 * Abs(num) + den) \div (2 * den))

\* The client's signed target for one instrument, in whole shares (as units).
TargetNetQty(net, p) ==
  LET scaled == RoundQty(net * p.clientBalance * p.multiplier,
                         10 * p.masterBalance * Unit)
  IN  Unit * (IF scaled = 0 /\ p.forceMinOne THEN Signum(net) ELSE scaled)

-----------------------------------------------------------------------------
(* One reconciliation pass. *)

\* Mutant: the clamp is left to whoever locked the target.
ClampLongForgotten(longOnly, t) == t

ClampLong(longOnly, t) == IF longOnly /\ t < 0 THEN 0 ELSE t

Held(book) == {s \in Sym : book[s] # 0}

\* The global guards: a pass they block yields no intent at all.
Blocked(connected, p, master, book, emptyMasterGuard) ==
  \/ ~connected
  \/ ~RatioKnown(p)
  \/ Held(master) = {} /\ Cardinality(Held(book)) > emptyMasterGuard

\* Mutant: a flip goes through as one order.
CrossesZeroNever(current, target) == FALSE

CrossesZero(current, target) ==
  \/ current > 0 /\ target < 0
  \/ current < 0 /\ target > 0

Classify(current, target) ==
  IF current = 0 THEN "OpenMissing"
  ELSE IF target = 0 THEN "CloseOrphan"
  ELSE IF Abs(target) > Abs(current) THEN "IncreaseToTarget"
  ELSE "ReduceToTarget"

Intent(s, side, qty, reason) ==
  [sym |-> s, side |-> side, qty |-> qty, reason |-> reason]

\* Mutant: the quantity of a single-leg order keeps the sign of the delta.
IntentsForUnsigned(s, current, target) ==
  IF 2 * Abs(target - current) < Unit THEN {}
  ELSE IF CrossesZero(current, target)
    THEN {Intent(s, Closing(current), Abs(current), "FlattenLeg"),
          Intent(s, FromDelta(target), Abs(target), "OpenLeg")}
    ELSE {Intent(s, FromDelta(target - current), target - current,
                 Classify(current, target))}

\* What one symbol needs: nothing within half a share of the target, two legs
\* when the target lies across zero, one order otherwise.
IntentsFor(s, current, target) ==
  IF 2 * Abs(target - current) < Unit THEN {}
  ELSE IF CrossesZero(current, target)
    THEN {Intent(s, Closing(current), Abs(current), "FlattenLeg"),
          Intent(s, FromDelta(target), Abs(target), "OpenLeg")}
    ELSE {Intent(s, FromDelta(target - current), Abs(target - current),
                 Classify(current, target))}

\* The pass: the intents of every symbol that either book holds, against the
\* locked targets.
Intents(connected, p, master, book, targets, longOnly, emptyMasterGuard) ==
  IF Blocked(connected, p, master, book, emptyMasterGuard) THEN {}
  ELSE UNION {IntentsFor(s, book[s], ClampLong(longOnly, targets[s])) :
                s \in Held(master) \cup Held(book)}

IsOpening(reason) == reason \in {"OpenMissing", "IncreaseToTarget", "OpenLeg"}

\* Mutant: the remainder is rounded up.
WholeSharesUp(qty) == ((qty + Unit - 1) \div Unit) * Unit

\* Only whole shares can be submitted; the remainder is rounded down.
WholeShares(qty) == (qty \div Unit) * Unit
=============================================================================
