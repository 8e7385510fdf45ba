--------------------------- MODULE ReconcilePasses ---------------------------
(***************************************************************************)
(* The reconciliation on its own: the master moves, the source-change gate *)
(* sizes a target, one pass turns it into orders, each fills whole or is   *)
(* not even submitted, and the next pass looks again.  No latency: what is *)
(* left is the arithmetic of sizing, tolerance, zero crossing and          *)
(* flooring, the budget a pass has for its openings, and what a submission *)
(* that fails does to both.                                                *)
(*                                                                         *)
(* Margin is counted in quantity units: one unit of any instrument ties up *)
(* one unit of buying power.                                               *)
(***************************************************************************)
EXTENDS Reconcile

CONSTANTS Cases,            \* where to start: records of master, book, params,
                            \* funds and resting, as below
          WhatIfFails,      \* a what-if check may come back without an answer
          EmptyMasterGuard

\* A target is locked over balances that are known.
ASSUME PassAssumption ==
  /\ WhatIfFails \in BOOLEAN /\ EmptyMasterGuard \in Nat
  /\ \A c \in Cases : /\ c.master \in [Sym -> Int] /\ c.book \in [Sym -> Int]
                      /\ c.params \in [clientBalance : Nat, masterBalance : Nat,
                                       multiplier : Nat, forceMinOne : BOOLEAN]
                      /\ RatioKnown(c.params)
                      /\ c.funds \in Nat /\ c.resting \subseteq Sym

VARIABLES master,   \* the snapshot's positions
          book,     \* the client's positions
          params,   \* balances and multiplier when the target was locked
          target,   \* locked targets, clamped by the mode they were locked under
          longOnly, \* the trade mode now: the operator may have changed it since
          resting,  \* symbols whose cooldown runs on from orders before
          cooling,  \* symbols whose cooldown is running
          todo,     \* intents of this pass not yet submitted
          passes,   \* passes begun so far
          funds,    \* the account's AvailableFunds
          avail,    \* projected_available of this pass
          \* history
          refused,  \* symbols with an opening the budget did not allow
          blind,    \* an opening went through without an answer to its what-if
          failed,   \* symbols an order of which was not submitted, with the pass
          unsent    \* margin that openings not sent after all were to free

given   == <<master, params, target, longOnly, resting>>
history == <<refused, blind, failed, unsent>>
vars    == <<given, book, cooling, todo, passes, funds, avail, history>>

Sized(net, p, mode) == ClampLong(mode, TargetNetQty(net, p))

Init ==
  /\ \E c \in Cases :
       /\ master = c.master /\ book = c.book /\ params = c.params
       /\ funds = c.funds /\ resting = c.resting
  /\ longOnly \in BOOLEAN
  /\ \E lockedUnder \in BOOLEAN :
       target = [s \in Sym |-> Sized(master[s], params, lockedUnder)]
  /\ cooling = {} /\ todo = {} /\ passes = 0
  /\ avail = 0 /\ refused = {} /\ blind = FALSE /\ failed = {} /\ unsent = 0

\* One pass over the book, with the funds read in its cycle; by then the cooldowns
\* of the pass before have run out.  Three passes are enough to see what the
\* first two left.
Pass ==
  /\ todo = {}
  /\ passes < 3
  /\ cooling' = resting
  /\ todo' = Intents(TRUE, params, master, book, target, longOnly, EmptyMasterGuard)
  /\ passes' = passes + 1
  /\ avail' = funds
  /\ UNCHANGED <<given, book, funds, history>>

\* The flatten leg of a flip precedes its open leg.
IsNext(i) == i.reason = "OpenLeg" => \A j \in todo : j.sym = i.sym => j = i

Filled(i) == book[i.sym] + Signed(i.side, WholeShares(i.qty))

\* initial_margin_change: what the order would add to the margin in use.
Margin(i) == Abs(Filled(i)) - Abs(book[i.sym])

\* What open_allowed adds to the budget for an opening that frees margin, which only
\* the open leg of a position not yet flattened does.
Freed(i) == IF IsOpening(i.reason) /\ Margin(i) < 0 THEN -Margin(i) ELSE 0

TakeUp(i) == i \in todo /\ IsNext(i) /\ todo' = todo \ {i}

Fractional(i) ==
  /\ TakeUp(i) /\ WholeShares(i.qty) = 0
  /\ UNCHANGED <<given, book, cooling, passes, funds, avail, history>>

NeedsMargin(i) == WholeShares(i.qty) > 0 /\ IsOpening(i.reason)

\* Mutant: every opening is held against the whole of the funds.
AllowedAlone(i) ==
  \/ Margin(i) <= avail /\ UNCHANGED <<avail, blind>>
  \/ WhatIfFails /\ blind' = TRUE /\ UNCHANGED avail

\* open_allowed: the margin is reserved, or the what-if has no answer and the
\* broker is left to reject the order.
Allowed(i) ==
  \/ Margin(i) <= avail /\ avail' = avail - Margin(i) /\ UNCHANGED blind
  \/ WhatIfFails /\ blind' = TRUE /\ UNCHANGED avail

Refuse(i) ==
  /\ TakeUp(i) /\ NeedsMargin(i) /\ Margin(i) > avail
  /\ refused' = refused \cup {i.sym}
  /\ UNCHANGED <<given, book, cooling, passes, funds, avail, blind, failed, unsent>>

\* The margin check of an intent with a whole share to trade: closing orders need none.
Cleared(i) ==
  /\ TakeUp(i) /\ WholeShares(i.qty) > 0
  /\ IF IsOpening(i.reason) THEN Allowed(i) ELSE UNCHANGED <<avail, blind>>

\* The cooldown is consulted after the margin, whose reservation stays: it also stops
\* the open leg of a flip whose flatten leg this pass has submitted.
Leg(i) ==
  /\ Cleared(i)
  /\ IF i.sym \in cooling
       THEN /\ unsent' = unsent + (IF i.sym \in resting THEN Freed(i) ELSE 0)
            /\ UNCHANGED <<book, cooling, funds>>
       ELSE /\ book' = [book EXCEPT ![i.sym] = Filled(i)]
            /\ cooling' = cooling \cup {i.sym}
            /\ funds' = funds - Margin(i)
            /\ UNCHANGED unsent
  /\ UNCHANGED <<given, passes, refused, failed>>

\* place_order returns an error: it is counted and logged.  No cooldown starts, the
\* reservation stays, and the pass goes on with the next intent, which may be the
\* open leg of a flip that has just failed to flatten.
Fails(i) ==
  /\ Cleared(i) /\ i.sym \notin cooling
  /\ failed' = failed \cup {<<i.sym, passes>>}
  /\ unsent' = unsent + Freed(i)
  /\ UNCHANGED <<given, book, cooling, passes, funds, refused>>

Next == Pass \/ \E i \in todo : Fractional(i) \/ Refuse(i) \/ Leg(i) \/ Fails(i)

Spec == Init /\ [][Next]_vars

-----------------------------------------------------------------------------
(* Properties *)

TypeOK ==
  /\ master \in [Sym -> Int] /\ book \in [Sym -> Int] /\ target \in [Sym -> Int]
  /\ params \in [clientBalance : Nat, masterBalance : Nat, multiplier : Nat,
                 forceMinOne : BOOLEAN]
  /\ resting \subseteq Sym
  /\ longOnly \in BOOLEAN /\ blind \in BOOLEAN
  /\ \A i \in todo : i.sym \in Sym /\ i.side \in Side /\ i.qty \in Nat /\ i.reason \in Reason
  /\ passes \in 0..3
  /\ cooling \subseteq Sym /\ funds \in Int /\ avail \in Int
  /\ refused \subseteq Sym /\ failed \subseteq Sym \X (1..3) /\ unsent \in Nat

\* The locked target is the whole number of shares nearest to the master's
\* quantity times the balance ratio times the multiplier, ties going away from
\* zero, except that a held instrument never scales to nothing.
Nearest ==
  \A s \in Sym :
    LET exact == master[s] * params.clientBalance * params.multiplier
        den   == 10 * params.masterBalance * Unit
        t     == TargetNetQty(master[s], params) \div Unit
    IN  /\ \/ 2 * Abs(exact - den * t) < den
           \/ 2 * Abs(exact - den * t) = den /\ Abs(den * t) > Abs(exact)
           \/ Abs(t) = 1 /\ 2 * Abs(exact) < den
        /\ Signum(t) = Signum(master[s])

\* No order of a pass moves a position through zero, as long as the book holds
\* whole shares and no other order for the symbol has failed in this pass: a flip is
\* flattened first and opened from flat.
FlattenBeforeOpen ==
  [][\A s \in Sym : book[s] % Unit = 0 /\ <<s, passes>> \notin failed
                      => book[s] * book'[s] >= 0]_vars

\* reconcile.rs: an order that would cross zero "is split into an explicit flatten leg
\* followed by an open leg", so that no fill carries a position through zero - whatever
\* became of the flatten leg.
NeverThroughZero == [][\A s \in Sym : book[s] * book'[s] >= 0]_vars

\* No order of a pass leaves a position further from its target, and none
\* carries it beyond: flooring never turns a close into the opposite side.
NeverBeyondTarget ==
  [][\A s \in Sym : LET t == ClampLong(longOnly, target[s])
                    IN  book'[s] \in (IF t < book[s] THEN t..book[s] ELSE book[s]..t)]_vars

\* In Long Only mode no order opens or deepens a short, not even towards a
\* target that was locked while the mode still allowed one.
LongOnlyNeverShorts ==
  [][longOnly => \A s \in Sym : book'[s] < 0 => book'[s] >= book[s]]_vars

\* However many openings a pass sends, in whatever order they come, whatever its
\* closings free meanwhile and whichever submissions fail, they overdraw the account by
\* no more than the margin that open legs not sent in the end were to free, as long as
\* the what-ifs answer.
WithinBuyingPower == ~blind => funds + unsent >= 0

\* open_allowed, "so cumulative opens stay within buying power", without that
\* exception.
NeverOverdrawn == ~blind => funds >= 0

\* Reconciliation is idempotent: a pass that sees the fills of the first two - a
\* flip takes both - has no whole share left to trade but in symbols that were
\* cooling all along, for openings there was no margin for, and where a submission
\* has failed.
ThirdPassIdle ==
  passes = 3 => \A i \in todo : \/ WholeShares(i.qty) = 0
                                \/ i.sym \in resting
                                \/ IsOpening(i.reason) /\ i.sym \in refused
                                \/ \E p \in 1..3 : <<i.sym, p>> \in failed

\* README, "Global safety guards": the master reports an empty book while the
\* client holds multiple positions - never mass-close on bad data.
NeverMassClose ==
  [][Held(master) = {} /\ Cardinality(Held(book)) > 1 => book' = book]_vars

\* An opening is refused only when the funds really do not cover it.
RefusedForLack ==
  [][\A i \in todo \ todo' : i.sym \in refused' \ refused => Margin(i) > funds]_vars
=============================================================================
