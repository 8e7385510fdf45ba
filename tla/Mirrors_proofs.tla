---------------------------- MODULE Mirrors_proofs ----------------------------
(***************************************************************************)
(* Proofs about the mirroring of a book, whatever its instruments, sizing  *)
(* and unit of quantity.                                                   *)
(*                                                                         *)
(* Positions: no order carries a position beyond its target, nor whole     *)
(* shares through zero before a submission fails; a third pass has nothing *)
(* left to do; and the openings of a pass overdraw the account by no more  *)
(* than what orders not sent were to free.                                 *)
(*                                                                         *)
(* Resting orders: what a diff leaves is what was wanted, order for order, *)
(* and a second diff leaves it alone.                                      *)
(***************************************************************************)
EXTENDS MCMirrors, SequenceTheorems, FiniteSetTheorems, WellFoundedInduction, TLAPS

-----------------------------------------------------------------------------
(* The passes over the positions *)

\* Rounding down to whole shares takes nothing beyond, and leaves less than a share.
LEMMA WholeSharesBounds ==
  ASSUME NEW q \in Nat
  PROVE  /\ WholeShares(q) \in 0..q
         /\ q < WholeShares(q) + Unit
<1>1. Unit \in Nat /\ Unit > 0
  BY UnitAssumption
<1>2. (q \div Unit) * Unit \in Nat /\ (q \div Unit) * Unit <= q
  BY <1>1, SMT
<1>3. q < (q \div Unit) * Unit + Unit
  BY <1>1, SMT
<1> QED BY <1>2, <1>3 DEF WholeShares

\* The targets are whole numbers.
LEMMA SizedInt ==
  ASSUME NEW net \in Int, NEW longest \in BOOLEAN,
         NEW p \in [clientBalance : Nat, masterBalance : Nat, multiplier : Nat,
                    forceMinOne : BOOLEAN],
         RatioKnown(p)
  PROVE  Sized(net, p, longest) \in Int
<1>1. Unit \in Nat /\ Unit > 0 /\ p.masterBalance \in Nat /\ p.masterBalance > 0
  BY UnitAssumption DEF RatioKnown
<1>2. PICK den : den = 10 * p.masterBalance * Unit
  OBVIOUS
<1>3. den \in Nat /\ den > 0
  BY <1>1, <1>2
<1>4. PICK num : num = net * p.clientBalance * p.multiplier
  OBVIOUS
<1>5. num \in Int
  BY <1>4
<1>6. RoundQty(num, den) \in Int
  BY <1>3, <1>5 DEF RoundQty, Signum, Abs
<1>7. TargetNetQty(net, p) \in Int
  BY <1>1, <1>2, <1>4, <1>6 DEF TargetNetQty, Signum
<1> QED BY <1>7 DEF Sized, ClampLong

\* Between two quantities, in either direction.
Between(q, from, to) ==
  \/ from <= q /\ q <= to
  \/ to <= q /\ q <= from

\* Neither is across zero from the other.
SameSide(q, r) == (q > 0 => r >= 0) /\ (q < 0 => r <= 0)

\* What one intent, floored to whole shares, makes of the position it is for.
LEMMA IntentsStayBetween ==
  ASSUME NEW s \in Sym, NEW from \in Int, NEW to \in Int,
         NEW i \in IntentsFor(s, from, to),
         NEW d, d = from + Signed(i.side, WholeShares(i.qty))
  PROVE  /\ i.sym = s /\ i.qty \in Nat /\ i.side \in Side /\ i.reason \in Reason
         /\ d \in Int /\ Between(d, from, to)
         /\ i.reason # "OpenLeg" => SameSide(from, d)
         /\ i.reason = "OpenLeg" =>
              /\ from # 0
              /\ Intent(s, Closing(from), Abs(from), "FlattenLeg") \in IntentsFor(s, from, to)
<1>0. PICK w : w = WholeShares(i.qty)
  OBVIOUS
<1>1. CASE CrossesZero(from, to) /\ i = Intent(s, Closing(from), Abs(from), "FlattenLeg")
  <2>1. i.sym = s /\ i.qty = Abs(from) /\ i.side = Closing(from) /\ i.reason = "FlattenLeg"
    BY <1>1 DEF Intent
  <2>2. i.qty \in Nat /\ w \in 0..i.qty
    BY <1>0, <2>1, WholeSharesBounds DEF Abs
  <2>3. i.side \in Side /\ i.reason \in Reason
    BY <2>1 DEF Closing, Side, Reason
  <2>4. CASE from > 0
    <3>1. d = from - w /\ w <= from /\ to < 0
      BY <1>0, <1>1, <2>1, <2>2, <2>4 DEF Closing, Signed, Abs, CrossesZero
    <3> QED BY <2>1, <2>2, <2>3, <2>4, <3>1 DEF Between, SameSide
  <2>5. CASE from < 0
    <3>1. d = from + w /\ w <= -from /\ to > 0
      BY <1>0, <1>1, <2>1, <2>2, <2>5 DEF Closing, Signed, Abs, CrossesZero
    <3> QED BY <2>1, <2>2, <2>3, <2>5, <3>1 DEF Between, SameSide
  <2> QED BY <1>1, <2>4, <2>5 DEF CrossesZero
<1>2. CASE CrossesZero(from, to) /\ i = Intent(s, FromDelta(to), Abs(to), "OpenLeg")
  <2>1. i.sym = s /\ i.qty = Abs(to) /\ i.side = FromDelta(to) /\ i.reason = "OpenLeg"
    BY <1>2 DEF Intent
  <2>2. i.qty \in Nat /\ w \in 0..i.qty
    BY <1>0, <2>1, WholeSharesBounds DEF Abs
  <2>3. i.side \in Side /\ i.reason \in Reason
    BY <2>1 DEF FromDelta, Side, Reason
  <2>4. Intent(s, Closing(from), Abs(from), "FlattenLeg") \in IntentsFor(s, from, to)
    BY <1>2 DEF IntentsFor
  <2>5. CASE from > 0
    <3>1. d = from - w /\ w <= -to /\ to < 0
      BY <1>0, <1>2, <2>1, <2>2, <2>5 DEF FromDelta, Signed, Abs, CrossesZero
    <3> QED BY <2>1, <2>2, <2>3, <2>4, <2>5, <3>1 DEF Between
  <2>6. CASE from < 0
    <3>1. d = from + w /\ w <= to /\ to > 0
      BY <1>0, <1>2, <2>1, <2>2, <2>6 DEF FromDelta, Signed, Abs, CrossesZero
    <3> QED BY <2>1, <2>2, <2>3, <2>4, <2>6, <3>1 DEF Between
  <2> QED BY <1>2, <2>5, <2>6 DEF CrossesZero
<1>3. CASE /\ ~CrossesZero(from, to)
           /\ i = Intent(s, FromDelta(to - from), Abs(to - from), Classify(from, to))
  <2>1. /\ i.sym = s /\ i.qty = Abs(to - from) /\ i.side = FromDelta(to - from)
        /\ i.reason = Classify(from, to)
    BY <1>3 DEF Intent
  <2>2. i.qty \in Nat /\ w \in 0..i.qty
    BY <1>0, <2>1, WholeSharesBounds DEF Abs
  <2>3. i.side \in Side /\ i.reason \in Reason /\ i.reason # "OpenLeg"
    BY <2>1 DEF FromDelta, Classify, Side, Reason
  <2>4. (from > 0 => to >= 0) /\ (from < 0 => to <= 0)
    BY <1>3 DEF CrossesZero
  <2>5. CASE to >= from
    <3>1. d = from + w /\ w <= to - from
      BY <1>0, <2>1, <2>2, <2>5 DEF FromDelta, Signed, Abs
    <3> QED BY <2>1, <2>2, <2>3, <2>4, <2>5, <3>1 DEF Between, SameSide
  <2>6. CASE to < from
    <3>1. d = from - w /\ w <= from - to
      BY <1>0, <2>1, <2>2, <2>6 DEF FromDelta, Signed, Abs
    <3> QED BY <2>1, <2>2, <2>3, <2>4, <2>6, <3>1 DEF Between, SameSide
  <2> QED BY <2>5, <2>6
<1> QED BY <1>1, <1>2, <1>3 DEF IntentsFor

\* A quantity in whole shares that is less than a share is none.
LEMMA NoFraction ==
  ASSUME NEW q \in Int, q % Unit = 0, Abs(q) < Unit
  PROVE  q = 0
<1>1. Unit \in Nat /\ Unit > 0
  BY UnitAssumption
<1>2. CASE q >= 0
  BY <1>1, <1>2 DEF Abs
<1>3. CASE q < 0
  BY <1>1, <1>3 DEF Abs
<1> QED BY <1>2, <1>3

-----------------------------------------------------------------------------
(* Passes *)

Aim(s) == ClampLong(longOnly, target[s])

FlattenLegOf(s) == Intent(s, Closing(book[s]), Abs(book[s]), "FlattenLeg")

\* An intent that may still be submitted is one of the position there is, and an
\* opening leg has its flattening leg before it, but for a fraction of a share or where
\* it has failed.
FlattensFirst(s) ==
  \/ FlattenLegOf(s) \in todo
  \/ Abs(book[s]) < Unit
  \/ <<s, passes>> \in failed

TodoInv ==
  \A i \in todo : i.sym \notin cooling =>
    /\ i \in IntentsFor(i.sym, book[i.sym], Aim(i.sym))
    /\ i.reason = "OpenLeg" => FlattensFirst(i.sym)

PassInv == TypeOK /\ TodoInv /\ (todo # {} => passes >= 1)

LEMMA PassInit == Init => PassInv
<1> SUFFICES ASSUME Init PROVE PassInv
  OBVIOUS
<1>1. PICK c \in Cases : /\ master = c.master /\ book = c.book /\ params = c.params
                         /\ funds = c.funds /\ resting = c.resting
  BY DEF Init
<1>2. /\ master \in [Sym -> Int] /\ book \in [Sym -> Int]
      /\ params \in [clientBalance : Nat, masterBalance : Nat, multiplier : Nat,
                     forceMinOne : BOOLEAN]
      /\ RatioKnown(params) /\ funds \in Nat /\ resting \subseteq Sym
  BY <1>1, PassAssumption
<1>3. PICK lockedUnder \in BOOLEAN :
        target = [s \in Sym |-> Sized(master[s], params, lockedUnder)]
  BY DEF Init
<1>4. target \in [Sym -> Int]
  <2>1. \A s \in Sym : Sized(master[s], params, lockedUnder) \in Int
    BY <1>2, SizedInt
  <2> QED BY <1>3, <2>1
<1>5. /\ longOnly \in BOOLEAN /\ cooling = {} /\ todo = {} /\ passes = 0
      /\ avail = 0 /\ refused = {} /\ blind = FALSE /\ failed = {} /\ unsent = 0
  BY DEF Init
<1>6. funds \in Int /\ avail \in Int /\ passes \in 0..3 /\ unsent \in Nat
  BY <1>2, <1>5
<1>7. TypeOK
  <2>1. /\ cooling \subseteq Sym /\ refused \subseteq Sym /\ failed \subseteq Sym \X (1..3)
        /\ \A i \in todo : /\ i.sym \in Sym /\ i.side \in Side /\ i.qty \in Nat
                          /\ i.reason \in Reason
    BY <1>5
  <2>2. blind \in BOOLEAN
    BY <1>5, Zenon
  <2> QED BY <1>2, <1>4, <1>5, <1>6, <2>1, <2>2, Zenon DEF TypeOK
<1>8. TodoInv
  BY <1>5 DEF TodoInv
<1> QED BY <1>5, <1>7, <1>8 DEF PassInv

LEMMA AimInt ==
  ASSUME TypeOK, NEW s \in Sym
  PROVE  book[s] \in Int /\ Aim(s) \in Int
  BY DEF TypeOK, Aim, ClampLong

\* Nothing of a pass changes what is given.
LEMMA GivenStays ==
  ASSUME [Next]_vars
  PROVE  UNCHANGED <<master, params, target, longOnly, resting>>
  BY DEF Next, Pass, Fractional, Refuse, Leg, Fails, vars, given

\* A pass begins with the intents of the positions there are.
LEMMA PassKeeps ==
  ASSUME PassInv, Pass
  PROVE  PassInv'
<1> USE DEF PassInv
<1>1. /\ UNCHANGED <<master, params, target, longOnly, resting, book, funds, refused, blind,
                     failed, unsent>>
      /\ cooling' = resting /\ passes' = passes + 1 /\ passes < 3 /\ avail' = funds
      /\ todo' = Intents(TRUE, params, master, book, target, longOnly, EmptyMasterGuard)
  BY DEF Pass, given, history
<1>2. ASSUME NEW i \in todo'
      PROVE  \E s \in Sym : i \in IntentsFor(s, book[s], Aim(s))
  BY <1>1, <1>2 DEF Intents, Held, Aim
<1>3. ASSUME NEW i \in todo'
      PROVE  /\ i.sym \in Sym /\ i.side \in Side /\ i.qty \in Nat /\ i.reason \in Reason
             /\ i \in IntentsFor(i.sym, book[i.sym], Aim(i.sym))
             /\ i.reason = "OpenLeg" =>
                  FlattenLegOf(i.sym) \in IntentsFor(i.sym, book[i.sym], Aim(i.sym))
  <2>1. PICK s \in Sym : i \in IntentsFor(s, book[s], Aim(s))
    BY <1>2
  <2>2. book[s] \in Int /\ Aim(s) \in Int
    BY AimInt
  <2>3. PICK d : d = book[s] + Signed(i.side, WholeShares(i.qty))
    OBVIOUS
  <2> QED BY <2>1, <2>2, <2>3, IntentsStayBetween DEF FlattenLegOf
<1>4. ASSUME NEW i \in todo', i.reason = "OpenLeg"
      PROVE  FlattenLegOf(i.sym) \in todo'
  <2>1. FlattenLegOf(i.sym) \in IntentsFor(i.sym, book[i.sym], Aim(i.sym))
    BY <1>3, <1>4
  <2>2. ~Blocked(TRUE, params, master, book, EmptyMasterGuard)
    BY <1>1, <1>4 DEF Intents
  <2>3. PICK s \in Held(master) \cup Held(book) : i \in IntentsFor(s, book[s], Aim(s))
    BY <1>1, <2>2 DEF Intents, Aim
  <2>4. i.sym = s
    <3>1. s \in Sym /\ book[s] \in Int /\ Aim(s) \in Int
      BY AimInt DEF Held
    <3>2. PICK d : d = book[s] + Signed(i.side, WholeShares(i.qty))
      OBVIOUS
    <3> QED BY <2>3, <3>1, <3>2, IntentsStayBetween
  <2> QED BY <1>1, <2>1, <2>2, <2>3, <2>4 DEF Intents, Aim
<1>5. TypeOK'
  <2>1. passes' \in 0..3 /\ avail' \in Int /\ unsent' \in Nat
    BY <1>1 DEF TypeOK
  <2>2. cooling' \subseteq Sym
    BY <1>1 DEF TypeOK
  <2>3. \A i \in todo' : /\ i.sym \in Sym /\ i.side \in Side /\ i.qty \in Nat
                       /\ i.reason \in Reason
    BY <1>3
  <2>4. /\ longOnly' \in BOOLEAN /\ blind' \in BOOLEAN
        /\ params' \in [clientBalance : Nat, masterBalance : Nat, multiplier : Nat,
                        forceMinOne : BOOLEAN]
        /\ master' \in [Sym -> Int] /\ book' \in [Sym -> Int] /\ target' \in [Sym -> Int]
        /\ resting' \subseteq Sym /\ funds' \in Int /\ refused' \subseteq Sym
        /\ failed' \subseteq Sym \X (1..3)
    BY <1>1, Zenon DEF TypeOK
  <2> QED BY <2>1, <2>2, <2>3, <2>4, Zenon DEF TypeOK
<1>6. TodoInv'
  BY <1>1, <1>3, <1>4 DEF TodoInv, FlattensFirst, Aim, FlattenLegOf
<1>7. passes' >= 1
  BY <1>1 DEF TypeOK
<1> QED BY <1>5, <1>6, <1>7

\* What an order makes of its position, if the symbol is not cooling.
LEMMA LegMoves ==
  ASSUME PassInv, NEW i \in todo, i.sym \notin cooling, IsNext(i)
  PROVE  /\ Filled(i) \in Int /\ Between(Filled(i), book[i.sym], Aim(i.sym))
         /\ book[i.sym] % Unit = 0 /\ <<i.sym, passes>> \notin failed
              => SameSide(book[i.sym], Filled(i))
<1>1. i.sym \in Sym /\ book[i.sym] \in Int /\ Aim(i.sym) \in Int
  BY AimInt DEF PassInv, TypeOK
<1>2. i \in IntentsFor(i.sym, book[i.sym], Aim(i.sym))
  BY DEF PassInv, TodoInv
<1>3. Filled(i) = book[i.sym] + Signed(i.side, WholeShares(i.qty))
  BY DEF Filled
<1>4. /\ Filled(i) \in Int /\ Between(Filled(i), book[i.sym], Aim(i.sym))
      /\ i.reason # "OpenLeg" => SameSide(book[i.sym], Filled(i))
      /\ i.reason = "OpenLeg" => book[i.sym] # 0
  BY <1>1, <1>2, <1>3, IntentsStayBetween
<1>5. ASSUME i.reason = "OpenLeg", book[i.sym] % Unit = 0, <<i.sym, passes>> \notin failed
      PROVE  FALSE
  <2>1. FlattenLegOf(i.sym).sym = i.sym /\ FlattenLegOf(i.sym) # i
    BY <1>5 DEF FlattenLegOf, Intent
  <2>2. FlattenLegOf(i.sym) \notin todo
    BY <1>5, <2>1 DEF IsNext
  <2>3. Abs(book[i.sym]) < Unit
    BY <1>5, <2>2 DEF PassInv, TodoInv, FlattensFirst
  <2> QED BY <1>1, <1>4, <1>5, <2>3, NoFraction
<1> QED BY <1>4, <1>5

LEMMA FractionalKeeps ==
  ASSUME PassInv, NEW i \in todo, Fractional(i)
  PROVE  PassInv'
<1>1. /\ WholeShares(i.qty) = 0 /\ todo' = todo \ {i}
      /\ UNCHANGED <<master, params, target, longOnly, resting, book, cooling, passes, funds,
                     avail, refused, blind, failed, unsent>>
  BY DEF Fractional, TakeUp, given, history
<1>2. TypeOK'
  BY <1>1 DEF PassInv, TypeOK
<1>3. ASSUME NEW j \in todo', j.sym \notin cooling'
      PROVE  /\ j \in IntentsFor(j.sym, book'[j.sym], Aim(j.sym)')
             /\ j.reason = "OpenLeg" => FlattensFirst(j.sym)'
  <2>1. /\ j \in todo /\ j.sym \notin cooling
        /\ j \in IntentsFor(j.sym, book[j.sym], Aim(j.sym))
        /\ j.reason = "OpenLeg" => FlattensFirst(j.sym)
    BY <1>1, <1>3 DEF PassInv, TodoInv
  <2>2. Aim(j.sym)' = Aim(j.sym) /\ FlattenLegOf(j.sym)' = FlattenLegOf(j.sym)
    BY <1>1 DEF Aim, FlattenLegOf
  <2>3. ASSUME FlattenLegOf(j.sym) = i PROVE Abs(book[j.sym]) < Unit
    <3>1. i.qty = Abs(book[j.sym]) /\ i.qty \in Nat
      BY <2>3 DEF FlattenLegOf, Intent, PassInv, TypeOK
    <3> QED BY <1>1, <3>1, UnitAssumption, WholeSharesBounds
  <2> QED BY <1>1, <2>1, <2>2, <2>3 DEF FlattensFirst
<1> QED BY <1>1, <1>2, <1>3 DEF PassInv, TodoInv

LEMMA RefuseKeeps ==
  ASSUME PassInv, NEW i \in todo, Refuse(i)
  PROVE  PassInv'
<1>1. /\ IsOpening(i.reason) /\ todo' = todo \ {i} /\ refused' = refused \cup {i.sym}
      /\ UNCHANGED <<master, params, target, longOnly, resting, book, cooling, passes, funds,
                     avail, blind, failed, unsent>>
  BY DEF Refuse, TakeUp, NeedsMargin, given
<1>2. TypeOK'
  BY <1>1 DEF PassInv, TypeOK
<1>3. ASSUME NEW j \in todo', j.sym \notin cooling'
      PROVE  /\ j \in IntentsFor(j.sym, book'[j.sym], Aim(j.sym)')
             /\ j.reason = "OpenLeg" => FlattensFirst(j.sym)'
  <2>1. /\ j \in IntentsFor(j.sym, book[j.sym], Aim(j.sym))
        /\ j.reason = "OpenLeg" => FlattensFirst(j.sym)
    BY <1>1, <1>3 DEF PassInv, TodoInv
  <2>2. Aim(j.sym)' = Aim(j.sym) /\ FlattenLegOf(j.sym)' = FlattenLegOf(j.sym)
    BY <1>1 DEF Aim, FlattenLegOf
  <2>3. FlattenLegOf(j.sym) # i
    BY <1>1 DEF FlattenLegOf, Intent, IsOpening
  <2> QED BY <1>1, <2>1, <2>2, <2>3 DEF FlattensFirst
<1> QED BY <1>1, <1>2, <1>3 DEF PassInv, TodoInv

\* What an intent the margin check lets through may do to the margin that is counted.
LEMMA ClearedCounts ==
  ASSUME PassInv, NEW i \in todo, Cleared(i)
  PROVE  /\ todo' = todo \ {i} /\ IsNext(i) /\ WholeShares(i.qty) > 0
         /\ Margin(i) \in Int /\ Filled(i) \in Int /\ Freed(i) \in Nat
         /\ IsOpening(i.reason) /\ ~blind' =>
              /\ ~blind /\ Margin(i) <= avail /\ avail' = avail - Margin(i)
              /\ -Margin(i) <= Freed(i)
         /\ ~IsOpening(i.reason) => UNCHANGED <<avail, blind>> /\ Freed(i) = 0
         /\ avail' \in Int /\ blind' \in BOOLEAN
<1>1. /\ todo' = todo \ {i} /\ IsNext(i) /\ WholeShares(i.qty) > 0
      /\ IF IsOpening(i.reason) THEN Allowed(i) ELSE UNCHANGED <<avail, blind>>
  BY DEF Cleared, TakeUp
<1>2. /\ i.sym \in Sym /\ i.qty \in Nat /\ book[i.sym] \in Int
      /\ avail \in Int /\ blind \in BOOLEAN
  BY DEF PassInv, TypeOK
<1>3. Filled(i) \in Int
  BY <1>2, WholeSharesBounds DEF Filled, Signed
<1>4. PICK M \in Int : M = Margin(i)
  BY <1>2, <1>3 DEF Margin, Abs
<1>5. Freed(i) \in Nat /\ (IsOpening(i.reason) => -M <= Freed(i))
  BY <1>4 DEF Freed
<1>6. ~IsOpening(i.reason) => Freed(i) = 0
  BY DEF Freed
<1>7. IsOpening(i.reason) =>
        (/\ M <= avail /\ avail' = avail - M /\ blind' = blind)
        \/ (blind' = TRUE /\ avail' = avail)
  BY <1>1, <1>4 DEF Allowed
<1>8. avail' \in Int
  BY <1>1, <1>2, <1>4, <1>7
<1>9. blind' \in BOOLEAN
  BY <1>1, <1>2, <1>7
<1> QED BY <1>1, <1>3, <1>4, <1>5, <1>6, <1>7, <1>8, <1>9

\* The symbol of an order sent, or passed over for it, is cooling.
LEMMA LegKeeps ==
  ASSUME PassInv, NEW i \in todo, Leg(i)
  PROVE  PassInv'
<1>1. /\ todo' = todo \ {i} /\ IsNext(i) /\ WholeShares(i.qty) > 0
      /\ UNCHANGED <<master, params, target, longOnly, resting, passes, refused, failed>>
  BY ClearedCounts DEF Leg, given
<1>2. i.sym \in Sym /\ i.qty \in Nat /\ book \in [Sym -> Int]
  BY DEF PassInv, TypeOK
<1>3. i.sym \in cooling' /\ cooling \subseteq cooling' /\ cooling' \subseteq Sym
  BY <1>2 DEF Leg, PassInv, TypeOK
<1>4. book' \in [Sym -> Int] /\ \A s \in Sym : s # i.sym => book'[s] = book[s]
  <2>1. CASE i.sym \in cooling
    BY <1>2, <2>1 DEF Leg
  <2>2. CASE i.sym \notin cooling
    BY <1>1, <1>2, <2>2, LegMoves DEF Leg
  <2> QED BY <2>1, <2>2
<1>5. Margin(i) \in Int /\ Freed(i) \in Nat /\ avail' \in Int /\ blind' \in BOOLEAN
  BY ClearedCounts DEF Leg
<1>6. funds' \in Int
  BY <1>5 DEF Leg, PassInv, TypeOK
<1>7. unsent' \in Nat
  BY <1>5 DEF Leg, PassInv, TypeOK
<1>9. TypeOK'
  BY <1>1, <1>3, <1>4, <1>5, <1>6, <1>7 DEF PassInv, TypeOK
<1>10. ASSUME NEW j \in todo', j.sym \notin cooling'
       PROVE  /\ j \in IntentsFor(j.sym, book'[j.sym], Aim(j.sym)')
              /\ j.reason = "OpenLeg" => FlattensFirst(j.sym)'
  <2>1. j \in todo /\ j.sym \notin cooling /\ j.sym # i.sym /\ j.sym \in Sym
    BY <1>1, <1>3, <1>10 DEF PassInv, TypeOK
  <2>2. /\ j \in IntentsFor(j.sym, book[j.sym], Aim(j.sym))
        /\ j.reason = "OpenLeg" => FlattensFirst(j.sym)
    BY <2>1 DEF PassInv, TodoInv
  <2>3. /\ book'[j.sym] = book[j.sym]
        /\ Aim(j.sym)' = Aim(j.sym) /\ FlattenLegOf(j.sym)' = FlattenLegOf(j.sym)
    BY <1>1, <1>4, <2>1 DEF Aim, FlattenLegOf
  <2>4. FlattenLegOf(j.sym) # i
    BY <2>1 DEF FlattenLegOf, Intent
  <2> QED BY <1>1, <2>2, <2>3, <2>4 DEF FlattensFirst
<1> QED BY <1>1, <1>9, <1>10 DEF PassInv, TodoInv

\* An order that fails is remembered with its symbol and its pass.
LEMMA FailsKeeps ==
  ASSUME PassInv, NEW i \in todo, Fails(i)
  PROVE  PassInv'
<1>1. /\ todo' = todo \ {i} /\ failed' = failed \cup {<<i.sym, passes>>}
      /\ UNCHANGED <<master, params, target, longOnly, resting, book, cooling, passes, funds,
                     refused>>
  BY ClearedCounts DEF Fails, given
<1>2. i.sym \in Sym /\ passes \in 1..3
  BY DEF PassInv, TypeOK
<1>3. unsent' \in Nat /\ avail' \in Int /\ blind' \in BOOLEAN
  BY ClearedCounts DEF Fails, PassInv, TypeOK
<1>4. failed' \subseteq Sym \X (1..3)
  BY <1>1, <1>2 DEF PassInv, TypeOK
<1>5. TypeOK'
  BY <1>1, <1>3, <1>4 DEF PassInv, TypeOK
<1>6. ASSUME NEW j \in todo', j.sym \notin cooling'
      PROVE  /\ j \in IntentsFor(j.sym, book'[j.sym], Aim(j.sym)')
             /\ j.reason = "OpenLeg" => FlattensFirst(j.sym)'
  <2>1. /\ j \in IntentsFor(j.sym, book[j.sym], Aim(j.sym))
        /\ j.reason = "OpenLeg" => FlattensFirst(j.sym)
    BY <1>1, <1>6 DEF PassInv, TodoInv
  <2>2. Aim(j.sym)' = Aim(j.sym) /\ FlattenLegOf(j.sym)' = FlattenLegOf(j.sym)
    BY <1>1 DEF Aim, FlattenLegOf
  <2>3. ASSUME FlattenLegOf(j.sym) = i PROVE <<j.sym, passes>> \in failed'
    BY <1>1, <2>3 DEF FlattenLegOf, Intent
  <2> QED BY <1>1, <2>1, <2>2, <2>3 DEF FlattensFirst
<1> QED BY <1>1, <1>5, <1>6 DEF PassInv, TodoInv

LEMMA PassStep ==
  ASSUME PassInv, [Next]_vars
  PROVE  PassInv'
<1>1. CASE Pass
  BY <1>1, PassKeeps
<1>2. CASE \E i \in todo : Fractional(i) \/ Refuse(i) \/ Leg(i) \/ Fails(i)
  BY <1>2, FractionalKeeps, RefuseKeeps, LegKeeps, FailsKeeps
<1>3. CASE UNCHANGED vars
  BY <1>3 DEF vars, given, history, PassInv, TypeOK, TodoInv, FlattensFirst, Aim, FlattenLegOf
<1> QED BY <1>1, <1>2, <1>3 DEF Next

\* What one step of a pass makes of one position.
LEMMA PositionStep ==
  ASSUME PassInv, [Next]_vars, NEW s \in Sym
  PROVE  /\ book[s] \in Int /\ book'[s] \in Int /\ Aim(s) \in Int
         /\ Between(book'[s], book[s], Aim(s))
         /\ book[s] % Unit = 0 /\ <<s, passes>> \notin failed => SameSide(book[s], book'[s])
<1>1. book[s] \in Int /\ Aim(s) \in Int
  BY AimInt DEF PassInv
<1>2. CASE book'[s] = book[s]
  BY <1>1, <1>2 DEF Between, SameSide
<1>3. CASE book'[s] # book[s]
  <2>1. PICK i \in todo : Leg(i)
    BY <1>3 DEF Next, Pass, Fractional, Refuse, Fails, vars
  <2>2. i.sym \notin cooling /\ IsNext(i) /\ book' = [book EXCEPT ![i.sym] = Filled(i)]
    BY <1>3, <2>1 DEF Leg, Cleared, TakeUp
  <2>3. i.sym \in Sym /\ book \in [Sym -> Int]
    BY DEF PassInv, TypeOK
  <2>4. i.sym = s /\ book'[s] = Filled(i)
    BY <1>3, <2>2, <2>3
  <2> QED BY <1>1, <2>2, <2>4, LegMoves
<1> QED BY <1>2, <1>3

\* Every reachable state of the passes has the declared types.
THEOREM TypeCorrect == Spec => []TypeOK
<1>1. PassInv => TypeOK
  BY DEF PassInv
<1> QED BY <1>1, PassInit, PassStep, PTL DEF Spec

\* No order of any pass moves a position away from its target or beyond it, for all
\* books, sizings and units: each symbol is ordered at most once in a pass, from the
\* position the intent was computed from.
THEOREM NeverBeyondTargetHolds == Spec => NeverBeyondTarget
<1> DEFINE Towards == \A s \in Sym : LET t == ClampLong(longOnly, target[s])
                                     IN  book'[s] \in (IF t < book[s] THEN t..book[s]
                                                                      ELSE book[s]..t)
<1>1. PassInv /\ [Next]_vars => Towards
  <2> SUFFICES ASSUME PassInv, [Next]_vars, NEW s \in Sym
               PROVE  book'[s] \in (IF Aim(s) < book[s] THEN Aim(s)..book[s]
                                                        ELSE book[s]..Aim(s))
    BY DEF Aim
  <2>1. /\ book[s] \in Int /\ book'[s] \in Int /\ Aim(s) \in Int
        /\ Between(book'[s], book[s], Aim(s))
    BY PositionStep
  <2> QED BY <2>1 DEF Between
<1>2. Spec => [][Towards]_vars
  BY <1>1, PassInit, PassStep, PTL DEF Spec
<1> QED BY <1>2 DEF NeverBeyondTarget

\* In Long Only mode no order opens or deepens a short.
THEOREM LongOnlyNeverShortsHolds == Spec => LongOnlyNeverShorts
<1> DEFINE NoShort == longOnly => \A s \in Sym : book'[s] < 0 => book'[s] >= book[s]
<1>1. PassInv /\ [Next]_vars => NoShort
  <2> SUFFICES ASSUME PassInv, [Next]_vars, longOnly, NEW s \in Sym, book'[s] < 0
               PROVE  book'[s] >= book[s]
    OBVIOUS
  <2>1. Aim(s) >= 0
    BY AimInt DEF Aim, ClampLong, PassInv, TypeOK
  <2>2. /\ book[s] \in Int /\ book'[s] \in Int /\ Aim(s) \in Int
        /\ Between(book'[s], book[s], Aim(s))
    BY PositionStep
  <2> QED BY <2>1, <2>2 DEF Between
<1>2. Spec => [][NoShort]_vars
  BY <1>1, PassInit, PassStep, PTL DEF Spec
<1> QED BY <1>2 DEF LongOnlyNeverShorts

\* No order of any pass carries whole shares through zero, as long as no other order for
\* their symbol has failed in it: an opening leg goes only after its flattening leg was
\* taken up, and when that was sent, not in the same pass.
THEOREM FlattenBeforeOpenHolds == Spec => FlattenBeforeOpen
<1> DEFINE Flat == \A s \in Sym : book[s] % Unit = 0 /\ <<s, passes>> \notin failed
                                    => book[s] * book'[s] >= 0
<1>1. PassInv /\ [Next]_vars => Flat
  <2> SUFFICES ASSUME PassInv, [Next]_vars, NEW s \in Sym, book[s] % Unit = 0,
                      <<s, passes>> \notin failed
               PROVE  book[s] * book'[s] >= 0
    OBVIOUS
  <2>1. book[s] \in Int /\ book'[s] \in Int /\ SameSide(book[s], book'[s])
    BY PositionStep
  <2> QED BY <2>1 DEF SameSide
<1>2. Spec => [][Flat]_vars
  BY <1>1, PassInit, PassStep, PTL DEF Spec
<1> QED BY <1>2 DEF FlattenBeforeOpen

-----------------------------------------------------------------------------
(* Sizing *)

LEMMA DivBounds ==
  ASSUME NEW x \in Int, NEW y \in Nat, y > 0
  PROVE  x \div y \in Int /\ (x \div y) * y <= x /\ x < (x \div y) * y + y
  BY SMT

LEMMA ScaledBack ==
  ASSUME NEW k \in Int
  PROVE  (Unit * k) \div Unit = k
<1>1. Unit \in Nat /\ Unit > 0
  BY UnitAssumption
<1>2. PICK w : w = (Unit * k) \div Unit
  OBVIOUS
<1>3. w \in Int /\ w * Unit <= Unit * k /\ Unit * k < w * Unit + Unit
  BY <1>1, <1>2, DivBounds
<1>4. CASE k <= w - 1
  <2>1. Unit * k <= Unit * (w - 1)
    BY <1>1, <1>3, <1>4
  <2> QED BY <1>1, <1>3, <2>1
<1>5. CASE k >= w + 1
  <2>1. Unit * k >= Unit * (w + 1)
    BY <1>1, <1>3, <1>5
  <2> QED BY <1>1, <1>3, <2>1
<1>6. CASE k = w
  BY <1>2, <1>6
<1> QED BY <1>3, <1>4, <1>5, <1>6

\* round_qty is the nearest integer, halves away from zero, and keeps the sign.
LEMMA RoundQtyNearest ==
  ASSUME NEW num \in Int, NEW den \in Nat, den > 0,
         NEW r, r = RoundQty(num, den)
  PROVE  /\ r \in Int
         /\ \/ 2 * Abs(num - den * r) < den
            \/ 2 * Abs(num - den * r) = den /\ Abs(den * r) > Abs(num)
         /\ r = 0 => 2 * Abs(num) < den
         /\ r # 0 => Signum(r) = Signum(num)
<1>1. PICK n : n = Abs(num)
  OBVIOUS
<1>2. n \in Nat
  BY <1>1 DEF Abs
<1>3. PICK k : k = (2 * n + den) \div (2 * den)
  OBVIOUS
<1>4. k \in Int /\ k * (2 * den) <= 2 * n + den /\ 2 * n + den < k * (2 * den) + 2 * den
  BY <1>2, <1>3, DivBounds
<1>5. PICK e : e = den * k
  OBVIOUS
<1>6. e \in Int /\ 2 * e <= 2 * n + den /\ 2 * n < 2 * e + den
  <2>1. e \in Int /\ k * (2 * den) = 2 * e
    BY <1>4, <1>5
  <2> QED BY <1>2, <1>4, <2>1
<1>7. k >= 0
  <2>1. CASE k <= -1
    <3>1. e <= -den
      BY <1>4, <1>5, <2>1
    <3> QED BY <1>2, <1>6, <3>1
  <2> QED BY <1>4, <2>1
<1>8. e >= 0 /\ (k = 0 => e = 0)
  BY <1>4, <1>5, <1>7
<1>9. r = Signum(num) * k
  BY <1>1, <1>3 DEF RoundQty
<1>10. CASE num > 0
  <2>1. r = k /\ den * r = e /\ n = num
    BY <1>1, <1>4, <1>5, <1>9, <1>10 DEF Signum, Abs
  <2> QED BY <1>4, <1>6, <1>7, <1>8, <1>10, <2>1 DEF Signum, Abs
<1>11. CASE num < 0
  <2>1. r = -k /\ n = -num
    BY <1>1, <1>4, <1>9, <1>11 DEF Signum, Abs
  <2>2. den * r = -e
    BY <1>4, <1>5, <2>1
  <2> QED BY <1>4, <1>6, <1>7, <1>8, <1>11, <2>1, <2>2 DEF Signum, Abs
<1>12. CASE num = 0
  <2>1. r = 0 /\ den * r = 0
    BY <1>4, <1>9, <1>12 DEF Signum
  <2> QED BY <1>12, <2>1 DEF Abs
<1> QED BY <1>10, <1>11, <1>12

\* A target is the whole number of shares nearest to the exact one, but that what the
\* master holds never scales to nothing.
LEMMA TargetNearest ==
  ASSUME NEW net \in Int,
         NEW p \in [clientBalance : Nat, masterBalance : Nat, multiplier : Nat,
                    forceMinOne : BOOLEAN],
         RatioKnown(p), p.forceMinOne,
         NEW exact, exact = net * p.clientBalance * p.multiplier,
         NEW den, den = 10 * p.masterBalance * Unit,
         NEW t, t = TargetNetQty(net, p) \div Unit
  PROVE  /\ \/ 2 * Abs(exact - den * t) < den
            \/ 2 * Abs(exact - den * t) = den /\ Abs(den * t) > Abs(exact)
            \/ Abs(t) = 1 /\ 2 * Abs(exact) < den
         /\ Signum(t) = Signum(net)
<1>1. /\ Unit \in Nat /\ Unit > 0 /\ p.masterBalance \in Nat /\ p.masterBalance > 0
      /\ p.clientBalance \in Nat /\ p.clientBalance > 0 /\ p.multiplier \in Nat
  BY UnitAssumption DEF RatioKnown
<1>2. den \in Nat /\ den > 0
  <2>1. PICK mu : mu = p.masterBalance * Unit
    OBVIOUS
  <2>2. mu \in Nat /\ mu > 0
    BY <1>1, <2>1
  <2>3. den = 10 * mu
    BY <1>1, <2>1
  <2> QED BY <2>2, <2>3
<1>3. exact \in Int /\ (net = 0 => exact = 0) /\ (exact # 0 => Signum(exact) = Signum(net))
  <2>1. PICK cm : cm = p.clientBalance * p.multiplier
    OBVIOUS
  <2>2. cm \in Nat /\ exact = net * cm
    BY <1>1, <2>1
  <2> QED BY <2>2 DEF Signum
<1>4. PICK scaled : scaled = RoundQty(exact, den)
  OBVIOUS
<1>5. /\ scaled \in Int
      /\ \/ 2 * Abs(exact - den * scaled) < den
         \/ 2 * Abs(exact - den * scaled) = den /\ Abs(den * scaled) > Abs(exact)
      /\ scaled = 0 => 2 * Abs(exact) < den
      /\ scaled # 0 => Signum(scaled) = Signum(exact)
  BY <1>2, <1>3, <1>4, RoundQtyNearest, SMTT(60)
<1>6. t = IF scaled = 0 THEN Signum(net) ELSE scaled
  <2>1. PICK k : k = IF scaled = 0 THEN Signum(net) ELSE scaled
    OBVIOUS
  <2>2. k \in Int
    BY <1>5, <2>1 DEF Signum
  <2>3. TargetNetQty(net, p) = Unit * k
    BY <1>4, <2>1 DEF TargetNetQty
  <2> QED BY <2>1, <2>2, <2>3, ScaledBack
<1>7. CASE scaled # 0
  <2>1. exact # 0
    BY <1>3, <1>5, <1>7 DEF Signum
  <2> QED BY <1>3, <1>5, <1>6, <1>7, <2>1
<1>8. CASE scaled = 0 /\ net # 0
  <2>1. t = Signum(net) /\ Abs(t) = 1 /\ Signum(t) = Signum(net)
    BY <1>6, <1>8 DEF Signum, Abs
  <2> QED BY <1>5, <1>8, <2>1
<1>9. CASE scaled = 0 /\ net = 0
  <2>1. t = 0 /\ exact = 0 /\ den * t = 0
    BY <1>2, <1>3, <1>6, <1>9 DEF Signum
  <2> QED BY <1>2, <1>9, <2>1 DEF Abs
<1> QED BY <1>7, <1>8, <1>9

\* With force_min_one, as the engine has it, every target is the nearest one, for every
\* position, balance and multiplier.
THEOREM NearestHolds ==
  ASSUME \A c \in Cases : c.params.forceMinOne
  PROVE  Spec => []Nearest
<1>1. Init => PassInv /\ RatioKnown(params) /\ params.forceMinOne
  <2> SUFFICES ASSUME Init PROVE RatioKnown(params) /\ params.forceMinOne
    BY PassInit
  <2> QED BY PassAssumption DEF Init
<1>2. PassInv /\ RatioKnown(params) /\ params.forceMinOne /\ [Next]_vars
        => (PassInv /\ RatioKnown(params) /\ params.forceMinOne)'
  <2> SUFFICES ASSUME PassInv, RatioKnown(params), params.forceMinOne, [Next]_vars
               PROVE  (RatioKnown(params) /\ params.forceMinOne)'
    BY PassStep
  <2> QED BY GivenStays DEF RatioKnown
<1>3. PassInv /\ RatioKnown(params) /\ params.forceMinOne => Nearest
  BY TargetNearest DEF PassInv, TypeOK, Nearest
<1> QED BY <1>1, <1>2, <1>3, PTL DEF Spec

-----------------------------------------------------------------------------
(* What the passes leave *)

\* A target is of whole shares, and none where the master has none or across zero from
\* what the master has.
Copies(net, t) ==
  /\ \E k \in Int : t = Unit * k
  /\ net >= 0 => t >= 0
  /\ net <= 0 => t <= 0

LEMMA SizedCopies ==
  ASSUME NEW net \in Int, NEW longest \in BOOLEAN,
         NEW p \in [clientBalance : Nat, masterBalance : Nat, multiplier : Nat,
                    forceMinOne : BOOLEAN],
         RatioKnown(p)
  PROVE  Copies(net, Sized(net, p, longest))
<1>1. /\ Unit \in Nat /\ Unit > 0 /\ p.masterBalance \in Nat /\ p.masterBalance > 0
      /\ p.clientBalance \in Nat /\ p.multiplier \in Nat
  BY UnitAssumption DEF RatioKnown
<1>2. PICK den : den = 10 * p.masterBalance * Unit
  OBVIOUS
<1>3. den \in Nat /\ den > 0
  <2>1. PICK mu : mu = p.masterBalance * Unit
    OBVIOUS
  <2>2. mu \in Nat /\ mu > 0
    BY <1>1, <2>1
  <2>3. den = 10 * mu
    BY <1>1, <1>2, <2>1
  <2> QED BY <2>2, <2>3
<1>4. PICK num : num = net * p.clientBalance * p.multiplier
  OBVIOUS
<1>5. num \in Int /\ (net >= 0 => num >= 0) /\ (net <= 0 => num <= 0)
  <2>1. PICK cm : cm = p.clientBalance * p.multiplier
    OBVIOUS
  <2>2. cm \in Nat /\ num = net * cm
    BY <1>1, <1>4, <2>1
  <2> QED BY <2>2
<1>6. PICK scaled : scaled = RoundQty(num, den)
  OBVIOUS
<1>7. scaled \in Int /\ (scaled # 0 => Signum(scaled) = Signum(num))
  BY <1>3, <1>5, <1>6, RoundQtyNearest
<1>8. PICK k : k = IF scaled = 0 /\ p.forceMinOne THEN Signum(net) ELSE scaled
  OBVIOUS
<1>9. k \in Int /\ (net >= 0 => k >= 0) /\ (net <= 0 => k <= 0)
  BY <1>5, <1>7, <1>8 DEF Signum
<1>10. TargetNetQty(net, p) = Unit * k
  BY <1>2, <1>4, <1>6, <1>8 DEF TargetNetQty
<1>11. PICK u : u = Unit * k
  OBVIOUS
<1>12. u \in Int /\ (k >= 0 => u >= 0) /\ (k <= 0 => u <= 0)
  BY <1>1, <1>9, <1>11
<1>13. CASE Sized(net, p, longest) = u
  BY <1>9, <1>11, <1>12, <1>13 DEF Copies
<1>14. CASE Sized(net, p, longest) = 0
  <2>1. 0 = Unit * 0
    BY <1>1
  <2> QED BY <1>14, <2>1 DEF Copies
<1> QED BY <1>10, <1>11, <1>13, <1>14 DEF Sized, ClampLong

\* What is aimed at copies the master, whatever mode the target was locked under.
Aligned == RatioKnown(params) /\ \A s \in Sym : Copies(master[s], Aim(s))

LEMMA AlignedInit == Init => Aligned
<1> SUFFICES ASSUME Init PROVE RatioKnown(params) /\ \A s \in Sym : Copies(master[s], Aim(s))
  BY DEF Aligned
<1>0. PICK c \in Cases : master = c.master /\ params = c.params
  BY DEF Init
<1>1. /\ master \in [Sym -> Int] /\ RatioKnown(params)
      /\ params \in [clientBalance : Nat, masterBalance : Nat, multiplier : Nat,
                     forceMinOne : BOOLEAN]
  BY <1>0, PassAssumption
<1> SUFFICES ASSUME NEW s \in Sym PROVE Copies(master[s], Aim(s))
  BY <1>1
<1>2. PICK lockedUnder \in BOOLEAN : target[s] = Sized(master[s], params, lockedUnder)
  BY DEF Init
<1>3. Copies(master[s], target[s])
  BY <1>1, <1>2, SizedCopies
<1>4. CASE Aim(s) = target[s]
  BY <1>1, <1>3, <1>4
<1>5. CASE Aim(s) = 0
  <2>1. 0 = Unit * 0
    BY UnitAssumption
  <2> QED BY <1>1, <1>5, <2>1 DEF Copies
<1> QED BY <1>4, <1>5 DEF Aim, ClampLong

LEMMA AlignedStep == ASSUME Aligned, [Next]_vars PROVE Aligned'
BY GivenStays DEF Aligned, Aim, RatioKnown

\* The three kinds of intent.
LEMMA IntentKinds ==
  ASSUME NEW s, NEW from \in Int, NEW to \in Int, NEW i \in IntentsFor(s, from, to)
  PROVE  /\ i.sym = s
         /\ \/ /\ CrossesZero(from, to) /\ i.reason = "FlattenLeg"
               /\ i.side = Closing(from) /\ i.qty = Abs(from)
            \/ /\ CrossesZero(from, to) /\ i.reason = "OpenLeg"
               /\ i.side = FromDelta(to) /\ i.qty = Abs(to)
            \/ /\ ~CrossesZero(from, to) /\ i.reason = Classify(from, to)
               /\ i.side = FromDelta(to - from) /\ i.qty = Abs(to - from)
               /\ IntentsFor(s, from, to) = {i}
BY DEF IntentsFor, Intent

\* No more than a fraction of a share from the target.
Near(s) == Abs(Aim(s) - book[s]) < Unit

\* What an order leaves: the position near its target or, if it flattened one of a share
\* or more, near none.
LEMMA LegLeaves ==
  ASSUME PassInv, Aligned, NEW i \in todo, i.sym \notin cooling, IsNext(i),
         WholeShares(i.qty) > 0, <<i.sym, passes>> \notin failed
  PROVE  \/ Abs(Aim(i.sym) - Filled(i)) < Unit
         \/ /\ i.reason = "FlattenLeg" /\ Abs(Filled(i)) < Unit
            /\ CrossesZero(book[i.sym], Aim(i.sym)) /\ Abs(book[i.sym]) >= Unit
<1> DEFINE b == book[i.sym]
           t == Aim(i.sym)
<1>1. i.sym \in Sym /\ i.qty \in Nat /\ b \in Int /\ t \in Int /\ Unit \in Nat /\ Unit > 0
  BY AimInt, UnitAssumption DEF PassInv, TypeOK
<1>2. i \in IntentsFor(i.sym, b, t)
  BY DEF PassInv, TodoInv
<1>3. PICK w : w = WholeShares(i.qty)
  OBVIOUS
<1>4. w \in Nat /\ w > 0 /\ w <= i.qty /\ i.qty < w + Unit /\ Filled(i) = b + Signed(i.side, w)
  BY <1>1, <1>3, WholeSharesBounds DEF Filled
<1> HIDE DEF b, t
<1>5. CASE CrossesZero(b, t) /\ i.reason = "FlattenLeg" /\ i.side = Closing(b) /\ i.qty = Abs(b)
  <2>1. Unit <= w
    <3>1. w = (i.qty \div Unit) * Unit /\ i.qty \div Unit \in Int
      BY <1>1, <1>3 DEF WholeShares
    <3>2. PICK k : k = i.qty \div Unit
      OBVIOUS
    <3> QED BY <1>1, <1>4, <3>1, <3>2
  <2> QED BY <1>1, <1>4, <1>5, <2>1 DEF CrossesZero, Closing, Signed, Abs, b, t
<1>6. CASE CrossesZero(b, t) /\ i.reason = "OpenLeg" /\ i.side = FromDelta(t) /\ i.qty = Abs(t)
  <2>1. FlattenLegOf(i.sym) \notin todo
    <3>1. FlattenLegOf(i.sym).sym = i.sym /\ FlattenLegOf(i.sym) # i
      BY <1>6 DEF FlattenLegOf, Intent
    <3> QED BY <1>6, <3>1 DEF IsNext
  <2>2. Abs(b) < Unit
    BY <1>6, <2>1 DEF PassInv, TodoInv, FlattensFirst, b
  <2>3. PICK k \in Int : t = Unit * k
    BY <1>1 DEF Aligned, Copies, t
  <2>4. w = i.qty
    <3>1. i.qty = Unit * Abs(k)
      BY <1>1, <1>6, <2>3 DEF Abs
    <3>2. Abs(k) \in Int
      BY DEF Abs
    <3> QED BY <1>1, <1>3, <3>1, <3>2, ScaledBack DEF WholeShares
  <2> QED BY <1>1, <1>4, <1>6, <2>2, <2>4 DEF CrossesZero, FromDelta, Signed, Abs, b, t
<1>7. CASE i.side = FromDelta(t - b) /\ i.qty = Abs(t - b)
  BY <1>1, <1>4, <1>7 DEF FromDelta, Signed, Abs, b, t
<1> QED BY <1>1, <1>2, <1>5, <1>6, <1>7, IntentKinds

\* An intent that leads nowhere: of a fraction of a share, or an opening there was no
\* margin for.
Idle(i) == WholeShares(i.qty) = 0 \/ (IsOpening(i.reason) /\ i.sym \in refused)

\* What a symbol still needs is to be handled in this pass, or leads nowhere.
Settling(s) == \A i \in IntentsFor(s, book[s], Aim(s)) : i \in todo \/ Idle(i)

\* Nothing is left to be flattened but a fraction of a share.
Flattened(s) == CrossesZero(book[s], Aim(s)) => Abs(book[s]) < Unit

\* How far a symbol is that was not cooling from before, and for which no order has
\* failed.  One ordered in this pass is
\* near its target or, in the first pass, flattened.
Progress(s) ==
  IF s \in cooling THEN Near(s) \/ (passes < 2 /\ Abs(book[s]) < Unit)
  ELSE Settling(s) /\ (passes >= 2 => Flattened(s))

\* The global guards let nothing through.
HeldBack == Blocked(TRUE, params, master, book, EmptyMasterGuard) /\ todo = {}

Steady(s) == s \notin resting /\ \A p \in 1..3 : <<s, p>> \notin failed

IdleInv ==
  /\ passes >= 1 => (HeldBack \/ \A s \in Sym : Steady(s) => Progress(s))
  /\ ThirdPassIdle

\* A symbol near its target needs fractions of a share only.
LEMMA NearIsIdle ==
  ASSUME NEW s, NEW from \in Int, NEW to \in Int, Abs(to - from) < Unit,
         NEW i \in IntentsFor(s, from, to)
  PROVE  WholeShares(i.qty) = 0
<1>1. Unit \in Nat /\ Unit > 0
  BY UnitAssumption
<1>2. i.qty \in Nat /\ i.qty < Unit
  BY <1>1, IntentKinds DEF CrossesZero, Abs
<1>3. PICK k : k = i.qty \div Unit
  OBVIOUS
<1>4. k \in Int /\ k * Unit <= i.qty /\ i.qty < k * Unit + Unit
  BY <1>1, <1>2, <1>3, DivBounds
<1>5. k = 0
  <2>1. CASE k >= 1
    <3>1. k * Unit >= Unit
      BY <1>1, <1>4, <2>1
    <3> QED BY <1>1, <1>2, <1>4, <3>1
  <2>2. CASE k <= -1
    <3>1. k * Unit <= -Unit
      BY <1>1, <1>4, <2>2
    <3> QED BY <1>1, <1>2, <1>4, <3>1
  <2> QED BY <1>4, <2>1, <2>2
<1> QED BY <1>1, <1>3, <1>5 DEF WholeShares

\* Of a position of a share or more there is a share to flatten.
LEMMA FlattenIsWhole ==
  ASSUME NEW from \in Int, WholeShares(Abs(from)) = 0
  PROVE  Abs(from) < Unit
<1>1. Abs(from) \in Nat
  BY DEF Abs
<1> QED BY <1>1, WholeSharesBounds, UnitAssumption

\* When a pass is over, whatever it ordered, refused or passed over, nothing is left to be
\* flattened; and after the second nothing leads anywhere.
LEMMA PassLeaves ==
  ASSUME PassInv, IdleInv, todo = {}, passes >= 1, ~HeldBack, NEW s \in Sym, Steady(s)
  PROVE  /\ Flattened(s)
         /\ passes >= 2 => \A i \in IntentsFor(s, book[s], Aim(s)) : Idle(i)
<1>1. Progress(s)
  BY DEF IdleInv
<1>2. book[s] \in Int /\ Aim(s) \in Int /\ Unit \in Nat /\ passes \in Int
  BY AimInt, UnitAssumption DEF PassInv, TypeOK
<1>3. CASE s \in cooling
  <2>1. Near(s) \/ (passes < 2 /\ Abs(book[s]) < Unit)
    BY <1>1, <1>3 DEF Progress
  <2>2. Flattened(s)
    BY <1>2, <2>1 DEF Near, Flattened, CrossesZero, Abs
  <2>3. Near(s) => \A i \in IntentsFor(s, book[s], Aim(s)) : Idle(i)
    BY <1>2, NearIsIdle DEF Near, Idle
  <2> QED BY <1>2, <2>1, <2>2, <2>3
<1>4. CASE s \notin cooling
  <2>1. \A i \in IntentsFor(s, book[s], Aim(s)) : Idle(i)
    BY <1>1, <1>4 DEF Progress, Settling
  <2>2. ASSUME CrossesZero(book[s], Aim(s)), Abs(book[s]) >= Unit PROVE FALSE
    <3>1. FlattenLegOf(s) \in IntentsFor(s, book[s], Aim(s))
      BY <1>2, <2>2 DEF FlattenLegOf, IntentsFor, CrossesZero, Abs
    <3>2. Idle(FlattenLegOf(s))
      BY <2>1, <3>1
    <3>3. WholeShares(Abs(book[s])) = 0
      BY <3>2 DEF Idle, FlattenLegOf, Intent, IsOpening
    <3>4. Abs(book[s]) \in Int
      BY <1>2 DEF Abs
    <3> QED BY <1>2, <2>2, <3>3, <3>4, FlattenIsWhole
  <2>3. Abs(book[s]) \in Int
    BY <1>2 DEF Abs
  <2> QED BY <1>2, <2>1, <2>2, <2>3 DEF Flattened
<1> QED BY <1>3, <1>4

LEMMA IdleInit == Init => IdleInv
BY DEF Init, IdleInv, ThirdPassIdle

LEMMA PassSettles ==
  ASSUME PassInv, Aligned, IdleInv, Pass
  PROVE  IdleInv'
<1>1. /\ UNCHANGED <<master, params, target, longOnly, resting, book, refused, failed>>
      /\ cooling' = resting /\ passes' = passes + 1 /\ todo = {}
      /\ todo' = Intents(TRUE, params, master, book, target, longOnly, EmptyMasterGuard)
      /\ passes \in 0..3
  BY DEF Pass, given, history, PassInv, TypeOK
<1>2. \A s \in Sym : Aim(s)' = Aim(s) /\ book[s] \in Int /\ Aim(s) \in Int
  BY <1>1, AimInt DEF Aim, PassInv
<1>3. CASE Blocked(TRUE, params, master, book, EmptyMasterGuard)
  <2>1. todo' = {} /\ HeldBack'
    BY <1>1, <1>3 DEF Intents, HeldBack
  <2> QED BY <1>1, <2>1 DEF IdleInv, ThirdPassIdle
<1>4. CASE ~Blocked(TRUE, params, master, book, EmptyMasterGuard)
  <2>1. ~HeldBack
    BY <1>4 DEF HeldBack
  <2>2. todo' = UNION {IntentsFor(s, book[s], Aim(s)) : s \in Held(master) \cup Held(book)}
    BY <1>1, <1>4 DEF Intents, Aim
  <2>3. ASSUME NEW s \in Sym, s \notin Held(master) \cup Held(book)
        PROVE  IntentsFor(s, book[s], Aim(s)) = {}
    <3>1. book[s] = 0 /\ Aim(s) = 0
      BY <1>2, <2>3 DEF Held, Aligned, Copies, PassInv, TypeOK
    <3> QED BY <3>1, UnitAssumption DEF IntentsFor, Abs
  <2>4. ASSUME NEW s \in Sym, Steady(s)' PROVE Progress(s)'
    <3>0. Steady(s) /\ s \notin resting
      BY <1>1, <2>4 DEF Steady
    <3>1. Settling(s)'
      BY <1>1, <1>2, <2>2, <2>3 DEF Settling
    <3>2. passes' >= 2 => Flattened(s)'
      BY <1>1, <1>2, <2>1, <3>0, PassLeaves DEF Flattened
    <3> QED BY <1>1, <3>0, <3>1, <3>2 DEF Progress
  <2>5. ASSUME passes' = 3, NEW i \in todo', Steady(i.sym) PROVE Idle(i)
    <3>1. PICK s \in Held(master) \cup Held(book) : i \in IntentsFor(s, book[s], Aim(s))
      BY <2>2, <2>5
    <3>2. i.sym = s /\ s \in Sym /\ Steady(s)
      BY <1>2, <2>5, <3>1, IntentKinds DEF Held
    <3> QED BY <1>1, <2>1, <2>5, <3>1, <3>2, PassLeaves
  <2>6. ThirdPassIdle'
    BY <1>1, <2>5 DEF ThirdPassIdle, Idle, Steady
  <2> QED BY <1>1, <2>4, <2>6 DEF IdleInv
<1> QED BY <1>3, <1>4

\* A symbol that a step of the pass is not about stays as far as it is.
LEMMA OthersProgress ==
  ASSUME PassInv, NEW i \in todo, NEW s \in Sym, s # i.sym, Progress(s),
         UNCHANGED <<passes, longOnly, target>>, todo' = todo \ {i},
         refused \subseteq refused', book'[s] = book[s], s \in cooling' <=> s \in cooling
  PROVE  Progress(s)'
<1>1. Aim(s)' = Aim(s) /\ book[s] \in Int /\ Aim(s) \in Int
  BY AimInt DEF Aim, PassInv
<1>2. Settling(s) => Settling(s)'
  <2> SUFFICES ASSUME Settling(s), NEW j \in IntentsFor(s, book[s], Aim(s))
               PROVE  j \in todo' \/ Idle(j)'
    BY <1>1 DEF Settling
  <2>1. j \in todo \/ Idle(j)
    BY DEF Settling
  <2>2. j.sym = s
    BY <1>1, IntentKinds
  <2> QED BY <2>1, <2>2 DEF Idle
<1>3. (Near(s) <=> Near(s)') /\ (Flattened(s) <=> Flattened(s)')
  BY <1>1 DEF Near, Flattened
<1> QED BY <1>2, <1>3 DEF Progress

\* What is left of the pass is no more than it was, and no less is refused.
LEMMA ThirdPassShrinks ==
  ASSUME ThirdPassIdle, UNCHANGED <<passes, resting>>, todo' \subseteq todo,
         refused \subseteq refused', failed \subseteq failed'
  PROVE  ThirdPassIdle'
BY DEF ThirdPassIdle

\* An intent given up for leading nowhere.
LEMMA IdleSettles ==
  ASSUME PassInv, IdleInv, NEW i \in todo, todo' = todo \ {i}, Idle(i)',
         UNCHANGED <<master, params, target, longOnly, resting, book, cooling, passes, failed>>,
         refused \subseteq refused'
  PROVE  IdleInv'
<1>1. ~HeldBack
  BY DEF HeldBack
<1>2. ASSUME passes >= 1, NEW s \in Sym, Steady(s) PROVE Progress(s)'
  <2>1. Progress(s) /\ Aim(s)' = Aim(s)
    BY <1>1, <1>2 DEF IdleInv, Aim
  <2>2. Settling(s) => Settling(s)'
    BY <2>1 DEF Settling, Idle
  <2> QED BY <2>1, <2>2 DEF Progress, Near, Flattened
<1> QED BY <1>2, ThirdPassShrinks DEF IdleInv, Steady

LEMMA LegSettles ==
  ASSUME PassInv, Aligned, IdleInv, NEW i \in todo, Leg(i)
  PROVE  IdleInv'
<1>1. /\ todo' = todo \ {i} /\ IsNext(i) /\ WholeShares(i.qty) > 0
      /\ UNCHANGED <<master, params, target, longOnly, resting, passes, refused, failed>>
  BY ClearedCounts DEF Leg, given
<1>2. i.sym \in Sym /\ book \in [Sym -> Int] /\ passes \in Int /\ Unit \in Nat
  BY UnitAssumption DEF PassInv, TypeOK
<1>3. ~HeldBack
  BY DEF HeldBack
<1>4. /\ cooling' = cooling \cup {i.sym}
      /\ \A s \in Sym : s # i.sym => book'[s] = book[s]
      /\ i.sym \in cooling => book' = book
      /\ i.sym \notin cooling => book'[i.sym] = Filled(i)
  BY <1>2 DEF Leg
<1>5. ASSUME passes >= 1, NEW s \in Sym, Steady(s) PROVE Progress(s)'
  <2>1. Progress(s) /\ Aim(s)' = Aim(s) /\ book[s] \in Int /\ Aim(s) \in Int
    BY <1>1, <1>3, <1>5, AimInt DEF IdleInv, Aim, PassInv
  <2>2. CASE s # i.sym
    BY <1>1, <1>4, <2>1, <2>2, OthersProgress
  <2>3. CASE s = i.sym /\ s \in cooling
    <3>1. book'[s] = book[s] /\ s \in cooling'
      BY <1>4, <2>3
    <3> QED BY <1>1, <2>1, <2>3, <3>1 DEF Progress, Near
  <2>4. CASE s = i.sym /\ s \notin cooling
    <3>1. passes >= 2 => Flattened(s)
      BY <2>1, <2>4 DEF Progress
    <3>2. Abs(book[s]) \in Int
      BY <2>1 DEF Abs
    <3>3. \/ Abs(Aim(s) - Filled(i)) < Unit
          \/ /\ Abs(Filled(i)) < Unit
             /\ CrossesZero(book[s], Aim(s)) /\ Abs(book[s]) >= Unit
      <4>1. <<i.sym, passes>> \notin failed
        BY <1>5, <2>4 DEF Steady, PassInv, TypeOK
      <4> QED BY <1>1, <2>4, <4>1, LegLeaves
    <3>4. Abs(Aim(s) - Filled(i)) < Unit \/ (passes < 2 /\ Abs(Filled(i)) < Unit)
      BY <1>2, <3>1, <3>2, <3>3 DEF Flattened
    <3> QED BY <1>1, <1>4, <2>1, <2>4, <3>4 DEF Progress, Near
  <2> QED BY <2>2, <2>3, <2>4
<1>6. ThirdPassIdle'
  BY <1>1, ThirdPassShrinks DEF IdleInv
<1> QED BY <1>1, <1>5, <1>6 DEF IdleInv, Steady

\* Of a symbol for which an order has failed nothing is said.
LEMMA FailsSettles ==
  ASSUME PassInv, IdleInv, NEW i \in todo, Fails(i)
  PROVE  IdleInv'
<1>1. /\ todo' = todo \ {i} /\ failed' = failed \cup {<<i.sym, passes>>}
      /\ UNCHANGED <<master, params, target, longOnly, resting, book, cooling, passes, refused>>
  BY ClearedCounts DEF Fails, given
<1>2. ~HeldBack /\ passes \in 1..3
  <2>1. ~HeldBack
    BY DEF HeldBack
  <2>2. passes \in 1..3
    BY DEF PassInv, TypeOK
  <2> QED BY <2>1, <2>2
<1>3. ASSUME NEW s \in Sym, Steady(s)' PROVE Progress(s)'
  <2>1. Steady(s) /\ s # i.sym
    BY <1>1, <1>2, <1>3 DEF Steady
  <2>2. Progress(s)
    BY <1>2, <2>1 DEF IdleInv
  <2> QED BY <1>1, <2>1, <2>2, OthersProgress
<1>4. ThirdPassIdle'
  BY <1>1, ThirdPassShrinks DEF IdleInv
<1> QED BY <1>3, <1>4 DEF IdleInv

LEMMA IdleStep ==
  ASSUME PassInv, Aligned, IdleInv, [Next]_vars
  PROVE  IdleInv'
<1>1. CASE Pass
  BY <1>1, PassSettles
<1>2. ASSUME NEW i \in todo, Fractional(i) PROVE IdleInv'
  <2>1. /\ todo' = todo \ {i} /\ WholeShares(i.qty) = 0
        /\ UNCHANGED <<master, params, target, longOnly, resting, book, cooling, passes, refused,
                       failed>>
    BY <1>2 DEF Fractional, TakeUp, given, history
  <2> QED BY <2>1, IdleSettles DEF Idle
<1>3. ASSUME NEW i \in todo, Refuse(i) PROVE IdleInv'
  <2>1. /\ todo' = todo \ {i} /\ IsOpening(i.reason) /\ refused' = refused \cup {i.sym}
        /\ UNCHANGED <<master, params, target, longOnly, resting, book, cooling, passes, failed>>
    BY <1>3 DEF Refuse, TakeUp, NeedsMargin, given
  <2> QED BY <2>1, IdleSettles DEF Idle
<1>4. ASSUME NEW i \in todo, Leg(i) PROVE IdleInv'
  BY <1>4, LegSettles
<1>5. ASSUME NEW i \in todo, Fails(i) PROVE IdleInv'
  BY <1>5, FailsSettles
<1>6. CASE UNCHANGED vars
  BY <1>6 DEF vars, given, history, IdleInv, HeldBack, ThirdPassIdle, Progress, Settling, Idle,
              Near, Flattened, Aim, Steady
<1> QED BY <1>1, <1>2, <1>3, <1>4, <1>5, <1>6 DEF Next

\* A third pass has no whole share left to trade but in symbols cooling from before or an
\* order of which has failed, and for openings there was no margin for, for all books,
\* sizings, units, funds and refusals: a flip takes two passes, everything else one.
THEOREM ThirdPassIdleHolds == Spec => []ThirdPassIdle
<1>1. IdleInv => ThirdPassIdle
  BY DEF IdleInv
<1>2. PassInv /\ Aligned /\ IdleInv /\ [Next]_vars => (PassInv /\ Aligned /\ IdleInv)'
  BY PassStep, AlignedStep, IdleStep
<1> QED BY <1>1, <1>2, PassInit, AlignedInit, IdleInit, PTL DEF Spec

-----------------------------------------------------------------------------
(* The budget *)

\* Symbols whose position has just been flattened and whose opening leg, which the
\* cooldown will stop, is still to be asked about.
Pending == {s \in cooling \ resting : \E i \in todo : i.sym = s /\ i.reason = "OpenLeg"}

\* Of a symbol that cools since this pass only the opening leg of what was flattened is
\* left.
CoolingInv ==
  /\ todo # {} => resting \subseteq cooling
  /\ \A i \in todo : i.sym \in cooling \ resting =>
       i.reason = "OpenLeg" /\ Abs(book[i.sym]) < Unit

\* An opening leg that comes after its flattening is asked about from what is left of the
\* position, less than a share, so it frees less than the share or more that flattening it
\* did free.  One that comes before the cooldown of earlier orders, or after a flattening
\* that failed, frees only what is counted as unsent.
Covered ==
  ~blind => /\ funds + unsent >= 0
            /\ avail + Unit * Cardinality(Pending) <= funds + unsent

BudgetInv == CoolingInv /\ Covered

LEMMA BudgetInit == Init => BudgetInv
<1> SUFFICES ASSUME Init PROVE BudgetInv
  OBVIOUS
<1>1. PICK c \in Cases : funds = c.funds /\ resting = c.resting
  BY DEF Init
<1>2. todo = {} /\ cooling = {} /\ avail = 0 /\ unsent = 0 /\ funds \in Nat
  BY <1>1, PassAssumption DEF Init
<1>3. Pending = {} /\ Cardinality({}) = 0
  BY <1>2, FS_EmptySet DEF Pending
<1>4. Unit \in Nat
  BY UnitAssumption
<1> QED BY <1>2, <1>3, <1>4 DEF BudgetInv, CoolingInv, Covered

LEMMA PassBudget ==
  ASSUME PassInv, BudgetInv, Pass
  PROVE  BudgetInv'
<1>1. /\ UNCHANGED <<resting, book, blind, funds, unsent>>
      /\ cooling' = resting /\ avail' = funds
  BY DEF Pass, given, history
<1>2. CoolingInv'
  BY <1>1 DEF CoolingInv
<1>3. Pending' = {}
  BY <1>1 DEF Pending
<1>4. funds \in Int /\ unsent \in Nat /\ (~blind => funds + unsent >= 0)
  BY DEF PassInv, TypeOK, BudgetInv, Covered
<1>5. Cardinality(Pending') = 0 /\ Unit * Cardinality(Pending') = 0
  BY <1>3, FS_EmptySet, UnitAssumption
<1>6. Covered'
  BY <1>1, <1>4, <1>5 DEF Covered
<1> QED BY <1>2, <1>6 DEF BudgetInv

\* The multiples of a share are ordered as their numbers are.
LEMMA UnitTimes ==
  ASSUME NEW m \in Nat, NEW n \in Nat, m <= n
  PROVE  Unit * m \in Nat /\ Unit * n \in Nat /\ Unit * m <= Unit * n
<1>1. PICK d : d = n - m
  OBVIOUS
<1>2. Unit * n = Unit * m + Unit * d /\ Unit * d >= 0
  BY <1>1, UnitAssumption
<1> QED BY <1>2, UnitAssumption

\* Enough: nothing more is pending, and what is left does not outgrow the funds and what
\* was not sent, which stay above nothing.
LEMMA CoveredShrinks ==
  ASSUME TypeOK, IsFiniteSet(Sym), Covered, Pending' \subseteq Pending,
         avail' \in Int, funds' \in Int, unsent' \in Nat, blind => blind',
         ~blind' => /\ avail' - avail <= (funds' + unsent') - (funds + unsent)
                    /\ funds' + unsent' >= 0
  PROVE  Covered'
<1> SUFFICES ASSUME ~blind'
             PROVE  avail' + Unit * Cardinality(Pending') <= funds' + unsent'
  BY DEF Covered
<1>1. IsFiniteSet(Pending)
  BY FS_Subset DEF Pending, TypeOK
<1>2. PICK n \in Nat, m \in Nat : n = Cardinality(Pending) /\ m = Cardinality(Pending') /\ m <= n
  BY <1>1, FS_Subset, FS_CardinalityType
<1>3. PICK un \in Int, um \in Int : un = Unit * n /\ um = Unit * m /\ um <= un
  BY <1>2, UnitTimes
<1>4. PICK a \in Int, f \in Int, a2 \in Int, f2 \in Int :
        a = avail /\ f = funds + unsent /\ a2 = avail' /\ f2 = funds' + unsent'
  <2>1. avail \in Int /\ funds + unsent \in Int /\ funds' + unsent' \in Int
    BY DEF TypeOK
  <2> QED BY <2>1
<1>5. a + un <= f
  BY <1>2, <1>3, <1>4 DEF Covered
<1>6. a2 - a <= f2 - f
  BY <1>4
<1>7. a2 + um <= f2
  BY <1>3, <1>5, <1>6
<1> QED BY <1>2, <1>3, <1>4, <1>7

\* An intent given up leaves the others as they were.
LEMMA GivenUpBudget ==
  ASSUME PassInv, BudgetInv, IsFiniteSet(Sym), NEW i \in todo, todo' = todo \ {i},
         UNCHANGED <<resting, book, cooling, funds, avail, blind, unsent>>
  PROVE  BudgetInv'
<1>1. CoolingInv'
  BY DEF BudgetInv, CoolingInv
<1>2. Pending' \subseteq Pending
  BY DEF Pending
<1>3. /\ avail' \in Int /\ funds' \in Int /\ unsent' \in Nat
      /\ avail' - avail <= (funds' + unsent') - (funds + unsent)
      /\ ~blind => funds' + unsent' >= 0
  BY DEF PassInv, TypeOK, BudgetInv, Covered
<1> QED BY <1>1, <1>2, <1>3, CoveredShrinks DEF BudgetInv, PassInv

\* What an order does to the margin in use: one that opens from its intent's position ties
\* up no less than nothing, a flattening frees a share or more, any other closing frees
\* some or none, and no order at all frees more than the position tied up.
LEMMA LegMargin ==
  ASSUME PassInv, NEW i \in todo, WholeShares(i.qty) > 0
  PROVE  /\ Margin(i) \in Int /\ Margin(i) >= -Abs(book[i.sym])
         /\ i \in IntentsFor(i.sym, book[i.sym], Aim(i.sym)) =>
              /\ i.reason = "FlattenLeg" => Margin(i) <= -Unit
              /\ ~IsOpening(i.reason) => Margin(i) <= 0
              /\ IsOpening(i.reason) /\ i.reason # "OpenLeg" => Margin(i) >= 0
<1> DEFINE b == book[i.sym]
           t == Aim(i.sym)
<1>1. /\ i.sym \in Sym /\ i.qty \in Nat /\ i.side \in Side /\ b \in Int /\ t \in Int
      /\ Unit \in Nat /\ Unit > 0
  BY AimInt, UnitAssumption DEF PassInv, TypeOK
<1>2. PICK w : w = WholeShares(i.qty)
  OBVIOUS
<1>3. w \in Nat /\ w > 0 /\ w <= i.qty /\ Margin(i) = Abs(b + Signed(i.side, w)) - Abs(b)
  BY <1>1, <1>2, WholeSharesBounds DEF Margin, Filled
<1>4. w >= Unit
  <2>1. PICK k : k = i.qty \div Unit
    OBVIOUS
  <2>2. w = k * Unit /\ k \in Int
    BY <1>1, <1>2, <2>1 DEF WholeShares
  <2> QED BY <1>1, <1>3, <2>2
<1> HIDE DEF b, t
<1>5. Margin(i) \in Int /\ Margin(i) >= -Abs(b)
  BY <1>1, <1>3 DEF Signed, Abs
<1>6. ASSUME i \in IntentsFor(i.sym, b, t)
      PROVE  /\ i.reason = "FlattenLeg" => Margin(i) <= -Unit
             /\ ~IsOpening(i.reason) => Margin(i) <= 0
             /\ IsOpening(i.reason) /\ i.reason # "OpenLeg" => Margin(i) >= 0
  <2>1. CASE i.reason = "FlattenLeg" /\ i.side = Closing(b) /\ i.qty = Abs(b)
    BY <1>1, <1>3, <1>4, <2>1 DEF Closing, Signed, Abs, IsOpening
  <2>2. CASE i.reason = "OpenLeg"
    BY <2>2 DEF IsOpening
  <2>3. CASE /\ ~CrossesZero(b, t) /\ i.reason = Classify(b, t)
             /\ i.side = FromDelta(t - b) /\ i.qty = Abs(t - b)
    BY <1>1, <1>3, <2>3 DEF CrossesZero, Classify, FromDelta, Signed, Abs, IsOpening
  <2> QED BY <1>1, <1>6, <2>1, <2>2, <2>3, IntentKinds
<1> QED BY <1>5, <1>6 DEF b, t

\* After an order, too, what is left of a cooling symbol is as CoolingInv says.
LEMMA LegCooling ==
  ASSUME PassInv, CoolingInv, NEW i \in todo, Leg(i)
  PROVE  CoolingInv'
<1>1. todo' = todo \ {i} /\ IsNext(i) /\ UNCHANGED resting
  BY ClearedCounts DEF Leg, given
<1>2. i.sym \in Sym /\ book \in [Sym -> Int] /\ resting \subseteq cooling
  BY DEF PassInv, TypeOK, CoolingInv
<1>3. /\ cooling' = cooling \cup {i.sym}
      /\ i.sym \in cooling => book' = book
      /\ \A s \in Sym : s # i.sym => book'[s] = book[s]
      /\ i.sym \notin cooling => book'[i.sym] = Filled(i)
  BY <1>2 DEF Leg
<1>4. ASSUME NEW j \in todo', j.sym \in cooling' \ resting
      PROVE  j.reason = "OpenLeg" /\ Abs(book'[j.sym]) < Unit
  <2>1. CASE j.sym \in cooling
    <3>1. j.sym \in Sym /\ book'[j.sym] = book[j.sym]
      BY <1>1, <1>3, <2>1 DEF PassInv, TypeOK
    <3> QED BY <1>1, <1>4, <2>1, <3>1 DEF CoolingInv
  <2>2. CASE j.sym \notin cooling
    <3>1. j.sym = i.sym /\ j # i /\ j \in todo
      BY <1>1, <1>3, <1>4, <2>2
    <3>2. /\ i \in IntentsFor(i.sym, book[i.sym], Aim(i.sym))
          /\ j \in IntentsFor(i.sym, book[i.sym], Aim(i.sym))
      BY <2>2, <3>1 DEF PassInv, TodoInv
    <3>3. i.reason # "OpenLeg"
      BY <1>1, <3>1 DEF IsNext
    <3>4. book[i.sym] \in Int /\ Aim(i.sym) \in Int
      BY <1>2, AimInt DEF PassInv
    <3>5. CrossesZero(book[i.sym], Aim(i.sym)) /\ i.reason = "FlattenLeg"
      BY <3>1, <3>2, <3>3, <3>4, IntentKinds
    <3>6. j.reason = "OpenLeg"
      BY <3>1, <3>2, <3>5 DEF IntentsFor, Intent
    <3>7. Abs(Filled(i)) < Unit
      <4>1. Filled(i) = book[i.sym] + Signed(Closing(book[i.sym]), WholeShares(i.qty))
            /\ i.qty = Abs(book[i.sym]) /\ WholeShares(i.qty) \in 0..i.qty
            /\ i.qty < WholeShares(i.qty) + Unit
        <5>1. i.side = Closing(book[i.sym]) /\ i.qty = Abs(book[i.sym]) /\ i.qty \in Nat
          BY <3>2, <3>4, <3>5, IntentKinds DEF Abs
        <5> QED BY <5>1, WholeSharesBounds DEF Filled
      <4> QED BY <3>4, <3>5, <4>1, UnitAssumption DEF Closing, Signed, Abs, CrossesZero
    <3> QED BY <1>3, <2>2, <3>1, <3>6, <3>7
  <2> QED BY <2>1, <2>2
<1>5. todo' # {} => resting' \subseteq cooling'
  BY <1>1, <1>2, <1>3
<1> QED BY <1>1, <1>4, <1>5 DEF CoolingInv

\* An order whose margin is taken from what is left as from the funds.
LEMMA LegBudget ==
  ASSUME PassInv, BudgetInv, IsFiniteSet(Sym), NEW i \in todo, Leg(i)
  PROVE  BudgetInv'
<1>1. todo' = todo \ {i} /\ IsNext(i) /\ WholeShares(i.qty) > 0 /\ UNCHANGED resting
  BY ClearedCounts DEF Leg, given
<1>2. /\ i.sym \in Sym /\ book[i.sym] \in Int /\ Aim(i.sym) \in Int /\ cooling \subseteq Sym
      /\ Unit \in Nat /\ Unit > 0 /\ funds \in Int /\ avail \in Int /\ unsent \in Nat
  BY AimInt, UnitAssumption DEF PassInv, TypeOK
<1>3. CoolingInv'
  BY LegCooling DEF BudgetInv
<1>4. IsFiniteSet(Pending)
  BY <1>2, FS_Subset DEF Pending
<1>5. PICK M \in Int, fr \in Nat : M = Margin(i) /\ fr = Freed(i)
  BY ClearedCounts DEF Leg
<1>6. /\ IsOpening(i.reason) /\ ~blind' =>
           ~blind /\ M <= avail /\ avail' = avail - M /\ -M <= fr
      /\ ~IsOpening(i.reason) => UNCHANGED <<avail, blind>> /\ fr = 0
      /\ avail' \in Int
      /\ i.sym \in cooling => UNCHANGED <<cooling, funds>>
      /\ i.sym \in cooling => unsent' = unsent + (IF i.sym \in resting THEN fr ELSE 0)
      /\ i.sym \notin cooling =>
           cooling' = cooling \cup {i.sym} /\ funds' = funds - M /\ unsent' = unsent
  BY <1>5, ClearedCounts DEF Leg
<1>7. funds' \in Int /\ unsent' \in Nat
  BY <1>2, <1>5, <1>6
<1>8. PICK n \in Nat : n = Cardinality(Pending)
  BY <1>4, FS_CardinalityType
<1>9. PICK un \in Nat : un = Unit * n
  BY <1>2, <1>8
<1> SUFFICES ASSUME ~blind' PROVE Covered'
  BY <1>3 DEF BudgetInv, Covered
<1>10. ~blind /\ avail + un <= funds + unsent /\ funds + unsent >= 0
  BY <1>6, <1>8, <1>9 DEF BudgetInv, Covered
<1>11. CASE i.sym \in cooling \ resting
  <2>1. i.reason = "OpenLeg" /\ Abs(book[i.sym]) < Unit
    BY <1>11 DEF BudgetInv, CoolingInv
  <2>2. M > -Unit
    <3>1. M >= -Abs(book[i.sym]) /\ Abs(book[i.sym]) \in Int
      BY <1>1, <1>2, <1>5, LegMargin DEF Abs
    <3> QED BY <1>2, <2>1, <3>1
  <2>3. Pending' = Pending \ {i.sym} /\ i.sym \in Pending
    BY <1>1, <1>6, <1>11, <2>1 DEF Pending, IsNext
  <2>4. Cardinality(Pending') = n - 1
    BY <1>4, <1>8, <2>3, FS_RemoveElement
  <2>5. avail' = avail - M /\ funds' = funds /\ unsent' = unsent
    BY <1>2, <1>6, <1>11, <2>1 DEF IsOpening
  <2>6. Unit * (n - 1) = un - Unit
    BY <1>2, <1>8, <1>9
  <2>7. avail' + (un - Unit) <= funds' + unsent' /\ funds' + unsent' >= 0
    BY <1>2, <1>5, <1>10, <2>2, <2>5
  <2> QED BY <2>4, <2>6, <2>7 DEF Covered
<1>12. CASE i.sym \in resting
  <2>1. i.sym \in cooling
    BY <1>12 DEF BudgetInv, CoolingInv
  <2>2. Pending' \subseteq Pending
    BY <1>1, <1>6, <2>1 DEF Pending
  <2>3. funds' = funds /\ unsent' = unsent + fr
    BY <1>6, <1>12, <2>1
  <2>4. avail' - avail <= fr
    BY <1>2, <1>5, <1>6
  <2>5. /\ avail' - avail <= (funds' + unsent') - (funds + unsent)
        /\ funds' + unsent' >= 0
    BY <1>2, <1>5, <1>6, <1>10, <2>3, <2>4
  <2> QED BY <1>6, <1>7, <1>10, <2>2, <2>5, CoveredShrinks DEF PassInv, BudgetInv
<1>13. CASE i.sym \notin cooling
  <2>1. i \in IntentsFor(i.sym, book[i.sym], Aim(i.sym))
    BY <1>13 DEF PassInv, TodoInv
  <2>2. ASSUME i.reason # "FlattenLeg" PROVE Pending' \subseteq Pending
    <3>1. ASSUME NEW j \in todo', j.sym = i.sym PROVE FALSE
      <4>1. j \in todo /\ j # i /\ j \in IntentsFor(i.sym, book[i.sym], Aim(i.sym))
        BY <1>1, <1>13, <3>1 DEF PassInv, TodoInv
      <4>2. i.reason # "OpenLeg"
        BY <1>1, <3>1, <4>1 DEF IsNext
      <4> QED BY <1>2, <2>1, <2>2, <4>1, <4>2, IntentKinds
    <3> QED BY <1>1, <1>6, <1>13, <3>1 DEF Pending
  <2>3. CASE IsOpening(i.reason)
    <3>1. Pending' \subseteq Pending
      BY <2>2, <2>3 DEF IsOpening
    <3>2. avail' - avail = -M /\ funds' = funds - M /\ unsent' = unsent /\ M <= avail
      BY <1>2, <1>5, <1>6, <1>13, <2>3
    <3>3. /\ avail' - avail <= (funds' + unsent') - (funds + unsent)
          /\ funds' + unsent' >= 0
      BY <1>2, <1>5, <1>9, <1>10, <3>2
    <3> QED BY <1>6, <1>7, <1>10, <3>1, <3>3, CoveredShrinks DEF PassInv, BudgetInv
  <2>4. CASE i.reason = "FlattenLeg"
    <3>1. M <= -Unit
      BY <1>1, <1>5, <2>1, <2>4, LegMargin
    <3>2. i.sym \notin Pending
      BY <1>13 DEF Pending
    <3>3. PICK more : more = Pending \cup {i.sym}
      OBVIOUS
    <3>4. Pending' \subseteq more
      BY <1>1, <1>6, <1>13, <3>3 DEF Pending
    <3>5. IsFiniteSet(more) /\ Cardinality(more) = n + 1
      BY <1>4, <1>8, <3>2, <3>3, FS_AddElement
    <3>6. PICK m \in Nat : m = Cardinality(Pending') /\ m <= n + 1
      BY <3>4, <3>5, FS_Subset, FS_CardinalityType
    <3>7. avail' = avail /\ funds' = funds - M /\ unsent' = unsent
      BY <1>6, <1>13, <2>4 DEF IsOpening
    <3>8. PICK um \in Int : um = Unit * m /\ um <= un + Unit
      <4>1. Unit * m \in Nat /\ Unit * m <= Unit * (n + 1)
        BY <1>8, <3>6, UnitTimes
      <4>2. Unit * (n + 1) = un + Unit
        BY <1>2, <1>8, <1>9
      <4> QED BY <4>1, <4>2
    <3>9. avail' + um <= funds' + unsent' /\ funds' + unsent' >= 0
      BY <1>2, <1>5, <1>10, <3>1, <3>7, <3>8
    <3> QED BY <3>6, <3>8, <3>9 DEF Covered
  <2>5. CASE ~IsOpening(i.reason) /\ i.reason # "FlattenLeg"
    <3>1. M <= 0
      BY <1>1, <1>5, <2>1, <2>5, LegMargin
    <3>2. avail' = avail /\ funds' = funds - M /\ unsent' = unsent
      BY <1>6, <1>13, <2>5
    <3>3. /\ avail' - avail <= (funds' + unsent') - (funds + unsent)
          /\ funds' + unsent' >= 0
      BY <1>2, <1>5, <1>10, <3>1, <3>2
    <3> QED BY <1>6, <1>7, <1>10, <2>2, <2>5, <3>3, CoveredShrinks DEF PassInv, BudgetInv
  <2> QED BY <2>3, <2>4, <2>5
<1> QED BY <1>11, <1>12, <1>13

\* What an order that failed was to free is counted as unsent, and what it was to tie up
\* stays reserved.
LEMMA FailsBudget ==
  ASSUME PassInv, BudgetInv, IsFiniteSet(Sym), NEW i \in todo, Fails(i)
  PROVE  BudgetInv'
<1>1. /\ todo' = todo \ {i} /\ UNCHANGED <<resting, book, cooling, funds>>
      /\ unsent' = unsent + Freed(i)
  BY ClearedCounts DEF Fails, given
<1>2. PICK M \in Int, fr \in Nat : M = Margin(i) /\ fr = Freed(i)
  BY ClearedCounts DEF Fails
<1>3. /\ IsOpening(i.reason) /\ ~blind' =>
           ~blind /\ M <= avail /\ avail' = avail - M /\ -M <= fr
      /\ ~IsOpening(i.reason) => UNCHANGED <<avail, blind>>
      /\ avail' \in Int
  BY <1>2, ClearedCounts DEF Fails
<1>4. funds \in Int /\ avail \in Int /\ unsent \in Nat
  BY DEF PassInv, TypeOK
<1>5. CoolingInv'
  BY <1>1 DEF BudgetInv, CoolingInv
<1>6. Pending' \subseteq Pending
  BY <1>1 DEF Pending
<1>7. funds' \in Int /\ unsent' \in Nat /\ (blind => blind')
  <2>1. IsOpening(i.reason) /\ ~blind' => ~blind
    BY <1>3
  <2>2. ~IsOpening(i.reason) => blind' = blind
    BY <1>3
  <2> QED BY <1>1, <1>2, <1>4, <2>1, <2>2
<1>8. ASSUME ~blind'
      PROVE  /\ avail' - avail <= (funds' + unsent') - (funds + unsent)
             /\ funds' + unsent' >= 0
  <2>1. funds + unsent >= 0
    BY <1>7, <1>8 DEF BudgetInv, Covered
  <2>2. avail' - avail <= fr
    BY <1>2, <1>3, <1>4, <1>8
  <2> QED BY <1>1, <1>2, <1>4, <2>1, <2>2
<1> QED BY <1>3, <1>5, <1>6, <1>7, <1>8, CoveredShrinks DEF PassInv, BudgetInv

LEMMA BudgetStep ==
  ASSUME PassInv, BudgetInv, IsFiniteSet(Sym), [Next]_vars
  PROVE  BudgetInv'
<1>1. CASE Pass
  BY <1>1, PassBudget
<1>2. ASSUME NEW i \in todo, Fractional(i) \/ Refuse(i) PROVE BudgetInv'
  <2>1. /\ todo' = todo \ {i}
        /\ UNCHANGED <<resting, book, cooling, funds, avail, blind, unsent>>
    BY <1>2 DEF Fractional, Refuse, TakeUp, given, history
  <2> QED BY <2>1, GivenUpBudget
<1>3. ASSUME NEW i \in todo, Leg(i) PROVE BudgetInv'
  BY <1>3, LegBudget
<1>4. ASSUME NEW i \in todo, Fails(i) PROVE BudgetInv'
  BY <1>4, FailsBudget
<1>5. CASE UNCHANGED vars
  BY <1>5 DEF vars, given, history, BudgetInv, CoolingInv, Covered, Pending
<1> QED BY <1>1, <1>2, <1>3, <1>4, <1>5 DEF Next

\* As long as the what-ifs answer, the openings of every pass overdraw the funds by no more
\* than what opening legs that were not sent were to free, for all books, sizings and units,
\* any finite number of instruments, every order in which the legs are taken up, and
\* whichever submissions fail.
THEOREM WithinBuyingPowerHolds ==
  ASSUME IsFiniteSet(Sym)
  PROVE  Spec => []WithinBuyingPower
<1>1. BudgetInv => WithinBuyingPower
  BY DEF WithinBuyingPower, BudgetInv, Covered
<1>2. PassInv /\ BudgetInv /\ [Next]_vars => (PassInv /\ BudgetInv)'
  BY PassStep, BudgetStep
<1> QED BY <1>1, <1>2, PassInit, BudgetInit, PTL DEF Spec

-----------------------------------------------------------------------------
(* The resting orders.  Orders is the instance of their module. *)

\* Among natural numbers there is always a least.
LEMMA LeastExists ==
  ASSUME NEW T, T \subseteq Nat, T # {}
  PROVE  \E x \in T : \A y \in T : x <= y
<1> DEFINE R == {ss \in Nat \X Nat : ss[1] < ss[2]}
<1>1. IsWellFoundedOn(R, Nat)
  BY NatLessThanWellFounded DEF OpToRel
<1> HIDE DEF R
<1>2. PICK x \in T : \A y \in T : ~(<<y, x>> \in R)
  BY <1>1, WFMin
<1>3. \A y \in T : <<y, x>> \in R \/ x <= y
  BY DEF R
<1> QED BY <1>2, <1>3

\* And it is what Min chooses.
LEMMA LeastIs ==
  ASSUME NEW T, T \subseteq Nat, T # {}
  PROVE  Orders!Min(T) \in T /\ \A y \in T : Orders!Min(T) <= y
BY LeastExists DEF Orders!Min

-----------------------------------------------------------------------------
(* The first come, first served matching of resting orders. *)

\* The rule by which the orders wanted take those there are, up to number n.
Served(taken, desired, current, n) ==
  /\ taken \in [{d \in DOMAIN desired : d < n} -> DOMAIN current \cup {0}]
  /\ \A d \in {x \in DOMAIN desired : x < n} :
       LET used  == {taken[e] : e \in {x \in DOMAIN desired : x < d}}
           found == Orders!Matching(current, used, desired[d])
       IN  taken[d] = IF found = {} THEN 0 ELSE Orders!Min(found)

\* One more order can always be served.
LEMMA ServeOneMore ==
  ASSUME NEW desired, NEW current, DOMAIN desired \subseteq Nat,
         DOMAIN current \subseteq Nat \ {0},
         NEW n \in Nat, NEW t, Served(t, desired, current, n)
  PROVE  \E u : Served(u, desired, current, n + 1)
<1> DEFINE D == {d \in DOMAIN desired : d < n}
           E == {d \in DOMAIN desired : d < n + 1}
           found == Orders!Matching(current, {t[e] : e \in D}, desired[n])
           u == [d \in E |-> IF d = n THEN IF found = {} THEN 0 ELSE Orders!Min(found)
                             ELSE t[d]]
<1>1. E = D \cup (IF n \in DOMAIN desired THEN {n} ELSE {}) /\ n \notin D
  OBVIOUS
<1>2. found \subseteq DOMAIN current
  BY DEF Orders!Matching
<1>3. found # {} => Orders!Min(found) \in DOMAIN current
  BY <1>2, LeastIs
<1>4. t \in [D -> DOMAIN current \cup {0}]
  BY DEF Served
<1>5. u \in [E -> DOMAIN current \cup {0}]
  BY <1>1, <1>3, <1>4
<1>6. ASSUME NEW d \in E
      PROVE  LET used == {u[e] : e \in {x \in DOMAIN desired : x < d}}
                 open == Orders!Matching(current, used, desired[d])
             IN  u[d] = IF open = {} THEN 0 ELSE Orders!Min(open)
  <2> DEFINE before == {x \in DOMAIN desired : x < d}
  <2>1. before \subseteq D /\ \A e \in before : u[e] = t[e]
    BY <1>1
  <2>2. {u[e] : e \in before} = {t[e] : e \in before}
    BY <2>1
  <2>3. CASE d = n
    <3>1. before = D
      BY <2>3
    <3>2. u[d] = IF found = {} THEN 0 ELSE Orders!Min(found)
      BY <2>3
    <3> HIDE DEF u
    <3> QED BY <2>2, <2>3, <3>1, <3>2
  <2>4. CASE d # n
    <3>1. d \in D /\ u[d] = t[d]
      BY <2>4, <1>1
    <3>2. LET open == Orders!Matching(current, {t[e] : e \in before}, desired[d])
          IN  t[d] = IF open = {} THEN 0 ELSE Orders!Min(open)
      BY <3>1 DEF Served
    <3> HIDE DEF u
    <3> QED BY <2>2, <3>1, <3>2
  <2> QED BY <2>3, <2>4
<1> HIDE DEF u
<1>7. Served(u, desired, current, n + 1)
  BY <1>5, <1>6, Zenon DEF Served
<1> QED BY <1>7

\* Any list can be served to the end.
LEMMA AllCanBeServed ==
  ASSUME NEW desired, NEW current, DOMAIN desired \subseteq Nat,
         DOMAIN current \subseteq Nat \ {0}
  PROVE  \A n \in Nat : \E t : Served(t, desired, current, n)
<1> DEFINE T == {n \in Nat : ~ \E t : Served(t, desired, current, n)}
<1> SUFFICES ASSUME T # {} PROVE FALSE
  OBVIOUS
<1>1. PICK n \in T : \A m \in T : n <= m
  BY LeastExists
<1>2. CASE n = 0
  <2>1. Served([d \in {} |-> 0], desired, current, 0)
    <3>1. {d \in DOMAIN desired : d < 0} = {}
      OBVIOUS
    <3> QED BY <3>1 DEF Served
  <2> QED BY <1>2, <2>1
<1>3. CASE n # 0
  <2>1. n - 1 \in Nat /\ n - 1 \notin T
    BY <1>1, <1>3
  <2>2. PICK t : Served(t, desired, current, n - 1)
    BY <2>1
  <2>3. \E u : Served(u, desired, current, (n - 1) + 1)
    BY <2>1, <2>2, ServeOneMore
  <2> QED BY <2>3
<1> QED BY <1>2, <1>3

\* What the matching serves, all orders together.
ServedAll(taken, desired, current) ==
  /\ taken \in [DOMAIN desired -> DOMAIN current \cup {0}]
  /\ \A d \in DOMAIN desired :
       LET used  == {taken[e] : e \in {x \in DOMAIN desired : x < d}}
           found == Orders!Matching(current, used, desired[d])
       IN  taken[d] = IF found = {} THEN 0 ELSE Orders!Min(found)

\* The matching is defined: there is an assignment by its rule.
LEMMA TakenServes ==
  ASSUME NEW desired, NEW current, NEW n \in Nat, DOMAIN desired \subseteq 1..n,
         DOMAIN current \subseteq Nat \ {0}
  PROVE  ServedAll(Orders!Taken(desired, current), desired, current)
<1>1. DOMAIN desired \subseteq Nat /\ n + 1 \in Nat
  OBVIOUS
<1>2. PICK t : Served(t, desired, current, n + 1)
  BY <1>1, AllCanBeServed
<1>3. {d \in DOMAIN desired : d < n + 1} = DOMAIN desired
  OBVIOUS
<1>4. ServedAll(t, desired, current)
  BY <1>2, <1>3 DEF Served, ServedAll
<1> QED BY <1>4 DEF ServedAll, Orders!Taken

\* And only one.
LEMMA ServedOnce ==
  ASSUME NEW desired, NEW current, DOMAIN desired \subseteq Nat,
         NEW t, NEW u, ServedAll(t, desired, current), ServedAll(u, desired, current)
  PROVE  t = u
<1> DEFINE T == {d \in DOMAIN desired : t[d] # u[d]}
<1>1. ASSUME T # {} PROVE FALSE
  <2>1. PICK d \in T : \A e \in T : d <= e
    BY <1>1, LeastExists
  <2> DEFINE before == {x \in DOMAIN desired : x < d}
  <2>2. \A e \in before : t[e] = u[e]
    BY <2>1
  <2>3. {t[e] : e \in before} = {u[e] : e \in before}
    BY <2>2
  <2>4. t[d] = u[d]
    BY <2>3, d \in DOMAIN desired DEF ServedAll
  <2> QED BY <2>1, <2>4
<1> QED BY <1>1 DEF ServedAll

\* A matching by the rule gives each order one that is the same, the first not taken
\* before it, and finds none only when all that are the same are taken.
LEMMA ServedWell ==
  ASSUME NEW desired, NEW current, DOMAIN desired \subseteq Nat,
         DOMAIN current \subseteq Nat \ {0},
         NEW t, ServedAll(t, desired, current)
  PROVE  \A d \in DOMAIN desired :
           /\ t[d] \in DOMAIN current \cup {0}
           /\ t[d] # 0 => Orders!SameWorkingOrder(current[t[d]], desired[d])
           /\ t[d] # 0 => \A e \in DOMAIN desired : e < d => t[e] # t[d]
           /\ \A i \in DOMAIN current :
                Orders!SameWorkingOrder(current[i], desired[d]) =>
                  \/ \E e \in DOMAIN desired : e < d /\ t[e] = i
                  \/ t[d] # 0 /\ t[d] <= i
<1> DEFINE found(d) == Orders!Matching(current,
                                       {t[e] : e \in {x \in DOMAIN desired : x < d}},
                                       desired[d])
<1>1. t \in [DOMAIN desired -> DOMAIN current \cup {0}]
  BY DEF ServedAll
<1>2. \A d \in DOMAIN desired : t[d] = IF found(d) = {} THEN 0 ELSE Orders!Min(found(d))
  BY DEF ServedAll
<1>3. \A d \in DOMAIN desired : found(d) \subseteq Nat /\ 0 \notin found(d)
  BY DEF Orders!Matching
<1>4. \A d \in DOMAIN desired :
        t[d] # 0 => t[d] \in found(d) /\ \A i \in found(d) : t[d] <= i
  BY <1>2, <1>3, LeastIs
<1>5. \A d \in DOMAIN desired : t[d] = 0 => found(d) = {}
  BY <1>2, <1>3, LeastIs
<1>6. \A d \in DOMAIN desired : \A i : i \in found(d) <=>
        /\ i \in DOMAIN current
        /\ Orders!SameWorkingOrder(current[i], desired[d])
        /\ \A e \in DOMAIN desired : e < d => t[e] # i
  BY DEF Orders!Matching
<1> HIDE DEF found
<1> QED BY <1>1, <1>4, <1>5, <1>6

\* And no two the same one.
LEMMA ServedApart ==
  ASSUME NEW desired, NEW current, DOMAIN desired \subseteq Nat,
         DOMAIN current \subseteq Nat \ {0},
         NEW t, ServedAll(t, desired, current)
  PROVE  \A d, e \in DOMAIN desired : t[d] = t[e] /\ t[d] # 0 => d = e
<1>1. \A d \in DOMAIN desired : t[d] # 0 => \A e \in DOMAIN desired : e < d => t[e] # t[d]
  BY ServedWell
<1>2. ASSUME NEW d \in DOMAIN desired, NEW e \in DOMAIN desired, t[d] = t[e], t[d] # 0
      PROVE  d = e
  <2>1. ~(d < e) /\ ~(e < d)
    BY <1>1, <1>2
  <2> QED BY <2>1
<1> QED BY <1>2

-----------------------------------------------------------------------------
(* Lists *)

\* The place of number i in the list of the numbers of D.
Rank(D, i) == Cardinality({j \in D : j <= i})

\* Numbers rank in their order.
LEMMA RankRises ==
  ASSUME NEW D, D \subseteq Nat, IsFiniteSet(D), NEW i \in D
  PROVE  /\ Rank(D, i) \in 1..Cardinality(D)
         /\ \A k \in D : i < k => Rank(D, i) < Rank(D, k)
<1> DEFINE upto(k) == {j \in D : j <= k}
<1>1. \A k \in D : IsFiniteSet(upto(k)) /\ Cardinality(upto(k)) \in Nat
                   /\ Cardinality(upto(k)) <= Cardinality(D)
  BY FS_Subset, FS_CardinalityType
<1>2. Cardinality(D) \in Nat /\ upto(i) # {}
  BY FS_CardinalityType
<1>3. Cardinality(upto(i)) # 0
  BY <1>1, <1>2, FS_EmptySet
<1>4. ASSUME NEW k \in D, i < k PROVE Cardinality(upto(i)) < Cardinality(upto(k))
  <2>1. upto(i) \in SUBSET upto(k) /\ upto(i) # upto(k)
    <3>1. \A j \in D : j <= i => j <= k
      BY <1>4
    <3>2. k \in upto(k) /\ k \notin upto(i)
      BY <1>4
    <3> QED BY <3>1, <3>2
  <2>2. /\ Cardinality(upto(i)) <= Cardinality(upto(k))
        /\ Cardinality(upto(k)) = Cardinality(upto(i)) => upto(k) = upto(i)
    BY <1>1, <2>1, FS_Subset
  <2> QED BY <1>1, <2>1, <2>2
<1>5. \A k \in D : Rank(D, k) = Cardinality(upto(k))
  BY DEF Rank
<1> HIDE DEF upto
<1> QED BY <1>1, <1>2, <1>3, <1>4, <1>5

\* Every place of the list has its number.
LEMMA RankFills ==
  ASSUME NEW D, D \subseteq Nat, IsFiniteSet(D), NEW p \in 1..Cardinality(D)
  PROVE  \E i \in D : Rank(D, i) = p
<1> DEFINE n == Cardinality(D)
           f == [i \in D |-> Rank(D, i)]
<1>1. n \in Nat
  BY FS_CardinalityType
<1>2. f \in [D -> 1..n]
  BY RankRises
<1>3. ASSUME NEW i \in D, NEW k \in D, f[i] = f[k] PROVE i = k
  <2>1. f[i] = Rank(D, i) /\ f[k] = Rank(D, k)
    OBVIOUS
  <2>2. Rank(D, i) \in 1..n /\ Rank(D, k) \in 1..n
    BY RankRises
  <2>3. (i < k => Rank(D, i) < Rank(D, k)) /\ (k < i => Rank(D, k) < Rank(D, i))
    BY RankRises
  <2>4. Rank(D, i) = Rank(D, k)
    BY <1>3, <2>1
  <2>5. Rank(D, i) \in Nat
    <3> HIDE DEF n
    <3> QED BY <1>1, <2>2
  <2>6. ~(i < k) /\ ~(k < i) /\ i \in Nat /\ k \in Nat
    BY <2>3, <2>4, <2>5
  <2> QED BY <2>6
<1>4. f \in Injection(D, 1..n)
  BY <1>2, <1>3 DEF Injection, IsInjective
<1>5. IsFiniteSet(1..n) /\ Cardinality(1..n) = n
  BY <1>1, FS_Interval
<1>6. f \in Surjection(D, 1..n)
  BY <1>4, <1>5, FS_Injection
<1> QED BY <1>6 DEF Surjection

\* The two instances of the module of finite sets count alike.
LEMMA CountsAlike == \A S : Orders!Cardinality(S) = Cardinality(S)
BY Zenon DEF Orders!Cardinality, Cardinality

\* What is listed, and where.
LEMMA ListedInOrder ==
  ASSUME NEW os, DOMAIN os \subseteq Nat, IsFiniteSet(DOMAIN os)
  PROVE  /\ Cardinality(DOMAIN os) \in Nat
         /\ Orders!InOrder(os) = [p \in 1..Cardinality(DOMAIN os) |-> Orders!InOrder(os)[p]]
         /\ \A i \in DOMAIN os : Orders!InOrder(os)[Rank(DOMAIN os, i)] = os[i]
<1> DEFINE D == DOMAIN os
           rank == [i \in D |-> Cardinality({j \in D : j <= i})]
           n == Cardinality(D)
<1>1. Orders!InOrder(os) = [p \in 1..n |-> os[CHOOSE i \in D : rank[i] = p]]
  <2> DEFINE theirs == [i \in D |-> Orders!Cardinality({j \in D : j <= i})]
  <2>1. theirs = rank
    BY CountsAlike, Zenon
  <2>2. Orders!InOrder(os) = [p \in 1..Orders!Cardinality(D) |->
                                os[CHOOSE i \in D : theirs[i] = p]]
    BY DEF Orders!InOrder
  <2>3. Orders!Cardinality(D) = n
    BY CountsAlike
  <2> HIDE DEF theirs, rank, n
  <2> QED BY <2>1, <2>2, <2>3
<1>2. n \in Nat
  BY FS_CardinalityType
<1>3. \A i \in D : rank[i] = Rank(D, i)
  BY DEF Rank
<1>4. ASSUME NEW i \in D PROVE (CHOOSE k \in D : rank[k] = Rank(D, i)) = i
  <2> DEFINE k == CHOOSE x \in D : rank[x] = Rank(D, i)
  <2>1. k \in D /\ rank[k] = Rank(D, i)
    BY <1>3
  <2>2. Rank(D, k) = Rank(D, i)
    BY <1>3, <2>1
  <2> HIDE DEF k, rank
  <2>3. ~(i < k) /\ ~(k < i)
    BY <1>2, <2>1, <2>2, RankRises
  <2>4. k = i
    BY <2>1, <2>3
  <2> QED BY <2>4 DEF k
<1>5. ASSUME NEW i \in D PROVE Orders!InOrder(os)[Rank(D, i)] = os[i]
  <2>1. Rank(D, i) \in 1..n
    BY RankRises
  <2> HIDE DEF rank, n
  <2> QED BY <1>1, <1>4, <2>1
<1>6. Orders!InOrder(os) = [p \in 1..n |-> Orders!InOrder(os)[p]]
  <2> HIDE DEF rank, n
  <2> QED BY <1>1
<1> QED BY <1>2, <1>5, <1>6

\* One list after the other.
LEMMA Appended ==
  ASSUME NEW n \in Nat, NEW a, a = [p \in 1..n |-> a[p]],
         NEW m \in Nat, NEW b, b = [p \in 1..m |-> b[p]]
  PROVE  /\ a \o b = [p \in 1..(n + m) |-> (a \o b)[p]]
         /\ DOMAIN (a \o b) = 1..(n + m)
         /\ \A p \in 1..n : (a \o b)[p] = a[p]
         /\ \A p \in 1..m : (a \o b)[n + p] = b[p]
<1> DEFINE S == {a[p] : p \in 1..n} \cup {b[p] : p \in 1..m}
<1>1. a \in Seq(S) /\ Len(a) = n
  <2>1. a \in [1..n -> S]
    OBVIOUS
  <2> QED BY <2>1
<1>2. b \in Seq(S) /\ Len(b) = m
  <2>1. b \in [1..m -> S]
    OBVIOUS
  <2> QED BY <2>1
<1> HIDE DEF S
<1>3. a \o b \in Seq(S) /\ Len(a \o b) = n + m
  BY <1>1, <1>2
<1>4. \A p \in 1..n : (a \o b)[p] = a[p]
  BY <1>1, <1>2
<1>5. \A p \in 1..m : (a \o b)[n + p] = b[p]
  BY <1>1, <1>2
<1>6. a \o b = [p \in 1..(n + m) |-> (a \o b)[p]] /\ DOMAIN (a \o b) = 1..(n + m)
  BY <1>3
<1> QED BY <1>4, <1>5, <1>6

\* The list has one place for each order wanted and no other: what was taken comes
\* first, in its order, then what was missing, in its.
LaidOut(place, t, desired, current, new, list) ==
  /\ place \in Bijection(DOMAIN desired, DOMAIN list)
  /\ \A d \in DOMAIN desired :
       list[place[d]] = IF t[d] = 0 THEN new[d] ELSE current[t[d]]
  /\ \A d, e \in DOMAIN desired :
       \/ t[d] # 0 /\ t[e] # 0 /\ t[d] < t[e]
       \/ t[d] = 0 /\ t[e] = 0 /\ d < e
       \/ t[d] # 0 /\ t[e] = 0
       => place[d] < place[e]

\* The list a diff leaves is laid out so.
LEMMA PlacesAfter ==
  ASSUME NEW n \in Nat, NEW desired, DOMAIN desired \subseteq 1..n,
         NEW m \in Nat, NEW current, DOMAIN current = 1..m,
         NEW t, ServedAll(t, desired, current),
         NEW used, used = {t[d] : d \in DOMAIN desired} \ {0},
         NEW new, DOMAIN new = {d \in DOMAIN desired : t[d] = 0},
         NEW list, list = Orders!InOrder([i \in used |-> current[i]]) \o Orders!InOrder(new)
  PROVE  /\ \E l \in Nat : DOMAIN list = 1..l /\ list = [p \in 1..l |-> list[p]]
         /\ \E place : LaidOut(place, t, desired, current, new, list)
<1> DEFINE kept == [i \in used |-> current[i]]
           N == DOMAIN new
           a == Orders!InOrder(kept)
           b == Orders!InOrder(new)
           ca == Cardinality(used)
           cb == Cardinality(N)
           place == [d \in DOMAIN desired |-> IF t[d] = 0 THEN ca + Rank(N, d)
                                              ELSE Rank(used, t[d])]
<1>1. /\ t \in [DOMAIN desired -> DOMAIN current \cup {0}]
      /\ \A d, e \in DOMAIN desired : t[d] = t[e] /\ t[d] # 0 => d = e
  <2>1. DOMAIN desired \subseteq Nat /\ DOMAIN current \subseteq Nat \ {0}
    OBVIOUS
  <2>2. t \in [DOMAIN desired -> DOMAIN current \cup {0}]
    BY DEF ServedAll
  <2>3. \A d, e \in DOMAIN desired : t[d] = t[e] /\ t[d] # 0 => d = e
    BY <2>1, ServedApart
  <2> QED BY <2>2, <2>3
<1>2. used \subseteq 1..m /\ N \subseteq 1..n /\ used \subseteq Nat /\ N \subseteq Nat
  BY <1>1
<1>3. IsFiniteSet(used) /\ IsFiniteSet(N)
  <2>0. 1 \in Int /\ m \in Int /\ n \in Int
    OBVIOUS
  <2>1. IsFiniteSet(1..m) /\ IsFiniteSet(1..n)
    BY <2>0, FS_Interval, Zenon
  <2>2. used \in SUBSET (1..m) /\ N \in SUBSET (1..n)
    BY <1>2
  <2>3. IsFiniteSet(used)
    BY <2>1, <2>2, FS_Subset
  <2>4. IsFiniteSet(N)
    BY <2>1, <2>2, FS_Subset
  <2> QED BY <2>3, <2>4
<1>4. DOMAIN kept = used /\ \A i \in used : kept[i] = current[i]
  OBVIOUS
<1> HIDE DEF kept, place
<1>5. /\ ca \in Nat /\ a = [p \in 1..ca |-> a[p]]
      /\ \A i \in used : a[Rank(used, i)] = current[i]
  <2>1. DOMAIN kept \subseteq Nat /\ IsFiniteSet(DOMAIN kept)
    BY <1>2, <1>3, <1>4
  <2>2. /\ Cardinality(DOMAIN kept) \in Nat
        /\ a = [p \in 1..Cardinality(DOMAIN kept) |-> a[p]]
        /\ \A i \in DOMAIN kept : a[Rank(DOMAIN kept, i)] = kept[i]
    BY <2>1, ListedInOrder
  <2> HIDE DEF a
  <2> QED BY <1>4, <2>2
<1>6. /\ cb \in Nat /\ b = [p \in 1..cb |-> b[p]]
      /\ \A d \in N : b[Rank(N, d)] = new[d]
  <2>1. DOMAIN new \subseteq Nat /\ IsFiniteSet(DOMAIN new)
    BY <1>2, <1>3
  <2> QED BY <2>1, ListedInOrder
<1> HIDE DEF a, b, ca, cb
<1>0. list = a \o b
  BY DEF a, b, kept
<1>7. /\ list = [p \in 1..(ca + cb) |-> list[p]]
      /\ DOMAIN list = 1..(ca + cb)
      /\ \A p \in 1..ca : list[p] = a[p]
      /\ \A p \in 1..cb : list[ca + p] = b[p]
  <2>1. /\ a \o b = [p \in 1..(ca + cb) |-> (a \o b)[p]]
        /\ DOMAIN (a \o b) = 1..(ca + cb)
        /\ \A p \in 1..ca : (a \o b)[p] = a[p]
        /\ \A p \in 1..cb : (a \o b)[ca + p] = b[p]
    <3>1. ca \in Nat /\ cb \in Nat /\ a = [p \in 1..ca |-> a[p]] /\ b = [p \in 1..cb |-> b[p]]
      BY <1>5, <1>6
    <3>2. /\ DOMAIN (a \o b) = 1..(ca + cb)
          /\ \A p \in 1..ca : (a \o b)[p] = a[p]
          /\ \A p \in 1..cb : (a \o b)[ca + p] = b[p]
      BY <3>1, Appended
    <3>3. a \o b = [p \in 1..(ca + cb) |-> (a \o b)[p]]
      BY <3>1, Appended, SMTT(30)
    <3> QED BY <3>2, <3>3
  <2> QED BY <1>0, <2>1, Zenon
<1>8. /\ \A i \in used : /\ Rank(used, i) \in 1..ca
                         /\ \A k \in used : i < k => Rank(used, i) < Rank(used, k)
      /\ \A d \in N : /\ Rank(N, d) \in 1..cb
                      /\ \A e \in N : d < e => Rank(N, d) < Rank(N, e)
  BY <1>2, <1>3, RankRises DEF ca, cb
<1>9. \A d \in DOMAIN desired : IF t[d] = 0 THEN d \in N ELSE t[d] \in used
  OBVIOUS
<1>10. \A d \in DOMAIN desired : place[d] \in DOMAIN list
  <2>1. \A r \in 1..cb : ca + r \in 1..(ca + cb)
    BY <1>5, <1>6
  <2>2. \A r \in 1..ca : r \in 1..(ca + cb)
    BY <1>5, <1>6
  <2> QED BY <1>7, <1>8, <1>9, <2>1, <2>2 DEF place
<1>11. \A d \in DOMAIN desired : list[place[d]] = IF t[d] = 0 THEN new[d] ELSE current[t[d]]
  <2>1. ASSUME NEW d \in DOMAIN desired, t[d] = 0 PROVE list[place[d]] = new[d]
    <3>1. place[d] = ca + Rank(N, d) /\ d \in N
      BY <1>9, <2>1 DEF place
    <3>2. Rank(N, d) \in 1..cb
      BY <1>8, <3>1
    <3>3. list[ca + Rank(N, d)] = b[Rank(N, d)]
      BY <1>7, <3>2
    <3>4. b[Rank(N, d)] = new[d]
      BY <1>6, <3>1
    <3> QED BY <3>1, <3>3, <3>4
  <2>2. ASSUME NEW d \in DOMAIN desired, t[d] # 0 PROVE list[place[d]] = current[t[d]]
    <3>1. place[d] = Rank(used, t[d]) /\ t[d] \in used
      BY <1>9, <2>2 DEF place
    <3>2. Rank(used, t[d]) \in 1..ca
      BY <1>8, <3>1
    <3>3. list[Rank(used, t[d])] = a[Rank(used, t[d])]
      BY <1>7, <3>2
    <3>4. a[Rank(used, t[d])] = current[t[d]]
      BY <1>5, <3>1
    <3> QED BY <3>1, <3>3, <3>4
  <2> QED BY <2>1, <2>2
<1>12. \A d, e \in DOMAIN desired :
         \/ t[d] # 0 /\ t[e] # 0 /\ t[d] < t[e]
         \/ t[d] = 0 /\ t[e] = 0 /\ d < e
         \/ t[d] # 0 /\ t[e] = 0
         => place[d] < place[e]
  <2>1. \A r \in 1..ca, q \in 1..cb : r < ca + q
    BY <1>5, <1>6
  <2>2. \A r, q \in 1..cb : r < q => ca + r < ca + q
    BY <1>5, <1>6
  <2> QED BY <1>8, <1>9, <2>1, <2>2 DEF place
<1>13. \A d, e \in DOMAIN desired : place[d] = place[e] => d = e
  <2> SUFFICES ASSUME NEW d \in DOMAIN desired, NEW e \in DOMAIN desired,
                      place[d] = place[e], d # e
               PROVE  FALSE
    OBVIOUS
  <2>1. place[d] \in Nat /\ place[e] \in Nat
    <3>1. \A p \in 1..(ca + cb) : p \in Nat
      BY <1>5, <1>6
    <3> QED BY <1>7, <1>10, <3>1
  <2>2. ~(place[d] < place[e]) /\ ~(place[e] < place[d])
    BY <2>1
  <2>3. d \in Nat /\ e \in Nat /\ t[d] \in Nat /\ t[e] \in Nat /\ (t[d] # 0 => t[d] # t[e])
    BY <1>1
  <2> QED BY <1>12, <2>2, <2>3
<1>14. ASSUME NEW p \in DOMAIN list PROVE \E d \in DOMAIN desired : place[d] = p
  <2>1. CASE p <= ca
    <3>1. p \in 1..ca
      BY <1>5, <1>6, <1>7, <2>1
    <3>2. PICK i \in used : Rank(used, i) = p
      BY <1>2, <1>3, <3>1, RankFills DEF ca
    <3>3. PICK d \in DOMAIN desired : t[d] = i /\ t[d] # 0
      BY <3>2
    <3> QED BY <3>2, <3>3 DEF place
  <2>2. CASE ~(p <= ca)
    <3>1. p - ca \in 1..cb
      BY <1>5, <1>6, <1>7, <2>2
    <3>2. PICK d \in N : Rank(N, d) = p - ca
      BY <1>2, <1>3, <3>1, RankFills DEF cb
    <3>3. d \in DOMAIN desired /\ t[d] = 0 /\ p = ca + Rank(N, d)
      BY <1>5, <1>7, <3>2
    <3> QED BY <3>3 DEF place
  <2> QED BY <2>1, <2>2
<1>15. place \in Bijection(DOMAIN desired, DOMAIN list)
  <2>1. place \in [DOMAIN desired -> DOMAIN list]
    BY <1>10 DEF place
  <2>2. place \in Injection(DOMAIN desired, DOMAIN list)
    BY <1>13, <2>1 DEF Injection, IsInjective
  <2>3. place \in Surjection(DOMAIN desired, DOMAIN list)
    BY <1>14, <2>1 DEF Surjection
  <2> QED BY <2>2, <2>3 DEF Bijection
<1>16. ca + cb \in Nat
  BY <1>5, <1>6
<1>17. LaidOut(place, t, desired, current, new, list)
  BY <1>11, <1>12, <1>15 DEF LaidOut
<1> QED BY <1>7, <1>16, <1>17

\* A second matching gives every order the place it has just been given: of two that
\* are alike the first in the list goes to the one that took it, or it was placed for.
LEMMA ServedAgain ==
  ASSUME NEW desired, DOMAIN desired \subseteq Nat,
         NEW m \in Nat, NEW current, DOMAIN current = 1..m,
         NEW t, ServedAll(t, desired, current),
         NEW new, NEW l \in Nat, NEW list, DOMAIN list = 1..l,
         \A d \in DOMAIN desired :
           t[d] = 0 => Orders!SameWorkingOrder(new[d], desired[d]),
         NEW place, LaidOut(place, t, desired, current, new, list)
  PROVE  /\ \A d \in DOMAIN desired : Orders!SameWorkingOrder(list[place[d]], desired[d])
         /\ ServedAll(place, desired, list)
<1>1. DOMAIN current \subseteq Nat \ {0} /\ DOMAIN list \subseteq Nat \ {0}
  OBVIOUS
<1>2. \A d \in DOMAIN desired :
        /\ t[d] \in Nat
        /\ t[d] # 0 => t[d] \in DOMAIN current
        /\ t[d] # 0 => Orders!SameWorkingOrder(current[t[d]], desired[d])
        /\ \A i \in DOMAIN current :
             Orders!SameWorkingOrder(current[i], desired[d]) =>
               \/ \E e \in DOMAIN desired : e < d /\ t[e] = i
               \/ t[d] # 0 /\ t[d] <= i
  BY <1>1, ServedWell
<1>3. \A d, e \in DOMAIN desired : t[d] = t[e] /\ t[d] # 0 => d = e
  BY <1>1, ServedApart
<1>4. /\ place \in [DOMAIN desired -> DOMAIN list]
      /\ \A d, e \in DOMAIN desired : place[d] = place[e] => d = e
      /\ \A q \in DOMAIN list : \E d \in DOMAIN desired : place[d] = q
  BY DEF LaidOut, Bijection, Injection, IsInjective, Surjection
<1>5. \A d \in DOMAIN desired : Orders!SameWorkingOrder(list[place[d]], desired[d])
  BY <1>2 DEF LaidOut
<1>6. ASSUME NEW d \in DOMAIN desired
      PROVE  LET used  == {place[e] : e \in {x \in DOMAIN desired : x < d}}
                 found == Orders!Matching(list, used, desired[d])
             IN  place[d] = IF found = {} THEN 0 ELSE Orders!Min(found)
  <2> DEFINE used  == {place[e] : e \in {x \in DOMAIN desired : x < d}}
             found == Orders!Matching(list, used, desired[d])
  <2>1. place[d] \in found
    <3>1. place[d] \in DOMAIN list /\ place[d] \notin used
      BY <1>4
    <3> QED BY <1>5, <3>1 DEF Orders!Matching
  <2>2. ASSUME NEW q \in found PROVE place[d] <= q
    <3>1. /\ q \in DOMAIN list /\ q \notin used
          /\ Orders!SameWorkingOrder(list[q], desired[d])
      BY DEF Orders!Matching
    <3>2. PICK e \in DOMAIN desired : place[e] = q
      BY <1>4, <3>1
    <3>3. ~(e < d) /\ e \in Nat /\ d \in Nat /\ place[d] \in Nat
      BY <1>1, <1>4, <3>1, <3>2
    <3>4. CASE e = d
      BY <3>2, <3>3, <3>4
    <3>5. CASE d < e /\ t[e] = 0
      <4>1. place[d] < place[e]
        BY <3>5 DEF LaidOut
      <4> QED BY <1>1, <3>1, <3>2, <3>3, <4>1
    <3>6. CASE d < e /\ t[e] # 0
      <4>1. Orders!SameWorkingOrder(current[t[e]], desired[d])
        BY <3>1, <3>2, <3>6 DEF LaidOut
      <4>2. ~ \E x \in DOMAIN desired : x < d /\ t[x] = t[e]
        <5>1. ASSUME NEW x \in DOMAIN desired, x < d, t[x] = t[e] PROVE FALSE
          <6>1. x = e
            BY <1>3, <3>6, <5>1
          <6> QED BY <3>3, <5>1, <6>1
        <5> QED BY <5>1
      <4>3. t[d] # 0 /\ t[d] <= t[e]
        BY <1>2, <3>6, <4>1, <4>2
      <4>4. t[d] # t[e]
        BY <1>3, <3>3, <3>6, <4>3
      <4>5. t[d] < t[e]
        BY <1>2, <4>3, <4>4
      <4>6. place[d] < place[e]
        BY <3>6, <4>3, <4>5 DEF LaidOut
      <4> QED BY <1>1, <3>1, <3>2, <3>3, <4>6
    <3> QED BY <3>3, <3>4, <3>5, <3>6
  <2>3. found \subseteq Nat
    BY <1>1 DEF Orders!Matching
  <2> HIDE DEF used, found
  <2>4. found # {} /\ Orders!Min(found) \in found /\ Orders!Min(found) <= place[d]
    BY <2>1, <2>3, LeastIs
  <2>5. Orders!Min(found) = place[d]
    <3>1. PICK least : least = Orders!Min(found)
      OBVIOUS
    <3>2. least \in Nat /\ place[d] \in Nat /\ place[d] <= least /\ least <= place[d]
      BY <2>1, <2>2, <2>3, <2>4, <3>1
    <3> QED BY <3>1, <3>2
  <2>6. place[d] = IF found = {} THEN 0 ELSE Orders!Min(found)
    BY <2>4, <2>5
  <2> QED BY <2>6 DEF used, found
<1>7. ServedAll(place, desired, list)
  BY <1>4, <1>6 DEF ServedAll
<1> QED BY <1>5, <1>7

-----------------------------------------------------------------------------
(* The orders wanted *)

\* An order as captured, wanted or live.
OrderType == [sym : OrderSym, side : {"BUY", "SELL"}, qty : Nat, kind : Orders!Kind,
              limit : Nat, aux : Nat, isEntry : BOOLEAN]

SizingType == [clientBalance : Nat, masterBalance : Nat, multiplier : Nat,
               forceMinOne : BOOLEAN]

OrdersTyped ==
  /\ masterBook \in [OrderSym -> Int] /\ client \in [OrderSym -> Int]
  /\ orders \in Seq(RestingOrders)
  /\ working \in Seq(OrderType) /\ live \in Seq(OrderType)
  /\ sizing \in SizingType /\ onlyLong \in BOOLEAN /\ mirrored \in BOOLEAN

\* What the broker reads back is the order placed, within tolerance.
LEMMA ReadBackIsSame ==
  ASSUME NEW o \in OrderType, NEW echo \in BOOLEAN
  PROVE  LET r == Orders!ReadBack(o, echo)
         IN  /\ r \in OrderType /\ Orders!SameWorkingOrder(r, o)
             /\ r.sym = o.sym /\ r.side = o.side /\ r.qty = o.qty
<1> DEFINE r == Orders!ReadBack(o, echo)
<1>1. /\ o.sym \in OrderSym /\ o.side \in {"BUY", "SELL"} /\ o.qty \in Nat
      /\ o.kind \in Orders!Kind /\ o.limit \in Nat /\ o.aux \in Nat /\ o.isEntry \in BOOLEAN
  BY DEF OrderType
<1>2. OrderUnit \in Nat
  BY OrdersAssumption DEF Orders!WorkingAssumption
<1>3. r \in OrderType
  BY <1>1 DEF OrderType, Orders!ReadBack
<1>4. /\ r.sym = o.sym /\ r.side = o.side /\ r.qty = o.qty /\ r.kind = o.kind
      /\ r.aux = o.aux /\ (o.kind # "STP" => r.limit = o.limit)
  BY DEF OrderType, Orders!ReadBack
<1> HIDE DEF r
<1>5. Orders!RelevantPrice(r) = Orders!RelevantPrice(o) /\ Orders!RelevantPrice(o) \in Nat
  BY <1>1, <1>4 DEF Orders!RelevantPrice
<1>6. Orders!Abs(r.qty - o.qty) = 0
      /\ Orders!Abs(Orders!RelevantPrice(r) - Orders!RelevantPrice(o)) = 0
  BY <1>1, <1>4, <1>5 DEF Orders!Abs
<1>7. Orders!SameWorkingOrder(r, o)
  BY <1>2, <1>4, <1>6 DEF Orders!SameWorkingOrder
<1> QED BY <1>3, <1>4, <1>7 DEF r

\* A quantity wanted is a number.
LEMMA DesiredQtyInt ==
  ASSUME OrdersTyped, NEW o \in OrderType, Orders!RatioKnown(sizing)
  PROVE  Orders!DesiredQty(o) \in Int
<1>1. OrderUnit \in Nat /\ OrderUnit > 0
  BY OrdersAssumption DEF Orders!WorkingAssumption
<1>2. /\ o.qty \in Nat /\ o.sym \in OrderSym /\ o.side \in {"BUY", "SELL"}
      /\ o.isEntry \in BOOLEAN
  BY DEF OrderType
<1>3. /\ sizing.clientBalance \in Nat /\ sizing.multiplier \in Nat
      /\ sizing.masterBalance \in Nat /\ sizing.masterBalance > 0
      /\ sizing.forceMinOne \in BOOLEAN
  BY DEF OrdersTyped, SizingType, Orders!RatioKnown
<1>4. client[o.sym] \in Int
  BY <1>2 DEF OrdersTyped
<1>5. PICK num : num = o.qty * sizing.clientBalance * sizing.multiplier
  OBVIOUS
<1>6. PICK den : den = 10 * sizing.masterBalance * OrderUnit
  OBVIOUS
<1>7. num \in Int /\ den \in Nat /\ den > 0
  BY <1>1, <1>2, <1>3, <1>5, <1>6
<1>8. PICK scaled : scaled = Orders!RoundQty(num, den)
  OBVIOUS
<1>9. scaled \in Int
  BY <1>7, <1>8 DEF Orders!RoundQty, Orders!Signum, Orders!Abs
<1>10. PICK qty : qty = OrderUnit * (IF scaled = 0 /\ sizing.forceMinOne THEN 1 ELSE scaled)
  OBVIOUS
<1>11. qty \in Int
  BY <1>1, <1>9, <1>10
<1>12. Orders!DesiredQty(o) =
         IF ~onlyLong \/ o.side = "BUY" THEN qty
         ELSE IF o.isEntry \/ client[o.sym] <= 0 THEN 0
         ELSE IF qty <= client[o.sym] THEN qty ELSE client[o.sym]
  BY <1>5, <1>6, <1>8, <1>10 DEF Orders!DesiredQty
<1> QED BY <1>2, <1>4, <1>11, <1>12

\* The orders wanted are orders of the master's, resized.
LEMMA DesiredTyped ==
  ASSUME OrdersTyped
  PROVE  LET desired == Orders!DesiredWorkingOrders
         IN  /\ Len(working) \in Nat /\ DOMAIN desired \subseteq 1..Len(working)
             /\ \A d \in DOMAIN desired :
                  /\ desired[d] \in OrderType
                  /\ desired[d].sym = working[d].sym /\ desired[d].side = working[d].side
<1> DEFINE desired == Orders!DesiredWorkingOrders
<1>1. Len(working) \in Nat /\ DOMAIN working = 1..Len(working)
      /\ \A d \in DOMAIN working : working[d] \in OrderType
  BY DEF OrdersTyped
<1>2. desired = [i \in {j \in DOMAIN working : Orders!RatioKnown(sizing)
                                               /\ Orders!DesiredQty(working[j]) > 0} |->
                   [working[i] EXCEPT !.qty = Orders!DesiredQty(working[i])]]
  BY DEF Orders!DesiredWorkingOrders
<1> HIDE DEF desired
<1>3. ASSUME NEW d \in DOMAIN desired
      PROVE  /\ desired[d] \in OrderType
             /\ desired[d].sym = working[d].sym /\ desired[d].side = working[d].side
  <2>1. PICK q : q = Orders!DesiredQty(working[d])
    OBVIOUS
  <2>2. /\ d \in DOMAIN working /\ Orders!RatioKnown(sizing) /\ q > 0
        /\ desired[d] = [working[d] EXCEPT !.qty = q]
    BY <1>2, <2>1
  <2>3. PICK o \in OrderType : o = working[d]
    BY <1>1, <2>2
  <2>4. q \in Nat
    BY <2>1, <2>2, <2>3, DesiredQtyInt
  <2>5. PICK r : r = [o EXCEPT !.qty = q]
    OBVIOUS
  <2>6. r \in OrderType /\ r.sym = o.sym /\ r.side = o.side
    BY <2>4, <2>5 DEF OrderType
  <2> QED BY <2>2, <2>3, <2>4, <2>5, <2>6
<1>4. DOMAIN desired \subseteq 1..Len(working)
  BY <1>1, <1>2
<1> QED BY <1>1, <1>3, <1>4 DEF desired

-----------------------------------------------------------------------------
(* What mirroring makes of the client's orders *)

\* The two instances of the module of functions agree.
LEMMA BijectionsAlike == \A S, T : Orders!Bijection(S, T) = Bijection(S, T)
BY DEF Orders!Bijection, Orders!Injection, Orders!IsInjective, Orders!Surjection,
       Bijection, Injection, IsInjective, Surjection

\* Each order wanted has a live one that is the same.
Fulfils(f, desired, list) ==
  /\ f \in Bijection(DOMAIN desired, DOMAIN list)
  /\ \A d \in DOMAIN desired : Orders!SameWorkingOrder(list[f[d]], desired[d])

\* A list in another order fulfils what it did.
LEMMA ListedFulfils ==
  ASSUME NEW desired, NEW l \in Nat, NEW list \in [1..l -> OrderType],
         NEW f, Fulfils(f, desired, list), NEW other \in Orders!Listed(list)
  PROVE  /\ other \in [1..l -> OrderType]
         /\ \E g : Fulfils(g, desired, other)
         /\ ~AnyOrder => other = list
<1>1. DOMAIN list = 1..l
  OBVIOUS
<1>2. CASE ~AnyOrder
  BY <1>2 DEF Orders!Listed
<1>3. CASE AnyOrder
  <2>1. PICK h \in Bijection(1..l, 1..l) : other = [i \in 1..l |-> list[h[i]]]
    BY <1>1, <1>3, BijectionsAlike DEF Orders!Listed
  <2>2. /\ h \in [1..l -> 1..l]
        /\ \A i, j \in 1..l : h[i] = h[j] => i = j
        /\ \A q \in 1..l : \E i \in 1..l : h[i] = q
    BY <2>1 DEF Bijection, Injection, IsInjective, Surjection
  <2>3. /\ f \in [DOMAIN desired -> 1..l]
        /\ \A d, e \in DOMAIN desired : f[d] = f[e] => d = e
        /\ \A q \in 1..l : \E d \in DOMAIN desired : f[d] = q
    BY <1>1 DEF Fulfils, Bijection, Injection, IsInjective, Surjection
  <2> DEFINE g == [d \in DOMAIN desired |-> CHOOSE i \in 1..l : h[i] = f[d]]
  <2>4. \A d \in DOMAIN desired : g[d] \in 1..l /\ h[g[d]] = f[d]
    BY <2>2, <2>3
  <2>5. g \in [DOMAIN desired -> 1..l]
    BY <2>4
  <2> HIDE DEF g
  <2>6. \A d, e \in DOMAIN desired : g[d] = g[e] => d = e
    BY <2>3, <2>4
  <2>7. ASSUME NEW q \in 1..l PROVE \E d \in DOMAIN desired : g[d] = q
    <3>1. h[q] \in 1..l
      BY <2>2
    <3>2. PICK d \in DOMAIN desired : f[d] = h[q]
      BY <2>3, <3>1
    <3>3. g[d] = q
      BY <2>2, <2>4, <3>2
    <3> QED BY <3>3
  <2>8. DOMAIN other = 1..l /\ other \in [1..l -> OrderType]
    BY <2>1, <2>2
  <2>9. g \in Bijection(DOMAIN desired, DOMAIN other)
    BY <2>5, <2>6, <2>7, <2>8 DEF Bijection, Injection, IsInjective, Surjection
  <2>10. \A d \in DOMAIN desired : other[g[d]] = list[f[d]]
    BY <2>1, <2>4
  <2>11. Fulfils(g, desired, other)
    BY <2>9, <2>10 DEF Fulfils
  <2> QED BY <1>3, <2>8, <2>11
<1> QED BY <1>2, <1>3

\* The client's orders after mirroring are those wanted, each once, and in the order of
\* the list a second matching takes them as they are.
LEMMA MirrorMakes ==
  ASSUME OrdersTyped, Orders!Mirror
  PROVE  LET desired == Orders!DesiredWorkingOrders
         IN  /\ live' \in Seq(OrderType)
             /\ \E f : Fulfils(f, desired, live')
             /\ ~AnyOrder => \E place : /\ place \in Bijection(DOMAIN desired, DOMAIN live')
                                        /\ ServedAll(place, desired, live')
<1> DEFINE desired == Orders!DesiredWorkingOrders
           t == Orders!Taken(desired, live)
           used == {t[d] : d \in DOMAIN desired} \ {0}
           toPlace == {d \in DOMAIN desired : t[d] = 0}
<1>1. PICK echo \in [toPlace -> BOOLEAN] :
        live' \in Orders!Listed(
          Orders!InOrder([i \in used |-> live[i]])
            \o Orders!InOrder([d \in toPlace |-> Orders!ReadBack(desired[d], echo[d])]))
  BY DEF Orders!Mirror, Orders!DiffWorkingOrders
<1> DEFINE new == [d \in toPlace |-> Orders!ReadBack(desired[d], echo[d])]
           list == Orders!InOrder([i \in used |-> live[i]]) \o Orders!InOrder(new)
<1>2. /\ Len(working) \in Nat /\ DOMAIN desired \subseteq 1..Len(working)
      /\ \A d \in DOMAIN desired : desired[d] \in OrderType
  BY DesiredTyped
<1>3. /\ Len(live) \in Nat /\ DOMAIN live = 1..Len(live)
      /\ \A i \in DOMAIN live : live[i] \in OrderType
  BY DEF OrdersTyped
<1> HIDE DEF desired
<1>4. DOMAIN live \subseteq Nat \ {0}
  BY <1>3
<1>5. ServedAll(t, desired, live)
  BY <1>2, <1>4, TakenServes
<1>6. DOMAIN new = toPlace
  OBVIOUS
<1>7. \A d \in toPlace :
        new[d] \in OrderType /\ Orders!SameWorkingOrder(new[d], desired[d])
  BY <1>1, <1>2, ReadBackIsSame
<1> HIDE DEF t, new
<1>8. /\ \E l \in Nat : DOMAIN list = 1..l /\ list = [p \in 1..l |-> list[p]]
      /\ \E place : LaidOut(place, t, desired, live, new, list)
  BY <1>2, <1>3, <1>5, <1>6, PlacesAfter
<1>9. PICK l \in Nat : DOMAIN list = 1..l /\ list = [p \in 1..l |-> list[p]]
  BY <1>8
<1>10. PICK place : LaidOut(place, t, desired, live, new, list)
  BY <1>8
<1> HIDE DEF list
<1>11. DOMAIN desired \subseteq Nat
  BY <1>2
<1>12. /\ \A d \in DOMAIN desired : Orders!SameWorkingOrder(list[place[d]], desired[d])
       /\ ServedAll(place, desired, list)
  BY <1>3, <1>5, <1>7, <1>9, <1>10, <1>11, ServedAgain
<1>13. \A d \in DOMAIN desired : t[d] # 0 => t[d] \in DOMAIN live
  BY <1>5 DEF ServedAll
<1>14. \A d \in DOMAIN desired :
         list[place[d]] = IF t[d] = 0 THEN new[d] ELSE live[t[d]]
  BY <1>10 DEF LaidOut
<1>15. place \in Bijection(DOMAIN desired, DOMAIN list)
  BY <1>10 DEF LaidOut
<1>16. list \in [1..l -> OrderType]
  <2>1. \A p \in DOMAIN list : \E d \in DOMAIN desired : place[d] = p
    BY <1>15 DEF Bijection, Surjection
  <2>2. \A d \in DOMAIN desired : list[place[d]] \in OrderType
    BY <1>3, <1>7, <1>13, <1>14
  <2> QED BY <1>9, <2>1, <2>2
<1>17. Fulfils(place, desired, list)
  BY <1>7, <1>12, <1>13, <1>14, <1>15 DEF Fulfils
<1>18. live' \in Orders!Listed(list)
  BY <1>1 DEF list, new
<1>19. /\ live' \in [1..l -> OrderType]
       /\ \E g : Fulfils(g, desired, live')
       /\ ~AnyOrder => live' = list
  BY <1>16, <1>17, <1>18, ListedFulfils
<1>20. live' \in Seq(OrderType)
  BY <1>19
<1> QED BY <1>12, <1>15, <1>19, <1>20 DEF desired

-----------------------------------------------------------------------------
(* The invariant *)

\* The book just mirrored is settled, order for order.
OrdersInv ==
  /\ OrdersTyped
  /\ Orders!OneEach
  /\ ~AnyOrder => Orders!Settles

\* Taking one order off a list leaves a list.
LEMMA RemoveAtTyped ==
  ASSUME NEW T, NEW s \in Seq(T), NEW i \in DOMAIN s
  PROVE  Orders!RemoveAt(s, i) \in Seq(T)
<1> DEFINE n == Len(s)
           a == SubSeq(s, 1, i - 1)
           b == SubSeq(s, i + 1, n)
<1>1. n \in Nat /\ i \in 1..n /\ \A k \in 1..n : s[k] \in T
  OBVIOUS
<1>2. a \in Seq(T)
  <2>1. 1 \in Int /\ i - 1 \in Int /\ \A k \in 1..(i - 1) : s[k] \in T
    BY <1>1
  <2> QED BY <2>1, SubSeqProperties
<1>3. b \in Seq(T)
  <2>1. i + 1 \in Int /\ n \in Int /\ \A k \in (i + 1)..n : s[k] \in T
    BY <1>1
  <2> QED BY <2>1, SubSeqProperties
<1>4. a \o b \in Seq(T)
  BY <1>2, <1>3, ConcatProperties
<1> QED BY <1>4 DEF Orders!RemoveAt

\* The orders wanted depend on the capture, the sizing and the client's book.
LEMMA DesiredStays ==
  ASSUME UNCHANGED <<working, client, sizing, onlyLong>>
  PROVE  Orders!DesiredWorkingOrders' = Orders!DesiredWorkingOrders
BY DEF Orders!DesiredWorkingOrders, Orders!DesiredQty, Orders!RatioKnown

\* A book just mirrored stays so until something it was made of changes.
LEMMA MirroredStays ==
  ASSUME OrdersInv,
         mirrored' => mirrored /\ UNCHANGED <<working, client, live, sizing, onlyLong>>
  PROVE  Orders!OneEach' /\ (~AnyOrder => Orders!Settles')
<1>1. CASE ~mirrored'
  BY <1>1 DEF Orders!OneEach, Orders!Settles
<1>2. CASE mirrored'
  <2>1. Orders!DesiredWorkingOrders' = Orders!DesiredWorkingOrders /\ live' = live /\ mirrored
    BY <1>2, DesiredStays
  <2>2. Orders!OneEach'
    BY <2>1 DEF OrdersInv, Orders!OneEach
  <2>3. ~AnyOrder => Orders!Settles'
    BY <2>1 DEF OrdersInv, Orders!Settles
  <2> QED BY <2>2, <2>3
<1> QED BY <1>1, <1>2

\* A matching that gives every live order to one wanted leaves nothing to do.
LEMMA ServedSettles ==
  ASSUME NEW n \in Nat, NEW desired, DOMAIN desired \subseteq 1..n,
         NEW current, DOMAIN current \subseteq Nat \ {0},
         NEW place \in Bijection(DOMAIN desired, DOMAIN current),
         ServedAll(place, desired, current)
  PROVE  LET diff == Orders!DiffWorkingOrders(desired, current)
         IN  diff.toPlace = {} /\ diff.used = DOMAIN current
<1> DEFINE t == Orders!Taken(desired, current)
<1>1. ServedAll(t, desired, current) /\ DOMAIN desired \subseteq Nat
  BY TakenServes
<1>2. t = place
  BY <1>1, ServedOnce
<1> HIDE DEF t
<1>3. /\ \A d \in DOMAIN desired : place[d] \in DOMAIN current
      /\ \A q \in DOMAIN current : \E d \in DOMAIN desired : place[d] = q
  BY DEF Bijection, Injection, Surjection
<1>4. {d \in DOMAIN desired : t[d] = 0} = {}
  BY <1>2, <1>3
<1>5. {t[d] : d \in DOMAIN desired} \ {0} = DOMAIN current
  BY <1>2, <1>3
<1> QED BY <1>4, <1>5 DEF t, Orders!DiffWorkingOrders

\* What the master may place.
LEMMA RestingTyped ==
  \A o \in RestingOrders :
    /\ o.sym \in OrderSym /\ o.side \in {"BUY", "SELL"} /\ o.qty \in Nat
    /\ o.kind \in Orders!Kind /\ o.limit \in Nat /\ o.aux \in Nat
<1>1. RestingOrders \subseteq [sym : OrderSym, side : {"BUY", "SELL"}, qty : Nat,
                              kind : Orders!Kind, limit : Nat, aux : Nat]
  BY OrdersAssumption DEF Orders!WorkingAssumption, Orders!Side
<1> QED BY <1>1

\* The master places an order.
LEMMA PlacesKeep ==
  ASSUME OrdersInv, NEW o \in RestingOrders, Orders!Places(o)
  PROVE  OrdersInv'
<1>1. /\ orders' = Append(orders, o)
      /\ UNCHANGED <<masterBook, working, client, live, fills, sizing, onlyLong, mirrored>>
  BY DEF Orders!Places, Orders!account, Orders!mode
<1>2. OrdersTyped'
  BY <1>1 DEF OrdersInv, OrdersTyped
<1>3. Orders!OneEach' /\ (~AnyOrder => Orders!Settles')
  BY <1>1, MirroredStays
<1> QED BY <1>2, <1>3 DEF OrdersInv

\* One of the master's is withdrawn or fills.
LEMMA LeavesKeep ==
  ASSUME OrdersInv, NEW i \in DOMAIN orders, Orders!Leaves(i)
  PROVE  OrdersInv'
<1>1. /\ orders' = Orders!RemoveAt(orders, i)
      /\ \/ UNCHANGED masterBook
         \/ masterBook' = [masterBook EXCEPT ![orders[i].sym] =
                             @ + Orders!Signed(orders[i].side, orders[i].qty)]
      /\ UNCHANGED <<working, client, live, fills, sizing, onlyLong, mirrored>>
  BY DEF Orders!Leaves, Orders!account, Orders!mode
<1>2. orders \in Seq(RestingOrders) /\ orders[i] \in RestingOrders
  BY DEF OrdersInv, OrdersTyped
<1>3. orders' \in Seq(RestingOrders)
  BY <1>1, <1>2, RemoveAtTyped
<1>4. masterBook' \in [OrderSym -> Int]
  <2>1. masterBook \in [OrderSym -> Int]
    BY DEF OrdersInv, OrdersTyped
  <2>2. Orders!Signed(orders[i].side, orders[i].qty) \in Int
    BY <1>2, RestingTyped DEF Orders!Signed
  <2> QED BY <1>1, <2>1, <2>2
<1>5. OrdersTyped'
  BY <1>1, <1>3, <1>4 DEF OrdersInv, OrdersTyped
<1>6. Orders!OneEach' /\ (~AnyOrder => Orders!Settles')
  BY <1>1, MirroredStays
<1> QED BY <1>5, <1>6 DEF OrdersInv

\* The orders captured are the master's, tagged.
LEMMA CaptureKeeps ==
  ASSUME OrdersInv, Orders!Capture
  PROVE  OrdersInv'
<1>1. /\ working' = Orders!ReadWorkingOrders(orders, masterBook)
      /\ mirrored' = (mirrored /\ working' = working)
      /\ UNCHANGED <<masterBook, orders, client, live, fills, sizing, onlyLong>>
  BY DEF Orders!Capture, Orders!master, Orders!account, Orders!mode
<1>2. /\ orders \in Seq(RestingOrders) /\ Len(orders) \in Nat /\ DOMAIN orders = 1..Len(orders)
      /\ \A i \in 1..Len(orders) : orders[i] \in RestingOrders
  BY DEF OrdersInv, OrdersTyped
<1>3. /\ DOMAIN working' = 1..Len(orders)
      /\ working' = [i \in 1..Len(orders) |-> working'[i]]
      /\ \A i \in 1..Len(orders) :
           /\ working'[i] \in OrderType
           /\ working'[i].sym = orders[i].sym /\ working'[i].side = orders[i].side
  <2>1. working' = [i \in 1..Len(orders) |->
          [sym |-> orders[i].sym, side |-> orders[i].side, qty |-> orders[i].qty,
           kind |-> orders[i].kind, limit |-> orders[i].limit, aux |-> orders[i].aux,
           isEntry |-> Orders!Signum(masterBook[orders[i].sym])
                         \in {0, Orders!Signum(Orders!Signed(orders[i].side, 1))}]]
    BY <1>1, <1>2 DEF Orders!ReadWorkingOrders
  <2>2. ASSUME NEW i \in 1..Len(orders)
        PROVE  /\ working'[i] \in OrderType
               /\ working'[i].sym = orders[i].sym /\ working'[i].side = orders[i].side
    <3> DEFINE entry == Orders!Signum(masterBook[orders[i].sym])
                          \in {0, Orders!Signum(Orders!Signed(orders[i].side, 1))}
    <3>1. entry \in BOOLEAN
      OBVIOUS
    <3>2. working'[i] = [sym |-> orders[i].sym, side |-> orders[i].side, qty |-> orders[i].qty,
                         kind |-> orders[i].kind, limit |-> orders[i].limit,
                         aux |-> orders[i].aux, isEntry |-> entry]
      BY <2>1
    <3> HIDE DEF entry
    <3>3. orders[i] \in RestingOrders
      BY <1>2
    <3> QED BY <3>1, <3>2, <3>3, RestingTyped DEF OrderType
  <2> QED BY <2>1, <2>2
<1>4. working' \in Seq(OrderType)
  <2>1. working' \in [1..Len(orders) -> OrderType]
    BY <1>3
  <2> QED BY <1>2, <2>1
<1>5. mirrored' \in BOOLEAN
  BY <1>1
<1>6. OrdersTyped'
  BY <1>1, <1>4, <1>5 DEF OrdersInv, OrdersTyped
<1>7. Orders!OneEach' /\ (~AnyOrder => Orders!Settles')
  <2>1. mirrored' => mirrored /\ working' = working
    BY <1>1
  <2> QED BY <1>1, <2>1, MirroredStays
<1> QED BY <1>6, <1>7 DEF OrdersInv

\* The sizing changes.
LEMMA WobbleKeeps ==
  ASSUME OrdersInv, NEW p \in Sizings, Orders!Wobble(p)
  PROVE  OrdersInv'
<1>1. /\ sizing' = p /\ mirrored' = FALSE
      /\ UNCHANGED <<masterBook, orders, working, client, live, fills, onlyLong>>
  BY DEF Orders!Wobble, Orders!master, Orders!account
<1>2. p \in SizingType
  BY OrdersAssumption DEF Orders!WorkingAssumption, SizingType
<1>3. OrdersTyped'
  BY <1>1, <1>2 DEF OrdersInv, OrdersTyped
<1>4. Orders!OneEach' /\ (~AnyOrder => Orders!Settles')
  BY <1>1, MirroredStays
<1> QED BY <1>3, <1>4 DEF OrdersInv

\* The client's orders are made those wanted.
LEMMA MirrorKeeps ==
  ASSUME OrdersInv, Orders!Mirror
  PROVE  OrdersInv'
<1> DEFINE desired == Orders!DesiredWorkingOrders
<1>1. /\ mirrored' = TRUE
      /\ UNCHANGED <<masterBook, orders, working, client, fills, sizing, onlyLong>>
  BY DEF Orders!Mirror, Orders!master, Orders!mode
<1>2. OrdersTyped
  BY DEF OrdersInv
<1>3. /\ live' \in Seq(OrderType)
      /\ \E f : Fulfils(f, desired, live')
      /\ ~AnyOrder => \E place : /\ place \in Bijection(DOMAIN desired, DOMAIN live')
                                 /\ ServedAll(place, desired, live')
  BY <1>2, MirrorMakes
<1>4. /\ Len(working) \in Nat /\ DOMAIN desired \subseteq 1..Len(working)
      /\ \A d \in DOMAIN desired :
           /\ desired[d] \in OrderType
           /\ desired[d].sym = working[d].sym /\ desired[d].side = working[d].side
  BY <1>2, DesiredTyped
<1> HIDE DEF desired
<1>5. PICK f : Fulfils(f, desired, live')
  BY <1>3
<1>6. Orders!DesiredWorkingOrders' = desired
  BY <1>1, DesiredStays DEF desired
<1>7. OrdersTyped'
  BY <1>1, <1>2, <1>3 DEF OrdersTyped
<1>8. Orders!OneEach'
  <2>1. \E g \in Bijection(DOMAIN desired, DOMAIN live') :
          \A d \in DOMAIN desired : Orders!SameWorkingOrder(live'[g[d]], desired[d])
    BY <1>5 DEF Fulfils
  <2> QED BY <1>6, <2>1, BijectionsAlike DEF Orders!OneEach
<1>9. ~AnyOrder => Orders!Settles'
  <2> SUFFICES ASSUME ~AnyOrder PROVE Orders!Settles'
    OBVIOUS
  <2>1. PICK place \in Bijection(DOMAIN desired, DOMAIN live') :
          ServedAll(place, desired, live')
    BY <1>3
  <2>2. DOMAIN live' \subseteq Nat \ {0}
    BY <1>3
  <2>3. LET diff == Orders!DiffWorkingOrders(desired, live')
        IN  diff.toPlace = {} /\ diff.used = DOMAIN live'
    BY <1>4, <2>1, <2>2, ServedSettles
  <2> QED BY <1>6, <2>3 DEF Orders!Settles
<1> QED BY <1>7, <1>8, <1>9 DEF OrdersInv

\* One of the client's orders fills.
LEMMA FillsKeep ==
  ASSUME OrdersInv, NEW i \in DOMAIN live, Orders!Fills(i)
  PROVE  OrdersInv'
<1>1. /\ live' = Orders!RemoveAt(live, i)
      /\ client' = [client EXCEPT ![live[i].sym] =
                      @ + Orders!Signed(live[i].side, live[i].qty)]
      /\ mirrored' = FALSE
      /\ UNCHANGED <<masterBook, orders, working, sizing, onlyLong>>
  BY DEF Orders!Fills, Orders!master, Orders!mode
<1>2. /\ live \in Seq(OrderType) /\ live[i] \in OrderType /\ DOMAIN live = 1..Len(live)
      /\ client \in [OrderSym -> Int]
  BY DEF OrdersInv, OrdersTyped
<1>3. live' \in Seq(OrderType)
  BY <1>1, <1>2, RemoveAtTyped
<1>4. /\ live[i].sym \in OrderSym /\ live[i].side \in {"BUY", "SELL"} /\ live[i].qty \in Nat
      /\ Orders!Signed(live[i].side, live[i].qty) =
           IF live[i].side = "BUY" THEN live[i].qty ELSE -live[i].qty
  BY <1>2 DEF OrderType, Orders!Signed
<1>5. client' \in [OrderSym -> Int]
  BY <1>1, <1>2, <1>4
<1>6. OrdersTyped'
  BY <1>1, <1>3, <1>5 DEF OrdersInv, OrdersTyped
<1>7. Orders!OneEach' /\ (~AnyOrder => Orders!Settles')
  BY <1>1, MirroredStays
<1> QED BY <1>6, <1>7 DEF OrdersInv

\* Every step keeps the invariant.
LEMMA OrdersNextKeeps ==
  ASSUME OrdersInv, Orders!Next \/ UNCHANGED ordersVars
  PROVE  OrdersInv'
<1>1. ASSUME UNCHANGED ordersVars PROVE OrdersInv'
  <2>1. UNCHANGED <<masterBook, orders, working, client, live, sizing, onlyLong, mirrored>>
    BY <1>1 DEF ordersVars
  <2>2. OrdersTyped'
    BY <2>1 DEF OrdersInv, OrdersTyped
  <2>3. Orders!OneEach' /\ (~AnyOrder => Orders!Settles')
    BY <2>1, MirroredStays
  <2> QED BY <2>2, <2>3 DEF OrdersInv
<1>2. ASSUME Orders!Next PROVE OrdersInv'
  BY <1>2, PlacesKeep, LeavesKeep, CaptureKeeps, WobbleKeeps, MirrorKeeps, FillsKeep
     DEF Orders!Next
<1> QED BY <1>1, <1>2

\* Without an order it holds.
LEMMA OrdersBegin ==
  ASSUME orders = <<>>, working = <<>>, live = <<>>, mirrored = FALSE,
         masterBook \in [OrderSym -> Int], client \in [OrderSym -> Nat],
         sizing \in SizingType, onlyLong \in BOOLEAN
  PROVE  OrdersInv
<1>1. OrdersTyped
  <2>1. client \in [OrderSym -> Int]
    OBVIOUS
  <2>2. /\ orders \in Seq(RestingOrders) /\ working \in Seq(OrderType)
        /\ live \in Seq(OrderType)
    BY EmptySeq, Zenon
  <2> QED BY <2>1, <2>2 DEF OrdersTyped
<1>2. Orders!OneEach /\ Orders!Settles
  BY DEF Orders!OneEach, Orders!Settles
<1> QED BY <1>1, <1>2 DEF OrdersInv

\* A behaviour of the sum begins and goes on within the invariant.
LEMMA MirrorsInvariant == SpecMirrors => []OrdersInv
<1>1. ASSUME InitMirrors PROVE OrdersInv
  <2>1. CASE which = "positions"
    <3>1. /\ orders = <<>> /\ working = <<>> /\ live = <<>> /\ mirrored = FALSE
          /\ masterBook \in [OrderSym -> Int] /\ client \in [OrderSym -> Nat]
          /\ sizing = MCEqual /\ onlyLong = FALSE
      BY <1>1, <2>1 DEF InitMirrors
    <3>2. sizing \in SizingType
      BY <3>1 DEF MCEqual, SizingType
    <3> QED BY <3>1, <3>2, OrdersBegin
  <2>2. CASE which # "positions"
    <3>1. Orders!Init
      BY <1>1, <2>2 DEF InitMirrors
    <3>2. /\ orders = <<>> /\ working = <<>> /\ live = <<>> /\ mirrored = FALSE
          /\ masterBook \in [OrderSym -> Int] /\ onlyLong \in BOOLEAN
          /\ sizing \in Sizings /\ client \in [OrderSym -> {0, 100 * OrderUnit}]
      BY <3>1 DEF Orders!Init
    <3>3. OrderUnit \in Nat /\ sizing \in SizingType
      BY <3>2, OrdersAssumption DEF Orders!WorkingAssumption, SizingType
    <3>4. client \in [OrderSym -> Nat]
      BY <3>2, <3>3
    <3> QED BY <3>2, <3>3, <3>4, OrdersBegin
  <2> QED BY <2>1, <2>2
<1>2. ASSUME OrdersInv, [NextMirrors]_<<which, vars, ordersVars>> PROVE OrdersInv'
  BY <1>2, OrdersNextKeeps DEF NextMirrors
<1> QED BY <1>1, <1>2, PTL DEF SpecMirrors

-----------------------------------------------------------------------------
(* The properties of the run *)

\* OneEach (orders.rs, diff_working_orders): after a diff is carried out every order
\* wanted has a live one of its own, the same within tolerance, and no other is left,
\* in whatever order the broker lists them.
THEOREM OneEachHolds == SpecMirrors => []OneEach
<1>1. OrdersInv => OneEach
  BY DEF OrdersInv, OneEach
<1> QED BY <1>1, MirrorsInvariant, PTL

\* Settles (orders.rs, "stops the restart/drift churn"): where the broker lists the
\* orders as they were placed, a second diff of a book just mirrored has nothing to
\* place and nothing to cancel.
THEOREM SettlesHolds ==
  ASSUME ~AnyOrder
  PROVE  SpecMirrors => []Settles
<1>1. OrdersInv => Settles
  BY DEF OrdersInv, Settles
<1> QED BY <1>1, MirrorsInvariant, PTL
===============================================================================
