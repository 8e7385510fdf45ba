--------------------------- MODULE Drawdown_proofs ---------------------------
(***************************************************************************)
(* Proofs about the drawdown guard, for every set of accounts and levels,  *)
(* every threshold and any number of confirmation cycles and sessions.     *)
(***************************************************************************)
EXTENDS Drawdown, TLAPS

LEMMA LargerIsNat ==
  ASSUME NEW m \in Nat, NEW n \in Nat
  PROVE  /\ Larger(m, n) \in Nat
         /\ Larger(m, n) >= m /\ Larger(m, n) >= n
         /\ Larger(m, n) = m \/ Larger(m, n) = n
BY DEF Larger

LEMMA ValuesAreNat == \A v \in Values : v \in Nat
BY DrawdownAssumption DEF Values

LEMMA BreachesBounded ==
  ASSUME TypeOK, NEW v \in Nat
  PROVE  /\ Breaches(v) \in Nat
         /\ v = 0 => Breaches(v) = IF resetReq THEN 0 ELSE breaches
         /\ v > 0 => \/ /\ Breached(Larger(ResetPeak(v), v), v)
                        /\ Breaches(v) = (IF resetReq THEN 0 ELSE breaches) + 1
                     \/ Breaches(v) = 0
<1>1. breaches \in Nat  BY DrawdownAssumption DEF TypeOK
<1>2. QED  BY <1>1 DEF Breaches

LEMMA ReadCounts ==
  ASSUME TypeOK, NEW v \in Values, NEW good \in BOOLEAN, Read(v, good)
  PROVE  /\ bads' \in 0..MaxBad
         /\ good => v \in Levels /\ bads' = bads
         /\ ~good => v \in BadReads /\ bads' = bads + 1
BY DrawdownAssumption DEF TypeOK, Read

-----------------------------------------------------------------------------
\* Every state of the drawdown guard is well typed.
THEOREM TypeCorrect == Spec => []TypeOK
<1>1. Init => TypeOK
  <2> SUFFICES ASSUME Init PROVE TypeOK
    OBVIOUS
  <2>1. bads \in 0..MaxBad /\ sessions \in 0..MaxSessions /\ breaches \in 0..Confirm
    BY DrawdownAssumption DEF Init
  <2>2. QED  BY <2>1 DEF Init, TypeOK
<1>2. TypeOK /\ [Next]_vars => TypeOK'
  <2> SUFFICES ASSUME TypeOK, [Next]_vars PROVE TypeOK'
    OBVIOUS
  <2>1. ASSUME NEW v \in Values, NEW good \in BOOLEAN, Begin(v, good) PROVE TypeOK'
    <3>1. v \in Nat /\ bads' \in 0..MaxBad
      BY <2>1, ValuesAreNat, ReadCounts DEF Begin
    <3>2. peak' \in Nat
      <4>1. disk.peak \in Nat  BY DEF TypeOK, NoLedger
      <4>2. QED  BY <2>1, <3>1, <4>1, LargerIsNat DEF Begin
    <3>3. high' \in [Account -> Nat]
      <4>1. account \in Account /\ high[account] \in Nat  BY DEF TypeOK
      <4>2. Larger(high[account], v) \in Nat  BY <3>1, <4>1, LargerIsNat
      <4>3. QED  BY <2>1, <4>1, <4>2 DEF Begin, TypeOK
    <3>4. known' \in [Account -> Nat]
      <4>1. account \in Account /\ known[account] \in Nat  BY DEF TypeOK
      <4>2. Larger(known[account], v) \in Nat  BY <3>1, <4>1, LargerIsNat
      <4>3. QED  BY <2>1, <4>1, <4>2 DEF Begin, TypeOK
    <3>5. sessions' \in 0..MaxSessions
      BY <2>1, DrawdownAssumption DEF Begin, TypeOK
    <3>6. breaches' \in 0..Confirm  BY <2>1, DrawdownAssumption DEF Begin
    <3>7. QED  BY <2>1, <3>1, <3>2, <3>3, <3>4, <3>5, <3>6 DEF Begin, TypeOK
  <2>2. ASSUME NEW v \in Values, NEW good \in BOOLEAN, Cycle(v, good) PROVE TypeOK'
    <3>1. v \in Nat /\ bads' \in 0..MaxBad
      BY <2>2, ValuesAreNat, ReadCounts DEF Cycle
    <3>2. ResetPeak(v) \in Nat /\ ResetHigh(v) \in Nat /\ ResetKnown(v) \in Nat
      BY <3>1 DEF TypeOK, ResetPeak, ResetHigh, ResetKnown
    <3>3. peak' \in Nat
      BY <2>2, <3>1, <3>2, LargerIsNat DEF Cycle, TypeOK
    <3>4. high' \in [Account -> Nat]
      <4>1. Larger(ResetHigh(v), v) \in Nat  BY <3>1, <3>2, LargerIsNat
      <4>2. QED  BY <2>2, <3>2, <4>1 DEF Cycle, TypeOK
    <3>5. breaches' \in 0..Confirm
      BY <2>2, <3>1, BreachesBounded, DrawdownAssumption DEF Cycle
    <3>6. disk' \in [owner : Account, peak : Nat] \cup {NoLedger}
      BY <2>2, <3>2 DEF Cycle, TypeOK
    <3>7. hit' \in BOOLEAN  BY <2>2 DEF Cycle
    <3>8. real' \in BOOLEAN  BY <2>2 DEF Cycle, TypeOK
    <3>9. tripped' \in BOOLEAN  BY <2>2 DEF Cycle
    <3>10. last' \in Nat  BY <2>2, <3>1 DEF Cycle, TypeOK
    <3>11. resetReq' \in BOOLEAN /\ pc' \in {"down", "top", "trade"}  BY <2>2 DEF Cycle
    <3>12. known' \in [Account -> Nat]
      <4>1. Larger(ResetKnown(v), v) \in Nat  BY <3>1, <3>2, LargerIsNat
      <4>2. QED  BY <2>2, <3>2, <4>1 DEF Cycle, TypeOK
    <3>13. kept' \in [Account -> Nat]
      BY <2>2, <3>2 DEF Cycle, TypeOK
    <3>14. QED
      BY <2>2, <3>1, <3>3, <3>4, <3>5, <3>6, <3>7, <3>8, <3>9, <3>10, <3>11, <3>12, <3>13
      DEF Cycle, TypeOK
  <2>3. CASE EndCycle
    BY <2>3 DEF EndCycle, TypeOK, session, history
  <2>4. ASSUME NEW cause \in Events, EndSession(cause) PROVE TypeOK'
    BY <2>4 DEF EndSession, TypeOK
  <2>5. CASE PressReset
    BY <2>5 DEF PressReset, TypeOK, session, history
  <2>6. ASSUME NEW a \in Account, NEW e \in Levels, EquityMoves(a, e) PROVE TypeOK'
    BY <2>6 DEF EquityMoves, TypeOK, session, history
  <2>7. ASSUME NEW how \in Events, Crash(how) PROVE TypeOK'
    BY <2>7 DEF Crash, TypeOK, session
  <2>8. CASE UNCHANGED vars
    BY <2>8 DEF TypeOK, vars, session, history
  <2>9. QED  BY <2>1, <2>2, <2>3, <2>4, <2>5, <2>6, <2>7, <2>8 DEF Next
<1>3. QED  BY <1>1, <1>2, PTL DEF Spec

-----------------------------------------------------------------------------
\* The ledger keeps the mark of what was read before it was saved last, and between
\* sessions no other balance is known.
PeakInv ==
  /\ PeakIsHigh
  /\ kept[account] = 0 \/ (disk.owner = account /\ disk.peak >= kept[account])
  /\ pc = "down" => known[account] = kept[account]

\* As long as the operator stays with one account and no crash tears the ledger, the
\* mark of a session is never below a balance the account had since its last reset,
\* whatever bad reads, lost links, restarts, panics and failed saves came between, but
\* for what was read after the last save that succeeded before a session ended.
\* (PeakCrash.cfg shows why that exception, with MCSwitch why one account, with MCTorn
\* why no torn ledger.)
THEOREM PeakIsHighHolds ==
  ASSUME "switch" \notin Events, "torn" \notin Events
  PROVE  Spec => []PeakIsHigh
<1>1. Init => PeakInv
  BY DEF Init, PeakInv, PeakIsHigh
<1>2. TypeOK /\ PeakInv /\ [Next]_vars => PeakInv'
  <2> SUFFICES ASSUME TypeOK, PeakInv, [Next]_vars PROVE PeakInv'
    OBVIOUS
  <2>1. ASSUME NEW v \in Values, NEW good \in BOOLEAN, Begin(v, good) PROVE PeakInv'
    <3>1. /\ v \in Nat /\ known[account] \in Nat /\ account \in Account
          /\ pc = "down" /\ pc' = "top" /\ account' = account
          /\ disk' = disk /\ kept' = kept
      BY <2>1, ValuesAreNat DEF Begin, TypeOK
    <3>2. disk.owner = account => disk.peak \in Nat
      BY DEF TypeOK, NoLedger
    <3>3. known'[account] = IF good THEN Larger(known[account], v) ELSE known[account]
      BY <2>1 DEF Begin, TypeOK
    <3>4. peak' = IF disk.owner = account THEN Larger(v, disk.peak) ELSE v
      BY <2>1 DEF Begin
    <3>5. peak' >= known'[account]
      BY <3>1, <3>2, <3>3, <3>4 DEF PeakInv, Larger
    <3>6. QED  BY <3>1, <3>5 DEF PeakInv, PeakIsHigh
  <2>2. ASSUME NEW v \in Values, NEW good \in BOOLEAN, Cycle(v, good) PROVE PeakInv'
    <3>1. /\ v \in Nat /\ known[account] \in Nat /\ peak \in Nat /\ account \in Account
          /\ peak >= known[account] /\ pc' # "down" /\ account' = account
      BY <2>2, ValuesAreNat DEF Cycle, TypeOK, PeakInv, PeakIsHigh
    <3>2. known'[account] = IF v > 0 /\ good THEN Larger(ResetKnown(v), v)
                                             ELSE ResetKnown(v)
      BY <2>2 DEF Cycle, TypeOK
    <3>3. peak' = IF v > 0 THEN Larger(ResetPeak(v), v) ELSE peak
      BY <2>2 DEF Cycle
    <3>4. peak' >= known'[account]
      BY <3>1, <3>2, <3>3 DEF Larger, ResetPeak, ResetKnown
    <3>5. kept'[account] = 0 \/ (disk'.owner = account /\ disk'.peak >= kept'[account])
      <4>1. CASE /\ resetReq
                 /\ disk' = [owner |-> account, peak |-> ResetPeak(v)]
                 /\ kept' = [kept EXCEPT ![account] = ResetKnown(v)]
        <5>1. kept'[account] = ResetKnown(v)
          BY <4>1 DEF TypeOK
        <5>2. QED  BY <4>1, <5>1, <3>1 DEF ResetPeak, ResetKnown
      <4>2. CASE UNCHANGED <<disk, kept>>
        BY <4>2 DEF PeakInv
      <4>3. QED  BY <2>2, <4>1, <4>2, Zenon DEF Cycle
    <3>6. QED  BY <3>1, <3>4, <3>5 DEF PeakInv, PeakIsHigh
  <2>3. CASE EndCycle
    <3>1. UNCHANGED <<account, peak, known>> /\ pc = "trade" /\ pc' = "top"
      BY <2>3 DEF EndCycle, session
    <3>2. CASE UNCHANGED <<disk, kept>>
      BY <3>1, <3>2 DEF PeakInv, PeakIsHigh
    <3>3. CASE /\ disk' = [owner |-> account, peak |-> peak]
               /\ kept' = [kept EXCEPT ![account] = known[account]]
      BY <3>1, <3>3 DEF PeakInv, PeakIsHigh, TypeOK
    <3>4. QED  BY <2>3, <3>2, <3>3 DEF EndCycle
  <2>4. ASSUME NEW cause \in Events, EndSession(cause) PROVE PeakInv'
    <3>1. pc = "top" /\ pc' = "down" /\ account' = account
      BY <2>4 DEF EndSession
    <3>2. CASE /\ disk' = [owner |-> account, peak |-> peak]
               /\ kept' = [kept EXCEPT ![account] = known[account]]
               /\ UNCHANGED known
      <4>1. kept'[account] = known[account]
        BY <3>2 DEF TypeOK
      <4>2. QED  BY <3>1, <3>2, <4>1 DEF PeakInv, PeakIsHigh
    <3>3. CASE /\ known' = [known EXCEPT ![account] = kept[account]]
               /\ UNCHANGED <<disk, kept>>
      <4>1. known'[account] = kept[account]
        BY <3>3 DEF TypeOK
      <4>2. QED  BY <3>1, <3>3, <4>1 DEF PeakInv, PeakIsHigh
    <3>4. QED  BY <2>4, <3>2, <3>3 DEF EndSession
  <2>5. CASE PressReset
    BY <2>5 DEF PressReset, PeakInv, PeakIsHigh, session, history
  <2>6. ASSUME NEW a \in Account, NEW e \in Levels, EquityMoves(a, e) PROVE PeakInv'
    BY <2>6 DEF EquityMoves, PeakInv, PeakIsHigh, session, history
  <2>7. ASSUME NEW how \in Events, Crash(how) PROVE PeakInv'
    <3>1. UNCHANGED <<account, disk, kept>> /\ pc' = "down"
      BY <2>7 DEF Crash, session
    <3>2. known'[account] = kept[account]
      BY <2>7 DEF Crash, TypeOK
    <3>3. QED  BY <3>1, <3>2 DEF PeakInv, PeakIsHigh
  <2>8. CASE UNCHANGED vars
    BY <2>8 DEF PeakInv, PeakIsHigh, vars, session, history
  <2>9. QED  BY <2>1, <2>2, <2>3, <2>4, <2>5, <2>6, <2>7, <2>8 DEF Next
<1>3. PeakInv => PeakIsHigh  BY DEF PeakInv
<1>4. QED  BY <1>1, <1>2, <1>3, TypeCorrect, PTL DEF Spec

-----------------------------------------------------------------------------
(* The confirmation cycles *)

\* A balance that far below a mark is that far below any higher one.
LEMMA BreachMonotone ==
  ASSUME NEW p \in Nat, NEW h \in Nat, NEW v \in Nat, p <= h, MaxDD <= 100,
         Breached(p, v)
  PROVE  Breached(h, v)
<1> DEFINE d == h - p
<1>1. d \in Nat /\ h = p + d  OBVIOUS
<1>2. MaxDD \in Nat  BY DrawdownAssumption
<1>3. MaxDD * h = MaxDD * p + MaxDD * d  BY <1>1, <1>2
<1>4. MaxDD * d <= 100 * d  BY <1>1, <1>2
<1>5. 100 * (p - v) >= MaxDD * p  BY DEF Breached
<1>6. MaxDD * p \in Int /\ MaxDD * d \in Int  BY <1>1, <1>2
<1>7. 100 * (h - v) >= MaxDD * h
  <2> HIDE DEF d
  <2>1. 100 * (h - v) = 100 * (p - v) + 100 * d  BY <1>1
  <2>2. QED  BY <2>1, <1>1, <1>3, <1>4, <1>5, <1>6
<1>8. QED  BY <1>7 DEF Breached

\* A bad read is below anything the account is worth.
LowBadReads == \A b \in BadReads, l \in Levels : b < l

\* A mark is one the account really had, or so low that the next good read
\* replaces it.
Earned(mark, a) == mark <= high[a] \/ \A l \in Levels : mark < l

\* While no good read was a breach, every breach was a bad read.
HaltInv ==
  /\ pc # "down" => Earned(peak, account)
  /\ \A a \in Account : disk.owner = a => Earned(disk.peak, a)
  /\ ~real => breaches <= bads
  /\ hit => real \/ bads >= Confirm

\* Fewer bad reads than confirmation cycles, if they are low ones, never halt the
\* account by themselves, as long as a reset is saved.  (HighGlitch shows why low ones;
\* a reset that was not saved is undone by the next reconnect.)
THEOREM NoFalseHaltHolds ==
  ASSUME LowBadReads, MaxDD <= 100, "unsavedReset" \notin Events
  PROVE  Spec => []NoFalseHalt
<1>1. Init => HaltInv
  <2> SUFFICES ASSUME Init PROVE HaltInv
    OBVIOUS
  <2>1. ASSUME NEW a \in Account PROVE Earned(disk.peak, a)
    BY <2>1 DEF Init, Earned, NoLedger
  <2>2. QED  BY <2>1 DEF Init, HaltInv
<1>2. TypeOK /\ TypeOK' /\ HaltInv /\ [Next]_vars => HaltInv'
  <2> SUFFICES ASSUME TypeOK, TypeOK', HaltInv, [Next]_vars PROVE HaltInv'
    OBVIOUS
  <2>1. ASSUME NEW v \in Values, NEW good \in BOOLEAN, Begin(v, good) PROVE HaltInv'
    <3>1. v \in Nat /\ (good => v \in Levels) /\ (~good => v \in BadReads)
      BY <2>1, ValuesAreNat, ReadCounts DEF Begin
    <3>2. /\ high[account] \in Nat /\ high'[account] \in Nat /\ account' = account
          /\ high'[account] >= high[account] /\ (good => high'[account] >= v)
      <4>1. high'[account] = IF good THEN Larger(high[account], v) ELSE high[account]
        BY <2>1 DEF Begin, TypeOK
      <4>2. high[account] \in Nat /\ account' = account  BY <2>1 DEF Begin, TypeOK
      <4>3. QED  BY <3>1, <4>1, <4>2 DEF Larger
    <3>3. Earned(v, account)'
      BY <3>1, <3>2 DEF Earned, LowBadReads
    <3>4. \A a \in Account : disk'.owner = a => Earned(disk.peak, a)'
      <4> SUFFICES ASSUME NEW a \in Account, disk.owner = a PROVE Earned(disk.peak, a)'
        BY <2>1 DEF Begin
      <4>1. Earned(disk.peak, a) /\ disk.peak \in Nat  BY DEF HaltInv, TypeOK, NoLedger
      <4>2. high'[a] >= high[a] /\ high'[a] \in Nat /\ high[a] \in Nat
        BY <2>1, <3>2 DEF Begin, TypeOK
      <4>3. disk' = disk  BY <2>1 DEF Begin
      <4>4. QED  BY <4>1, <4>2, <4>3 DEF Earned
    <3>5. Earned(peak, account)'
      <4>1. peak' = v \/ (disk.owner = account /\ peak' = disk.peak)
        <5>1. peak' = IF disk.owner = account THEN Larger(v, disk.peak) ELSE v
          BY <2>1 DEF Begin
        <5>2. disk.peak \in Nat  BY DEF TypeOK, NoLedger
        <5>3. QED  BY <5>1, <5>2, <3>1, LargerIsNat
      <4>2. CASE peak' = v  BY <4>2, <3>3, <3>2 DEF Earned
      <4>3. CASE disk.owner = account /\ peak' = disk.peak
        <5>1. disk' = disk /\ account \in Account  BY <2>1 DEF Begin, TypeOK
        <5>2. Earned(disk.peak, account)'  BY <5>1, <4>3, <3>4, <3>2
        <5>3. QED  BY <5>1, <5>2, <4>3 DEF Earned
      <4>4. QED  BY <4>1, <4>2, <4>3
    <3>6. breaches' = 0 /\ hit' = FALSE /\ bads' \in Nat
      BY <2>1, DrawdownAssumption DEF Begin, TypeOK
    <3>7. QED  BY <3>4, <3>5, <3>6 DEF HaltInv
  <2>2. ASSUME NEW v \in Values, NEW good \in BOOLEAN, Cycle(v, good) PROVE HaltInv'
    <3>1. /\ v \in Nat /\ bads \in Nat /\ bads' \in Nat /\ breaches \in Nat
          /\ Confirm \in Nat /\ Confirm > 0
          /\ good => v \in Levels /\ bads' = bads
          /\ ~good => v \in BadReads /\ bads' = bads + 1
      BY <2>2, ValuesAreNat, ReadCounts, DrawdownAssumption DEF Cycle, TypeOK
    <3>2. /\ high[account] \in Nat /\ peak \in Nat /\ account \in Account
          /\ account' = account /\ peak' \in Nat /\ high'[account] \in Nat
          /\ Earned(peak, account)
      BY <2>2 DEF Cycle, TypeOK, HaltInv
    <3>3. high'[account] = IF v > 0 /\ good THEN Larger(ResetHigh(v), v) ELSE ResetHigh(v)
      BY <2>2, <3>2 DEF Cycle, TypeOK
    <3>4. peak' = IF v > 0 THEN Larger(ResetPeak(v), v) ELSE peak
      BY <2>2 DEF Cycle
    <3>5. Earned(peak, account)'
      <4>1. CASE good
        BY <4>1, <3>1, <3>2, <3>3, <3>4 DEF Earned, Larger, ResetPeak, ResetHigh
      <4>2. CASE ~good
        <5>1. \A l \in Levels : v < l  BY <4>2, <3>1 DEF LowBadReads
        <5>2. high'[account] = ResetHigh(v)  BY <4>2, <3>3
        <5>3. QED  BY <5>1, <5>2, <3>1, <3>2, <3>4 DEF Earned, Larger, ResetPeak, ResetHigh
      <4>3. QED  BY <4>1, <4>2
    <3>6. \A a \in Account : disk'.owner = a => Earned(disk.peak, a)'
      <4> SUFFICES ASSUME NEW a \in Account, disk'.owner = a PROVE Earned(disk.peak, a)'
        OBVIOUS
      <4>1. CASE resetReq
        <5>1. disk'.peak = ResetPeak(v) /\ a = account
          BY <4>1, <2>2 DEF Cycle
        <5>2. CASE v > 0
          <6>1. disk'.peak = v /\ high'[account] >= v
            BY <4>1, <5>1, <5>2, <3>1, <3>3 DEF ResetPeak, ResetHigh, Larger
          <6>2. QED  BY <5>1, <6>1 DEF Earned
        <5>3. CASE v = 0
          <6>1. disk'.peak = peak' /\ peak' = peak
            BY <4>1, <5>1, <5>3, <3>4 DEF ResetPeak
          <6>2. QED  BY <5>1, <6>1, <3>5, <3>2 DEF Earned
        <5>4. QED  BY <5>2, <5>3, <3>1
      <4>2. CASE ~resetReq
        <5>1. disk' = disk  BY <4>2, <2>2 DEF Cycle
        <5>2. Earned(disk.peak, a) /\ disk.peak \in Nat
          BY <5>1 DEF HaltInv, TypeOK, NoLedger
        <5>3. ResetHigh(v) = high[account]  BY <4>2 DEF ResetHigh
        <5>4. high'[account] >= high[account]  BY <5>3, <3>1, <3>2, <3>3 DEF Larger
        <5>5. high'[a] >= high[a] /\ high'[a] \in Nat /\ high[a] \in Nat
          BY <2>2, <5>4, <3>2 DEF Cycle, TypeOK
        <5>6. QED  BY <5>1, <5>2, <5>5 DEF Earned
      <4>3. QED  BY <4>1, <4>2
    <3> DEFINE before == IF resetReq THEN 0 ELSE breaches
    <3>7. /\ Breaches(v) \in Nat
          /\ v = 0 => Breaches(v) = before
          /\ v > 0 => \/ /\ Breached(Larger(ResetPeak(v), v), v)
                          /\ Breaches(v) = before + 1
                       \/ Breaches(v) = 0
      BY <3>1, BreachesBounded
    <3>8. /\ breaches' = IF Breaches(v) < Confirm THEN Breaches(v) ELSE Confirm
          /\ hit' = ((~resetReq /\ hit) \/ (v > 0 /\ breaches' = Confirm))
          /\ real \in BOOLEAN /\ hit \in BOOLEAN /\ resetReq \in BOOLEAN
      BY <2>2 DEF Cycle, TypeOK
    <3>9. CASE v = 0 \/ (hit /\ ~resetReq)
      <4>1. real' = real  BY <2>2, <3>9 DEF Cycle
      <4>2. CASE v = 0
        <5>1. breaches' <= breaches  BY <4>2, <3>1, <3>7, <3>8
        <5>2. hit' => hit  BY <4>2, <3>8
        <5>3. bads' >= bads  BY <3>1
        <5>4. QED  BY <4>1, <5>1, <5>2, <5>3, <3>1, <3>5, <3>6, <3>8 DEF HaltInv, TypeOK
      <4>3. CASE hit /\ ~resetReq
        <5>1. real' \/ bads' >= Confirm  BY <4>1, <4>3, <3>1 DEF HaltInv
        <5>2. breaches' <= Confirm  BY <3>1, <3>7, <3>8
        <5>3. breaches' \in Nat  BY <3>1, <3>7, <3>8
        <5>4. QED  BY <5>1, <5>2, <5>3, <3>1, <3>5, <3>6 DEF HaltInv
      <4>4. QED  BY <3>9, <4>2, <4>3
    <3>10. CASE v > 0 /\ ~(hit /\ ~resetReq)
      <4>1. real' = /\ breaches' > 0
                    /\ \/ real /\ ~resetReq
                       \/ good /\ Breached(Larger(ResetHigh(v), v), v)
        <5>1. ~(v = 0 \/ (hit /\ ~resetReq))  BY <3>1, <3>10
        <5>2. QED  BY <2>2, <5>1, Zenon DEF Cycle
      <4>2. ASSUME ~real', breaches' > 0 PROVE breaches' <= bads'
        <5>1. /\ Breached(Larger(ResetPeak(v), v), v) /\ Breaches(v) = before + 1
          BY <4>2, <3>1, <3>7, <3>8, <3>10
        <5>2. before <= bads
          BY <4>1, <4>2, <3>1, <3>8 DEF HaltInv
        <5>3. ~good
          <6> SUFFICES ASSUME good PROVE FALSE
            OBVIOUS
          <6>1. ResetHigh(v) \in Nat /\ ResetPeak(v) \in Nat
            BY <3>1, <3>2 DEF ResetHigh, ResetPeak
          <6>2. Larger(ResetPeak(v), v) <= Larger(ResetHigh(v), v)
            <7>1. v \in Levels  BY <3>1
            <7>2. QED
              BY <7>1, <3>1, <3>2, <3>10 DEF Earned, Larger, ResetPeak, ResetHigh
          <6>3. Breached(Larger(ResetHigh(v), v), v)
            BY <5>1, <6>1, <6>2, <3>1, LargerIsNat, BreachMonotone
          <6>4. QED  BY <6>3, <4>1, <4>2
        <5>4. QED  BY <5>1, <5>2, <5>3, <3>1, <3>8
      <4>3. ~real' => breaches' <= bads'
        BY <4>2, <3>1, <3>7, <3>8
      <4>4. hit' => real' \/ bads' >= Confirm
        BY <4>2, <3>1, <3>8, <3>10
      <4>5. QED  BY <4>3, <4>4, <3>5, <3>6 DEF HaltInv
    <3>11. QED  BY <3>9, <3>10, <3>1
  <2>3. CASE EndCycle
    <3>1. /\ pc = "trade" /\ UNCHANGED <<account, peak, breaches, hit, high, real, bads>>
          /\ disk' = disk \/ disk' = [owner |-> account, peak |-> peak]
      BY <2>3 DEF EndCycle, session, history
    <3>2. QED  BY <3>1 DEF HaltInv, Earned
  <2>4. ASSUME NEW cause \in Events, EndSession(cause) PROVE HaltInv'
    <3>1. /\ pc = "top" /\ pc' = "down"
          /\ UNCHANGED <<peak, breaches, hit, high, real, bads>>
          /\ disk' = disk \/ disk' = [owner |-> account, peak |-> peak]
      BY <2>4 DEF EndSession
    <3>2. QED  BY <3>1 DEF HaltInv, Earned
  <2>5. CASE PressReset
    BY <2>5 DEF PressReset, HaltInv, Earned, session, history
  <2>6. ASSUME NEW a \in Account, NEW e \in Levels, EquityMoves(a, e) PROVE HaltInv'
    BY <2>6 DEF EquityMoves, HaltInv, Earned, session, history
  <2>7. ASSUME NEW how \in Events, Crash(how) PROVE HaltInv'
    <3>1. /\ pc' = "down" /\ UNCHANGED <<breaches, hit, high, real, bads>>
          /\ disk' = disk \/ disk' = NoLedger
      BY <2>7 DEF Crash, session
    <3>2. \A b \in Account : 0 <= high[b]  BY DEF TypeOK
    <3>3. CASE disk' = disk  BY <3>1, <3>3 DEF HaltInv, Earned
    <3>4. CASE disk' = NoLedger  BY <3>1, <3>2, <3>4 DEF HaltInv, Earned, NoLedger
    <3>5. QED  BY <3>1, <3>3, <3>4
  <2>8. CASE UNCHANGED vars
    BY <2>8 DEF HaltInv, Earned, vars, session, history
  <2>9. QED  BY <2>1, <2>2, <2>3, <2>4, <2>5, <2>6, <2>7, <2>8 DEF Next
<1>3. TypeOK /\ HaltInv => NoFalseHalt
  BY DrawdownAssumption DEF TypeOK, HaltInv, NoFalseHalt
<1>4. QED  BY <1>1, <1>2, <1>3, TypeCorrect, PTL DEF Spec

=============================================================================
