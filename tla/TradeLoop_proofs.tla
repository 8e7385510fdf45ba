--------------------------- MODULE TradeLoop_proofs ---------------------------
(***************************************************************************)
(* Proofs about the engine session for any number of symbols, any          *)
(* quantities and any bounds.                                              *)
(***************************************************************************)
EXTENDS TradeLoop, TLAPS

-----------------------------------------------------------------------------
(* Arithmetic of one pass *)

\* Rounding down to whole shares yields a natural number no larger.
LEMMA WholeSharesBound ==
  ASSUME NEW q \in Nat
  PROVE  WholeShares(q) \in 0..q
  BY UnitAssumption DEF WholeShares

LEMMA ClampLongInt ==
  ASSUME NEW t \in Int PROVE ClampLong(LongOnly, t) \in Int
  BY DEF ClampLong

\* The intents of a symbol are well formed.
LEMMA IntentsForTyped ==
  ASSUME NEW s \in Sym, NEW c \in Int, NEW t \in Int,
         NEW i \in IntentsFor(s, c, t)
  PROVE  /\ i \in [sym : Sym, side : Side, qty : Nat, reason : Reason]
         /\ i.sym = s
  BY DEF IntentsFor, Intent, Abs, Closing, FromDelta, Side, Reason, Classify

\* Each intent of a symbol, filled whole, takes it from its current position
\* to somewhere between that position, the target and flat.
LEMMA IntentsForInRange ==
  ASSUME NEW s \in Sym, NEW c \in Lo..Hi, NEW t \in Lo..Hi,
         NEW i \in IntentsFor(s, c, t)
  PROVE  c + Signed(i.side, i.qty) \in Lo..Hi
  BY QuantityAssumption, UnitAssumption
  DEF IntentsFor, Intent, Abs, Closing, FromDelta, Signed, CrossesZero

-----------------------------------------------------------------------------
(* Type correctness *)

\* An intent of a pass belongs to one symbol's intents.
LEMMA IntentsElement ==
  ASSUME NEW connected, NEW p, NEW m, NEW book, NEW tgts,
         NEW i \in Intents(connected, p, m, book, tgts, LongOnly, EmptyMasterGuard)
  PROVE  \E s \in Sym : i \in IntentsFor(s, book[s], ClampLong(LongOnly, tgts[s]))
  BY DEF Intents, Held

LEMMA IntentsTyped ==
  ASSUME NEW connected, NEW p, NEW m, NEW book \in [Sym -> Int], NEW tgts \in [Sym -> Int]
  PROVE  Intents(connected, p, m, book, tgts, LongOnly, EmptyMasterGuard)
           \subseteq [sym : Sym, side : Side, qty : Nat, reason : Reason]
<1> SUFFICES ASSUME NEW i \in Intents(connected, p, m, book, tgts, LongOnly, EmptyMasterGuard)
             PROVE  i \in [sym : Sym, side : Side, qty : Nat, reason : Reason]
  OBVIOUS
<1>1. PICK s \in Sym : i \in IntentsFor(s, book[s], ClampLong(LongOnly, tgts[s]))
  BY IntentsElement
<1>2. book[s] \in Int /\ ClampLong(LongOnly, tgts[s]) \in Int
  BY ClampLongInt
<1> QED BY <1>1, <1>2, IntentsForTyped

\* What the gate locks is an integer in range.
LEMMA GateTargetInRange ==
  ASSUME NEW q \in MasterNets, NEW p \in Params, RatioKnown(p)
  PROVE  GateTarget(q, p) \in Lo..Hi /\ GateTarget(q, p) \in Int
<1>1. GateTarget(q, p) \in Lo..Hi
  BY QuantityAssumption
<1> QED BY <1>1, QuantityAssumption

\* A save that fails leaves the file as it was.
LEMMA SaveTyped ==
  ASSUME disk \in [seen : [Sym -> Int], target : [Sym -> Int]],
         NEW seen \in [Sym -> Int], NEW locked \in [Sym -> Int], SaveLedger(seen, locked)
  PROVE  disk' \in [seen : [Sym -> Int], target : [Sym -> Int]]
  BY DEF SaveLedger

\* The state of the session after it ended, in whatever way.
LEMMA DropTyped ==
  ASSUME TypeOK, DropSession
  PROVE  /\ pos' \in [Sym -> Int] /\ live' \subseteq Order /\ rejects' \subseteq Sym \X Side
         /\ master' \in [Sym -> MasterNets] /\ moves' \in 0..MaxMoves
         /\ pc' \in Stage /\ seenPos' \in [Sym -> Int]
         /\ todo' \subseteq [sym : Sym, side : Side, qty : Nat, reason : Reason]
         /\ busy' \subseteq Sym \X Side /\ ordered' \subseteq Sym
         /\ cooling' \subseteq Sym /\ backoff' \subseteq Sym \X Side
         /\ seenMaster' \in [Sym -> Int] /\ target' \in [Sym -> Int]
         /\ base' \subseteq SUBSET Sym
<1>1. ASSUME NEW o \in live PROVE [o EXCEPT !.tracked = FALSE] \in Order
  <2>1. o \in Order
    BY DEF TypeOK
  <2> QED BY <2>1 DEF Order
<1>2. live' \subseteq Order
  BY <1>1 DEF DropSession
<1> QED BY <1>2 DEF DropSession, LeaveCycle, feed, Flat, TypeOK, Stage

\* The gate leaves integer targets behind.
LEMMA FetchTargets ==
  ASSUME TypeOK, NEW p \in Params, NEW connected, Fetch(p, connected)
  PROVE  /\ target' \in [Sym -> Int] /\ seenMaster' \in [Sym -> Int]
         /\ disk' \in [seen : [Sym -> Int], target : [Sym -> Int]]
<1>1. CASE RatioKnown(p)
  <2>1. \A s \in Sym : GateTarget(master[s], p) \in Int
    BY <1>1, GateTargetInRange DEF TypeOK
  <2>2. /\ target' = [s \in Sym |-> IF s \in Changed THEN GateTarget(master[s], p)
                                                     ELSE target[s]]
        /\ seenMaster' = master
    BY <1>1 DEF Fetch
  <2>3. MasterNets \subseteq Int
    BY QuantityAssumption
  <2>4. target' \in [Sym -> Int] /\ seenMaster' \in [Sym -> Int] /\ master \in [Sym -> Int]
    BY <2>1, <2>2, <2>3 DEF TypeOK
  <2>5. UNCHANGED disk \/ SaveLedger(master, target')
    BY <1>1 DEF Fetch
  <2> QED BY <2>4, <2>5, SaveTyped DEF TypeOK
<1>2. CASE ~RatioKnown(p)
  BY <1>2 DEF Fetch, ledger, TypeOK
<1> QED BY <1>1, <1>2

LEMMA NewIdInOid ==
  ASSUME \E id \in Oid : \A o \in live : o.id # id
  PROVE  NewId \in Oid /\ \A o \in live : o.id # NewId
  BY DEF NewId

\* What a submission adds to the orders in flight.
LEMMA SubmitAdds ==
  ASSUME NEW i, NEW tracked, SubmitOrder(i, tracked)
  PROVE  \E o : /\ live' = live \cup {o} /\ o.tracked = tracked
               /\ o.sym = i.sym /\ o.side = i.side /\ o.qty = WholeShares(i.qty)
<1> DEFINE o == [id |-> NewId, sym |-> i.sym, side |-> i.side,
                 qty |-> WholeShares(i.qty), tracked |-> tracked]
<1>1. live' = live \cup {o}
  BY DEF SubmitOrder
<1>2. /\ o.tracked = tracked /\ o.sym = i.sym /\ o.side = i.side
      /\ o.qty = WholeShares(i.qty)
  OBVIOUS
<1> QED BY <1>1, <1>2

LEMMA SubmitTyped ==
  ASSUME TypeOK, NEW i \in todo, NEW tracked \in BOOLEAN, SubmitOrder(i, tracked)
  PROVE  live' \subseteq Order
<1>1. i \in [sym : Sym, side : Side, qty : Nat, reason : Reason]
  BY DEF TypeOK
<1>2. WholeShares(i.qty) \in Nat
  BY <1>1, WholeSharesBound
<1> QED BY <1>1, <1>2, NewIdInOid DEF SubmitOrder, TypeOK, Order

LEMMA TypeInit == Init => TypeOK
<1> SUFFICES ASSUME Init PROVE TypeOK
  OBVIOUS
<1>1. /\ pos \in [Sym -> InitNets] /\ master \in [Sym -> InitMasterNets]
      /\ moves = 0 /\ presses = 0
      /\ seenPos = Flat /\ seenMaster = Flat /\ target = Flat /\ disk = NoLedger
      /\ live = {} /\ rejects = {} /\ todo = {} /\ busy = {} /\ ordered = {}
      /\ cooling = {} /\ backoff = {} /\ base = {} /\ pc = "down"
      /\ closeAll = FALSE /\ halted = FALSE /\ restart = FALSE
  BY DEF Init
<1>2. InitNets \subseteq Int /\ InitMasterNets \subseteq MasterNets
  BY QuantityAssumption
<1>3. pos \in [Sym -> Int] /\ master \in [Sym -> MasterNets]
  BY <1>1, <1>2
<1>4. moves \in 0..MaxMoves /\ presses \in 0..MaxPresses
  <2>1. moves = 0 /\ presses = 0
    BY <1>1
  <2>2. MaxMoves \in Nat /\ MaxPresses \in Nat
    BY ModeAssumption
  <2> QED BY <2>1, <2>2
<1>5. Flat \in [Sym -> Int] /\ NoLedger \in [seen : [Sym -> Int], target : [Sym -> Int]]
  BY DEF Flat, NoLedger
<1>6. closeAll \in BOOLEAN /\ halted \in BOOLEAN /\ restart \in BOOLEAN /\ pc \in Stage
  BY <1>1 DEF Stage
<1> QED BY <1>1, <1>3, <1>4, <1>5, <1>6 DEF TypeOK

LEMMA TypeStep == TypeOK /\ [Next]_vars => TypeOK'
<1> SUFFICES ASSUME TypeOK, [Next]_vars PROVE TypeOK'
  OBVIOUS
<1> USE DEF broker, feed, shared, cycle, timers, ledger
<1>1. CASE Connect BY <1>1 DEF Connect, TypeOK, Stage
<1>2. ASSUME EndSession PROVE TypeOK'
  BY <1>2, DropTyped, SaveTyped DEF EndSession, TypeOK
<1>3. CASE Superseded BY <1>2, <1>3 DEF Superseded
<1>4. CASE LinkLost BY <1>2, <1>4 DEF LinkLost
<1>26. ASSUME NEW how, Fails(how) PROVE presses' \in 0..MaxPresses
  <2>1. MaxPresses \in Nat /\ presses \in 0..MaxPresses
    BY ModeAssumption DEF TypeOK
  <2> QED BY <1>26, <2>1 DEF Fails
<1>27. CASE Panic
  BY <1>26, <1>27, DropTyped DEF Panic, Fails, TypeOK
<1>28. CASE Crash
  <2>1. disk' \in [seen : [Sym -> Int], target : [Sym -> Int]]
    BY <1>28 DEF Crash, NoLedger, Flat, TypeOK
  <2> QED BY <1>26, <1>28, <2>1, DropTyped DEF Crash, Fails, TypeOK
<1>5. CASE BeginCycle BY <1>5 DEF BeginCycle, TypeOK, Stage
<1>6. CASE ReadForClose
  <2>1. todo' \subseteq [sym : Sym, side : Side, qty : Nat, reason : Reason]
    BY <1>6 DEF ReadForClose, TypeOK, Held, Intent, Closing, Abs, Side, Reason
  <2> QED BY <1>6, <2>1 DEF ReadForClose, TypeOK, Stage
<1>7. CASE Halt BY <1>7 DEF Halt, TypeOK, Stage
<1>8. CASE Hold BY <1>8 DEF Hold, LeaveCycle, Flat, TypeOK, Stage
<1>9. CASE ReadPositions BY <1>9 DEF ReadPositions, LeaveCycle, Flat, TypeOK, Stage
<1>10. CASE OffHours
  BY <1>10 DEF OffHours, CaptureBase, Held, LeaveCycle, Flat, TypeOK, Stage
<1>11. CASE ReadLive
  <2>1. busy' \subseteq Sym \X Side
    BY <1>11 DEF ReadLive, TypeOK, Order
  <2> QED BY <1>11, <2>1 DEF ReadLive, TypeOK, Stage
<1>12. CASE EndPass
  <2>1. disk' \in [seen : [Sym -> Int], target : [Sym -> Int]]
    BY <1>12, SaveTyped DEF EndPass, TypeOK
  <2> QED BY <1>12, <2>1 DEF EndPass, LeaveCycle, Flat, TypeOK, Stage
<1>13. ASSUME NEW p \in Params, NEW connected \in Connected, Fetch(p, connected)
       PROVE  TypeOK'
  <2>1. /\ target' \in [Sym -> Int] /\ seenMaster' \in [Sym -> Int]
        /\ disk' \in [seen : [Sym -> Int], target : [Sym -> Int]]
    BY <1>13, FetchTargets
  <2>2. todo' \subseteq [sym : Sym, side : Side, qty : Nat, reason : Reason]
    BY <1>13, <2>1, IntentsTyped DEF Fetch, TypeOK
  <2>3. base' \subseteq SUBSET Sym
    BY <1>13 DEF Fetch, CaptureBase, Held, TypeOK
  <2> QED BY <1>13, <2>1, <2>2, <2>3 DEF Fetch, TypeOK, Stage
<1>14. ASSUME NEW i \in todo, Flatten(i) PROVE TypeOK'
  <2>1. live' \subseteq Order
    BY <1>14, SubmitTyped DEF Flatten, TypeOK
  <2> QED BY <1>14, <2>1 DEF Flatten, TypeOK
<1>15. ASSUME NEW i \in todo, PassOver(i) PROVE TypeOK'
  BY <1>15 DEF PassOver, TypeOK
<1>16. ASSUME NEW i \in todo, Place(i) PROVE TypeOK'
  <2>1. live' \subseteq Order
    BY <1>16, SubmitTyped DEF Place
  <2>2. i.sym \in Sym
    BY DEF TypeOK
  <2> QED BY <1>16, <2>1, <2>2 DEF Place, TypeOK
<1>17. ASSUME NEW s \in cooling, CooldownExpires(s) PROVE TypeOK'
  BY <1>17 DEF CooldownExpires, TypeOK
<1>18. ASSUME NEW k \in backoff, BackoffExpires(k) PROVE TypeOK'
  BY <1>18 DEF BackoffExpires, TypeOK
<1>19. ASSUME NEW o \in live, Reject(o) PROVE TypeOK'
  BY <1>19 DEF Reject, TypeOK, Order
<1>20. ASSUME NEW o \in live, NEW n \in 1..o.qty, Fill(o, n) PROVE TypeOK'
  <2>1. o \in Order /\ n \in Nat /\ o.qty - n \in Nat
    BY DEF TypeOK, Order
  <2>2. pos' \in [Sym -> Int]
    BY <1>20, <2>1 DEF Fill, TypeOK, Signed, Order
  <2>3. live' \subseteq Order
    BY <1>20, <2>1 DEF Fill, TypeOK, Order
  <2> QED BY <1>20, <2>2, <2>3 DEF Fill, TypeOK
<1>21. ASSUME NEW s \in Sym, NEW q \in MasterNets, MasterMoves(s, q) PROVE TypeOK'
  <2>1. MaxMoves \in Nat /\ moves \in 0..MaxMoves
    BY ModeAssumption DEF TypeOK
  <2>2. moves' \in 0..MaxMoves
    BY <1>21, <2>1 DEF MasterMoves
  <2>3. master' \in [Sym -> MasterNets]
    BY <1>21 DEF MasterMoves, TypeOK
  <2> QED BY <1>21, <2>2, <2>3 DEF MasterMoves, TypeOK
<1>22. ASSUME NEW button, Press(button) PROVE presses' \in 0..MaxPresses
  <2>1. MaxPresses \in Nat /\ presses \in 0..MaxPresses
    BY ModeAssumption DEF TypeOK
  <2> QED BY <1>22, <2>1 DEF Press
<1>23. CASE PressStart BY <1>22, <1>23 DEF PressStart, TypeOK
<1>25. CASE PressCloseAll BY <1>22, <1>25 DEF PressCloseAll, TypeOK
<1>24. CASE UNCHANGED vars BY <1>24 DEF vars, TypeOK
<1> QED
  BY <1>1, <1>3, <1>4, <1>5, <1>6, <1>7, <1>8, <1>9, <1>10, <1>11, <1>12, <1>13, <1>14,
     <1>15, <1>16, <1>17, <1>18, <1>19, <1>20, <1>21, <1>23, <1>24, <1>25, <1>27, <1>28
  DEF Next, Engine, Timers, Environment

\* Every reachable state is well typed.
THEOREM TypeCorrect == Spec => []TypeOK
  BY TypeInit, TypeStep, PTL DEF Spec

-----------------------------------------------------------------------------
(* No overshoot, when orders settle promptly and CLOSE ALL is not used *)

PromptSettlement == Latency = "prompt" /\ "CLOSE ALL" \notin Buttons

LEMMA RangeFacts == Lo \in Int /\ Hi \in Int /\ 0 \in Lo..Hi
  BY QuantityAssumption

\* What is left of an intent after rounding down still leads into range.
LEMMA WholeSharesInRange ==
  ASSUME NEW c \in Lo..Hi, NEW side \in Side, NEW q \in Nat,
         c + Signed(side, q) \in Lo..Hi
  PROVE  /\ WholeShares(q) \in Nat
         /\ c + Signed(side, WholeShares(q)) \in Lo..Hi
<1>1. WholeShares(q) \in 0..q
  BY WholeSharesBound
<1> QED BY <1>1, RangeFacts DEF Signed, Side

LEMMA ClampLongInRange ==
  ASSUME NEW t \in Lo..Hi PROVE ClampLong(LongOnly, t) \in Lo..Hi
  BY RangeFacts DEF ClampLong

LEMMA PromptInit == Init => PromptInv
<1> SUFFICES ASSUME Init PROVE PromptInv
  OBVIOUS
<1>1. /\ pos \in [Sym -> InitNets] /\ target = Flat /\ disk = NoLedger
      /\ live = {} /\ todo = {} /\ pc = "down" /\ closeAll = FALSE
  BY DEF Init
<1>2. \A s \in Sym : pos[s] \in Lo..Hi
  BY <1>1, QuantityAssumption
<1>3. \A s \in Sym : target[s] \in Lo..Hi /\ disk.target[s] \in Lo..Hi
  BY <1>1, RangeFacts DEF Flat, NoLedger
<1> QED BY <1>1, <1>2, <1>3 DEF PromptInv, OneCommitment, Working

\* What a step that leaves the broker alone has to show for the rest.
BrokerPart == OneCommitment /\ \A s \in Sym : pos[s] \in Lo..Hi

LEMMA BrokerUnchanged ==
  ASSUME PromptInv, UNCHANGED <<pos, live>> PROVE BrokerPart'
  BY DEF PromptInv, BrokerPart, OneCommitment

LEMMA FetchInRange ==
  ASSUME TypeOK, PromptInv, NEW p \in Params, NEW connected, Fetch(p, connected)
  PROVE  /\ \A s \in Sym : target'[s] \in Lo..Hi /\ disk'.target[s] \in Lo..Hi
         /\ \A i \in todo' : seenPos'[i.sym] + Signed(i.side, i.qty) \in Lo..Hi
<1>1. \A s \in Sym : target'[s] \in Lo..Hi
  <2>1. CASE RatioKnown(p)
    <3>1. target' = [s \in Sym |-> IF s \in Changed THEN GateTarget(master[s], p)
                                                    ELSE target[s]]
      BY <2>1 DEF Fetch
    <3>2. \A s \in Sym : GateTarget(master[s], p) \in Lo..Hi
      BY <2>1, GateTargetInRange DEF TypeOK
    <3> QED BY <3>1, <3>2 DEF PromptInv
  <2>2. CASE ~RatioKnown(p)
    BY <2>2 DEF Fetch, ledger, PromptInv
  <2> QED BY <2>1, <2>2
<1>2. ASSUME NEW i \in todo'
      PROVE  seenPos'[i.sym] + Signed(i.side, i.qty) \in Lo..Hi
  <2>1. seenPos' = seenPos /\ pc = "fetch"
    BY DEF Fetch
  <2>2. PICK s \in Sym : i \in IntentsFor(s, seenPos[s], ClampLong(LongOnly, target'[s]))
    BY IntentsElement DEF Fetch
  <2>3. seenPos[s] \in Lo..Hi
    BY <2>1 DEF PromptInv, Working
  <2>4. ClampLong(LongOnly, target'[s]) \in Lo..Hi
    BY <1>1, ClampLongInRange
  <2>5. seenPos[s] \in Int /\ ClampLong(LongOnly, target'[s]) \in Int
    BY <2>3, <2>4, RangeFacts
  <2>6. i.sym = s
    BY <2>2, <2>5, IntentsForTyped
  <2> QED BY <2>1, <2>2, <2>3, <2>4, <2>6, IntentsForInRange
<1>3. \A s \in Sym : disk'.target[s] \in Lo..Hi
  <2>1. UNCHANGED disk \/ disk'.target = target'
    BY DEF Fetch, SaveLedger, ledger
  <2> QED BY <1>1, <2>1 DEF PromptInv
<1> QED BY <1>1, <1>2, <1>3

\* An order the engine places finds its symbol uncommitted and leads into range.
LEMMA PlaceCommits ==
  ASSUME TypeOK, PromptInv, NEW i \in todo, Place(i)
  PROVE  /\ i.sym \in Sym /\ i.side \in Side
         /\ \A o \in live : o.sym # i.sym
         /\ WholeShares(i.qty) \in Nat /\ WholeShares(i.qty) > 0
         /\ pos[i.sym] + Signed(i.side, WholeShares(i.qty)) \in Lo..Hi
         /\ \E o : /\ live' = live \cup {o}
                   /\ o.sym = i.sym /\ o.side = i.side /\ o.qty = WholeShares(i.qty)
<1>1. i.sym \in Sym /\ i.side \in Side /\ i.qty \in Nat
  BY DEF TypeOK
<1>2. pc = "submit" /\ i.sym \notin cooling /\ WholeShares(i.qty) # 0
  BY DEF Place, Suppressed
<1>3. \A o \in live : o.sym # i.sym
  BY <1>2 DEF PromptInv
<1>4. seenPos[i.sym] = pos[i.sym] /\ seenPos[i.sym] \in Lo..Hi
  BY <1>1, <1>2 DEF PromptInv, Working
<1>5. pos[i.sym] + Signed(i.side, i.qty) \in Lo..Hi
  BY <1>4 DEF PromptInv
<1>6. /\ WholeShares(i.qty) \in Nat
      /\ pos[i.sym] + Signed(i.side, WholeShares(i.qty)) \in Lo..Hi
  BY <1>1, <1>4, <1>5, WholeSharesInRange
<1>7. \E o : /\ live' = live \cup {o}
             /\ o.sym = i.sym /\ o.side = i.side /\ o.qty = WholeShares(i.qty)
  BY SubmitAdds DEF Place
<1> QED BY <1>1, <1>2, <1>3, <1>6, <1>7

\* A fill carries the position towards where its order leads, and what is left
\* of the order still leads there.
LEMMA FillMoves ==
  ASSUME TypeOK, PromptInv, NEW o \in live, NEW n \in 1..o.qty, Fill(o, n)
  PROVE  /\ o.sym \in Sym /\ o.side \in Side /\ o.qty \in Nat /\ n \in Nat
         /\ pos' = [pos EXCEPT ![o.sym] = pos[o.sym] + Signed(o.side, n)]
         /\ pos[o.sym] + Signed(o.side, n) \in Lo..Hi
         /\ n = o.qty => live' = live \ {o}
         /\ n # o.qty => \E r : /\ live' = (live \ {o}) \cup {r}
                                /\ r.sym = o.sym /\ r.side = o.side /\ r.qty = o.qty - n
<1>1. o \in Order
  BY DEF TypeOK
<1>2. o.sym \in Sym /\ o.side \in Side /\ o.qty \in Nat /\ n \in Nat
  BY <1>1 DEF Order
<1>3. pos[o.sym] \in Lo..Hi /\ pos[o.sym] + Signed(o.side, o.qty) \in Lo..Hi
  BY <1>2 DEF PromptInv, OneCommitment
<1>4. pos[o.sym] + Signed(o.side, n) \in Lo..Hi
  BY <1>2, <1>3, RangeFacts DEF Signed, Side
<1>5. n # o.qty => \E r : /\ live' = (live \ {o}) \cup {r}
                          /\ r.sym = o.sym /\ r.side = o.side /\ r.qty = o.qty - n
  <2> SUFFICES ASSUME n # o.qty
               PROVE  \E r : /\ live' = (live \ {o}) \cup {r}
                             /\ r.sym = o.sym /\ r.side = o.side /\ r.qty = o.qty - n
    OBVIOUS
  <2> DEFINE r == [o EXCEPT !.qty = o.qty - n]
  <2>1. live' = (live \ {o}) \cup {r}
    BY DEF Fill
  <2>2. r.sym = o.sym /\ r.side = o.side /\ r.qty = o.qty - n
    BY <1>1 DEF Order
  <2> QED BY <2>1, <2>2
<1> QED BY <1>2, <1>4, <1>5 DEF Fill

LEMMA PromptPlace ==
  ASSUME TypeOK, PromptInv, NEW i \in todo, Place(i) PROVE PromptInv'
<1>1. /\ i.sym \in Sym /\ \A o \in live : o.sym # i.sym
      /\ WholeShares(i.qty) \in Nat /\ WholeShares(i.qty) > 0
      /\ pos[i.sym] + Signed(i.side, WholeShares(i.qty)) \in Lo..Hi
  BY PlaceCommits
<1>2. PICK o : /\ live' = live \cup {o}
               /\ o.sym = i.sym /\ o.side = i.side /\ o.qty = WholeShares(i.qty)
  BY PlaceCommits
<1>3. /\ pos' = pos /\ target' = target /\ disk' = disk /\ closeAll' = closeAll /\ pc' = pc
      /\ pc = "submit" /\ seenPos' = seenPos /\ todo' = todo \ {i}
      /\ cooling' = cooling \cup {i.sym}
  BY DEF Place, shared, ledger
<1>4. OneCommitment'
  BY <1>1, <1>2, <1>3 DEF PromptInv, OneCommitment
<1>5. \A x \in live' : x.qty > 0 /\ (pc' # "down" => x.sym \in cooling')
  BY <1>1, <1>2, <1>3 DEF PromptInv
<1> QED BY <1>3, <1>4, <1>5 DEF PromptInv, Working

LEMMA PromptFill ==
  ASSUME TypeOK, PromptInv, NEW o \in live, NEW n \in 1..o.qty, Fill(o, n)
  PROVE  PromptInv'
<1>1. /\ o.sym \in Sym /\ o.side \in Side /\ o.qty \in Nat /\ n \in Nat
      /\ pos' = [pos EXCEPT ![o.sym] = pos[o.sym] + Signed(o.side, n)]
      /\ pos[o.sym] + Signed(o.side, n) \in Lo..Hi
  BY FillMoves
<1>2. /\ target' = target /\ disk' = disk /\ closeAll' = closeAll /\ pc' = pc
      /\ seenPos' = seenPos /\ todo' = todo /\ cooling' = cooling
  BY DEF Fill, shared, ledger, cycle, timers
<1>3. \A s \in Sym : pos'[s] \in Lo..Hi /\ (s # o.sym => pos'[s] = pos[s])
  BY <1>1 DEF PromptInv, TypeOK
<1>4. \A x \in live \ {o} : x.sym # o.sym /\ x.sym \in Sym /\ pos'[x.sym] = pos[x.sym]
  BY <1>3 DEF PromptInv, OneCommitment, TypeOK, Order
<1>5. OneCommitment' /\ \A x \in live' : x.qty > 0 /\ (pc' # "down" => x.sym \in cooling')
  <2>1. CASE n = o.qty
    <3>1. live' = live \ {o}
      BY <2>1, FillMoves
    <3> QED BY <1>2, <1>4, <3>1 DEF PromptInv, OneCommitment
  <2>2. CASE n # o.qty
    <3>1. PICK r : /\ live' = (live \ {o}) \cup {r}
                   /\ r.sym = o.sym /\ r.side = o.side /\ r.qty = o.qty - n
      BY <2>2, FillMoves
    <3>2. r.qty > 0
      BY <1>1, <2>2, <3>1
    <3>3. pos'[o.sym] = pos[o.sym] + Signed(o.side, n) /\ pos[o.sym] \in Int
      BY <1>1 DEF TypeOK
    <3>4. pos'[r.sym] + Signed(r.side, r.qty) = pos[o.sym] + Signed(o.side, o.qty)
      BY <1>1, <3>1, <3>3 DEF Signed, Side
    <3>5. pos'[r.sym] + Signed(r.side, r.qty) \in Lo..Hi
      BY <3>4 DEF PromptInv, OneCommitment
    <3>6. OneCommitment'
      BY <1>4, <3>1, <3>5 DEF PromptInv, OneCommitment
    <3> QED BY <1>2, <3>1, <3>2, <3>6 DEF PromptInv
  <2> QED BY <2>1, <2>2
<1>6. Working => o.sym \in cooling
  BY DEF PromptInv, Working
<1> QED BY <1>2, <1>3, <1>5, <1>6 DEF PromptInv, Working

\* The session ends: the engine forgets, the broker does not.
LEMMA Relabelled ==
  ASSUME TypeOK, DropSession
  PROVE  /\ \A x \in live' : \E o \in live : /\ x = [o EXCEPT !.tracked = FALSE]
                                             /\ x.sym = o.sym /\ x.side = o.side
                                             /\ x.qty = o.qty
         /\ \A o \in live : \E x \in live' : /\ x.sym = o.sym /\ x.side = o.side
                                             /\ x.qty = o.qty
<1>1. live' = {[o EXCEPT !.tracked = FALSE] : o \in live}
  BY DEF DropSession
<1>2. ASSUME NEW o \in live
      PROVE  LET x == [o EXCEPT !.tracked = FALSE]
             IN  x \in live' /\ x.sym = o.sym /\ x.side = o.side /\ x.qty = o.qty
  <2>1. o \in Order
    BY DEF TypeOK
  <2> QED BY <1>1, <2>1 DEF Order
<1>3. \A x \in live' : \E o \in live : x = [o EXCEPT !.tracked = FALSE]
  BY <1>1
<1> QED BY <1>2, <1>3

LEMMA PromptDropSession ==
  ASSUME TypeOK, PromptInv, DropSession, closeAll' = FALSE,
         \A s \in Sym : disk'.target[s] \in Lo..Hi
  PROVE  PromptInv'
<1>1. pos' = pos /\ target' = Flat /\ pc' = "down" /\ todo' = {}
  BY DEF DropSession, LeaveCycle
<1>2. OneCommitment'
  <2>1. \A x \in live' : pos'[x.sym] + Signed(x.side, x.qty) \in Lo..Hi
    BY <1>1, Relabelled DEF PromptInv, OneCommitment
  <2>2. ASSUME NEW x \in live', NEW y \in live', x.sym = y.sym PROVE x = y
    <3>1. PICK o \in live : x = [o EXCEPT !.tracked = FALSE] /\ x.sym = o.sym
      BY Relabelled
    <3>2. PICK r \in live : y = [r EXCEPT !.tracked = FALSE] /\ y.sym = r.sym
      BY Relabelled
    <3>3. o = r
      BY <2>2, <3>1, <3>2 DEF PromptInv, OneCommitment
    <3> QED BY <3>1, <3>2, <3>3
  <2> QED BY <2>1, <2>2 DEF OneCommitment
<1>3. \A x \in live' : x.qty > 0
  BY Relabelled DEF PromptInv
<1>4. \A s \in Sym : target'[s] \in Lo..Hi
  BY <1>1, RangeFacts DEF Flat
<1> QED BY <1>1, <1>2, <1>3, <1>4 DEF PromptInv, Working

LEMMA PromptEndSession ==
  ASSUME TypeOK, PromptInv, EndSession PROVE PromptInv'
<1>1. \A s \in Sym : disk'.target[s] \in Lo..Hi
  BY DEF EndSession, SaveLedger, PromptInv
<1>2. closeAll' = FALSE
  BY DEF EndSession, shared, PromptInv, TypeOK
<1> QED BY <1>1, <1>2, PromptDropSession DEF EndSession

LEMMA PromptStep ==
  ASSUME PromptSettlement, TypeOK, PromptInv, [Next]_vars PROVE PromptInv'
<1> USE DEF broker, feed, shared, cycle, timers, ledger
<1>1. CASE Connect
  <2>1. live = {} /\ UNCHANGED <<pos, live>>
    BY <1>1 DEF Connect, PromptSettlement
  <2>2. BrokerPart'
    BY <2>1, BrokerUnchanged
  <2>3. todo = {}
    BY <1>1 DEF Connect, PromptInv
  <2> QED BY <1>1, <2>1, <2>2, <2>3 DEF Connect, PromptInv, BrokerPart, Working
<1>2. CASE Superseded BY <1>2, PromptEndSession DEF Superseded
<1>3. CASE LinkLost BY <1>3, PromptEndSession DEF LinkLost
<1>24. CASE Panic
  <2>1. closeAll' = FALSE /\ \A s \in Sym : disk'.target[s] \in Lo..Hi
    BY <1>24 DEF Panic, PromptInv, TypeOK
  <2> QED BY <1>24, <2>1, PromptDropSession DEF Panic, Fails
<1>25. CASE Crash
  <2>1. \A s \in Sym : disk'.target[s] \in Lo..Hi
    BY <1>25, RangeFacts DEF Crash, NoLedger, Flat, PromptInv
  <2> QED BY <1>25, <2>1, PromptDropSession DEF Crash, Fails
<1>4. CASE BeginCycle
  <2>1. BrokerPart'
    BY <1>4, BrokerUnchanged DEF BeginCycle
  <2> QED BY <1>4, <2>1 DEF BeginCycle, PromptInv, BrokerPart, Working
<1>5. CASE ReadForClose BY <1>5 DEF ReadForClose, PromptInv
<1>6. CASE Halt BY <1>6 DEF Halt, PromptInv
<1>7. CASE Hold
  <2>1. BrokerPart'
    BY <1>7, BrokerUnchanged DEF Hold
  <2> QED BY <1>7, <2>1 DEF Hold, LeaveCycle, PromptInv, BrokerPart, Working
<1>8. CASE ReadPositions
  <2>1. BrokerPart'
    BY <1>8, BrokerUnchanged DEF ReadPositions
  <2>2. todo = {}
    BY <1>8 DEF ReadPositions, PromptInv
  <2> QED BY <1>8, <2>1, <2>2 DEF ReadPositions, LeaveCycle, PromptInv, BrokerPart, Working
<1>9. CASE OffHours
  <2>1. BrokerPart'
    BY <1>9, BrokerUnchanged DEF OffHours
  <2> QED BY <1>9, <2>1 DEF OffHours, LeaveCycle, PromptInv, BrokerPart, Working
<1>10. CASE ReadLive
  <2>1. BrokerPart'
    BY <1>10, BrokerUnchanged DEF ReadLive
  <2> QED BY <1>10, <2>1 DEF ReadLive, PromptInv, BrokerPart, Working
<1>11. CASE EndPass
  <2>1. BrokerPart'
    BY <1>11, BrokerUnchanged DEF EndPass
  <2>2. \A s \in Sym : disk'.target[s] \in Lo..Hi
    BY <1>11 DEF EndPass, SaveLedger, PromptInv
  <2> QED BY <1>11, <2>1, <2>2 DEF EndPass, LeaveCycle, PromptInv, BrokerPart, Working
<1>12. ASSUME NEW p \in Params, NEW connected \in Connected, Fetch(p, connected)
       PROVE  PromptInv'
  <2>1. BrokerPart'
    BY <1>12, BrokerUnchanged DEF Fetch
  <2>2. /\ \A s \in Sym : target'[s] \in Lo..Hi /\ disk'.target[s] \in Lo..Hi
        /\ \A i \in todo' : seenPos'[i.sym] + Signed(i.side, i.qty) \in Lo..Hi
    BY <1>12, FetchInRange
  <2> QED BY <1>12, <2>1, <2>2 DEF Fetch, PromptInv, BrokerPart, Working
<1>13. ASSUME NEW i \in todo, Flatten(i) PROVE PromptInv'
  BY <1>13 DEF Flatten, PromptInv
<1>14. ASSUME NEW i \in todo, PassOver(i) PROVE PromptInv'
  <2>1. BrokerPart'
    BY <1>14, BrokerUnchanged DEF PassOver
  <2> QED BY <1>14, <2>1 DEF PassOver, PromptInv, BrokerPart, Working
<1>15. ASSUME NEW i \in todo, Place(i) PROVE PromptInv'
  BY <1>15, PromptPlace
<1>16. ASSUME NEW s \in cooling, CooldownExpires(s) PROVE PromptInv'
  <2>1. BrokerPart'
    BY <1>16, BrokerUnchanged DEF CooldownExpires
  <2>2. /\ \A o \in live : o.sym # s
        /\ Working => seenPos[s] = pos[s]
    BY <1>16 DEF CooldownExpires, CooldownMayExpire, PromptSettlement, Working
  <2> QED BY <1>16, <2>1, <2>2 DEF CooldownExpires, PromptInv, BrokerPart, Working
<1>17. ASSUME NEW k \in backoff, BackoffExpires(k) PROVE PromptInv'
  <2>1. BrokerPart'
    BY <1>17, BrokerUnchanged DEF BackoffExpires
  <2> QED BY <1>17, <2>1 DEF BackoffExpires, PromptInv, BrokerPart, Working
<1>18. ASSUME NEW o \in live, Reject(o) PROVE PromptInv'
  <2>1. /\ live' = live \ {o} /\ pos' = pos /\ target' = target /\ disk' = disk /\ pc' = pc
        /\ closeAll' = closeAll /\ cooling' = cooling /\ seenPos' = seenPos /\ todo' = todo
    BY <1>18 DEF Reject
  <2> QED BY <2>1 DEF PromptInv, OneCommitment, Working
<1>19. ASSUME NEW o \in live, NEW n \in 1..o.qty, Fill(o, n) PROVE PromptInv'
  BY <1>19, PromptFill
<1>20. ASSUME NEW s \in Sym, NEW q \in MasterNets, MasterMoves(s, q) PROVE PromptInv'
  <2>1. BrokerPart'
    BY <1>20, BrokerUnchanged DEF MasterMoves
  <2> QED BY <1>20, <2>1 DEF MasterMoves, PromptInv, BrokerPart, Working
<1>21. CASE PressStart
  <2>1. BrokerPart'
    BY <1>21, BrokerUnchanged DEF PressStart
  <2> QED BY <1>21, <2>1 DEF PressStart, PromptInv, BrokerPart, Working
<1>22. CASE PressCloseAll BY <1>22 DEF PressCloseAll, Press, PromptSettlement
<1>23. CASE UNCHANGED vars
  <2>1. BrokerPart'
    BY <1>23, BrokerUnchanged DEF vars
  <2> QED BY <1>23, <2>1 DEF vars, PromptInv, BrokerPart, Working
<1> QED
  BY <1>1, <1>2, <1>3, <1>4, <1>5, <1>6, <1>7, <1>8, <1>9, <1>10, <1>11, <1>12, <1>13, <1>14,
     <1>15, <1>16, <1>17, <1>18, <1>19, <1>20, <1>21, <1>22, <1>23, <1>24, <1>25
  DEF Next, Engine, Timers, Environment

\* The inductive invariant of the trading loop under prompt settlement.
THEOREM PromptInvariant == ASSUME PromptSettlement PROVE Spec => [](TypeOK /\ PromptInv)
<1>1. Init => TypeOK /\ PromptInv
  BY TypeInit, PromptInit
<1>2. TypeOK /\ PromptInv /\ [Next]_vars => TypeOK' /\ PromptInv'
  BY TypeStep, PromptStep
<1> QED BY <1>1, <1>2, PTL DEF Spec

\* However reads, fills, rejections and passes interleave, no position leaves
\* the range of its targets, its start and flat: with a long-only range there is
\* no accidental short.
THEOREM NoOvershootHolds == ASSUME PromptSettlement PROVE Spec => []NoOvershoot
<1>1. PromptInv => NoOvershoot
  BY DEF PromptInv, NoOvershoot
<1> QED BY <1>1, PromptInvariant, PTL

-----------------------------------------------------------------------------
(* The loop implements the abstract account *)

LEMMA BrokerBarUnchanged ==
  ASSUME UNCHANGED <<pos, live>> PROVE UNCHANGED Committed!vars
  BY DEF Committed!vars, Destinations

LEMMA DestinationsRelabelled ==
  ASSUME TypeOK, DropSession PROVE UNCHANGED Committed!vars
<1>1. pos' = pos
  BY DEF DropSession
<1>2. ASSUME NEW s \in Sym PROVE Destinations'[s] = Destinations[s]
  <2>1. ASSUME NEW g \in Destinations[s] PROVE g \in Destinations'[s]
    <3>1. PICK o \in live : o.sym = s /\ g = pos[s] + Signed(o.side, o.qty)
      BY DEF Destinations
    <3>2. PICK x \in live' : x.sym = o.sym /\ x.side = o.side /\ x.qty = o.qty
      BY Relabelled
    <3> QED BY <1>1, <3>1, <3>2 DEF Destinations
  <2>2. ASSUME NEW g \in Destinations'[s] PROVE g \in Destinations[s]
    <3>1. PICK x \in live' : x.sym = s /\ g = pos[s] + Signed(x.side, x.qty)
      BY <1>1 DEF Destinations
    <3>2. PICK o \in live : x.sym = o.sym /\ x.side = o.side /\ x.qty = o.qty
      BY Relabelled
    <3> QED BY <3>1, <3>2 DEF Destinations
  <2> QED BY <2>1, <2>2
<1>3. Destinations' = Destinations
  BY <1>2 DEF Destinations
<1> QED BY <1>1, <1>3 DEF Committed!vars

\* Placing an order is a commitment.
LEMMA PlaceIsCommit ==
  ASSUME TypeOK, PromptInv, NEW i \in todo, Place(i) PROVE Committed!Commit(i.sym)
<1>1. /\ i.sym \in Sym /\ i.side \in Side /\ \A o \in live : o.sym # i.sym
      /\ WholeShares(i.qty) \in Nat /\ WholeShares(i.qty) > 0
      /\ pos[i.sym] + Signed(i.side, WholeShares(i.qty)) \in Lo..Hi
  BY PlaceCommits
<1>2. PICK o : /\ live' = live \cup {o}
               /\ o.sym = i.sym /\ o.side = i.side /\ o.qty = WholeShares(i.qty)
  BY PlaceCommits
<1>3. pos' = pos /\ pos[i.sym] \in Int
  BY <1>1 DEF Place, TypeOK
<1> DEFINE g == pos[i.sym] + Signed(i.side, WholeShares(i.qty))
<1>4. g \in (Lo..Hi) \ {pos[i.sym]}
  BY <1>1, <1>3 DEF Signed, Side
<1>5. Destinations[i.sym] = {}
  BY <1>1 DEF Destinations
<1>6. Destinations'[i.sym] = {g}
  <2>1. \A x \in live' : x.sym = i.sym <=> x = o
    BY <1>1, <1>2
  <2>2. {x \in live' : x.sym = i.sym} = {o}
    BY <1>2, <2>1
  <2> QED BY <1>1, <1>2, <1>3, <2>2 DEF Destinations
<1>7. ASSUME NEW s \in Sym, s # i.sym PROVE Destinations'[s] = Destinations[s]
  <2>1. {x \in live' : x.sym = s} = {x \in live : x.sym = s}
    BY <1>2, <1>7
  <2> QED BY <1>3, <2>1 DEF Destinations
<1>8. Destinations' = [Destinations EXCEPT ![i.sym] = {g}]
  BY <1>1, <1>6, <1>7 DEF Destinations
<1> QED BY <1>3, <1>4, <1>5, <1>8 DEF Committed!Commit

\* The destination of a symbol with an order in flight is that order's.
LEMMA OneDestination ==
  ASSUME TypeOK, PromptInv, NEW o \in live
  PROVE  /\ o.sym \in Sym
         /\ Destinations[o.sym] = {pos[o.sym] + Signed(o.side, o.qty)}
<1>1. o.sym \in Sym
  BY DEF TypeOK, Order
<1>2. {x \in live : x.sym = o.sym} = {o}
  BY DEF PromptInv, OneCommitment
<1> QED BY <1>1, <1>2 DEF Destinations

LEMMA RejectIsAbandon ==
  ASSUME TypeOK, PromptInv, NEW o \in live, Reject(o) PROVE Committed!Abandon(o.sym)
<1>1. o.sym \in Sym /\ Destinations[o.sym] # {}
  BY OneDestination
<1>2. live' = live \ {o} /\ pos' = pos
  BY DEF Reject
<1>3. Destinations'[o.sym] = {}
  BY <1>1, <1>2 DEF Destinations, PromptInv, OneCommitment
<1>4. ASSUME NEW s \in Sym, s # o.sym PROVE Destinations'[s] = Destinations[s]
  <2>1. {x \in live' : x.sym = s} = {x \in live : x.sym = s}
    BY <1>2, <1>4
  <2> QED BY <1>2, <2>1 DEF Destinations
<1>5. Destinations' = [Destinations EXCEPT ![o.sym] = {}]
  BY <1>1, <1>3, <1>4 DEF Destinations
<1> QED BY <1>1, <1>2, <1>5 DEF Committed!Abandon

LEMMA FillIsMove ==
  ASSUME TypeOK, PromptInv, NEW o \in live, NEW n \in 1..o.qty, Fill(o, n)
  PROVE  Committed!Move(o.sym)
<1>1. /\ o.sym \in Sym /\ o.side \in Side /\ o.qty \in Nat /\ n \in Nat /\ n >= 1
      /\ pos' = [pos EXCEPT ![o.sym] = pos[o.sym] + Signed(o.side, n)]
  BY FillMoves
<1>2. pos[o.sym] \in Int /\ pos'[o.sym] = pos[o.sym] + Signed(o.side, n)
  BY <1>1 DEF TypeOK
<1> DEFINE g == pos[o.sym] + Signed(o.side, o.qty)
           p == pos[o.sym] + Signed(o.side, n)
<1>3. Destinations[o.sym] = {g}
  BY OneDestination
<1>4. p \in Committed!Between(pos[o.sym], g) \ {pos[o.sym]}
  BY <1>1, <1>2 DEF Committed!Between, Signed, Side
<1>5. p = g <=> n = o.qty
  BY <1>1, <1>2 DEF Signed, Side
<1>6. \A x \in live \ {o} : x.sym # o.sym
  BY DEF PromptInv, OneCommitment
<1>7. /\ Destinations'[o.sym] = IF p = g THEN {} ELSE {g}
      /\ \A s \in Sym \ {o.sym} : {x \in live' : x.sym = s} = {x \in live : x.sym = s}
  <2>1. CASE n = o.qty
    <3>1. live' = live \ {o}
      BY <2>1, FillMoves
    <3>2. {x \in live' : x.sym = o.sym} = {}
      BY <1>6, <3>1
    <3>3. Destinations'[o.sym] = {}
      BY <1>1, <3>2 DEF Destinations
    <3> QED BY <1>5, <2>1, <3>1, <3>3
  <2>2. CASE n # o.qty
    <3>1. PICK r : /\ live' = (live \ {o}) \cup {r}
                   /\ r.sym = o.sym /\ r.side = o.side /\ r.qty = o.qty - n
      BY <2>2, FillMoves
    <3>2. {x \in live' : x.sym = o.sym} = {r}
      BY <1>6, <3>1
    <3>3. pos'[o.sym] + Signed(r.side, r.qty) = g
      BY <1>1, <1>2, <3>1 DEF Signed, Side
    <3>4. Destinations'[o.sym] = {g}
      BY <1>1, <3>2, <3>3 DEF Destinations
    <3> QED BY <1>5, <2>2, <3>1, <3>4
  <2> QED BY <2>1, <2>2
<1>8. ASSUME NEW s \in Sym \ {o.sym} PROVE Destinations'[s] = Destinations[s]
  <2>1. pos'[s] = pos[s]
    BY <1>1, <1>8 DEF TypeOK
  <2> QED BY <1>7, <2>1 DEF Destinations
<1>9. Destinations' = [Destinations EXCEPT ![o.sym] = IF p = g THEN {} ELSE Destinations[o.sym]]
  BY <1>1, <1>3, <1>7, <1>8 DEF Destinations
<1>10. pos' = [pos EXCEPT ![o.sym] = p]
  BY <1>1
<1> HIDE DEF g, p
<1> QED BY <1>3, <1>4, <1>9, <1>10 DEF Committed!Move

LEMMA StepRefines ==
  ASSUME PromptSettlement, TypeOK, PromptInv, [Next]_vars PROVE [Committed!Next]_(Committed!vars)
<1> USE DEF broker, feed, shared, cycle, timers, ledger
<1>1. CASE Superseded \/ LinkLost
  BY <1>1, DestinationsRelabelled DEF Superseded, LinkLost, EndSession
<1>2. CASE Panic \/ Crash
  BY <1>2, DestinationsRelabelled DEF Panic, Crash, Fails
<1>3. ASSUME NEW i \in todo, Flatten(i) PROVE FALSE
  BY <1>3 DEF Flatten, PromptInv
<1>4. ASSUME NEW i \in todo, Place(i) PROVE Committed!Next
  BY <1>4, PlaceIsCommit, PlaceCommits DEF Committed!Next
<1>5. ASSUME NEW o \in live, Reject(o) PROVE Committed!Next
  BY <1>5, RejectIsAbandon, OneDestination DEF Committed!Next
<1>6. ASSUME NEW o \in live, NEW n \in 1..o.qty, Fill(o, n) PROVE Committed!Next
  BY <1>6, FillIsMove, OneDestination DEF Committed!Next
<1>7. CASE UNCHANGED <<pos, live>>
  BY <1>7, BrokerBarUnchanged
<1>8. CASE \/ Connect \/ BeginCycle \/ ReadForClose \/ Halt \/ Hold \/ ReadPositions
           \/ OffHours \/ ReadLive \/ EndPass
           \/ \E p \in Params, connected \in Connected : Fetch(p, connected)
           \/ \E i \in todo : PassOver(i)
  <2>1. UNCHANGED <<pos, live>>
    BY <1>8 DEF Connect, BeginCycle, ReadForClose, Halt, Hold, ReadPositions, OffHours,
                ReadLive, EndPass, Fetch, PassOver
  <2> QED BY <1>7, <2>1
<1>9. CASE Timers \/ PressStart \/ PressCloseAll \/ UNCHANGED vars
           \/ \E s \in Sym, q \in MasterNets : MasterMoves(s, q)
  <2>1. UNCHANGED <<pos, live>>
    BY <1>9 DEF Timers, CooldownExpires, BackoffExpires, PressStart, PressCloseAll,
                MasterMoves, vars
  <2> QED BY <1>7, <2>1
<1> QED
  BY <1>1, <1>2, <1>3, <1>4, <1>5, <1>6, <1>8, <1>9 DEF Next, Engine, Environment

\* The loop makes one committed move at a time in every symbol: it implements
\* the abstract account.
THEOREM ImplementsCommittedMoves == ASSUME PromptSettlement PROVE Spec => OneMoveAtATime
<1>1. Init => Committed!Init
  <2> SUFFICES ASSUME Init PROVE Committed!Init
    OBVIOUS
  <2>1. pos \in [Sym -> InitNets] /\ live = {}
    BY DEF Init
  <2>2. pos \in [Sym -> Lo..Hi]
    BY <2>1, QuantityAssumption
  <2>3. Destinations = [s \in Sym |-> {}]
    BY <2>1 DEF Destinations
  <2> QED BY <2>2, <2>3 DEF Committed!Init
<1>2. TypeOK /\ PromptInv /\ [Next]_vars => [Committed!Next]_(Committed!vars)
  BY StepRefines
<1> QED BY <1>1, <1>2, PromptInvariant, PTL DEF Spec, OneMoveAtATime, Committed!Spec

-----------------------------------------------------------------------------
(* No stacking, whatever the latency, when the live orders can be read *)

ReliableLiveReads == "live_read" \notin Faults

LEMMA StackInit == Init => StackInv
  BY DEF Init, StackInv

LEMMA StackStep ==
  ASSUME ReliableLiveReads, TypeOK, StackInv, [Next]_vars PROVE StackInv'
<1> USE DEF broker, feed, shared, cycle, timers, ledger, StackInv
<1>1. CASE Connect BY <1>1 DEF Connect
<1>2. ASSUME DropSession PROVE StackInv'
  BY <1>2 DEF DropSession, LeaveCycle
<1>3. CASE Superseded \/ LinkLost \/ Panic \/ Crash
  BY <1>2, <1>3 DEF Superseded, LinkLost, EndSession, Panic, Crash, Fails
<1>4. CASE BeginCycle BY <1>4 DEF BeginCycle
<1>5. CASE ReadForClose BY <1>5 DEF ReadForClose
<1>6. CASE Halt BY <1>6 DEF Halt
<1>7. CASE Hold BY <1>7 DEF Hold, LeaveCycle
<1>8. CASE ReadPositions BY <1>8 DEF ReadPositions, LeaveCycle
<1>9. CASE OffHours BY <1>9 DEF OffHours, LeaveCycle
<1>10. CASE ReadLive
  <2>1. busy' = {<<o.sym, o.side>> : o \in live} /\ live' = live
    BY <1>10 DEF ReadLive, MayFail, ReliableLiveReads
  <2> QED BY <1>10, <2>1 DEF ReadLive
<1>11. CASE EndPass BY <1>11 DEF EndPass, LeaveCycle
<1>12. ASSUME NEW p \in Params, NEW connected \in Connected, Fetch(p, connected)
       PROVE  StackInv'
  BY <1>12 DEF Fetch
<1>13. ASSUME NEW i \in todo, Flatten(i) PROVE StackInv'
  BY <1>13 DEF Flatten
<1>14. ASSUME NEW i \in todo, PassOver(i) PROVE StackInv'
  BY <1>14 DEF PassOver
<1>15. ASSUME NEW i \in todo, Place(i) PROVE StackInv'
  <2>1. PICK o : live' = live \cup {o} /\ o.sym = i.sym
    BY <1>15, SubmitAdds DEF Place
  <2> QED BY <1>15, <2>1 DEF Place
<1>16. ASSUME NEW s \in cooling, CooldownExpires(s) PROVE StackInv'
  BY <1>16 DEF CooldownExpires, CooldownMayExpire
<1>17. ASSUME NEW k \in backoff, BackoffExpires(k) PROVE StackInv'
  BY <1>17 DEF BackoffExpires
<1>18. ASSUME NEW o \in live, Reject(o) PROVE StackInv'
  BY <1>18 DEF Reject
<1>19. ASSUME NEW o \in live, NEW n \in 1..o.qty, Fill(o, n) PROVE StackInv'
  <2>1. ASSUME NEW x \in live' PROVE \E y \in live : x.sym = y.sym /\ x.side = y.side
    BY <1>19, <2>1 DEF Fill, TypeOK, Order
  <2> QED BY <1>19, <2>1 DEF Fill
<1>20. ASSUME NEW s \in Sym, NEW q \in MasterNets, MasterMoves(s, q) PROVE StackInv'
  BY <1>20 DEF MasterMoves
<1>21. CASE PressStart BY <1>21 DEF PressStart
<1>22. CASE PressCloseAll BY <1>22 DEF PressCloseAll
<1>23. CASE UNCHANGED vars BY <1>23 DEF vars
<1> QED
  BY <1>1, <1>3, <1>4, <1>5, <1>6, <1>7, <1>8, <1>9, <1>10, <1>11, <1>12, <1>13, <1>14,
     <1>15, <1>16, <1>17, <1>18, <1>19, <1>20, <1>21, <1>22, <1>23
  DEF Next, Engine, Timers, Environment

\* The action PassNeverStacks is about.
NoStackStep ==
  \A o \in live' :
    o.tracked /\ (\A x \in live : x.id # o.id)
      => \A x \in live : <<x.sym, x.side>> # <<o.sym, o.side>>

\* A step that brings no new order that the session tracks.
LEMMA NothingNew ==
  ASSUME \A o \in live' : o.tracked => \E x \in live : x.id = o.id
  PROVE  NoStackStep
  BY DEF NoStackStep

LEMMA NoStack == ASSUME TypeOK, StackInv, [Next]_vars PROVE NoStackStep
<1> USE DEF broker, feed, shared, cycle, timers, ledger
<1>1. ASSUME DropSession PROVE NoStackStep
  <2>1. \A o \in live' : ~o.tracked
    BY <1>1 DEF DropSession, TypeOK, Order
  <2> QED BY <2>1 DEF NoStackStep
<1>2. CASE Superseded \/ LinkLost \/ Panic \/ Crash
  BY <1>1, <1>2 DEF Superseded, LinkLost, EndSession, Panic, Crash, Fails
<1>3. ASSUME NEW i \in todo, Flatten(i) PROVE NoStackStep
  <2>1. \A o \in live' : o.tracked => o \in live
    BY <1>3 DEF Flatten, SubmitOrder
  <2> QED BY <2>1, NothingNew
<1>4. ASSUME NEW i \in todo, Place(i) PROVE NoStackStep
  <2>1. PICK o : live' = live \cup {o} /\ o.sym = i.sym /\ o.side = i.side
    BY <1>4, SubmitAdds DEF Place
  <2>2. <<i.sym, i.side>> \notin busy /\ i.sym \notin ordered /\ pc = "submit"
    BY <1>4 DEF Place, Suppressed, StackInv
  <2>3. \A x \in live : <<x.sym, x.side>> # <<o.sym, o.side>>
    BY <2>1, <2>2 DEF StackInv
  <2> QED BY <2>1, <2>3 DEF NoStackStep
<1>5. ASSUME NEW o \in live, Reject(o) PROVE NoStackStep
  BY <1>5, NothingNew DEF Reject
<1>6. ASSUME NEW o \in live, NEW n \in 1..o.qty, Fill(o, n) PROVE NoStackStep
  <2>1. ASSUME NEW x \in live' PROVE \E y \in live : x.id = y.id
    BY <1>6, <2>1 DEF Fill, TypeOK, Order
  <2> QED BY <2>1, NothingNew
<1>7. CASE UNCHANGED live BY <1>7, NothingNew
<1>8. CASE \/ Connect \/ BeginCycle \/ ReadForClose \/ Halt \/ Hold \/ ReadPositions
           \/ OffHours \/ ReadLive \/ EndPass
           \/ \E p \in Params, connected \in Connected : Fetch(p, connected)
           \/ \E i \in todo : PassOver(i)
  <2>1. UNCHANGED live
    BY <1>8 DEF Connect, BeginCycle, ReadForClose, Halt, Hold, ReadPositions, OffHours,
                ReadLive, EndPass, Fetch, PassOver
  <2> QED BY <1>7, <2>1
<1>9. CASE Timers \/ PressStart \/ PressCloseAll \/ UNCHANGED vars
           \/ \E s \in Sym, q \in MasterNets : MasterMoves(s, q)
  <2>1. UNCHANGED live
    BY <1>9 DEF Timers, CooldownExpires, BackoffExpires, PressStart, PressCloseAll,
                MasterMoves, vars
  <2> QED BY <1>7, <2>1
<1> QED
  BY <1>2, <1>3, <1>4, <1>5, <1>6, <1>8, <1>9 DEF Next, Engine, Environment

\* No order a pass submits meets another one on its symbol and side, however
\* late orders settle and whatever CLOSE ALL or an earlier session left behind.
THEOREM PassNeverStacksHolds == ASSUME ReliableLiveReads PROVE Spec => PassNeverStacks
<1>1. Init => StackInv
  BY StackInit
<1>2. TypeOK /\ StackInv /\ [Next]_vars => StackInv'
  BY StackStep
<1>3. TypeOK /\ StackInv /\ [Next]_vars => [NoStackStep]_vars
  BY NoStack
<1>4. Spec => [][NoStackStep]_vars
  BY <1>1, <1>2, <1>3, TypeCorrect, PTL DEF Spec
<1> QED BY <1>4 DEF NoStackStep, PassNeverStacks

-----------------------------------------------------------------------------
(* The ledger survives *)

DiskWorks == Faults \cap {"save", "torn"} = {}

\* While a session runs, what it would lose is on disk: nothing.
Saved == pc # "down" => disk = [seen |-> seenMaster, target |-> target]

LEMMA SaveWrites ==
  ASSUME DiskWorks, NEW seen, NEW locked, SaveLedger(seen, locked)
  PROVE  disk' = [seen |-> seen, target |-> locked]
  BY DEF DiskWorks, SaveLedger

\* The symbols the gate does not find changed keep their targets, and a gate that
\* finds none leaves the ledger as it is.
LEMMA FetchKeeps ==
  ASSUME DiskWorks, TypeOK, Saved, NEW p, NEW connected, Fetch(p, connected)
  PROVE  /\ Saved'
         /\ \A s \in Sym : target'[s] # target[s] => master[s] # seenMaster[s]
<1>0. pc = "fetch" /\ pc' = "live" /\ disk = [seen |-> seenMaster, target |-> target]
  BY DEF Fetch, Saved
<1>1. CASE ~RatioKnown(p)
  BY <1>0, <1>1 DEF Fetch, ledger, Saved
<1>2. CASE RatioKnown(p)
  <2>1. /\ target' = [s \in Sym |-> IF s \in Changed THEN GateTarget(master[s], p)
                                                     ELSE target[s]]
        /\ seenMaster' = master
        /\ IF Changed = {} THEN UNCHANGED disk ELSE SaveLedger(master, target')
    BY <1>2 DEF Fetch
  <2>2. \A s \in Sym : target'[s] # target[s] => master[s] # seenMaster[s]
    BY <2>1 DEF Changed
  <2>3. CASE Changed # {}
    <3>1. disk' = [seen |-> master, target |-> target']
      BY <2>1, <2>3, SaveWrites
    <3> QED BY <2>1, <2>2, <3>1 DEF Saved
  <2>4. CASE Changed = {}
    <3>1. \A s \in Sym : master[s] = seenMaster[s]
      BY <2>4 DEF Changed
    <3>2. master = seenMaster
      BY <3>1 DEF TypeOK
    <3>3. target' = target
      BY <2>1, <2>4 DEF TypeOK
    <3> QED BY <1>0, <2>1, <2>2, <2>4, <3>2, <3>3 DEF Saved
  <2> QED BY <2>3, <2>4
<1> QED BY <1>1, <1>2

\* Every step keeps the file in line with the session, and what counts of the
\* ledger changes only where the master did.
HeldStep == \A s \in Sym : Kept'.target[s] # Kept.target[s] => master[s] # Kept.seen[s]

LEMMA LedgerStep ==
  ASSUME DiskWorks, TypeOK, Saved, [Next]_vars PROVE Saved' /\ HeldStep
<1>1. ASSUME UNCHANGED <<pc, seenMaster, target, disk>> PROVE Saved' /\ HeldStep
  BY <1>1 DEF Saved, HeldStep, Kept
<1>2. ASSUME pc # "down", pc' # "down", UNCHANGED <<seenMaster, target, disk>>
      PROVE  Saved' /\ HeldStep
  BY <1>2 DEF Saved, HeldStep, Kept
<1>3. ASSUME pc # "down", pc' = "down", disk' = [seen |-> seenMaster, target |-> target]
      PROVE  Saved' /\ HeldStep
  BY <1>3 DEF Saved, HeldStep, Kept
<1>4. CASE Connect
  <2>1. /\ pc = "down" /\ pc' = "top" /\ disk' = disk
        /\ seenMaster' = disk.seen /\ target' = disk.target
    BY <1>4 DEF Connect
  <2>2. disk = [seen |-> disk.seen, target |-> disk.target]
    BY DEF TypeOK
  <2> QED BY <2>1, <2>2 DEF Saved, HeldStep, Kept
<1>5. CASE Superseded \/ LinkLost
  <2>1. pc # "down" /\ pc' = "down" /\ SaveLedger(seenMaster, target)
    BY <1>5 DEF Superseded, LinkLost, EndSession, DropSession
  <2> QED BY <1>3, <2>1, SaveWrites
<1>6. CASE Panic \/ Crash
  <2>1. pc # "down" /\ pc' = "down" /\ disk' = disk
    BY <1>6 DEF Panic, Crash, Fails, DropSession, DiskWorks
  <2> QED BY <1>3, <2>1 DEF Saved
<1>7. CASE \/ BeginCycle \/ ReadForClose \/ Halt \/ Hold \/ ReadPositions \/ OffHours \/ ReadLive
  <2>1. pc # "down" /\ pc' # "down" /\ UNCHANGED <<seenMaster, target, disk>>
    BY <1>7 DEF BeginCycle, ReadForClose, Halt, Hold, ReadPositions, OffHours, ReadLive, ledger
  <2> QED BY <1>2, <2>1
<1>8. CASE EndPass
  <2>1. pc = "submit" /\ pc' = "top" /\ UNCHANGED <<seenMaster, target>>
    BY <1>8 DEF EndPass
  <2>2. UNCHANGED disk
    BY <1>8, <2>1, SaveWrites DEF EndPass, Saved
  <2> QED BY <1>2, <2>1, <2>2
<1>9. ASSUME NEW p \in Params, NEW connected \in Connected, Fetch(p, connected)
      PROVE  Saved' /\ HeldStep
  <2>1. pc = "fetch" /\ pc' = "live"
    BY <1>9 DEF Fetch
  <2> QED BY <1>9, <2>1, FetchKeeps DEF HeldStep, Kept
<1>10. ASSUME NEW i \in todo, Flatten(i) \/ PassOver(i) \/ Place(i) PROVE Saved' /\ HeldStep
  BY <1>1, <1>10 DEF Flatten, PassOver, Place, ledger
<1>11. CASE Timers \/ Environment \/ UNCHANGED vars
  <2>1. UNCHANGED <<pc, seenMaster, target, disk>>
    BY <1>11
    DEF Timers, CooldownExpires, BackoffExpires, Environment, Reject, Fill, MasterMoves,
        PressStart, PressCloseAll, ledger, vars
  <2> QED BY <1>1, <2>1
<1> QED
  BY <1>4, <1>5, <1>6, <1>7, <1>8, <1>9, <1>10, <1>11 DEF Next, Engine

\* A restart resumes the same matched structure: through crashes, panics and lost
\* links a target changes only where the master's net did, whatever the balances
\* have become, as long as the file can be written whole.
THEOREM TargetsHeldAlways == ASSUME DiskWorks PROVE Spec => TargetsHeld
<1>1. Init => Saved
  BY DEF Init, Saved
<1>2. TypeOK /\ Saved /\ [Next]_vars => Saved' /\ [HeldStep]_vars
  BY LedgerStep
<1>3. Spec => [][HeldStep]_vars
  BY <1>1, <1>2, TypeCorrect, PTL DEF Spec
<1> QED BY <1>3 DEF HeldStep, TargetsHeld

-----------------------------------------------------------------------------
(* A halt stays *)

\* Once a CLOSE ALL has halted trading the engine decides on no order until the
\* next START, across lost links and new sessions.
THEOREM HaltedHoldsAlways == Spec => []HaltedHolds
<1>1. Init => HaltedHolds
  BY DEF Init, HaltedHolds
<1>2. ASSUME TypeOK, HaltedHolds, [Next]_vars PROVE HaltedHolds'
  <2>1. ASSUME pc' \notin {"fetch", "live", "submit"} PROVE HaltedHolds'
    BY <2>1, Zenon DEF HaltedHolds
  <2>2. ASSUME pc \in {"fetch", "live", "submit"}, UNCHANGED halted PROVE HaltedHolds'
    BY <1>2, <2>2, Zenon DEF HaltedHolds
  <2>3. ASSUME UNCHANGED <<halted, pc>> PROVE HaltedHolds'
    BY <1>2, <2>3, Zenon DEF HaltedHolds
  <2>13. CASE Superseded \/ LinkLost \/ Panic \/ Crash
    <3>1. pc' = "down"
      BY <2>13, Zenon DEF Superseded, LinkLost, EndSession, Panic, Crash, Fails, DropSession
    <3> QED BY <2>1, <3>1
  <2>4. CASE Connect \/ ReadForClose \/ Halt \/ Hold \/ EndPass
    BY <2>1, <2>4
    DEF Connect, ReadForClose, Halt, Hold, EndPass
  <2>5. CASE OffHours
    BY <2>1, <2>5 DEF OffHours
  <2>6. CASE BeginCycle
    <3>1. pc' \in {"close", "read"}
      BY <2>6, Zenon DEF BeginCycle
    <3> QED BY <2>1, <3>1
  <2>7. CASE ReadPositions
    <3>1. CASE halted
      <4>1. pc' = "top"
        BY <2>7, <3>1, Zenon DEF ReadPositions
      <4> QED BY <2>1, <4>1
    <3>2. CASE ~halted
      <4>1. UNCHANGED halted
        BY <2>7, Zenon DEF ReadPositions, shared
      <4> QED BY <3>2, <4>1, Zenon DEF HaltedHolds
    <3> QED BY <3>1, <3>2
  <2>8. CASE PressStart
    BY <2>8, Zenon DEF PressStart, HaltedHolds
  <2>9. CASE ReadLive
    <3>1. pc = "live" /\ UNCHANGED halted
      BY <2>9, Zenon DEF ReadLive, shared
    <3> QED BY <2>2, <3>1
  <2>10. CASE \E p \in Params, connected \in Connected : Fetch(p, connected)
    <3>1. pc = "fetch" /\ UNCHANGED halted
      BY <2>10, Zenon DEF Fetch, shared
    <3> QED BY <2>2, <3>1
  <2>11. CASE \/ \E i \in todo : Flatten(i) \/ PassOver(i) \/ Place(i)
              \/ Timers \/ PressCloseAll \/ UNCHANGED vars
    <3>1. UNCHANGED <<halted, pc>>
      BY <2>11, Zenon
      DEF Flatten, PassOver, Place, Timers, CooldownExpires, BackoffExpires,
          PressCloseAll, shared, vars
    <3> QED BY <2>3, <3>1
  <2>12. CASE \/ \E o \in live : Reject(o) \/ \E n \in 1..o.qty : Fill(o, n)
              \/ \E s \in Sym, q \in MasterNets : MasterMoves(s, q)
    <3>1. UNCHANGED <<halted, pc>>
      BY <2>12, Zenon DEF Reject, Fill, MasterMoves, shared
    <3> QED BY <2>3, <3>1
  <2> QED
    BY <1>2, <2>4, <2>5, <2>6, <2>7, <2>8, <2>9, <2>10, <2>11, <2>12, <2>13, Zenon
    DEF Next, Engine, Environment
<1> QED BY <1>1, <1>2, TypeCorrect, PTL DEF Spec
=============================================================================
