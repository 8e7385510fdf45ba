------------------------------ MODULE TradeLoop ------------------------------
(***************************************************************************)
(* The client's engine session (pax-client/src/engine.rs, run_session)     *)
(* against its broker account and the master's feed.                       *)
(*                                                                         *)
(* The engine is one thread that walks through the stages of a cycle; the  *)
(* broker fills and rejects its market orders, the master moves, timers    *)
(* run out and the operator presses buttons between any two of its steps.  *)
(* Everything the engine decides, it decides from what it read earlier in  *)
(* the cycle.                                                              *)
(***************************************************************************)
EXTENDS Reconcile

CONSTANTS
  MasterNets,        \* net quantities, in whole shares, the master may hold
  InitMasterNets,    \* those it may hold when START is pressed
  InitNets,          \* net quantities the client may hold when START is pressed
  Params,            \* the SizingParams a cycle may read
  LongOnly,          \* the trade mode
  NewOnly,           \* the execution mode
  EmptyMasterGuard,  \* reconcile's empty_master_guard
  Latency,           \* how quickly orders settle, see CooldownMayExpire
  Faults,            \* what may go wrong in the environment
  Buttons,           \* the buttons the operator uses after the first START
  Oid,               \* order ids (bounds the orders in flight)
  MaxMoves,          \* bound on the master's position changes
  MaxPresses,        \* bound on the operator's presses and the program's failures
  Lo, Hi             \* every target and every initial position lies in Lo..Hi

AllFaults == {"margin_read", "position_read", "snapshot", "master_down",
              "off_hours", "live_read", "place", "reject", "margin", "reconnect",
              "panic", "crash", "torn", "save"}

\* The net target the source-change gate locks for a master quantity.
GateTarget(net, p) == ClampLong(LongOnly, TargetNetQty(net, p))

ASSUME ModeAssumption ==
  /\ LongOnly \in BOOLEAN /\ NewOnly \in BOOLEAN
  /\ Latency \in {"prompt", "slow", "unbounded"}
  /\ Faults \subseteq AllFaults
  /\ Buttons \subseteq {"START", "CLOSE ALL"}
  /\ EmptyMasterGuard \in Nat
  /\ MaxMoves \in Nat /\ MaxPresses \in Nat

ASSUME QuantityAssumption ==
  /\ MasterNets \subseteq Int /\ InitMasterNets \subseteq MasterNets
  /\ \A q \in MasterNets : q % Unit = 0
  /\ Lo \in Int /\ Hi \in Int /\ Lo <= 0 /\ 0 <= Hi
  /\ InitNets \subseteq Lo..Hi
  /\ \A q \in MasterNets, p \in Params : RatioKnown(p) => GateTarget(q, p) \in Lo..Hi

VARIABLES
  \* the broker
  pos,        \* the account's positions
  live,       \* our market orders in flight
  rejects,    \* rejections in the order stream that the engine has not drained
  \* the master's feed
  master,     \* the positions the next snapshot will carry
  moves,      \* position changes of the master so far
  \* shared with the operator's window
  closeAll,   \* CLOSE ALL pressed and not yet taken
  halted,     \* trading is halted after a CLOSE ALL
  restart,    \* START pressed since this session began
  presses,    \* buttons pressed and failures of the program so far
  \* the session
  pc,         \* the stage the engine thread has reached
  seenPos,    \* client_positions as read in this cycle
  todo,       \* intents of this pass not yet handled
  busy,       \* active_market_sides as read in this cycle
  ordered,    \* symbols ordered in this pass
  cooling,    \* symbols whose cooldown is running
  backoff,    \* (symbol, side) pairs in their post-rejection backoff
  seenMaster, \* seen_master_net: the net each target was locked against
  target,     \* locked_targets
  disk,       \* the ledger file, as ledger::load would return it
  base        \* baseline_symbols: {} until captured, then one set in a set

broker  == <<pos, live, rejects>>
feed    == <<master, moves>>
shared  == <<closeAll, halted, restart, presses>>
cycle   == <<seenPos, todo, busy, ordered>>
timers  == <<cooling, backoff>>
ledger  == <<seenMaster, target, disk>>
vars    == <<broker, feed, shared, pc, cycle, timers, ledger, base>>

Stage == {"down", "top", "close", "flatten", "read", "fetch", "live", "submit"}

Flat == [s \in Sym |-> 0]

\* A missing, unreadable or half-written file loads as two empty maps.
NoLedger == [seen |-> Flat, target |-> Flat]

Order == [id : Oid, sym : Sym, side : Side, qty : Nat, tracked : BOOLEAN]

Init ==
  /\ pos \in [Sym -> InitNets]
  /\ live = {} /\ rejects = {}
  /\ master \in [Sym -> InitMasterNets] /\ moves = 0
  /\ closeAll = FALSE /\ halted = FALSE /\ restart = FALSE /\ presses = 0
  /\ pc = "down"
  /\ seenPos = Flat /\ todo = {} /\ busy = {} /\ ordered = {}
  /\ cooling = {} /\ backoff = {}
  /\ seenMaster = Flat /\ target = Flat /\ disk = NoLedger
  /\ base = {}

MayFail(fault) == IF fault \in Faults THEN BOOLEAN ELSE {FALSE}

-----------------------------------------------------------------------------
(* Session start and end *)

\* The loop's locals of one cycle go out of scope.
LeaveCycle ==
  /\ seenPos' = Flat /\ todo' = {} /\ busy' = {} /\ ordered' = {}

\* Mutant: the file is written before the new targets are locked.
SaveLedgerEarly(seen, locked) == disk' = [seen |-> seenMaster, target |-> target]

\* ledger::save is best-effort: an I/O error leaves the file as it was.
SaveLedger(seen, locked) ==
  \/ disk' = [seen |-> seen, target |-> locked]
  \/ "save" \in Faults /\ UNCHANGED disk

\* A session connects and loads the ledger; timers, placed orders and the
\* New-Only baseline start empty.  Prompt settlement covers the reconnect
\* throttle too: nothing from the session before is in flight by now.
Connect ==
  /\ pc = "down"
  /\ Latency = "prompt" => live = {}
  /\ pc' = "top"
  /\ restart' = FALSE
  /\ seenMaster' = disk.seen /\ target' = disk.target
  /\ UNCHANGED <<broker, feed, closeAll, halted, presses, cycle, timers, disk, base>>

\* A session's locals are gone; orders in flight stay at the broker, but no later
\* session knows their ids.
DropSession ==
  /\ pc' = "down"
  /\ LeaveCycle
  /\ cooling' = {} /\ backoff' = {} /\ base' = {}
  /\ seenMaster' = Flat /\ target' = Flat
  /\ rejects' = {}
  /\ live' = {[o EXCEPT !.tracked = FALSE] : o \in live}
  /\ UNCHANGED <<pos, feed>>

\* A session that ends by itself saves its ledger.
EndSession == SaveLedger(seenMaster, target) /\ DropSession /\ UNCHANGED shared

\* A START since the session began ends it at the top of the loop.
Superseded == pc = "top" /\ restart /\ EndSession

\* A dead link, noticed by the heartbeat or by a failing read.
LinkLost == "reconnect" \in Faults /\ pc \in {"top", "read"} /\ EndSession

Fails(how) ==
  /\ how \in Faults /\ pc # "down" /\ presses < MaxPresses
  /\ presses' = presses + 1
  /\ DropSession

\* A panic unwinds past the final save; engine_main catches it and stops the engine.
\* The START that resumes it, and clears a halt, is taken together with it.
Panic == Fails("panic") /\ halted' = FALSE /\ UNCHANGED <<disk, closeAll, restart>>

\* The process dies and is started anew: what the window shared is gone as well.
\* Within a save, half of the file may have been written.
Crash ==
  /\ Fails("crash")
  /\ closeAll' = FALSE /\ halted' = FALSE /\ restart' = FALSE
  /\ \/ UNCHANGED disk
     \/ "torn" \in Faults /\ pc \in {"top", "live"} /\ disk' = NoLedger

-----------------------------------------------------------------------------
(* The cycle *)

\* Drain the order stream: a rejected (symbol, side) starts its backoff.
\* Then take a pending CLOSE ALL.
BeginCycle ==
  /\ pc = "top" /\ ~restart
  /\ backoff' = backoff \cup rejects
  /\ rejects' = {}
  /\ closeAll' = FALSE
  /\ pc' = IF closeAll THEN "close" ELSE "read"
  /\ UNCHANGED <<pos, live, feed, halted, restart, presses, cycle, cooling, ledger, base>>

\* do_close_all reads the positions; a failed read counts as an empty book.
ReadForClose ==
  /\ pc = "close"
  /\ \E failed \in MayFail("position_read") :
       todo' = {Intent(s, Closing(pos[s]), Abs(pos[s]), "CloseOrphan") :
                  s \in IF failed THEN {} ELSE Held(pos)}
  /\ pc' = "flatten"
  /\ UNCHANGED <<broker, feed, shared, seenPos, busy, ordered, timers, ledger, base>>

NewId == CHOOSE id \in Oid : \A o \in live : o.id # id

\* submit_order reaches the broker.
SubmitOrder(i, tracked) ==
  /\ \E id \in Oid : \A o \in live : o.id # id
  /\ live' = live \cup {[id |-> NewId, sym |-> i.sym, side |-> i.side,
                         qty |-> WholeShares(i.qty), tracked |-> tracked]}

\* do_close_all submits one market order per position, asking nothing about
\* orders in flight and starting no cooldown.
Flatten(i) ==
  /\ pc = "flatten" /\ i \in todo
  /\ todo' = todo \ {i}
  /\ \/ /\ WholeShares(i.qty) > 0
        /\ SubmitOrder(i, FALSE)
     \/ /\ WholeShares(i.qty) = 0 \/ "place" \in Faults
        /\ UNCHANGED live
  /\ UNCHANGED <<pos, rejects, feed, shared, pc, seenPos, busy, ordered, timers,
                 ledger, base>>

Halt ==
  /\ pc = "flatten" /\ todo = {}
  /\ halted' = TRUE
  /\ pc' = "read"
  /\ UNCHANGED <<broker, feed, closeAll, restart, presses, cycle, timers, ledger, base>>

\* The cycle is cut short: margin unreadable, drawdown limit hit, server
\* unreachable or its snapshot taken for a partial one.
Hold ==
  /\ \/ pc = "read" /\ "margin_read" \in Faults
     \/ pc = "fetch" /\ "snapshot" \in Faults
  /\ pc' = "top"
  /\ LeaveCycle
  /\ UNCHANGED <<broker, feed, shared, timers, ledger, base>>

\* Mutant: the cycle goes on to the snapshot although trading is halted.
ReadPositionsIgnoringHalt ==
  /\ pc = "read"
  /\ pc' = "fetch" /\ seenPos' = pos
  /\ UNCHANGED <<todo, busy, ordered, broker, feed, shared, timers, ledger, base>>

\* read_positions, then the halt check.
ReadPositions ==
  /\ pc = "read"
  /\ IF halted THEN pc' = "top" /\ LeaveCycle
               ELSE pc' = "fetch" /\ seenPos' = pos /\ UNCHANGED <<todo, busy, ordered>>
  /\ UNCHANGED <<broker, feed, shared, timers, ledger, base>>

\* Mutant: every snapshot becomes the baseline.
CaptureBaseAlways == base' = {Held(master)}

\* The first snapshot of a session is New-Only's baseline.
CaptureBase == base' = IF base = {} THEN {Held(master)} ELSE base

\* Outside regular hours the cycle ends here, the baseline already captured.
OffHours ==
  /\ pc = "fetch" /\ "off_hours" \in Faults
  /\ CaptureBase
  /\ pc' = "top"
  /\ LeaveCycle
  /\ UNCHANGED <<broker, feed, shared, timers, ledger>>

\* Mutant: only the snapshot's symbols are walked, not those seen before.
ChangedInSnapshot == {s \in Held(master) : master[s] # seenMaster[s]}

\* The symbols whose master net differs from the one their target was locked
\* against; a symbol never seen and not held is not walked.
Changed == {s \in Sym : master[s] # seenMaster[s]}

\* The snapshot arrives: the source-change gate re-locks the targets of changed
\* symbols with the balances of this cycle, and the pass is computed.  (The code
\* computes it after reading the live orders; nothing it uses changes meanwhile.)
Fetch(p, connected) ==
  /\ pc = "fetch"
  /\ CaptureBase
  /\ IF RatioKnown(p)
       THEN /\ target' = [s \in Sym |-> IF s \in Changed THEN GateTarget(master[s], p)
                                                         ELSE target[s]]
            /\ seenMaster' = master
            /\ IF Changed = {} THEN UNCHANGED disk ELSE SaveLedger(master, target')
       ELSE UNCHANGED ledger
  /\ todo' = Intents(connected, p, master, seenPos, target', LongOnly, EmptyMasterGuard)
  /\ pc' = "live"
  /\ UNCHANGED <<broker, feed, shared, seenPos, busy, ordered, timers>>

\* read_live_orders, whose failure counts as no live order.
ReadLive ==
  /\ pc = "live"
  /\ \E failed \in MayFail("live_read") :
       busy' = {<<o.sym, o.side>> : o \in IF failed THEN {} ELSE live}
  /\ pc' = "submit"
  /\ UNCHANGED <<broker, feed, shared, seenPos, todo, ordered, timers, ledger, base>>

\* The flatten leg of a flip precedes its open leg; the order of symbols does
\* not matter to any property.
IsNext(i) == i.reason = "OpenLeg" => \A j \in todo : j.sym = i.sym => j = i

\* Mutant: the cooldown is not consulted.
SuppressedWithoutCooldown(i) ==
  \/ WholeShares(i.qty) = 0
  \/ <<i.sym, i.side>> \in busy \cup backoff
  \/ NewOnly /\ i.reason = "OpenMissing" /\ \E B \in base : i.sym \in B

\* Mutant: orders in flight are not consulted.
SuppressedStacking(i) ==
  \/ WholeShares(i.qty) = 0
  \/ <<i.sym, i.side>> \in backoff
  \/ NewOnly /\ i.reason = "OpenMissing" /\ \E B \in base : i.sym \in B
  \/ i.sym \in cooling

\* The reasons for which the engine passes an intent over.
Suppressed(i) ==
  \/ WholeShares(i.qty) = 0
  \/ <<i.sym, i.side>> \in busy
  \/ <<i.sym, i.side>> \in backoff
  \/ NewOnly /\ i.reason = "OpenMissing" /\ \E B \in base : i.sym \in B
  \/ i.sym \in cooling

PassOver(i) ==
  /\ pc = "submit" /\ i \in todo /\ IsNext(i)
  /\ \/ Suppressed(i)
     \/ IsOpening(i.reason) /\ "margin" \in Faults
     \/ "place" \in Faults
  /\ todo' = todo \ {i}
  /\ UNCHANGED <<broker, feed, shared, pc, seenPos, busy, ordered, timers, ledger, base>>

\* Mutant: the cooldown is not started.
PlaceWithoutCooldown(i) ==
  /\ pc = "submit" /\ i \in todo /\ IsNext(i)
  /\ ~Suppressed(i)
  /\ SubmitOrder(i, TRUE)
  /\ todo' = todo \ {i}
  /\ UNCHANGED <<pos, rejects, feed, shared, pc, seenPos, busy, ordered, cooling,
                 backoff, ledger, base>>

\* place_order succeeds: the order is remembered and its symbol cools down.
Place(i) ==
  /\ pc = "submit" /\ i \in todo /\ IsNext(i)
  /\ ~Suppressed(i)
  /\ SubmitOrder(i, TRUE)
  /\ todo' = todo \ {i}
  /\ cooling' = cooling \cup {i.sym}
  /\ ordered' = ordered \cup {i.sym}
  /\ UNCHANGED <<pos, rejects, feed, shared, pc, seenPos, busy, backoff, ledger, base>>

\* Every fifteen seconds a cycle that comes this far saves the ledger.
EndPass ==
  /\ pc = "submit" /\ todo = {}
  /\ SaveLedger(seenMaster, target) \/ UNCHANGED disk
  /\ pc' = "top"
  /\ LeaveCycle
  /\ UNCHANGED <<broker, feed, shared, timers, seenMaster, target, base>>

-----------------------------------------------------------------------------
(* Time *)

\* When a symbol's cooldown may run out, by how quickly orders settle:
\*   "unbounded" - nothing is assumed but that a cooldown outlasts the rest of
\*                 the pass that started it;
\*   "slow"      - an order fills or is rejected within its cooldown;
\*   "prompt"    - the cooldown also covers a cycle: when it has run out, the
\*                 position this cycle works with already shows the outcome.
CooldownMayExpire(s) ==
  /\ s \notin ordered
  /\ Latency \in {"prompt", "slow"} => \A o \in live : o.sym # s
  /\ Latency = "prompt" /\ pc \in {"fetch", "live", "submit"} => seenPos[s] = pos[s]

CooldownExpires(s) ==
  /\ s \in cooling /\ CooldownMayExpire(s)
  /\ cooling' = cooling \ {s}
  /\ UNCHANGED <<broker, feed, shared, pc, cycle, backoff, ledger, base>>

BackoffExpires(k) ==
  /\ k \in backoff
  /\ backoff' = backoff \ {k}
  /\ UNCHANGED <<broker, feed, shared, pc, cycle, cooling, ledger, base>>

-----------------------------------------------------------------------------
(* The environment *)

\* An order fills, in whole shares, all at once or in part.
Fill(o, n) ==
  /\ o \in live /\ n \in 1..o.qty /\ n % Unit = 0
  /\ pos' = [pos EXCEPT ![o.sym] = @ + Signed(o.side, n)]
  /\ live' = IF n = o.qty THEN live \ {o}
             ELSE (live \ {o}) \cup {[o EXCEPT !.qty = @ - n]}
  /\ UNCHANGED <<rejects, feed, shared, pc, cycle, timers, ledger, base>>

\* IBKR rejects an order, or what is left of it.
Reject(o) ==
  /\ "reject" \in Faults /\ o \in live
  /\ live' = live \ {o}
  /\ rejects' = IF o.tracked THEN rejects \cup {<<o.sym, o.side>>} ELSE rejects
  /\ UNCHANGED <<pos, feed, shared, pc, cycle, timers, ledger, base>>

MasterMoves(s, q) ==
  /\ moves < MaxMoves /\ q # master[s]
  /\ master' = [master EXCEPT ![s] = q]
  /\ moves' = moves + 1
  /\ UNCHANGED <<broker, shared, pc, cycle, timers, ledger, base>>

Press(button) ==
  /\ button \in Buttons /\ presses < MaxPresses
  /\ presses' = presses + 1

PressStart ==
  /\ Press("START")
  /\ halted' = FALSE /\ restart' = TRUE
  /\ UNCHANGED <<broker, feed, closeAll, pc, cycle, timers, ledger, base>>

PressCloseAll ==
  /\ Press("CLOSE ALL")
  /\ closeAll' = TRUE
  /\ UNCHANGED <<broker, feed, halted, restart, pc, cycle, timers, ledger, base>>

Connected == IF "master_down" \in Faults THEN BOOLEAN ELSE {TRUE}

Engine ==
  \/ Connect \/ Superseded \/ LinkLost \/ Panic \/ Crash \/ BeginCycle
  \/ ReadForClose \/ Halt \/ Hold \/ ReadPositions \/ OffHours
  \/ ReadLive \/ EndPass
  \/ \E p \in Params, connected \in Connected : Fetch(p, connected)
  \/ \E i \in todo : Flatten(i) \/ PassOver(i) \/ Place(i)

Timers ==
  \/ \E s \in cooling : CooldownExpires(s)
  \/ \E k \in backoff : BackoffExpires(k)

Environment ==
  \/ \E o \in live : Reject(o) \/ \E n \in 1..o.qty : Fill(o, n)
  \/ \E s \in Sym, q \in MasterNets : MasterMoves(s, q)
  \/ PressStart \/ PressCloseAll

Next == Engine \/ Timers \/ Environment

Spec == Init /\ [][Next]_vars

\* Fairness.  The engine thread keeps running, timers run out, and nothing that
\* may fail - the link, the server, a submission, a fill - fails for ever.
Fairness ==
  /\ WF_vars(Connect) /\ WF_vars(Superseded) /\ SF_vars(BeginCycle)
  /\ WF_vars(ReadForClose) /\ WF_vars(\E i \in todo : Flatten(i)) /\ WF_vars(Halt)
  /\ SF_vars(ReadPositions)
  /\ SF_vars(\E p \in Params : RatioKnown(p) /\ Fetch(p, TRUE))
  /\ WF_vars(ReadLive) /\ WF_vars(EndPass)
  /\ WF_vars(\E i \in todo : PassOver(i))
  /\ \A s \in Sym, d \in Side :
       SF_vars(\E i \in todo : i.sym = s /\ i.side = d /\ Place(i))
  /\ \A s \in Sym : SF_vars(CooldownExpires(s))
  /\ \A s \in Sym, d \in Side : WF_vars(BackoffExpires(<<s, d>>))
  /\ \A id \in Oid : SF_vars(\E o \in live : o.id = id /\ Fill(o, o.qty))

FairSpec == Spec /\ Fairness

-----------------------------------------------------------------------------
(* Properties *)

TypeOK ==
  /\ pos \in [Sym -> Int] /\ live \subseteq Order /\ rejects \subseteq Sym \X Side
  /\ master \in [Sym -> MasterNets] /\ moves \in 0..MaxMoves
  /\ closeAll \in BOOLEAN /\ halted \in BOOLEAN /\ restart \in BOOLEAN
  /\ presses \in 0..MaxPresses
  /\ pc \in Stage
  /\ seenPos \in [Sym -> Int]
  /\ todo \subseteq [sym : Sym, side : Side, qty : Nat, reason : Reason]
  /\ busy \subseteq Sym \X Side /\ ordered \subseteq Sym
  /\ cooling \subseteq Sym /\ backoff \subseteq Sym \X Side
  /\ seenMaster \in [Sym -> Int] /\ target \in [Sym -> Int]
  /\ disk \in [seen : [Sym -> Int], target : [Sym -> Int]]
  /\ base \subseteq SUBSET Sym

\* README, "trades only the delta ... sells toward flat and stops": whatever the
\* interleaving of reads, fills and passes, a position never leaves the range
\* spanned by its targets, where it started, and flat.  With Lo = 0 (a master
\* that is never short, or Long Only) this is "no accidental short".
NoOvershoot == \A s \in Sym : pos[s] \in Lo..Hi

\* At most one market order of ours is in flight in a symbol, and when it fills
\* the position is still in range.
OneCommitment ==
  \A o \in live : /\ \A x \in live : x.sym = o.sym => x = o
                  /\ pos[o.sym] + Signed(o.side, o.qty) \in Lo..Hi

\* Why it holds when orders settle promptly: a symbol with an order in flight is
\* cooling; for one that is not, the position read in this cycle is the true one;
\* and every intent, filled whole, leads from the position read to one in range.
Working == pc \in {"fetch", "live", "submit"}

PromptInv ==
  /\ ~closeAll /\ pc \notin {"close", "flatten"}
  /\ \A s \in Sym : pos[s] \in Lo..Hi /\ target[s] \in Lo..Hi /\ disk.target[s] \in Lo..Hi
  /\ OneCommitment
  /\ \A o \in live : o.qty > 0 /\ (pc # "down" => o.sym \in cooling)
  /\ Working => \A s \in Sym : /\ seenPos[s] \in Lo..Hi
                               /\ s \notin cooling => seenPos[s] = pos[s]
  /\ \A i \in todo : /\ pc \in {"live", "submit"}
                      /\ seenPos[i.sym] + Signed(i.side, i.qty) \in Lo..Hi

\* engine.rs: "Never stack a second market order on a contract/side that already
\* has one of ours in flight": no order a pass submits meets another one, of
\* this session or an earlier one or of a CLOSE ALL, on its symbol and side.
PassNeverStacks ==
  [][\A o \in live' :
       o.tracked /\ (\A x \in live : x.id # o.id)
         => \A x \in live : <<x.sym, x.side>> # <<o.sym, o.side>>]_vars

\* Why it holds when the live orders can be read: during a pass every order in
\* flight was either seen by the read or placed by this pass, and a symbol
\* ordered in this pass is still cooling.
StackInv ==
  /\ ordered \subseteq cooling
  /\ pc # "submit" => ordered = {}
  /\ pc = "submit" => \A o \in live : <<o.sym, o.side>> \in busy \/ o.sym \in ordered

\* Between a CLOSE ALL and the next START the engine never gets as far as
\* deciding on an order, not even in a new session after a lost link.
HaltedHolds == halted => pc \notin {"fetch", "live", "submit"}

\* A flip is flattened first and opened from flat: no single order carries a
\* position from one side of zero to the other.
NoReversal ==
  \A o \in live : pos[o.sym] * (pos[o.sym] + Signed(o.side, o.qty)) >= 0

\* README: CLOSE ALL "flattens every client position": once trading is halted
\* and every order has settled, no whole share is left.
CloseAllFlattens == halted /\ live = {} => \A s \in Sym : Abs(pos[s]) < Unit

\* The ledger that counts: the session's, or between sessions the file.
Kept == IF pc = "down" THEN disk ELSE [seen |-> seenMaster, target |-> target]

\* ledger.rs: "a restart resumes the SAME matched structure and only resizes if the
\* source ledger actually changed".  Through lost links, panics, crashes and new
\* sessions under other balances, a target moves only when the master's net does.
TargetsHeld ==
  [][\A s \in Sym : Kept'.target[s] # Kept.target[s] => master[s] # Kept.seen[s]]_vars

\* The target of a symbol is the master's current net, and the account holds it
\* to within what cannot be traded.
Followed(s) == Kept.seen[s] = master[s] /\ Abs(Kept.target[s] - pos[s]) < Unit

\* README, "Idempotent reconciliation ... + per-symbol cooldown": the loop makes
\* one committed move at a time in each symbol.  A symbol is committed to where
\* its order in flight will take it.
Destinations == [s \in Sym |-> {pos[s] + Signed(o.side, o.qty) :
                                 o \in {x \in live : x.sym = s}}]

Committed == INSTANCE CommittedMoves WITH goals <- Destinations

OneMoveAtATime == Committed!Spec

\* state.rs, NewOnly, "only act on changes after start": a symbol the master did
\* not hold when the baseline was taken is followed from then on.
NewOnlyFollows ==
  \A s \in Sym : [](base # {} /\ (\A B \in base : s \notin B) => <>[]Followed(s))

\* When the master stops moving the account comes to hold what it holds, scaled,
\* and stays there.
Converges == <>[](\A s \in Sym : Followed(s))
=============================================================================
