------------------------------ MODULE Drawdown ------------------------------
(***************************************************************************)
(* The max-drawdown guard of the client (pax-client/src/engine.rs: the     *)
(* high-water mark, its confirmation cycles, Reset Drawdown) and the       *)
(* ledger that carries the mark from one session to the next               *)
(* (pax-client/src/ledger.rs).                                             *)
(*                                                                         *)
(* A balance read may be bad: 0 when the account summary ends early, or    *)
(* some other wrong value.  Equity moves between any two reads.            *)
(***************************************************************************)
EXTENDS Integers

CONSTANTS
  Account,      \* the accounts the operator trades, one at a time
  Levels,       \* the values an account's equity takes
  BadReads,     \* the wrong values a balance read may return
  MaxBad,       \* bound on bad reads
  MaxDD,        \* max_drawdown_pct
  Confirm,      \* DD_CONFIRM_CYCLES
  Events,       \* what may end a session, and which buttons are used
  MaxSessions   \* bound on sessions

AllEvents ==
  {"reconnect", "START", "RESET", "switch", "panic", "crash", "torn", "unsaved", "unsavedReset"}

ASSUME DrawdownAssumption ==
  /\ Levels \subseteq Nat \ {0} /\ BadReads \subseteq Nat
  /\ MaxBad \in Nat /\ MaxSessions \in Nat /\ MaxDD \in Nat /\ Confirm \in Nat \ {0}
  /\ Events \subseteq AllEvents

VARIABLES
  equity,    \* the equity of each account
  bads,      \* bad reads so far
  sessions,  \* sessions so far
  resetReq,  \* reset_hwm
  disk,      \* the ledger file: whose it is and the peak it holds
  \* the session
  pc, account, peak, breaches, hit,
  \* history
  baseline,  \* the balance this session started with
  last,      \* the last balance read above 0
  high,      \* each account's highest balance since its reset, bad reads left out
  kept,      \* the same, of those read when its ledger was saved last
  known,     \* the same, less those a session ended after before they were saved
  real,      \* a good read of this run of breaches, or of the one the guard
             \* tripped on, lies MaxDD below high
  tripped    \* hit since the last START or reset

history == <<baseline, last, high, kept, known, real, tripped>>
session == <<account, peak, breaches, hit>>
vars == <<equity, bads, sessions, resetReq, disk, pc, session, history>>

NoLedger == [owner |-> "none", peak |-> 0]

\* drawdown >= max_dd, without the division.
Breached(top, balance) == 100 * (top - balance) >= MaxDD * top

Larger(m, n) == IF m >= n THEN m ELSE n

Init ==
  /\ equity \in [Account -> Levels] /\ bads = 0 /\ sessions = 0
  /\ resetReq = FALSE
  /\ disk = NoLedger
  /\ pc = "down" /\ account \in Account /\ peak = 0 /\ breaches = 0 /\ hit = FALSE
  /\ baseline = 0 /\ last = 0 /\ high = [a \in Account |-> 0]
  /\ kept = high /\ known = high
  /\ real = FALSE /\ tripped = FALSE

\* read_margin returns the equity, or something else.
Read(v, good) ==
  \/ good /\ v = equity[account] /\ UNCHANGED bads
  \/ ~good /\ v \in BadReads /\ bads < MaxBad /\ bads' = bads + 1

Values == Levels \cup BadReads

-----------------------------------------------------------------------------
\* Mutant: the saved peak is not taken up.
BeginForgetting(v, good) ==
  /\ pc = "down" /\ sessions < MaxSessions
  /\ Read(v, good)
  /\ sessions' = sessions + 1
  /\ pc' = "top"
  /\ breaches' = 0 /\ hit' = FALSE
  /\ peak' = v
  /\ baseline' = v
  /\ high' = IF good THEN [high EXCEPT ![account] = Larger(@, v)] ELSE high
  /\ known' = IF good THEN [known EXCEPT ![account] = Larger(@, v)] ELSE known
  /\ real' = FALSE
  /\ UNCHANGED <<equity, resetReq, disk, account, last, kept, tripped>>

\* A session starts: the mark is the larger of the balance and the peak the
\* ledger holds for this account; a halt is not carried over.
Begin(v, good) ==
  /\ pc = "down" /\ sessions < MaxSessions
  /\ Read(v, good)
  /\ sessions' = sessions + 1
  /\ pc' = "top"
  /\ breaches' = 0 /\ hit' = FALSE
  /\ peak' = IF disk.owner = account THEN Larger(v, disk.peak) ELSE v
  /\ baseline' = v
  /\ high' = IF good THEN [high EXCEPT ![account] = Larger(@, v)] ELSE high
  /\ known' = IF good THEN [known EXCEPT ![account] = Larger(@, v)] ELSE known
  /\ real' = FALSE
  /\ UNCHANGED <<equity, resetReq, disk, account, last, kept, tripped>>

\* Reset Drawdown, consumed at the top of the cycle.
ResetPeak(v) == IF resetReq /\ v > 0 THEN v ELSE peak
ResetHigh(v) == IF resetReq /\ v > 0 THEN v ELSE high[account]
ResetKnown(v) == IF resetReq /\ v > 0 THEN v ELSE known[account]

\* Mutant: a balance above the threshold takes one breach back.
BreachesDecaying(v) ==
  LET before == IF resetReq THEN 0 ELSE breaches
  IN  IF v = 0 THEN before
      ELSE IF Breached(Larger(ResetPeak(v), v), v) THEN before + 1 ELSE before - 1

\* Mutant: one breach is enough.
BreachesAtOnce(v) ==
  LET before == IF resetReq THEN 0 ELSE breaches
  IN  IF v = 0 THEN before
      ELSE IF Breached(Larger(ResetPeak(v), v), v) THEN Confirm ELSE 0

\* Consecutive breaches; a balance of 0 is no reading at all.
Breaches(v) ==
  LET before == IF resetReq THEN 0 ELSE breaches
  IN  IF v = 0 THEN before
      ELSE IF Breached(Larger(ResetPeak(v), v), v) THEN before + 1 ELSE 0

\* One cycle up to the decision to hold or to trade.  It ends in "trade" unless
\* the guard has tripped; the other reasons to hold are TradeLoop's.  A reset is saved
\* at once; as every save of the ledger it may fail, which nobody is told of.
Cycle(v, good) ==
  /\ pc = "top"
  /\ Read(v, good)
  /\ resetReq' = FALSE
  /\ peak' = IF v > 0 THEN Larger(ResetPeak(v), v) ELSE peak
  /\ breaches' = IF Breaches(v) < Confirm THEN Breaches(v) ELSE Confirm
  /\ hit' = ((~resetReq /\ hit) \/ (v > 0 /\ breaches' = Confirm))
  /\ \/ /\ disk' = IF resetReq THEN [owner |-> account, peak |-> ResetPeak(v)] ELSE disk
        /\ kept' = IF resetReq THEN [kept EXCEPT ![account] = ResetKnown(v)] ELSE kept
     \/ "unsavedReset" \in Events /\ resetReq /\ UNCHANGED <<disk, kept>>
  /\ pc' = IF hit' THEN "top" ELSE "trade"
  /\ high' = IF v > 0 /\ good THEN [high EXCEPT ![account] = Larger(ResetHigh(v), v)]
             ELSE [high EXCEPT ![account] = ResetHigh(v)]
  /\ known' = IF v > 0 /\ good THEN [known EXCEPT ![account] = Larger(ResetKnown(v), v)]
              ELSE [known EXCEPT ![account] = ResetKnown(v)]
  /\ last' = IF v > 0 THEN v ELSE last
  /\ real' = IF v = 0 \/ (hit /\ ~resetReq) THEN real
             ELSE /\ breaches' > 0
                  /\ \/ real /\ ~resetReq
                     \/ good /\ Breached(Larger(ResetHigh(v), v), v)
  /\ tripped' = (hit' \/ (tripped /\ ~resetReq))
  /\ UNCHANGED <<equity, sessions, account, baseline>>

\* The rest of the cycle saves the ledger when a target changed or fifteen
\* seconds have passed, and not at all when the save fails or it holds before that.
EndCycle ==
  /\ pc = "trade" /\ pc' = "top"
  /\ \/ UNCHANGED <<disk, kept>>
     \/ /\ disk' = [owner |-> account, peak |-> peak]
        /\ kept' = [kept EXCEPT ![account] = known[account]]
  /\ UNCHANGED <<equity, bads, sessions, resetReq, session, baseline, last, high, known,
                 real, tripped>>

\* The session ends - the link is lost, or START supersedes it, perhaps with
\* another account chosen - and the ledger is saved, unless that fails.
EndSession(cause) ==
  /\ cause \in Events \cap {"reconnect", "START", "switch"} /\ pc = "top"
  /\ pc' = "down"
  /\ \/ /\ disk' = [owner |-> account, peak |-> peak]
        /\ kept' = [kept EXCEPT ![account] = known[account]]
        /\ UNCHANGED known
     \/ /\ "unsaved" \in Events
        /\ known' = [known EXCEPT ![account] = kept[account]]
        /\ UNCHANGED <<disk, kept>>
  /\ tripped' = (tripped /\ cause = "reconnect")
  /\ IF cause = "switch" THEN \E a \in Account \ {account} : account' = a
                         ELSE UNCHANGED account
  /\ UNCHANGED <<equity, bads, sessions, resetReq, peak, breaches, hit, baseline, last,
                 high, real>>

\* The session panics, or the program crashes, and nothing is saved; or it crashes
\* within a write and leaves half a file, which loads as none.  Trading resumes when
\* the operator presses START.
Crash(how) ==
  /\ how \in Events \cap {"panic", "crash", "torn"} /\ pc # "down"
  /\ pc' = "down"
  /\ disk' = IF how = "torn" THEN NoLedger ELSE disk
  /\ resetReq' = (resetReq /\ how = "panic")
  /\ known' = [known EXCEPT ![account] = kept[account]]
  /\ tripped' = FALSE
  /\ UNCHANGED <<equity, bads, sessions, session, baseline, last, high, kept, real>>

PressReset ==
  /\ "RESET" \in Events /\ ~resetReq
  /\ resetReq' = TRUE
  /\ UNCHANGED <<equity, bads, sessions, disk, pc, session, history>>

EquityMoves(a, e) ==
  /\ e # equity[a]
  /\ equity' = [equity EXCEPT ![a] = e]
  /\ UNCHANGED <<bads, sessions, resetReq, disk, pc, session, history>>

Next ==
  \/ \E v \in Values, good \in BOOLEAN : Begin(v, good) \/ Cycle(v, good)
  \/ EndCycle
  \/ \E cause \in Events : EndSession(cause) \/ Crash(cause)
  \/ PressReset
  \/ \E a \in Account, e \in Levels : EquityMoves(a, e)

Spec == Init /\ [][Next]_vars

-----------------------------------------------------------------------------
(* Properties *)

TypeOK ==
  /\ equity \in [Account -> Levels] /\ bads \in 0..MaxBad /\ sessions \in 0..MaxSessions
  /\ resetReq \in BOOLEAN
  /\ disk \in [owner : Account, peak : Nat] \cup {NoLedger}
  /\ pc \in {"down", "top", "trade"} /\ account \in Account
  /\ peak \in Nat /\ breaches \in 0..Confirm /\ hit \in BOOLEAN
  /\ baseline \in Nat /\ last \in Nat /\ high \in [Account -> Nat]
  /\ kept \in [Account -> Nat] /\ known \in [Account -> Nat]
  /\ real \in BOOLEAN /\ tripped \in BOOLEAN

\* CHANGELOG: the drawdown "is measured against the true high across restarts and
\* daily reconnects" and the mark is "stored per-account": in a session the mark is
\* at least every balance of the account read since its last reset, but those of a
\* session that ended - it panicked, the program crashed, or the last save failed -
\* before they were saved.
PeakIsHigh == pc # "down" => peak >= known[account]

\* The same, without that exception.
PeakIsTrueHigh == pc # "down" => peak >= high[account]

\* engine.rs: "a single bad/partial balance read can never stop the account out by
\* mistake": while bad reads are fewer than the confirmation cycles, the guard
\* trips only if good reads, too, lie that far below the true high.
NoFalseHalt == hit /\ bads < Confirm => real

\* README: trading is halted and resumes "with STOP -> START": from the moment the
\* guard trips, no cycle trades until the operator restarts or resets.
HaltSticks == pc = "trade" => ~tripped

\* README: trading halts "when equity drops past the threshold from the session
\* baseline".
SessionBaseline == hit => Breached(baseline, last)
=============================================================================
