----------------------------- MODULE MasterFeed -----------------------------
(***************************************************************************)
(* The master's feed: the IB worker that turns a streaming position        *)
(* subscription into snapshots (pax-master/src/ib.rs, worker_loop), the    *)
(* shared state it publishes them through (pax-master/src/state.rs), and   *)
(* the window's APPLY & RECONNECT (pax-master/src/main.rs).                *)
(*                                                                         *)
(* Readers - the HTTP handlers of pax-master/src/server.rs - take either   *)
(* the cached JSON (/snapshot, what clients trade on) or the snapshot      *)
(* (/balance, /status, the window) between any two steps.  A book is a     *)
(* function from Sym to net quantities; 0 stands for a symbol that is not  *)
(* listed.  Balances and resting orders, which no property here depends    *)
(* on, are left out.                                                       *)
(***************************************************************************)
EXTENDS Integers, Sequences

CONSTANTS
  Sym,         \* the instruments
  Nets,        \* net quantities a position may take, 0 among them
  Accounts,    \* the accounts of the login
  Main,        \* the first of them, the one the snapshot names
  Conns,       \* the connection parameters the operator may enter
  MaxChanges,  \* bound on position changes
  MaxDrops,    \* bound on lost connections
  MaxApplies   \* bound on uses of APPLY & RECONNECT

ASSUME FeedAssumption ==
  /\ Nets \subseteq Int /\ 0 \in Nets
  /\ Main \in Accounts
  /\ MaxChanges \in Nat /\ MaxDrops \in Nat /\ MaxApplies \in Nat

VARIABLES
  \* IB: the accounts, and this connection's position stream
  acct, changes, up, drops, stream, toReplay, ended,
  \* shared with the window and the HTTP handlers
  conn, gen, snapshot, json,
  \* the window's thread, inside on_apply
  op, applies,
  \* the worker
  pc, myGen, used, book, replayDone,
  \* history: the books the main account has had since this subscription began
  past

ib      == <<acct, changes, up, drops, stream, toReplay, ended, past>>
window  == <<conn, gen, op, applies>>
shown   == <<snapshot, json>>
worker  == <<myGen, used, book, replayDone>>
vars    == <<ib, window, shown, pc, worker>>

Empty == [s \in Sym |-> 0]

Book == [Sym -> Nets]

Standby == [connected |-> FALSE, positions |-> Empty]

Update == [kind : {"position"}, acct : Accounts, sym : Sym, qty : Nets]
End == [kind |-> "end"]

Init ==
  /\ acct \in [Accounts -> Book] /\ changes = 0
  /\ up = FALSE /\ drops = 0 /\ stream = <<>> /\ toReplay = {} /\ ended = FALSE
  /\ past = {}
  /\ conn \in Conns /\ gen = 0 /\ op = "none" /\ applies = 0
  /\ snapshot = Standby /\ json = Standby
  /\ pc = "attempt" /\ myGen = 0 /\ used = conn /\ book = Empty /\ replayDone = FALSE

-----------------------------------------------------------------------------
(* IB (external): positions() replays what the accounts hold, then End, and *)
(* from then on, and for what is already replayed, sends every change.      *)

Message(a, s, q) == [kind |-> "position", acct |-> a, sym |-> s, qty |-> q]

Change(a, s, q) ==
  /\ changes < MaxChanges /\ q # acct[a][s]
  /\ changes' = changes + 1
  /\ acct' = [acct EXCEPT ![a][s] = q]
  /\ past' = past \cup {acct'[Main]}
  /\ stream' = IF up /\ <<a, s>> \notin toReplay THEN Append(stream, Message(a, s, q))
                                                ELSE stream
  /\ UNCHANGED <<up, drops, toReplay, ended, window, shown, pc, worker>>

Replay(a, s) ==
  /\ up /\ <<a, s>> \in toReplay
  /\ toReplay' = toReplay \ {<<a, s>>}
  /\ stream' = IF acct[a][s] = 0 THEN stream ELSE Append(stream, Message(a, s, acct[a][s]))
  /\ UNCHANGED <<acct, changes, up, drops, ended, past, window, shown, pc, worker>>

EndReplay ==
  /\ up /\ toReplay = {} /\ ~ended
  /\ ended' = TRUE
  /\ stream' = Append(stream, End)
  /\ UNCHANGED <<acct, changes, up, drops, toReplay, past, window, shown, pc, worker>>

\* The connection is lost, with what is still under way on it.
Drop ==
  /\ up /\ drops < MaxDrops
  /\ up' = FALSE
  /\ drops' = drops + 1
  /\ \E n \in 0..Len(stream) : stream' = SubSeq(stream, 1, n)
  /\ UNCHANGED <<acct, changes, toReplay, ended, past, window, shown, pc, worker>>

-----------------------------------------------------------------------------
(* The window: on_apply stores the parameters, then bumps the generation. *)

PressApply(c) ==
  /\ op = "none" /\ applies < MaxApplies
  /\ applies' = applies + 1
  /\ conn' = c
  /\ op' = "bump"
  /\ UNCHANGED <<ib, gen, shown, pc, worker>>

\* Mutants: the generation is left as it was; it is bumped twice.
RequestReconnectForgotten ==
  /\ op = "bump" /\ op' = "none"
  /\ UNCHANGED <<ib, conn, gen, applies, shown, pc, worker>>

RequestReconnectTwice ==
  /\ op = "bump" /\ op' = "none"
  /\ gen' = gen + 2
  /\ UNCHANGED <<ib, conn, applies, shown, pc, worker>>

RequestReconnect ==
  /\ op = "bump" /\ op' = "none"
  /\ gen' = gen + 1
  /\ UNCHANGED <<ib, conn, applies, shown, pc, worker>>

-----------------------------------------------------------------------------
(* The worker *)

\* The generation is read before the parameters.
CaptureGen ==
  /\ pc = "attempt" /\ pc' = "params"
  /\ myGen' = gen
  /\ UNCHANGED <<ib, window, shown, used, book, replayDone>>

CaptureParams ==
  /\ pc = "params" /\ pc' = "connect"
  /\ used' = conn
  /\ UNCHANGED <<ib, window, shown, myGen, book, replayDone>>

\* connect_with_fallback and positions(): a new connection with an empty book.
Connect ==
  /\ pc = "connect" /\ pc' = "check"
  /\ up' = TRUE /\ stream' = <<>> /\ ended' = FALSE
  /\ toReplay' = {held \in Accounts \X Sym : acct[held[1]][held[2]] # 0}
  /\ past' = {acct[Main]}
  /\ book' = Empty /\ replayDone' = FALSE
  /\ UNCHANGED <<acct, changes, drops, window, shown, myGen, used>>

\* No endpoint accepts the handshake, or the subscription fails.
ConnectFails ==
  /\ pc = "connect" /\ pc' = "down"
  /\ UNCHANGED <<ib, window, shown, worker>>

\* Mutant: the loop does not notice that the operator asked for a reconnect.
CheckGenIgnored ==
  /\ pc = "check" /\ pc' = "drain"
  /\ UNCHANGED <<ib, window, shown, worker>>

CheckGen ==
  /\ pc = "check"
  /\ pc' = IF gen # myGen THEN "down" ELSE "drain"
  /\ UNCHANGED <<ib, window, shown, worker>>

\* One update: a zero position is removed, any other replaces the symbol's -
\* whatever account it is of.
Drain ==
  /\ pc = "drain" /\ stream # <<>>
  /\ LET m == Head(stream)
     IN  IF m = End THEN replayDone' = TRUE /\ UNCHANGED book
                    ELSE book' = [book EXCEPT ![m.sym] = m.qty] /\ UNCHANGED replayDone
  /\ stream' = Tail(stream)
  /\ UNCHANGED <<acct, changes, up, drops, toReplay, ended, past, window, shown, pc,
                 myGen, used>>

\* try_next came back empty; a dead stream then ends the connection.
Drained ==
  /\ pc = "drain" /\ stream = <<>>
  /\ pc' = IF up THEN "publish" ELSE "down"
  /\ UNCHANGED <<ib, window, shown, worker>>

\* Mutant: the replay is broadcast as it arrives.
PublishPartial ==
  /\ pc = "publish" /\ pc' = "json"
  /\ snapshot' = [connected |-> TRUE, positions |-> book]
  /\ UNCHANGED <<ib, window, json, worker>>

\* publish_snapshot once the replay is complete, mark_offline until then: the
\* snapshot first, the JSON after it.
Publish ==
  /\ pc = "publish" /\ pc' = "json"
  /\ snapshot' = IF replayDone THEN [connected |-> TRUE, positions |-> book]
                               ELSE [snapshot EXCEPT !.connected = FALSE]
  /\ UNCHANGED <<ib, window, json, worker>>

StoreJson ==
  /\ pc = "json" /\ pc' = "check"
  /\ json' = snapshot
  /\ UNCHANGED <<ib, window, snapshot, worker>>

\* The connection is given up; mark_offline keeps the last positions.
MarkOffline ==
  /\ pc = "down" /\ pc' = "downjson"
  /\ snapshot' = [snapshot EXCEPT !.connected = FALSE]
  /\ up' = FALSE /\ stream' = <<>> /\ toReplay' = {} /\ ended' = FALSE
  /\ UNCHANGED <<acct, changes, drops, past, window, json, worker>>

\* Mutant: the cached JSON is left as it was.
StoreOfflineForgotten ==
  /\ pc = "downjson" /\ pc' = "attempt"
  /\ UNCHANGED <<ib, window, shown, worker>>

StoreOffline ==
  /\ pc = "downjson" /\ pc' = "attempt"
  /\ json' = snapshot
  /\ UNCHANGED <<ib, window, snapshot, worker>>

Worker ==
  \/ CaptureGen \/ CaptureParams \/ Connect \/ ConnectFails \/ CheckGen \/ Drain
  \/ Drained \/ Publish \/ StoreJson \/ MarkOffline \/ StoreOffline

Gateway ==
  \/ \E a \in Accounts, s \in Sym : Replay(a, s)
  \/ EndReplay

Next ==
  \/ Worker \/ Gateway \/ Drop \/ RequestReconnect
  \/ \E a \in Accounts, s \in Sym, q \in Nets : Change(a, s, q)
  \/ \E c \in Conns : PressApply(c)

Spec == Init /\ [][Next]_vars

\* The worker and the window run on, the Gateway replays what it was asked for,
\* and does not refuse connections for ever.
Fairness ==
  /\ WF_vars(Worker) /\ SF_vars(Connect)
  /\ WF_vars(Gateway) /\ WF_vars(RequestReconnect)

FairSpec == Spec /\ Fairness

-----------------------------------------------------------------------------
(* Properties *)

Snapshot == [connected : BOOLEAN, positions : Book]

TypeOK ==
  /\ acct \in [Accounts -> Book] /\ changes \in 0..MaxChanges
  /\ up \in BOOLEAN /\ drops \in 0..MaxDrops
  /\ stream \in Seq(Update \cup {End})
  /\ toReplay \subseteq Accounts \X Sym /\ ended \in BOOLEAN
  /\ past \subseteq Book
  /\ conn \in Conns /\ gen \in 0..MaxApplies /\ op \in {"none", "bump"}
  /\ applies \in 0..MaxApplies
  /\ snapshot \in Snapshot /\ json \in Snapshot
  /\ pc \in {"attempt", "params", "connect", "check", "drain", "publish", "json",
             "down", "downjson"}
  /\ myGen \in 0..MaxApplies /\ used \in Conns /\ book \in Book /\ replayDone \in BOOLEAN

\* protocol.rs, a snapshot is the "Full, self-contained view of the master account
\* at a point in time": positions served as connected are a book that the account
\* really had since the subscription began - never a part of one, as during the
\* replay, nor a mixture of two.
PointInTime == \A view \in {snapshot, json} : view.connected => view.positions \in past

\* state.rs: snapshot and JSON are "Kept in lockstep": they differ only while the
\* worker is between its two stores.
Lockstep == pc \notin {"json", "downjson"} => json = snapshot

\* An APPLY is never lost: when the worker has taken notice of the generation, it
\* works with the parameters stored before it.
NoLostApply ==
  op = "none" /\ myGen = gen /\ pc \notin {"attempt", "params"} => used = conn

\* When the account comes to rest, what clients are served comes to be its book,
\* over a connection made with the parameters last applied.
FeedConverges ==
  <>[](json.connected /\ json.positions = acct[Main] /\ used = conn)
=============================================================================
