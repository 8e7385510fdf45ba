----------------------------- MODULE Portfolio -----------------------------
(***************************************************************************)
(* The Portfolio tab: the data thread (pax-client/src/data.rs, data_main)  *)
(* connects with the settings in force, follows one account's updates into *)
(* a book of its own, and publishes it, while the operator saves other     *)
(* settings, the link is lost and the account trades.  The charts the same *)
(* thread serves are ChartView's subject, how settings are typed and kept  *)
(* is ClientSettings'.                                                     *)
(***************************************************************************)
EXTENDS Connections

CONSTANTS
  Symbol,
  Holdings,    \* what each account holds at first
  MaxQty,      \* bound on the shares of a symbol
  MaxSaves,    \* bound on settings saved
  MaxMoves,    \* bound on changes of the accounts
  MaxTroubles  \* bound on lost links, Gateways that fail to answer and failed calls

ASSUME PortfolioAssumption ==
  /\ {MaxQty, MaxSaves, MaxMoves, MaxTroubles} \subseteq Nat
  /\ IsFiniteSet(Symbol)
  /\ Holdings \in [Account -> [Symbol -> 0..MaxQty]]

VARIABLES
  controls,   \* the settings in force
  saves,
  \* the data thread
  stage,      \* how far it is
  conn,       \* the settings it captured
  port,       \* where it connected
  viewing,    \* the account it shows
  book,       \* the rows it has been sent
  errored,
  \* shared with the window
  portfolio, dataConnected,
  \* the brokerage
  holds,      \* what each account holds
  link,       \* the connection is up
  queue,      \* updates on their way
  moves, troubles

operator == <<controls, saves>>
published == <<portfolio, dataConnected>>
thread == <<stage, conn, port, viewing, book, errored>>
brokerage == <<holds, link, queue, moves, troubles>>
vars == <<operator, thread, published, brokerage>>

Stage == {"open", "probe", "account", "subscribe", "check", "drain", "publish", "close"}

\* A row: the symbol, the shares, and the account it is from.
Row == [symbol : Symbol, qty : 1..MaxQty, of : Account]

RowsOf(a) == {[symbol |-> s, qty |-> holds[a][s], of |-> a] :
                 s \in {t \in Symbol : holds[a][t] # 0}}

\* What an operator may save.
InUse == [mode : Mode, live : LivePorts, paper : PaperPorts,
          account : Account \cup {NoAccount}, multiplier : Multipliers]

\* The locals of a connection that is not there.
NoConnection ==
  [conn |-> CHOOSE s \in InUse : TRUE, port |-> 0,
   viewing |-> CHOOSE a \in Account : TRUE, book |-> {}]

Init ==
  /\ controls \in InUse /\ saves = 0
  /\ stage = "open" /\ conn = NoConnection.conn /\ port = NoConnection.port
  /\ viewing = NoConnection.viewing /\ book = NoConnection.book /\ errored = FALSE
  /\ portfolio = {} /\ dataConnected = FALSE
  /\ holds = Holdings
  /\ link = FALSE /\ queue = <<>> /\ moves = 0 /\ troubles = 0

Goto(from, to) == stage = from /\ stage' = to

Troubles(n) == troubles' = troubles + n /\ troubles' \in 0..MaxTroubles

\* Mutant: the book is not the connection's own.
DisconnectKeepingBook ==
  /\ stage' = "open" /\ dataConnected' = FALSE
  /\ conn' = NoConnection.conn /\ port' = NoConnection.port
  /\ viewing' = NoConnection.viewing /\ errored' = FALSE
  /\ link' = FALSE /\ queue' = <<>>
  /\ UNCHANGED book

\* Give up the connection, with all that was its own; begin again after a while.
Disconnect ==
  /\ stage' = "open" /\ dataConnected' = FALSE
  /\ conn' = NoConnection.conn /\ port' = NoConnection.port
  /\ viewing' = NoConnection.viewing /\ book' = NoConnection.book /\ errored' = FALSE
  /\ link' = FALSE /\ queue' = <<>>

-----------------------------------------------------------------------------
(* The data thread *)

CaptureControls ==
  /\ Goto("open", "probe")
  /\ conn' = controls
  /\ UNCHANGED <<operator, port, viewing, book, errored, published, brokerage>>

\* The first Gateway to answer will do; the ones before it have failed.
Probe ==
  /\ Goto("probe", "account")
  /\ \E i \in Listening(conn) : /\ port' = Candidates(conn)[i]
                               /\ Troubles(Cardinality({j \in Listening(conn) : j < i}))
  /\ link' = TRUE /\ queue' = <<>>
  /\ UNCHANGED <<operator, conn, viewing, book, errored, published, holds, moves>>

ProbeFails ==
  /\ stage = "probe" /\ Disconnect
  /\ Troubles(Cardinality(Listening(conn)))
  /\ UNCHANGED <<operator, portfolio, holds, moves>>

Resolve ==
  /\ Goto("account", "subscribe") /\ link
  /\ viewing' = Resolved(conn, Behind[port])
  /\ UNCHANGED <<operator, conn, port, book, errored, published, brokerage>>

\* No account is told, or the subscription is refused.
CallFails ==
  /\ stage \in {"account", "subscribe"} /\ Disconnect
  /\ (~link /\ UNCHANGED troubles) \/ Troubles(1)
  /\ UNCHANGED <<operator, portfolio, holds, moves>>

\* account_updates: the broker sends every row, then every change.
Subscribe ==
  /\ Goto("subscribe", "check") /\ link
  /\ dataConnected' = TRUE
  /\ queue' = SetToSeq(RowsOf(viewing))
  /\ UNCHANGED <<operator, conn, port, viewing, book, errored, portfolio, holds, link,
                 moves, troubles>>

\* Mutant: the account selected in the window is not looked at.
ChangedTargetOnly == controls.mode # conn.mode

\* The mode (and the host) and the account are compared; the ports are not.
Changed == controls.mode # conn.mode \/ controls.account # conn.account

Check ==
  /\ stage = "check"
  /\ stage' = IF Changed \/ ~link THEN "close" ELSE "drain"
  /\ UNCHANGED <<operator, conn, port, viewing, book, errored, published, brokerage>>

\* An update replaces the row of its symbol; one of no shares removes it.
Receive ==
  /\ Goto("drain", "drain") /\ queue # <<>>
  /\ LET u == Head(queue)
     IN  book' = {r \in book : r.symbol # u.symbol} \cup (IF u.qty = 0 THEN {} ELSE {u})
  /\ queue' = Tail(queue)
  /\ UNCHANGED <<operator, conn, port, viewing, errored, published, holds, link, moves,
                 troubles>>

\* What has arrived has been taken; a lost link or a refused subscription shows.
Drained ==
  /\ Goto("drain", "publish")
  /\ \/ errored' = ~link /\ UNCHANGED troubles
     \/ errored' = TRUE /\ Troubles(1)
  /\ UNCHANGED <<operator, conn, port, viewing, book, published, holds, link, queue, moves>>

\* A snapshot, when half a second has passed since the last one.
Publish ==
  /\ stage = "publish"
  /\ stage' = IF errored THEN "close" ELSE "check"
  /\ portfolio' \in {portfolio, book}
  /\ UNCHANGED <<operator, conn, port, viewing, book, errored, dataConnected, brokerage>>

\* The connection is dropped with the client; the rows shown stay.
Close ==
  /\ stage = "close" /\ Disconnect
  /\ UNCHANGED <<operator, portfolio, holds, moves, troubles>>

-----------------------------------------------------------------------------
(* The window's thread *)

\* SAVE SETTINGS and START.
Save(s) ==
  /\ saves < MaxSaves /\ saves' = saves + 1
  /\ controls' = s
  /\ UNCHANGED <<thread, published, brokerage>>

-----------------------------------------------------------------------------
(* The brokerage (external) *)

LinkDrops ==
  /\ link /\ Troubles(1)
  /\ link' = FALSE /\ queue' = <<>>
  /\ UNCHANGED <<operator, thread, published, holds, moves>>

Subscribed == link /\ stage \in {"check", "drain", "publish"}

\* An account trades; who subscribed to it is told.
Move(a, s, q) ==
  /\ moves < MaxMoves /\ moves' = moves + 1
  /\ holds[a][s] # q
  /\ holds' = [holds EXCEPT ![a][s] = q]
  /\ queue' = IF Subscribed /\ viewing = a
                THEN Append(queue, [symbol |-> s, qty |-> q, of |-> a]) ELSE queue
  /\ UNCHANGED <<operator, thread, published, link, troubles>>

Data ==
  \/ CaptureControls \/ Probe \/ ProbeFails \/ Resolve \/ CallFails \/ Subscribe
  \/ Check \/ Receive \/ Drained \/ Publish \/ Close

Next ==
  \/ \E s \in InUse : Save(s)
  \/ Data \/ LinkDrops
  \/ \E a \in Account, s \in Symbol, q \in 0..MaxQty : Move(a, s, q)

Spec == Init /\ [][Next]_vars

\* The thread runs on, and what has arrived is taken and published in the end: the
\* thread drains until nothing is left and publishes twice a second.
Fairness ==
  /\ WF_vars(Data)
  /\ SF_vars(Receive)
  /\ SF_vars(Publish /\ portfolio' = book)

FairSpec == Spec /\ Fairness

-----------------------------------------------------------------------------
(* Properties *)

TypeOK ==
  /\ controls \in Settings
  /\ stage \in Stage /\ conn \in Settings
  /\ viewing \in Account /\ book \subseteq Row /\ portfolio \subseteq Row
  /\ holds \in [Account -> [Symbol -> 0..MaxQty]]
  /\ link \in BOOLEAN /\ errored \in BOOLEAN /\ dataConnected \in BOOLEAN
  /\ moves \in 0..MaxMoves /\ troubles \in 0..MaxTroubles

\* The rows shown together are of one account, however the selection, the link and
\* the login have changed: the totals under the table add up one book.
OneAccountShown ==
  \A r, q \in portfolio : r.of = q.of /\ (r.symbol = q.symbol => r = q)

\* data.rs, "it must re-resolve and re-subscribe when the GUI selection changes -
\* otherwise the Portfolio tab keeps showing whatever account was resolved first":
\* when settings, link and account come to rest, the tab comes to show what the
\* selected account holds, or the first one of the Gateway it is connected to where
\* that one does not have it.
PortfolioFollows ==
  <>[](/\ dataConnected /\ conn.mode = controls.mode
       /\ portfolio = RowsOf(Resolved(controls, Behind[port])))

\* data.rs, "The outer loop re-establishes the connection via port probing": the tab
\* comes to show the account that the settings in force lead to by themselves.
PortsFollowed ==
  <>[](\E i \in Listening(controls) :
         /\ \A j \in Listening(controls) : i <= j
         /\ portfolio = RowsOf(Resolved(controls, Behind[Candidates(controls)[i]])))

\* The account selected is shown in the end if any Gateway among the candidates has it.
SelectedShown ==
  <>[](\A i \in Listening(controls) :
         controls.account \in ToSet(Behind[Candidates(controls)[i]])
           => portfolio = RowsOf(controls.account))

\* data.rs, "so portfolio valuation": a portfolio marked connected is that of the
\* account being viewed.
ConnectedShowsAccount == dataConnected => \A r \in portfolio : r.of = viewing

\* In the mode selected, an account of that mode is shown: the Gateway of the other
\* mode is not.
ModeKept ==
  dataConnected => port # (IF conn.mode = "live" THEN conn.paper ELSE conn.live)
=============================================================================
