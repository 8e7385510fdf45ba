-------------------------- MODULE Portfolio_proofs --------------------------
(***************************************************************************)
(* Proofs about the Portfolio tab: its types, and that rows of different   *)
(* accounts are never shown together.                                      *)
(***************************************************************************)
EXTENDS Portfolio, FunctionTheorems, FiniteSetTheorems, SequenceTheorems, TLAPS

\* What the brokerage sends: a row, or the news that there is none any more.
Update == [symbol : Symbol, qty : 0..MaxQty, of : Account]

\* Rows that are of one account and of different symbols.
OneBook(rows) == \A r, q \in rows : r.of = q.of /\ (r.symbol = q.symbol => r = q)

\* Before the subscription there is nothing of an account.  From then on what has
\* come, and what is on its way, is of the account viewed.  A port that was reached
\* has a Gateway.
OfViewed ==
  /\ queue \in Seq(Update)
  /\ \A i \in DOMAIN queue : queue[i].of = viewing
  /\ \A r \in book : r.of = viewing
  /\ stage \in {"open", "probe", "account", "subscribe"} => queue = <<>> /\ book = {}
  /\ stage = "account" => port \in DOMAIN Behind
  /\ controls \in InUse

PortfolioInv == TypeOK /\ OfViewed /\ OneBook(book) /\ OneBook(portfolio)

\* The account resolved is one of the login's.
LEMMA ResolvedInAccount ==
  ASSUME NEW s, NEW p \in DOMAIN Behind
  PROVE  Resolved(s, Behind[p]) \in Account
<1>1. Behind[p] \in Seq(Account) /\ Behind[p] # <<>>
  BY ConnectionsAssumption
<1>2. Head(Behind[p]) \in Account
  BY <1>1, HeadTailProperties
<1>3. ToSet(Behind[p]) \subseteq Account
  BY <1>1 DEF ToSet
<1> QED BY <1>2, <1>3 DEF Resolved

\* What an account holds makes finitely many rows, one for each symbol.
LEMMA RowsOfProperties ==
  ASSUME NEW a \in Account, holds \in [Account -> [Symbol -> 0..MaxQty]]
  PROVE  /\ IsFiniteSet(RowsOf(a))
         /\ RowsOf(a) \subseteq Update
         /\ \A r \in RowsOf(a) : r.of = a
<1> DEFINE Row1(s) == [symbol |-> s, qty |-> holds[a][s], of |-> a]
           T == {t \in Symbol : holds[a][t] # 0}
           f == [s \in T |-> Row1(s)]
<1>1. IsFiniteSet(T)
  BY PortfolioAssumption, FS_Subset
<1>2. RowsOf(a) = {Row1(s) : s \in T}
  BY DEF RowsOf
<1>3. f \in Surjection(T, RowsOf(a))
  BY <1>2, Fun_IsSurj
<1>4. IsFiniteSet(RowsOf(a))
  BY <1>1, <1>3, FS_Surjection
<1>5. \A s \in Symbol : Row1(s) \in Update /\ Row1(s).of = a
  BY DEF Update
<1> QED BY <1>2, <1>4, <1>5

\* A finite set makes a sequence of its members.
LEMMA SetToSeqIsSeq ==
  ASSUME NEW S, IsFiniteSet(S)
  PROVE  SetToSeq(S) \in Seq(S)
<1>1. Cardinality(S) \in Nat /\ ExistsBijection(1..Cardinality(S), S)
  BY FS_CardinalityType
<1>2. \E f \in [1..Cardinality(S) -> S] : IsInjective(f)
  BY <1>1 DEF ExistsBijection, Bijection, Injection
<1>3. SetToSeq(S) \in [1..Cardinality(S) -> S]
  BY <1>2 DEF SetToSeq
<1> QED BY <1>1, <1>3

LEMMA InUseSettings == InUse \subseteq Settings
BY ConnectionsAssumption DEF InUse, Settings, NaN

LEMMA NoConnectionTyped ==
  ASSUME controls \in InUse
  PROVE  /\ NoConnection.conn \in Settings
         /\ NoConnection.viewing \in Account
         /\ NoConnection.book = {}
<1>1. (CHOOSE s \in InUse : TRUE) \in Settings
  BY InUseSettings
<1>2. (CHOOSE a \in Account : TRUE) \in Account
  BY ConnectionsAssumption
<1> QED BY <1>1, <1>2 DEF NoConnection

LEMMA PortfolioInit == Init => PortfolioInv
<1> SUFFICES ASSUME Init PROVE PortfolioInv
  OBVIOUS
<1>1. controls \in InUse /\ controls \in Settings
  BY InUseSettings DEF Init
<1>2. TypeOK
  <2>1. 0 \in 0..MaxMoves /\ 0 \in 0..MaxTroubles
    BY PortfolioAssumption
  <2>2. Holdings \in [Account -> [Symbol -> 0..MaxQty]]
    BY PortfolioAssumption
  <2> QED BY <1>1, <2>1, <2>2, NoConnectionTyped DEF Init, TypeOK, Stage
<1>3. OfViewed
  BY <1>1, NoConnectionTyped DEF Init, OfViewed
<1> QED BY <1>2, <1>3, <1>1, NoConnectionTyped DEF PortfolioInv, OneBook, Init

\* Giving up a connection leaves nothing of it but the rows shown.
LEMMA DisconnectKeeps ==
  ASSUME PortfolioInv, Disconnect,
         UNCHANGED <<controls, portfolio, holds, moves>>,
         troubles' \in 0..MaxTroubles
  PROVE  PortfolioInv'
<1>1. book' = {} /\ conn' \in Settings /\ viewing' \in Account
  BY NoConnectionTyped DEF Disconnect, PortfolioInv, OfViewed
<1>2. TypeOK'
  BY <1>1 DEF Disconnect, PortfolioInv, TypeOK, Stage
<1>3. OfViewed'
  BY <1>1 DEF Disconnect, PortfolioInv, OfViewed, InUse
<1> QED BY <1>1, <1>2, <1>3 DEF PortfolioInv, OneBook

\* An update of the account viewed makes one book of one book.
LEMMA ReceiveKeeps ==
  ASSUME PortfolioInv, Receive
  PROVE  PortfolioInv'
<1> DEFINE u == Head(queue)
           kept == {r \in book : r.symbol # u.symbol}
<1>1. queue \in Seq(Update) /\ queue # <<>>
  BY DEF Receive, PortfolioInv, OfViewed
<1>2. u \in Update /\ u = queue[1] /\ 1 \in DOMAIN queue
  BY <1>1
<1>3. u.of = viewing
  BY <1>2 DEF PortfolioInv, OfViewed
<1>4. Tail(queue) \in Seq(Update) /\ \A i \in DOMAIN Tail(queue) : Tail(queue)[i].of = viewing
  <2>1. Tail(queue) \in Seq(Update) /\ Len(Tail(queue)) = Len(queue) - 1
    BY <1>1
  <2>2. \A i \in DOMAIN Tail(queue) : Tail(queue)[i] = queue[i + 1] /\ i + 1 \in DOMAIN queue
    BY <1>1
  <2> QED BY <2>1, <2>2 DEF PortfolioInv, OfViewed
<1>5. book' = kept \cup (IF u.qty = 0 THEN {} ELSE {u})
  BY DEF Receive
<1>6. book' \subseteq Row
  <2>1. kept \subseteq Row
    BY DEF PortfolioInv, TypeOK
  <2>2. u.qty # 0 => u \in Row
    BY <1>2, PortfolioAssumption DEF Update, Row
  <2> QED BY <1>5, <2>1, <2>2
<1>7. \A r \in book' : r.of = viewing
  BY <1>3, <1>5 DEF PortfolioInv, OfViewed
<1>8. OneBook(book')
  <2> SUFFICES ASSUME NEW r \in book', NEW q \in book', r.symbol = q.symbol
               PROVE  r = q
    BY <1>7 DEF OneBook
  <2>1. \A x, y \in kept : x.symbol = y.symbol => x = y
    BY DEF PortfolioInv, OneBook
  <2> QED BY <1>5, <2>1
<1>9. TypeOK'
  BY <1>6 DEF Receive, Goto, PortfolioInv, TypeOK, Stage, operator, published
<1>10. OfViewed'
  BY <1>4, <1>7 DEF Receive, Goto, PortfolioInv, OfViewed, operator, InUse
<1> QED BY <1>8, <1>9, <1>10 DEF Receive, PortfolioInv, OneBook, published

LEMMA SubscribeKeeps ==
  ASSUME PortfolioInv, Subscribe
  PROVE  PortfolioInv'
<1>1. RowsOf(viewing) \subseteq Update /\ \A r \in RowsOf(viewing) : r.of = viewing
  BY RowsOfProperties DEF PortfolioInv, TypeOK
<1>2. SetToSeq(RowsOf(viewing)) \in Seq(RowsOf(viewing))
  BY RowsOfProperties, SetToSeqIsSeq DEF PortfolioInv, TypeOK
<1>3. queue' \in Seq(Update) /\ \A i \in DOMAIN queue' : queue'[i].of = viewing
  BY <1>1, <1>2 DEF Subscribe
<1>4. TypeOK'
  BY DEF Subscribe, Goto, PortfolioInv, TypeOK, Stage, operator
<1>5. OfViewed'
  BY <1>3 DEF Subscribe, Goto, PortfolioInv, OfViewed, operator, InUse
<1> QED BY <1>4, <1>5 DEF Subscribe, PortfolioInv, OneBook

\* What the account viewed trades is appended to what is on its way.
LEMMA MoveKeeps ==
  ASSUME PortfolioInv, NEW a \in Account, NEW s \in Symbol, NEW q \in 0..MaxQty, Move(a, s, q)
  PROVE  PortfolioInv'
<1> DEFINE u == [symbol |-> s, qty |-> q, of |-> a]
<1>1. queue \in Seq(Update) /\ u \in Update
  BY DEF PortfolioInv, OfViewed, Update
<1>2. queue' \in Seq(Update) /\ \A i \in DOMAIN queue' : queue'[i].of = viewing
  <2>1. CASE queue' = queue
    BY <1>1, <2>1 DEF PortfolioInv, OfViewed
  <2>2. CASE queue' = Append(queue, u) /\ viewing = a
    BY <1>1, <2>2 DEF PortfolioInv, OfViewed
  <2> QED BY <2>1, <2>2 DEF Move
<1>3. stage \in {"open", "probe", "account", "subscribe"} => queue' = <<>>
  BY DEF Move, Subscribed, PortfolioInv, OfViewed
<1>4. holds' \in [Account -> [Symbol -> 0..MaxQty]] /\ moves' \in 0..MaxMoves
  BY PortfolioAssumption DEF Move, PortfolioInv, TypeOK
<1>5. TypeOK'
  BY <1>4 DEF Move, PortfolioInv, TypeOK, operator, thread, published
<1>6. OfViewed'
  BY <1>2, <1>3 DEF Move, PortfolioInv, OfViewed, operator, thread, InUse
<1> QED BY <1>5, <1>6 DEF Move, PortfolioInv, OneBook, thread, published

LEMMA TroubleCounted ==
  ASSUME TypeOK, (\E n : Troubles(n)) \/ UNCHANGED troubles
  PROVE  troubles' \in 0..MaxTroubles
BY DEF TypeOK, Troubles

LEMMA DataStep ==
  ASSUME PortfolioInv, Data
  PROVE  PortfolioInv'
<1>1. CASE CaptureControls
  <2>1. conn' \in Settings
    BY <1>1, InUseSettings DEF CaptureControls, PortfolioInv, OfViewed
  <2>2. TypeOK'
    BY <1>1, <2>1 DEF CaptureControls, Goto, PortfolioInv, TypeOK, Stage, operator, published, brokerage
  <2>3. OfViewed'
    BY <1>1 DEF CaptureControls, Goto, PortfolioInv, OfViewed, operator, brokerage, InUse
  <2> QED BY <1>1, <2>2, <2>3 DEF CaptureControls, PortfolioInv, OneBook, published
<1>2. CASE Probe
  <2>1. TypeOK'
    BY <1>2, TroubleCounted DEF Probe, Goto, PortfolioInv, TypeOK, Stage, operator, published
  <2>2. OfViewed'
    BY <1>2 DEF Listening, Probe, Goto, PortfolioInv, OfViewed, operator, InUse
  <2> QED BY <1>2, <2>1, <2>2 DEF Probe, PortfolioInv, OneBook, published
<1>3. CASE ProbeFails
  BY <1>3, TroubleCounted, DisconnectKeeps DEF ProbeFails, operator, PortfolioInv
<1>4. CASE Resolve
  <2>1. viewing' \in Account
    BY <1>4, ResolvedInAccount DEF Resolve, Goto, PortfolioInv, OfViewed
  <2>2. TypeOK'
    BY <1>4, <2>1 DEF Resolve, Goto, PortfolioInv, TypeOK, Stage, operator, published, brokerage
  <2>3. OfViewed'
    BY <1>4 DEF Resolve, Goto, PortfolioInv, OfViewed, operator, brokerage, InUse
  <2> QED BY <1>4, <2>2, <2>3 DEF Resolve, PortfolioInv, OneBook, published
<1>5. CASE CallFails
  BY <1>5, TroubleCounted, DisconnectKeeps DEF CallFails, operator, PortfolioInv
<1>6. CASE Subscribe
  BY <1>6, SubscribeKeeps
<1>7. CASE Check
  <2>1. TypeOK'
    BY <1>7 DEF Check, PortfolioInv, TypeOK, Stage, operator, published, brokerage
  <2>2. OfViewed'
    BY <1>7 DEF Check, PortfolioInv, OfViewed, operator, brokerage, InUse
  <2> QED BY <1>7, <2>1, <2>2 DEF Check, PortfolioInv, OneBook, published
<1>8. CASE Receive
  BY <1>8, ReceiveKeeps
<1>9. CASE Drained
  <2>1. TypeOK'
    BY <1>9, TroubleCounted DEF Drained, Goto, PortfolioInv, TypeOK, Stage, operator, published
  <2>2. OfViewed'
    BY <1>9 DEF Drained, Goto, PortfolioInv, OfViewed, operator, InUse
  <2> QED BY <1>9, <2>1, <2>2 DEF Drained, PortfolioInv, OneBook, published
<1>10. CASE Publish
  <2>1. TypeOK'
    BY <1>10 DEF Publish, PortfolioInv, TypeOK, Stage, operator, brokerage
  <2>2. OfViewed'
    BY <1>10 DEF Publish, PortfolioInv, OfViewed, operator, brokerage, InUse
  <2> QED BY <1>10, <2>1, <2>2 DEF Publish, PortfolioInv, OneBook
<1>11. CASE Close
  BY <1>11, TroubleCounted, DisconnectKeeps DEF Close, operator, PortfolioInv
<1> QED BY <1>1, <1>2, <1>3, <1>4, <1>5, <1>6, <1>7, <1>8, <1>9, <1>10, <1>11 DEF Data

LEMMA PortfolioStep == PortfolioInv /\ [Next]_vars => PortfolioInv'
<1> SUFFICES ASSUME PortfolioInv, [Next]_vars PROVE PortfolioInv'
  OBVIOUS
<1>1. ASSUME NEW s \in InUse, Save(s) PROVE PortfolioInv'
  <2>1. TypeOK'
    BY <1>1, InUseSettings DEF Save, PortfolioInv, TypeOK, thread, published, brokerage
  <2>2. OfViewed'
    BY <1>1 DEF Save, PortfolioInv, OfViewed, thread, brokerage, InUse
  <2> QED BY <1>1, <2>1, <2>2 DEF Save, PortfolioInv, OneBook, thread, published
<1>2. CASE Data
  BY <1>2, DataStep
<1>3. CASE LinkDrops
  <2>1. TypeOK'
    BY <1>3, TroubleCounted DEF LinkDrops, PortfolioInv, TypeOK, operator, thread, published
  <2>2. OfViewed'
    BY <1>3 DEF LinkDrops, PortfolioInv, OfViewed, operator, thread, InUse
  <2> QED BY <1>3, <2>1, <2>2 DEF LinkDrops, PortfolioInv, OneBook, thread, published
<1>4. ASSUME NEW a \in Account, NEW s \in Symbol, NEW q \in 0..MaxQty, Move(a, s, q)
      PROVE  PortfolioInv'
  BY <1>4, MoveKeeps
<1>5. CASE UNCHANGED vars
  <2>1. TypeOK'
    BY <1>5 DEF PortfolioInv, TypeOK, vars, operator, thread, published, brokerage
  <2>2. OfViewed'
    BY <1>5 DEF PortfolioInv, OfViewed, vars, operator, thread, brokerage, InUse
  <2> QED BY <1>5, <2>1, <2>2 DEF PortfolioInv, OneBook, vars, thread, published
<1> QED BY <1>1, <1>2, <1>3, <1>4, <1>5 DEF Next

\* Every reachable state of the Portfolio tab has the declared types.
THEOREM TypeCorrect == Spec => []TypeOK
<1>1. PortfolioInv => TypeOK
  BY DEF PortfolioInv
<1> QED BY <1>1, PortfolioInit, PortfolioStep, PTL DEF Spec

\* The rows shown together are always of one account and of different symbols,
\* whatever is saved, lost or traded, for all accounts, ports and symbols.
THEOREM OneAccountShownHolds == Spec => []OneAccountShown
<1>1. PortfolioInv => OneAccountShown
  BY DEF PortfolioInv, OneBook, OneAccountShown
<1> QED BY <1>1, PortfolioInit, PortfolioStep, PTL DEF Spec
=============================================================================
