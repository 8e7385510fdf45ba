------------------------- MODULE MasterFeed_proofs -------------------------
(***************************************************************************)
(* Proofs about the master's feed: its types, that snapshot and JSON go    *)
(* together, that no APPLY is lost, and that with one account behind the   *)
(* login what is served as connected is a book the account had.            *)
(***************************************************************************)
EXTENDS MasterFeed, SequenceTheorems, TLAPS

Messages == Update \cup {End}

\* A position update is a message, and none that ends a replay.
LEMMA MessageProperties ==
  ASSUME NEW a \in Accounts, NEW s \in Sym, NEW q \in Nets
  PROVE  /\ Message(a, s, q) \in Messages
         /\ Message(a, s, q) # End
         /\ Message(a, s, q).sym = s /\ Message(a, s, q).qty = q
  BY DEF Message, Messages, Update, End

\* Every update is about a symbol and carries a quantity.
LEMMA UpdateProperties ==
  ASSUME NEW m \in Messages, m # End
  PROVE  m.sym \in Sym /\ m.qty \in Nets
  BY DEF Messages, Update

\* The generation counts the finished uses of APPLY, and the worker has seen no other.
Counted ==
  /\ applies = IF op = "bump" THEN gen + 1 ELSE gen
  /\ myGen <= gen

TypeInv == TypeOK /\ Counted

\* No action spoils what is on the stream.
LEMMA StreamTyped ==
  ASSUME TypeOK, [Next]_vars
  PROVE  stream' \in Seq(Messages)
<1> stream \in Seq(Messages)
  BY DEF TypeOK, Messages
<1>1. CASE \E a \in Accounts, s \in Sym, q \in Nets : Change(a, s, q)
  <2>1. PICK a \in Accounts, s \in Sym, q \in Nets : Change(a, s, q)
    BY <1>1
  <2>2. Message(a, s, q) \in Messages
    BY MessageProperties
  <2>3. Append(stream, Message(a, s, q)) \in Seq(Messages)
    BY <2>2, AppendProperties
  <2> QED BY <2>1, <2>3 DEF Change
<1>2. CASE \E a \in Accounts, s \in Sym : Replay(a, s)
  <2>1. PICK a \in Accounts, s \in Sym : Replay(a, s)
    BY <1>2
  <2>2. acct[a][s] \in Nets
    BY DEF TypeOK, Book
  <2>3. Message(a, s, acct[a][s]) \in Messages
    BY <2>2, MessageProperties
  <2>4. Append(stream, Message(a, s, acct[a][s])) \in Seq(Messages)
    BY <2>3, AppendProperties
  <2> QED BY <2>1, <2>4 DEF Replay
<1>3. CASE EndReplay
  <2>1. Append(stream, End) \in Seq(Messages)
    BY AppendProperties DEF Messages
  <2> QED BY <1>3, <2>1 DEF EndReplay
<1>4. CASE Drop
  <2>1. PICK n \in 0..Len(stream) : stream' = SubSeq(stream, 1, n)
    BY <1>4 DEF Drop
  <2>2. \A i \in 1..n : stream[i] \in Messages
    BY <2>1, ElementOfSeq
  <2> QED BY <2>1, <2>2, SubSeqProperties
<1>5. CASE Drain
  <2>1. stream # <<>> /\ stream' = Tail(stream)
    BY <1>5 DEF Drain
  <2> QED BY <2>1, HeadTailProperties
<1>6. CASE Connect \/ MarkOffline
  BY <1>6, EmptySeq DEF Connect, MarkOffline
<1>7. CASE UNCHANGED stream
  BY <1>7
<1>8. CASE \/ CaptureGen \/ CaptureParams \/ ConnectFails \/ CheckGen
           \/ Drained \/ Publish \/ StoreJson \/ StoreOffline \/ RequestReconnect
           \/ \E c \in Conns : PressApply(c)
  BY <1>7, <1>8 DEF CaptureGen, CaptureParams, ConnectFails, CheckGen, Drained, Publish,
                    StoreJson, StoreOffline, RequestReconnect, PressApply, ib
<1>9. CASE UNCHANGED vars
  BY <1>7, <1>9 DEF vars, ib
<1> QED
  BY <1>1, <1>2, <1>3, <1>4, <1>5, <1>6, <1>8, <1>9 DEF Next, Worker, Gateway

\* Every reachable state has the declared types, and the generations are counted.
LEMMA TypeStep == TypeInv /\ [Next]_vars => TypeInv'
<1> SUFFICES ASSUME TypeInv, [Next]_vars PROVE TypeInv'
  OBVIOUS
<1> USE DEF TypeInv, TypeOK, Counted
<1>0. stream' \in Seq(Update \cup {End})
  BY StreamTyped DEF Messages
<1>1. CASE \E a \in Accounts, s \in Sym, q \in Nets : Change(a, s, q)
  <2>1. PICK a \in Accounts, s \in Sym, q \in Nets : Change(a, s, q)
    BY <1>1
  <2>2. acct' \in [Accounts -> Book]
    BY <2>1 DEF Change, Book
  <2>3. acct'[Main] \in Book
    BY <2>2, FeedAssumption
  <2>a. changes < MaxChanges /\ changes' = changes + 1 /\ past' = past \cup {acct'[Main]}
    BY <2>1 DEF Change
  <2>b. changes' \in 0..MaxChanges
    BY <2>a, FeedAssumption
  <2>4. changes' \in 0..MaxChanges /\ past' \subseteq Book
    BY <2>a, <2>b, <2>3
  <2>5. UNCHANGED <<up, drops, toReplay, ended, window, shown, pc, worker>>
    BY <2>1 DEF Change
  <2> QED BY <1>0, <2>2, <2>4, <2>5 DEF window, shown, worker
<1>2. CASE Gateway
  <2>1. toReplay' \subseteq Accounts \X Sym /\ ended' \in BOOLEAN
    BY <1>2 DEF Gateway, Replay, EndReplay
  <2>2. UNCHANGED <<acct, changes, up, drops, past, window, shown, pc, worker>>
    BY <1>2 DEF Gateway, Replay, EndReplay
  <2> QED BY <1>0, <2>1, <2>2 DEF window, shown, worker
<1>3. CASE Drop
  <2>a. up' = FALSE /\ drops < MaxDrops /\ drops' = drops + 1
    BY <1>3 DEF Drop
  <2>b. drops' \in 0..MaxDrops
    BY <2>a, FeedAssumption
  <2>1. up' \in BOOLEAN /\ drops' \in 0..MaxDrops
    BY <2>a, <2>b, Zenon
  <2>2. UNCHANGED <<acct, changes, toReplay, ended, past, window, shown, pc, worker>>
    BY <1>3 DEF Drop
  <2> QED BY <1>0, <2>1, <2>2 DEF window, shown, worker
<1>4. CASE \E c \in Conns : PressApply(c)
  <2>1. conn' \in Conns /\ op' = "bump" /\ op = "none" /\ applies < MaxApplies
        /\ applies' = applies + 1
    BY <1>4 DEF PressApply
  <2>2. UNCHANGED <<ib, gen, shown, pc, worker>>
    BY <1>4 DEF PressApply
  <2>3. applies' \in 0..MaxApplies /\ applies' = gen' + 1
    BY <2>1, <2>2, FeedAssumption
  <2> QED BY <1>0, <2>1, <2>2, <2>3 DEF ib, shown, worker
<1>5. CASE RequestReconnect
  <2>1. op = "bump" /\ op' = "none" /\ gen' = gen + 1
    BY <1>5 DEF RequestReconnect
  <2>2. UNCHANGED <<ib, conn, applies, shown, pc, worker>>
    BY <1>5 DEF RequestReconnect
  <2>3. gen' \in 0..MaxApplies /\ myGen' <= gen'
    BY <2>1, <2>2, FeedAssumption DEF worker
  <2> QED BY <1>0, <2>1, <2>2, <2>3 DEF ib, shown, worker
<1>6. CASE CaptureGen \/ CaptureParams \/ ConnectFails \/ CheckGen \/ Drained
  <2>1. myGen' \in 0..MaxApplies /\ myGen' <= gen /\ used' \in Conns
    BY <1>6 DEF CaptureGen, CaptureParams, ConnectFails, CheckGen, Drained, worker
  <2>2. pc' \in {"params", "connect", "down", "drain", "publish"}
    BY <1>6 DEF CaptureGen, CaptureParams, ConnectFails, CheckGen, Drained
  <2>3. UNCHANGED <<ib, window, shown, book, replayDone>>
    BY <1>6 DEF CaptureGen, CaptureParams, ConnectFails, CheckGen, Drained, worker
  <2> QED BY <1>0, <2>1, <2>2, <2>3 DEF ib, window, shown
<1>7. CASE Connect
  <2>1. acct[Main] \in Book /\ Empty \in Book
    BY FeedAssumption DEF Empty, Book
  <2>2. past' \subseteq Book /\ toReplay' \subseteq Accounts \X Sym /\ book' \in Book
        /\ up' \in BOOLEAN /\ ended' \in BOOLEAN /\ replayDone' \in BOOLEAN
        /\ pc' = "check"
    BY <1>7, <2>1 DEF Connect
  <2>3. UNCHANGED <<acct, changes, drops, window, shown, myGen, used>>
    BY <1>7 DEF Connect
  <2> QED BY <1>0, <2>2, <2>3 DEF window, shown
<1>8. CASE Drain
  <2>1. Head(stream) \in Messages
    BY <1>8, HeadTailProperties DEF Drain, Messages
  <2>2. Head(stream) # End => Head(stream).sym \in Sym /\ Head(stream).qty \in Nets
    BY <2>1, UpdateProperties
  <2>3. book' \in Book /\ replayDone' \in BOOLEAN
    BY <1>8, <2>2 DEF Drain, Book
  <2>4. UNCHANGED <<acct, changes, up, drops, toReplay, ended, past, window, shown, pc,
                    myGen, used>>
    BY <1>8 DEF Drain
  <2> QED BY <1>0, <2>3, <2>4 DEF window, shown
<1>9. CASE Publish \/ StoreJson \/ StoreOffline
  <2>a. /\ [connected |-> TRUE, positions |-> book] \in Snapshot
        /\ [snapshot EXCEPT !.connected = FALSE] \in Snapshot
    BY DEF Snapshot
  <2>b. snapshot' \in Snapshot
    BY <1>9, <2>a, Zenon DEF Publish, StoreJson, StoreOffline
  <2>c. json' \in Snapshot
    BY <1>9 DEF Publish, StoreJson, StoreOffline
  <2>1. snapshot' \in Snapshot /\ json' \in Snapshot
    BY <2>b, <2>c
  <2>2. pc' \in {"json", "check", "attempt"}
    BY <1>9 DEF Publish, StoreJson, StoreOffline
  <2>3. UNCHANGED <<ib, window, worker>>
    BY <1>9 DEF Publish, StoreJson, StoreOffline
  <2> QED BY <1>0, <2>1, <2>2, <2>3 DEF ib, window, worker
<1>10. CASE MarkOffline
  <2>1. snapshot' \in Snapshot
    BY <1>10 DEF MarkOffline, Snapshot
  <2>2. up' \in BOOLEAN /\ toReplay' = {} /\ ended' \in BOOLEAN /\ pc' = "downjson"
    BY <1>10 DEF MarkOffline
  <2>3. UNCHANGED <<acct, changes, drops, past, window, json, worker>>
    BY <1>10 DEF MarkOffline
  <2> QED BY <1>0, <2>1, <2>2, <2>3 DEF window, worker
<1>11. CASE UNCHANGED vars
  BY <1>0, <1>11 DEF vars, ib, window, shown, worker
<1> QED
  BY <1>1, <1>2, <1>3, <1>4, <1>5, <1>6, <1>7, <1>8, <1>9, <1>10, <1>11 DEF Next, Worker

LEMMA TypeInit == Init => TypeInv
<1> SUFFICES ASSUME Init PROVE TypeInv
  OBVIOUS
<1>1. /\ acct \in [Accounts -> Book] /\ up = FALSE /\ ended = FALSE /\ replayDone = FALSE
      /\ toReplay = {} /\ past = {} /\ conn \in Conns /\ op = "none" /\ pc = "attempt"
      /\ used = conn /\ changes = 0 /\ drops = 0 /\ gen = 0 /\ applies = 0 /\ myGen = 0
  BY DEF Init
<1>2. Empty \in Book
  BY FeedAssumption DEF Empty, Book
<1>3. book \in Book /\ Standby \in Snapshot
  BY <1>2 DEF Init, Standby, Snapshot
<1>4. snapshot \in Snapshot /\ json \in Snapshot
  BY <1>3 DEF Init
<1>5. stream \in Seq(Update \cup {End})
  BY EmptySeq DEF Init
<1>6. 0 \in 0..MaxChanges /\ 0 \in 0..MaxDrops /\ 0 \in 0..MaxApplies
  BY FeedAssumption
<1>7. Counted
  BY <1>1 DEF Counted
<1>8. TypeOK
  BY <1>1, <1>3, <1>4, <1>5, <1>6 DEF TypeOK
<1> QED BY <1>7, <1>8 DEF TypeInv

\* Every reachable state has the declared types.
THEOREM TypeCorrect == Spec => []TypeOK
<1>1. TypeInv => TypeOK
  BY DEF TypeInv
<1> QED BY <1>1, TypeInit, TypeStep, PTL DEF Spec

\* The snapshot and the cached JSON differ only between the worker's two stores.
THEOREM LockstepHolds == Spec => []Lockstep
<1>1. Init => Lockstep
  BY DEF Init, Lockstep
<1>2. Lockstep /\ [Next]_vars => Lockstep'
  <2> SUFFICES ASSUME Lockstep, [Next]_vars PROVE Lockstep'
    OBVIOUS
  <2> USE DEF Lockstep
  <2>1. CASE Publish \/ MarkOffline
    BY <2>1 DEF Publish, MarkOffline
  <2>2. CASE StoreJson \/ StoreOffline
    BY <2>2 DEF StoreJson, StoreOffline
  <2>3. CASE UNCHANGED shown /\ (pc \in {"json", "downjson"} => pc' = pc)
    BY <2>3 DEF shown
  <2>4. CASE \/ CaptureGen \/ CaptureParams \/ Connect \/ ConnectFails \/ CheckGen
             \/ Drain \/ Drained
    BY <2>3, <2>4 DEF CaptureGen, CaptureParams, Connect, ConnectFails, CheckGen, Drain,
                      Drained
  <2>5. CASE Gateway \/ Drop \/ RequestReconnect
    BY <2>3, <2>5 DEF Gateway, Replay, EndReplay, Drop, RequestReconnect
  <2>6. CASE \/ \E a \in Accounts, s \in Sym, q \in Nets : Change(a, s, q)
             \/ \E c \in Conns : PressApply(c)
    BY <2>3, <2>6 DEF Change, PressApply
  <2>7. CASE UNCHANGED vars
    BY <2>7 DEF vars, shown
  <2> QED BY <2>1, <2>2, <2>4, <2>5, <2>6, <2>7 DEF Next, Worker
<1> QED BY <1>1, <1>2, PTL DEF Spec

\* A worker that has seen the last generation works with the parameters stored before
\* it: the window stores them before it bumps, and the worker looks at the generation
\* first.
THEOREM NoLostApplyHolds == Spec => []NoLostApply
<1>1. Init => NoLostApply
  BY DEF Init, NoLostApply
<1>2. TypeInv /\ NoLostApply /\ [Next]_vars => NoLostApply'
  <2> SUFFICES ASSUME TypeInv, NoLostApply, [Next]_vars PROVE NoLostApply'
    OBVIOUS
  <2> USE DEF NoLostApply
  <2>1. CASE \E c \in Conns : PressApply(c)
    BY <2>1 DEF PressApply
  <2>2. CASE RequestReconnect
    <3>1. gen' = gen + 1 /\ myGen' = myGen
      BY <2>2 DEF RequestReconnect, worker
    <3> QED BY <3>1 DEF TypeInv, TypeOK, Counted
  <2>3. CASE CaptureGen \/ CaptureParams
    BY <2>3 DEF CaptureGen, CaptureParams, window
  <2>4. CASE /\ UNCHANGED <<op, gen, conn, myGen, used>>
             /\ pc \in {"attempt", "params"} => pc' \in {"attempt", "params"}
    BY <2>4
  <2>5. CASE \/ Connect \/ ConnectFails \/ CheckGen \/ Drain \/ Drained \/ Publish
             \/ StoreJson \/ MarkOffline \/ StoreOffline
    BY <2>4, <2>5 DEF Connect, ConnectFails, CheckGen, Drain, Drained, Publish, StoreJson,
                      MarkOffline, StoreOffline, window, worker
  <2>6. CASE \/ Gateway \/ Drop
             \/ \E a \in Accounts, s \in Sym, q \in Nets : Change(a, s, q)
    BY <2>4, <2>6 DEF Gateway, Replay, EndReplay, Drop, Change, window, worker
  <2>7. CASE UNCHANGED vars
    BY <2>4, <2>7 DEF vars, window, worker
  <2> QED BY <2>1, <2>2, <2>3, <2>5, <2>6, <2>7 DEF Next, Worker
<1> QED BY <1>1, <1>2, TypeInit, TypeStep, PTL DEF Spec

-----------------------------------------------------------------------------
(* One account behind the login *)

\* MixedAccounts: with another account the book may mix the two.
OneAccount == Accounts = {Main}

\* What one message makes of the book.
Applied(b, m) == IF m = End THEN b ELSE [b EXCEPT ![m.sym] = m.qty]

\* What the stream, once drained, will have made of it: the account's book, but for
\* what is still to be replayed.
Arrived == [s \in Sym |-> IF <<Main, s>> \in toReplay THEN 0 ELSE acct[Main][s]]

EndBefore(i) == replayDone \/ \E j \in 1..i : stream[j] = End

\* The books that the messages on the stream lead through: each follows from the one
\* before, they lead to what has arrived, and from the end of the replay on each is
\* one the account has had.
Course(h) ==
  /\ h \in [0..Len(stream) -> Book]
  /\ h[0] = book
  /\ \A i \in 1..Len(stream) : h[i] = Applied(h[i - 1], stream[i])
  /\ up => h[Len(stream)] = Arrived
  /\ \A i \in 0..Len(stream) : EndBefore(i) => h[i] \in past

ReplayInv ==
  /\ up => acct[Main] \in past
  /\ up /\ ended => toReplay = {}
  /\ up /\ ~ended => ~replayDone /\ \A j \in 1..Len(stream) : stream[j] # End

OnCourse == \E h \in [0..Len(stream) -> Book] : Course(h)

CourseInv == TypeInv /\ ReplayInv /\ OnCourse

LEMMA AppliedTyped ==
  ASSUME NEW b \in Book, NEW m \in Messages
  PROVE  Applied(b, m) \in Book
BY UpdateProperties DEF Applied, Book

\* A message that takes what has arrived to what has arrived then leaves the stream on
\* course.
LEMMA CourseAppended ==
  ASSUME stream \in Seq(Messages), OnCourse, up, up',
         NEW m \in Messages, stream' = Append(stream, m),
         UNCHANGED <<book, replayDone>>, past \subseteq past',
         Arrived' \in Book, Arrived' = Applied(Arrived, m),
         EndBefore(Len(stream))' => Arrived' \in past'
  PROVE  OnCourse'
<1>1. PICK h : Course(h)
  BY DEF OnCourse
<1>2. PICK n : n = Len(stream)
  OBVIOUS
<1>3. n \in Nat
  BY <1>2, LenProperties
<1>4. PICK a : a = Arrived'
  OBVIOUS
<1>5. PICK g : g = [i \in 0..(n + 1) |-> IF i <= n THEN h[i] ELSE a]
  OBVIOUS
<1>6. /\ Len(stream') = n + 1 /\ stream'[n + 1] = m
      /\ \A i \in 1..n : stream'[i] = stream[i]
  BY <1>2, AppendProperties
<1>7. /\ h \in [0..n -> Book] /\ h[0] = book
      /\ \A i \in 1..n : h[i] = Applied(h[i - 1], stream[i])
      /\ h[n] = Arrived
      /\ \A i \in 0..n : EndBefore(i) => h[i] \in past
  BY <1>1, <1>2 DEF Course
<1>8. g \in [0..(n + 1) -> Book] /\ g[0] = book
  BY <1>3, <1>4, <1>5, <1>7
<1>9. ASSUME NEW i \in 1..(n + 1) PROVE g[i] = Applied(g[i - 1], stream'[i])
  <2>1. CASE i <= n
    <3>1. i \in 1..n /\ g[i] = h[i] /\ g[i - 1] = h[i - 1]
      BY <1>3, <1>5, <2>1
    <3> QED BY <1>6, <1>7, <3>1
  <2>2. CASE i = n + 1
    <3>1. g[i] = a /\ g[i - 1] = h[n]
      BY <1>3, <1>5, <2>2
    <3> QED BY <1>4, <1>6, <1>7, <2>2, <3>1
  <2>3. i <= n \/ i = n + 1
    BY <1>3
  <2> QED BY <2>1, <2>2, <2>3
<1>10. g[n + 1] = Arrived'
  BY <1>3, <1>4, <1>5
<1>11. ASSUME NEW i \in 0..(n + 1), EndBefore(i)' PROVE g[i] \in past'
  <2>1. CASE i <= n
    <3>1. i \in 0..n /\ g[i] = h[i]
      BY <1>3, <1>5, <2>1
    <3>2. EndBefore(i)
      BY <1>6, <1>11, <3>1 DEF EndBefore
    <3> QED BY <1>7, <3>1, <3>2
  <2>2. CASE i = n + 1
    <3>1. EndBefore(Len(stream))'
      BY <1>6, <1>11, <2>2 DEF EndBefore
    <3> QED BY <1>10, <2>2, <3>1
  <2>3. i <= n \/ i = n + 1
    BY <1>3
  <2> QED BY <2>1, <2>2, <2>3
<1>12. Course(g)'
  BY <1>6, <1>8, <1>9, <1>10, <1>11 DEF Course
<1> QED BY <1>6, <1>8, <1>12 DEF OnCourse

\* A message taken off the stream leaves the rest on course.
LEMMA CourseDrained ==
  ASSUME stream \in Seq(Messages), OnCourse, stream # <<>>,
         stream' = Tail(stream), book' = Applied(book, Head(stream)),
         replayDone' = (replayDone \/ Head(stream) = End),
         UNCHANGED <<up, acct, toReplay, past>>
  PROVE  OnCourse'
<1>1. PICK h : Course(h)
  BY DEF OnCourse
<1>2. PICK n : n = Len(stream) - 1
  OBVIOUS
<1>3. /\ n \in Nat /\ Len(stream) = n + 1 /\ Len(stream') = n /\ Head(stream) = stream[1]
      /\ \A i \in 1..n : stream'[i] = stream[i + 1]
  BY <1>2, EmptySeq, HeadTailProperties
<1>4. PICK g : g = [i \in 0..n |-> h[i + 1]]
  OBVIOUS
<1>5. /\ h \in [0..(n + 1) -> Book] /\ h[0] = book
      /\ \A i \in 1..(n + 1) : h[i] = Applied(h[i - 1], stream[i])
      /\ up => h[n + 1] = Arrived
      /\ \A i \in 0..(n + 1) : EndBefore(i) => h[i] \in past
  BY <1>1, <1>3 DEF Course
<1>6. g \in [0..n -> Book]
  BY <1>3, <1>4, <1>5
<1>7. g[0] = book'
  BY <1>3, <1>4, <1>5
<1>8. ASSUME NEW i \in 1..n PROVE g[i] = Applied(g[i - 1], stream'[i])
  <2>1. i + 1 \in 1..(n + 1) /\ g[i] = h[i + 1] /\ g[i - 1] = h[(i + 1) - 1]
    BY <1>3, <1>4
  <2> QED BY <1>3, <1>5, <2>1
<1>9. up' => g[n] = Arrived'
  BY <1>3, <1>4, <1>5 DEF Arrived
<1>10. ASSUME NEW i \in 0..n, EndBefore(i)' PROVE g[i] \in past'
  <2>1. i + 1 \in 0..(n + 1) /\ g[i] = h[i + 1]
    BY <1>3, <1>4
  <2>2. EndBefore(i + 1)
    <3>1. CASE replayDone \/ Head(stream) = End
      BY <1>3, <3>1 DEF EndBefore
    <3>2. CASE ~replayDone'
      <4>1. PICK j \in 1..i : stream'[j] = End
        BY <1>10, <3>2 DEF EndBefore
      <4>2. j + 1 \in 1..(i + 1) /\ stream[j + 1] = End
        BY <1>3, <4>1
      <4> QED BY <4>2 DEF EndBefore
    <3> QED BY <3>1, <3>2
  <2> QED BY <1>5, <2>1, <2>2
<1>11. Course(g)'
  BY <1>3, <1>6, <1>7, <1>8, <1>9, <1>10 DEF Course
<1> QED BY <1>3, <1>6, <1>11 DEF OnCourse

\* So does losing the end of the stream with the connection.
LEMMA CourseCut ==
  ASSUME stream \in Seq(Messages), OnCourse, NEW n \in 0..Len(stream),
         stream' = SubSeq(stream, 1, n), up' = FALSE,
         UNCHANGED <<book, replayDone, past>>
  PROVE  OnCourse'
<1>1. PICK h : Course(h)
  BY DEF OnCourse
<1>2. Len(stream) \in Nat /\ \A i \in 1..Len(stream) : stream[i] \in Messages
  BY LenProperties, ElementOfSeq
<1>3. Len(stream') = n /\ \A i \in 1..n : stream'[i] = stream[i]
  BY <1>2, SubSeqProperties
<1>4. PICK g : g = [i \in 0..n |-> h[i]]
  OBVIOUS
<1>5. \A i \in 0..n : i \in 0..Len(stream) /\ g[i] = h[i]
  BY <1>2, <1>4
<1>6. g \in [0..n -> Book] /\ g[0] = book'
  BY <1>1, <1>2, <1>4, <1>5 DEF Course
<1>7. \A i \in 1..n : g[i] = Applied(g[i - 1], stream'[i])
  <2> SUFFICES ASSUME NEW i \in 1..n PROVE g[i] = Applied(g[i - 1], stream'[i])
    OBVIOUS
  <2>1. i \in 1..Len(stream) /\ i \in 0..n /\ i - 1 \in 0..n
    BY <1>2
  <2> QED BY <1>1, <1>3, <1>5, <2>1 DEF Course
<1>8. \A i \in 0..n : EndBefore(i)' => g[i] \in past'
  <2> SUFFICES ASSUME NEW i \in 0..n, EndBefore(i)' PROVE g[i] \in past'
    OBVIOUS
  <2>1. EndBefore(i)
    BY <1>3 DEF EndBefore
  <2> QED BY <1>1, <1>5, <2>1 DEF Course
<1>9. Course(g)'
  BY <1>3, <1>6, <1>7, <1>8 DEF Course
<1> QED BY <1>3, <1>6, <1>9 DEF OnCourse

\* An empty stream is on course, if the book is what has arrived.
LEMMA CourseEmpty ==
  ASSUME stream' = <<>>, book' \in Book, up' => book' = Arrived',
         replayDone' => book' \in past'
  PROVE  OnCourse'
<1>1. PICK g : g = [i \in 0..0 |-> book']
  OBVIOUS
<1>2. Len(stream') = 0
  BY EmptySeq
<1>3. Course(g)'
  BY <1>1, <1>2 DEF Course, EndBefore
<1> QED BY <1>1, <1>2, <1>3 DEF OnCourse

\* What is not on the stream does not matter but for what has arrived.
LEMMA CourseSame ==
  ASSUME OnCourse, UNCHANGED <<stream, book, replayDone>>, past \subseteq past',
         up' => up /\ Arrived' = Arrived
  PROVE  OnCourse'
<1>1. PICK h : Course(h)
  BY DEF OnCourse
<1>2. \A i \in 0..Len(stream) : EndBefore(i)' => EndBefore(i)
  BY DEF EndBefore
<1>3. /\ h \in [0..Len(stream') -> Book] /\ h[0] = book'
      /\ \A i \in 1..Len(stream') : h[i] = Applied(h[i - 1], stream'[i])
  BY <1>1 DEF Course
<1>4. up' => h[Len(stream')] = Arrived'
  BY <1>1 DEF Course
<1>5. \A i \in 0..Len(stream') : EndBefore(i)' => h[i] \in past'
  BY <1>1, <1>2 DEF Course
<1>6. Course(h)'
  BY <1>3, <1>4, <1>5 DEF Course
<1> QED BY <1>3, <1>6 DEF OnCourse

LEMMA ChangeKeepsCourse ==
  ASSUME OneAccount, CourseInv, NEW s \in Sym, NEW q \in Nets, Change(Main, s, q)
  PROVE  (ReplayInv /\ OnCourse)'
<1> DEFINE m == Message(Main, s, q)
<1>1. /\ acct' = [acct EXCEPT ![Main] = [acct[Main] EXCEPT ![s] = q]]
      /\ past' = past \cup {acct'[Main]}
      /\ UNCHANGED <<up, toReplay, ended, book, replayDone>>
  BY DEF Change, worker
<1>2. /\ acct[Main] \in Book
      /\ acct'[Main] = [acct[Main] EXCEPT ![s] = q] /\ acct'[Main] \in Book
  BY <1>1, FeedAssumption DEF CourseInv, TypeInv, TypeOK, Book
<1>3. stream \in Seq(Messages) /\ Main \in Accounts
  BY FeedAssumption DEF CourseInv, TypeInv, TypeOK, Messages
<1>4. m \in Messages /\ m # End /\ m.sym = s /\ m.qty = q
  BY <1>3, MessageProperties
<1>5. CASE up /\ <<Main, s>> \notin toReplay
  <2>1. stream' = Append(stream, m)
    BY <1>5 DEF Change
  <2>2. /\ Len(stream') = Len(stream) + 1 /\ stream'[Len(stream) + 1] = m
        /\ \A j \in 1..Len(stream) : stream'[j] = stream[j]
    BY <1>3, <1>4, <2>1, AppendProperties
  <2>3. Len(stream) \in Nat
    BY <1>3, LenProperties
  <2>4. Arrived' \in Book
    BY <1>2, FeedAssumption DEF Arrived, Book
  <2>5. Arrived' = [Arrived EXCEPT ![s] = q]
    <3>1. Arrived' = [x \in Sym |-> IF <<Main, x>> \in toReplay THEN 0 ELSE acct'[Main][x]]
      BY <1>1 DEF Arrived
    <3>2. \A x \in Sym : acct'[Main][x] = IF x = s THEN q ELSE acct[Main][x]
      BY <1>2 DEF Book
    <3>3. Arrived' = [x \in Sym |-> IF x = s THEN q ELSE Arrived[x]]
      BY <1>5, <3>1, <3>2 DEF Arrived
    <3> QED BY <3>3 DEF Arrived
  <2>6. Arrived' = Applied(Arrived, m)
    BY <1>4, <2>5 DEF Applied
  <2>7. ~ended => ~replayDone' /\ \A j \in 1..Len(stream') : stream'[j] # End
    <3> SUFFICES ASSUME ~ended, NEW j \in 1..Len(stream')
                 PROVE  ~replayDone' /\ stream'[j] # End
      BY <1>1, <1>5 DEF CourseInv, ReplayInv
    <3>1. j \in 1..Len(stream) \/ j = Len(stream) + 1
      BY <2>2, <2>3
    <3> QED BY <1>1, <1>4, <1>5, <2>2, <3>1 DEF CourseInv, ReplayInv
  <2>8. ended => Arrived' = acct'[Main]
    <3>1. ended => toReplay' = {}
      BY <1>1, <1>5 DEF CourseInv, ReplayInv
    <3>2. toReplay' = {} => Arrived' = [x \in Sym |-> acct'[Main][x]]
      BY DEF Arrived
    <3> QED BY <1>2, <3>1, <3>2 DEF Book
  <2>9. EndBefore(Len(stream))' => Arrived' \in past'
    BY <1>1, <2>7, <2>8 DEF EndBefore
  <2>10. OnCourse'
    BY <1>1, <1>3, <1>4, <1>5, <2>1, <2>4, <2>6, <2>9, CourseAppended DEF CourseInv
  <2>11. ReplayInv'
    BY <1>1, <2>7 DEF CourseInv, ReplayInv
  <2> QED BY <2>10, <2>11
<1>6. CASE ~(up /\ <<Main, s>> \notin toReplay)
  <2>1. stream' = stream
    BY <1>6 DEF Change
  <2>2. up' => Arrived' = Arrived
    BY <1>1, <1>2, <1>6 DEF Arrived
  <2>3. OnCourse'
    BY <1>1, <2>1, <2>2, CourseSame DEF CourseInv
  <2>4. ReplayInv'
    BY <1>1, <2>1 DEF CourseInv, ReplayInv
  <2> QED BY <2>3, <2>4
<1> QED BY <1>5, <1>6

LEMMA ReplayKeepsCourse ==
  ASSUME OneAccount, CourseInv, NEW s \in Sym, Replay(Main, s)
  PROVE  (ReplayInv /\ OnCourse)'
<1> DEFINE m == Message(Main, s, acct[Main][s])
<1>1. /\ up /\ <<Main, s>> \in toReplay /\ toReplay' = toReplay \ {<<Main, s>>}
      /\ UNCHANGED <<acct, up, ended, past, book, replayDone>>
  BY DEF Replay, worker
<1>2. acct[Main] \in Book /\ acct[Main][s] \in Nets /\ Main \in Accounts
  BY FeedAssumption DEF CourseInv, TypeInv, TypeOK, Book
<1>3. stream \in Seq(Messages)
  BY DEF CourseInv, TypeInv, TypeOK, Messages
<1>4. m \in Messages /\ m # End /\ m.sym = s /\ m.qty = acct[Main][s]
  BY <1>2, MessageProperties
<1>5. /\ ~ended /\ ~replayDone /\ \A j \in 1..Len(stream) : stream[j] # End
  BY <1>1 DEF CourseInv, ReplayInv
<1>6. Arrived' = [Arrived EXCEPT ![s] = acct[Main][s]]
  BY <1>1, <1>2 DEF Arrived
<1>7. CASE acct[Main][s] = 0
  <2>1. stream' = stream
    BY <1>7 DEF Replay
  <2>2. Arrived[s] = 0 /\ Arrived = [x \in Sym |-> Arrived[x]]
    BY <1>1 DEF Arrived
  <2>3. Arrived' = Arrived
    BY <1>6, <1>7, <2>2
  <2>4. OnCourse'
    BY <1>1, <2>1, <2>3, CourseSame DEF CourseInv
  <2>5. ReplayInv'
    BY <1>1, <1>5, <2>1 DEF CourseInv, ReplayInv
  <2> QED BY <2>4, <2>5
<1>8. CASE acct[Main][s] # 0
  <2>1. stream' = Append(stream, m)
    BY <1>8 DEF Replay
  <2>2. /\ Len(stream') = Len(stream) + 1 /\ stream'[Len(stream) + 1] = m
        /\ \A j \in 1..Len(stream) : stream'[j] = stream[j]
    BY <1>3, <1>4, <2>1, AppendProperties
  <2>3. Len(stream) \in Nat
    BY <1>3, LenProperties
  <2>4. Arrived' \in Book
    BY <1>1, <1>2, FeedAssumption DEF Arrived, Book
  <2>5. Arrived' = Applied(Arrived, m)
    BY <1>4, <1>6 DEF Applied
  <2>6. \A j \in 1..Len(stream') : stream'[j] # End
    BY <1>4, <1>5, <2>2, <2>3
  <2>7. ~EndBefore(Len(stream))'
    BY <1>1, <1>5, <2>6 DEF EndBefore
  <2>8. OnCourse'
    BY <1>1, <1>3, <1>4, <2>1, <2>4, <2>5, <2>7, CourseAppended DEF CourseInv
  <2>9. ReplayInv'
    BY <1>1, <1>5, <2>6 DEF CourseInv, ReplayInv
  <2> QED BY <2>8, <2>9
<1> QED BY <1>7, <1>8

LEMMA EndReplayKeepsCourse ==
  ASSUME CourseInv, EndReplay
  PROVE  (ReplayInv /\ OnCourse)'
<1>1. /\ up /\ toReplay = {} /\ ended' = TRUE /\ stream' = Append(stream, End)
      /\ UNCHANGED <<acct, up, toReplay, past, book, replayDone>>
  BY DEF EndReplay, worker
<1>2. acct[Main] \in Book /\ acct[Main] \in past
  BY <1>1, FeedAssumption DEF CourseInv, TypeInv, TypeOK, ReplayInv
<1>3. stream \in Seq(Messages) /\ End \in Messages
  BY DEF CourseInv, TypeInv, TypeOK, Messages
<1>4. Arrived' = Applied(Arrived, End)
  BY <1>1 DEF Arrived, Applied
<1>5. Arrived' = acct[Main]
  <2>1. Arrived' = [s \in Sym |-> acct[Main][s]]
    BY <1>1 DEF Arrived
  <2> QED BY <1>2, <2>1 DEF Book
<1>6. OnCourse'
  BY <1>1, <1>2, <1>3, <1>4, <1>5, CourseAppended DEF CourseInv
<1>7. ReplayInv'
  BY <1>1, <1>2 DEF ReplayInv
<1> QED BY <1>6, <1>7

\* A book of which the replay has ended is one the account has had.
LEMMA BookIsPast ==
  ASSUME CourseInv, replayDone
  PROVE  book \in past
<1>1. PICK h : Course(h)
  BY DEF CourseInv, OnCourse
<1>2. 0 \in 0..Len(stream)
  BY LenProperties DEF CourseInv, TypeInv, TypeOK
<1> QED BY <1>1, <1>2 DEF Course, EndBefore

LEMMA CourseStep ==
  ASSUME OneAccount, CourseInv, [Next]_vars
  PROVE  CourseInv'
<1>1. TypeInv'
  BY TypeStep DEF CourseInv
<1>2. stream \in Seq(Messages)
  BY DEF CourseInv, TypeInv, TypeOK, Messages
<1> SUFFICES (ReplayInv /\ OnCourse)'
  BY <1>1 DEF CourseInv
<1>3. CASE \E a \in Accounts, s \in Sym, q \in Nets : Change(a, s, q)
  BY <1>3, ChangeKeepsCourse DEF OneAccount
<1>4. CASE \E a \in Accounts, s \in Sym : Replay(a, s)
  BY <1>4, ReplayKeepsCourse DEF OneAccount
<1>5. CASE EndReplay
  BY <1>5, EndReplayKeepsCourse
<1>6. CASE Drop
  <2>1. PICK n \in 0..Len(stream) : stream' = SubSeq(stream, 1, n)
    BY <1>6 DEF Drop
  <2>2. up' = FALSE /\ UNCHANGED <<book, replayDone, past>>
    BY <1>6 DEF Drop, worker
  <2>3. OnCourse'
    BY <1>2, <2>1, <2>2, CourseCut DEF CourseInv
  <2> QED BY <2>2, <2>3 DEF ReplayInv
<1>7. CASE Connect
  <2>1. /\ stream' = <<>> /\ ended' = FALSE /\ past' = {acct[Main]} /\ acct' = acct
        /\ book' = Empty /\ replayDone' = FALSE
        /\ toReplay' = {held \in Accounts \X Sym : acct[held[1]][held[2]] # 0}
    BY <1>7 DEF Connect
  <2>2. Empty \in Book
    BY FeedAssumption DEF Empty, Book
  <2>3. \A s \in Sym : <<Main, s>> \in toReplay' \/ acct[Main][s] = 0
    BY <2>1, FeedAssumption
  <2>4. Arrived' = Empty
    BY <2>1, <2>3 DEF Arrived, Empty
  <2>5. OnCourse'
    BY <2>1, <2>2, <2>4, CourseEmpty
  <2>6. Len(stream') = 0
    BY <2>1, EmptySeq
  <2>7. ReplayInv'
    BY <2>1, <2>6 DEF ReplayInv
  <2> QED BY <2>5, <2>7
<1>8. CASE MarkOffline
  <2>1. up' = FALSE /\ stream' = <<>> /\ UNCHANGED <<past, book, replayDone>>
    BY <1>8 DEF MarkOffline, worker
  <2>2. book' \in Book
    BY <2>1 DEF CourseInv, TypeInv, TypeOK
  <2>3. OnCourse'
    BY <2>1, <2>2, BookIsPast, CourseEmpty
  <2> QED BY <2>1, <2>3 DEF ReplayInv
<1>9. CASE Drain
  <2>1. /\ stream # <<>> /\ stream' = Tail(stream)
        /\ UNCHANGED <<acct, up, toReplay, ended, past>>
    BY <1>9 DEF Drain
  <2>2. Head(stream) \in Messages /\ replayDone \in BOOLEAN
    BY <1>2, <2>1, HeadTailProperties DEF CourseInv, TypeInv, TypeOK
  <2>3. book' = Applied(book, Head(stream))
    BY <1>9 DEF Drain, Applied
  <2>4. replayDone' = (replayDone \/ Head(stream) = End)
    <3>1. CASE Head(stream) = End
      BY <1>9, <3>1, Zenon DEF Drain
    <3>2. CASE Head(stream) # End
      BY <1>9, <2>2, <3>2, Zenon DEF Drain
    <3> QED BY <3>1, <3>2
  <2>5. OnCourse'
    BY <1>2, <2>1, <2>3, <2>4, CourseDrained DEF CourseInv
  <2>6. /\ Head(stream) = stream[1] /\ 1 \in 1..Len(stream)
        /\ \A j \in 1..Len(stream') : stream'[j] = stream[j + 1] /\ j + 1 \in 1..Len(stream)
    BY <1>2, <2>1, EmptySeq, HeadTailProperties
  <2>7. ReplayInv'
    BY <2>1, <2>4, <2>6 DEF CourseInv, ReplayInv
  <2> QED BY <2>5, <2>7
<1>10. CASE UNCHANGED <<ib, book, replayDone>>
  <2>1. UNCHANGED <<acct, up, stream, toReplay, ended, past, book, replayDone>>
    BY <1>10 DEF ib
  <2>2. OnCourse'
    BY <2>1, CourseSame DEF CourseInv, Arrived
  <2>3. ReplayInv'
    BY <2>1 DEF CourseInv, ReplayInv
  <2> QED BY <2>2, <2>3
<1>11. CASE \/ CaptureGen \/ CaptureParams \/ ConnectFails \/ CheckGen \/ Drained
            \/ Publish \/ StoreJson \/ StoreOffline \/ RequestReconnect
            \/ \E c \in Conns : PressApply(c)
  BY <1>10, <1>11 DEF CaptureGen, CaptureParams, ConnectFails, CheckGen, Drained, Publish,
                      StoreJson, StoreOffline, RequestReconnect, PressApply, worker
<1>12. CASE UNCHANGED vars
  BY <1>10, <1>12 DEF vars, worker
<1> QED BY <1>3, <1>4, <1>5, <1>6, <1>7, <1>8, <1>9, <1>11, <1>12
        DEF Next, Worker, Gateway

LEMMA CourseInit == Init => CourseInv
<1> SUFFICES ASSUME Init PROVE CourseInv
  OBVIOUS
<1>1. up = FALSE /\ replayDone = FALSE /\ stream = <<>> /\ book = Empty
  BY DEF Init
<1>2. Empty \in Book
  BY FeedAssumption DEF Empty, Book
<1>3. PICK g : g = [i \in 0..0 |-> book]
  OBVIOUS
<1>4. Len(stream) = 0
  BY <1>1, EmptySeq
<1>5. g \in [0..Len(stream) -> Book] /\ Course(g)
  BY <1>1, <1>2, <1>3, <1>4 DEF Course, EndBefore
<1>6. OnCourse
  BY <1>5 DEF OnCourse
<1> QED BY <1>1, <1>6, TypeInit DEF CourseInv, ReplayInv

\* Before a connection is made, the last one has been marked as lost.
ServedInv ==
  /\ pc \in {"attempt", "params", "connect", "downjson"} => ~snapshot.connected
  /\ Lockstep /\ PointInTime

LEMMA ServedStep ==
  ASSUME CourseInv, ServedInv, [Next]_vars
  PROVE  ServedInv'
<1> USE DEF ServedInv, Lockstep, PointInTime
<1>1. CASE Publish
  <2>1. CASE replayDone
    <3>1. snapshot' = [connected |-> TRUE, positions |-> book]
      BY <1>1, <2>1 DEF Publish
    <3>2. book \in past /\ past' = past /\ json' = json /\ pc' = "json"
      BY <1>1, <2>1, BookIsPast DEF Publish, ib
    <3> QED BY <3>1, <3>2
  <2>2. CASE ~replayDone
    <3>1. snapshot' = [snapshot EXCEPT !.connected = FALSE]
      BY <1>1, <2>2 DEF Publish
    <3>2. ~snapshot'.connected
      BY <3>1 DEF CourseInv, TypeInv, TypeOK, Snapshot
    <3>3. past' = past /\ json' = json /\ pc' = "json"
      BY <1>1 DEF Publish, ib
    <3> QED BY <3>2, <3>3
  <2> QED BY <2>1, <2>2
<1>2. CASE MarkOffline
  <2>1. ~snapshot'.connected
    BY <1>2 DEF MarkOffline, CourseInv, TypeInv, TypeOK, Snapshot
  <2>2. past' = past /\ json' = json /\ pc' = "downjson"
    BY <1>2 DEF MarkOffline
  <2> QED BY <2>1, <2>2
<1>3. CASE StoreJson \/ StoreOffline
  <2>1. /\ json' = snapshot /\ snapshot' = snapshot /\ past' = past
        /\ \/ pc' = "check"
           \/ pc = "downjson" /\ pc' = "attempt"
    BY <1>3 DEF StoreJson, StoreOffline, ib
  <2> QED BY <2>1
<1>4. CASE Connect
  <2>1. pc = "connect" /\ pc' = "check" /\ UNCHANGED <<snapshot, json>>
    BY <1>4 DEF Connect, shown
  <2> QED BY <2>1
<1>5. CASE /\ UNCHANGED <<snapshot, json>> /\ past \subseteq past'
           /\ \/ pc' = pc
              \/ pc \in {"attempt", "params"} /\ pc' \in {"params", "connect"}
              \/ pc \in {"connect", "check", "drain"} /\ pc' \in {"down", "drain", "publish"}
  BY <1>5
<1>6. CASE CaptureGen \/ CaptureParams \/ ConnectFails \/ CheckGen \/ Drain \/ Drained
  BY <1>5, <1>6 DEF CaptureGen, CaptureParams, ConnectFails, CheckGen, Drain, Drained,
                    shown, ib
<1>7. CASE \/ Gateway \/ Drop \/ RequestReconnect
           \/ \E a \in Accounts, s \in Sym, q \in Nets : Change(a, s, q)
           \/ \E c \in Conns : PressApply(c)
  BY <1>5, <1>7 DEF Gateway, Replay, EndReplay, Drop, RequestReconnect, Change, PressApply,
                    shown, ib
<1>8. CASE UNCHANGED vars
  BY <1>5, <1>8 DEF vars, shown, ib
<1> QED BY <1>1, <1>2, <1>3, <1>4, <1>6, <1>7, <1>8 DEF Next, Worker

\* With one account behind the login, positions served as connected are a book the
\* account has had since the subscription began: the replay is published only when it
\* is complete, each change only as a whole, and a lost connection is marked in both
\* views before the next is made.
THEOREM PointInTimeHolds ==
  ASSUME OneAccount
  PROVE  Spec => []PointInTime
<1>1. Init => CourseInv /\ ServedInv
  BY CourseInit DEF Init, ServedInv, Lockstep, PointInTime, Standby
<1>2. CourseInv /\ ServedInv /\ [Next]_vars => (CourseInv /\ ServedInv)'
  BY CourseStep, ServedStep
<1>3. CourseInv /\ ServedInv => PointInTime
  BY DEF ServedInv
<1> QED BY <1>1, <1>2, <1>3, PTL DEF Spec
=============================================================================
