---------------------------- MODULE Window_proofs ----------------------------
(***************************************************************************)
(* Proofs about what runs behind the client's window: that no rendering of *)
(* the charts slices outside the bars, that the screen keeps up and loads  *)
(* agree; that what is to be launched after updates is one whole release;  *)
(* and that the settings the operator chose survive restarts.              *)
(***************************************************************************)
EXTENDS MCWindow, TLAPS

Place == {"idle", "ask", "count", "aim", "resize", "move", "push", "name", "announce", "fetch",
          "clear", "bars", "symbol", "setcount", "setstart", "render", "offset", "slice", "publish",
          "bump"}

\* The places of a thread that holds no lock on the bars.
Outside == Place \ {"offset", "slice"}

\* A window of bars that exist, no narrower than the tightest zoom.
Within(v) == v.start + v.count <= v.n /\ v.count >= Least(MinVisible, v.n)

\* The lock is held from the clamp of the count to the slice, so what was clamped
\* still fits the bars.
Clamping(t) ==
  /\ pc[t] \in {"offset", "slice"} =>
       /\ holder = t
       /\ len[t] = bars.n
       /\ cnt[t] >= Least(MinVisible, bars.n) /\ cnt[t] <= bars.n
  /\ pc[t] = "slice" => beg[t] + cnt[t] <= bars.n
  /\ Within(view[t])

ChartTyped ==
  /\ TypeOK
  /\ pc \in [Thread -> Place]
  /\ pc["data"] = "bars" => len["data"] \in Lengths

ChartInv == ChartTyped /\ \A t \in Thread : Clamping(t)

LEMMA BarsTyped ==
  ASSUME TypeOK
  PROVE  bars.n \in Nat /\ bars.of \in Name
<1>1. bars.n \in Lengths \cup {0} /\ bars.of \in Name
  BY DEF TypeOK
<1>2. Lengths \subseteq Nat
  BY ChartAssumption
<1>3. \A n \in Lengths \cup {0} : n \in Nat
  BY <1>2
<1> QED BY <1>1, <1>3

LEMMA ChartInit == Init => ChartInv
<1> SUFFICES ASSUME Init PROVE ChartInv
  OBVIOUS
<1>1. TypeOK
  <2>1. Empty \in Name /\ Blank(Empty, "none") \in View
    BY DEF Blank, View, Name, Status
  <2>2. bars \in [of : Name, n : Lengths \cup {0}]
    BY <2>1 DEF Init, NoBars
  <2>3. 0 \in 0..MaxAsks /\ 0 \in 0..MaxGestures
    BY ChartAssumption
  <2> QED BY <2>1, <2>2, <2>3, ChartAssumption DEF Init, TypeOK, Gesture, Thread
<1>2. ChartTyped
  BY <1>1 DEF Init, ChartTyped, Place, Thread
<1>3. ASSUME NEW t \in Thread PROVE Clamping(t)
  BY <1>3, ChartAssumption DEF Init, Clamping, Within, Blank, Least, Thread
<1> QED BY <1>2, <1>3 DEF ChartInv

\* A step of a thread to a place outside the lock.
Leaves(t, x) ==
  /\ x \in Outside /\ pc' = [pc EXCEPT ![t] = x]
  /\ bars' = bars \/ holder = "none"
  /\ holder' = holder \/ (holder' = "none" /\ holder = t)
  /\ \A u \in Thread \ {t} :
       len'[u] = len[u] /\ cnt'[u] = cnt[u] /\ beg'[u] = beg[u] /\ view'[u] = view[u]
  /\ Within(view'[t])

\* Such a step disturbs no rendering.
LEMMA OutsideKeeps ==
  ASSUME ChartInv, NEW t \in Thread, NEW x, Leaves(t, x)
  PROVE  \A u \in Thread : Clamping(u)'
<1> SUFFICES ASSUME NEW u \in Thread PROVE Clamping(u)'
  OBVIOUS
<1>1. Clamping(u) /\ pc \in [Thread -> Place]
  BY DEF ChartInv, ChartTyped
<1>2. CASE u = t
  <2>1. pc'[u] = x /\ x \notin {"offset", "slice"}
    BY <1>1, <1>2 DEF Leaves, Outside
  <2> QED BY <1>2, <2>1 DEF Clamping, Leaves
<1>3. CASE u # t
  <2>1. pc'[u] = pc[u]
    BY <1>1, <1>3 DEF Leaves
  <2>2. len'[u] = len[u] /\ cnt'[u] = cnt[u] /\ beg'[u] = beg[u] /\ view'[u] = view[u]
    BY <1>3 DEF Leaves
  <2>3. CASE pc[u] \in {"offset", "slice"}
    <3>1. holder = u /\ u # "none"
      BY <1>1, <2>3 DEF Clamping, Thread
    <3>2. bars' = bars /\ holder' = holder
      BY <1>3, <3>1 DEF Leaves
    <3> QED BY <1>1, <2>1, <2>2, <3>2 DEF Clamping
  <2>4. CASE pc[u] \notin {"offset", "slice"}
    BY <1>1, <2>1, <2>2, <2>4 DEF Clamping
  <2> QED BY <2>3, <2>4
<1> QED BY <1>2, <1>3

\* If it keeps the types as well, it keeps the invariant.
LEMMA PlainKeeps ==
  ASSUME ChartInv, NEW t \in Thread, NEW x, Leaves(t, x), TypeOK',
         x = "bars" => t = "data" /\ len'["data"] \in Lengths
  PROVE  ChartInv'
<1>1. pc \in [Thread -> Place] /\ pc' \in [Thread -> Place] /\ pc' = [pc EXCEPT ![t] = x]
  BY DEF ChartInv, ChartTyped, Leaves, Outside
<1>2. pc'["data"] = "bars" => len'["data"] \in Lengths
  <2>1. CASE t = "data"
    BY <1>1, <2>1
  <2>2. CASE t # "data"
    <3>1. pc'["data"] = pc["data"] /\ len'["data"] = len["data"]
      BY <1>1, <2>2 DEF Leaves, Thread
    <3> QED BY <3>1 DEF ChartInv, ChartTyped
  <2> QED BY <2>1, <2>2
<1> QED BY <1>1, <1>2, OutsideKeeps DEF ChartInv, ChartTyped

\* What the steps below start from.
LEMMA ChartFacts ==
  ASSUME ChartInv
  PROVE  TypeOK /\ pc \in [Thread -> Place] /\ \A t \in Thread : Within(view[t])
BY DEF ChartInv, ChartTyped, Clamping

-----------------------------------------------------------------------------
(* rerender *)

LEMMA ClampCountKeeps ==
  ASSUME ChartInv, NEW t \in Thread, ClampCount(t)
  PROVE  ChartInv'
<1> DEFINE n == bars.n
           c == Clamped(count, Least(MinVisible, n), n)
<1>1. n \in Nat /\ count \in Nat /\ MinVisible \in Nat
  BY ChartAssumption, BarsTyped DEF ChartInv, ChartTyped, TypeOK
<1>2. Least(MinVisible, n) \in Nat /\ Least(MinVisible, n) <= n
  BY <1>1 DEF Least
<1>3. c \in Nat /\ c >= Least(MinVisible, n) /\ c <= n
  BY <1>1, <1>2 DEF Clamped, Least, Most
<1>4. /\ pc \in [Thread -> Place] /\ len \in [Thread -> Nat] /\ cnt \in [Thread -> Nat]
      /\ Within(view[t]) /\ pc[t] = "render" /\ holder = "none"
  BY DEF ChartInv, ChartTyped, TypeOK, Clamping, ClampCount
<1>5. CASE n = 0
  <2>1. /\ pc' = [pc EXCEPT ![t] = AfterRender(t)]
        /\ UNCHANGED <<bars, holder, bounds>>
    BY <1>5 DEF ClampCount, bounds
  <2>2. AfterRender(t) \in Outside /\ AfterRender(t) # "bars"
    BY DEF AfterRender, Place, Outside
  <2>3. Leaves(t, AfterRender(t))
    BY <1>4, <2>1, <2>2 DEF bounds, Leaves
  <2>4. TypeOK'
    BY <1>4, <2>1 DEF ChartInv, ChartTyped, TypeOK, AfterRender, ClampCount, Thread, position, drawn,
                      bounds, input, screen
  <2> QED BY <2>2, <2>3, <2>4, PlainKeeps
<1>6. CASE n # 0
  <2>1. /\ pc' = [pc EXCEPT ![t] = "offset"] /\ holder' = t /\ bars' = bars
        /\ len' = [len EXCEPT ![t] = n] /\ cnt' = [cnt EXCEPT ![t] = c] /\ view' = view
    BY <1>6 DEF ClampCount
  <2>2. ASSUME NEW u \in Thread PROVE Clamping(u)'
    <3>1. CASE u = t
      BY <1>3, <1>4, <2>1, <3>1 DEF Clamping
    <3>2. CASE u # t
      <4>1. pc[u] \notin {"offset", "slice"} /\ Within(view[u])
        BY <1>4 DEF ChartInv, Clamping, Thread
      <4> QED BY <1>4, <2>1, <3>2, <4>1 DEF Clamping
    <3> QED BY <3>1, <3>2
  <2>3. TypeOK'
    BY <1>1, <1>3, <1>4, <2>1 DEF ChartInv, ChartTyped, TypeOK, ClampCount, Thread, position, drawn,
                                  input, screen
  <2>4. ChartTyped'
    BY <1>4, <2>1, <2>3 DEF ChartInv, ChartTyped, Place, Thread
  <2> QED BY <2>2, <2>4 DEF ChartInv
<1> QED BY <1>5, <1>6

LEMMA ClampStartKeeps ==
  ASSUME ChartInv, NEW t \in Thread, ClampStart(t)
  PROVE  ChartInv'
<1> DEFINE b == Least(start, len[t] - cnt[t])
<1>1. /\ pc \in [Thread -> Place] /\ beg \in [Thread -> Nat] /\ start \in Nat
      /\ len[t] \in Nat /\ cnt[t] \in Nat /\ bars.n \in Nat
  BY BarsTyped DEF ChartInv, ChartTyped, TypeOK
<1>2. Clamping(t) /\ pc[t] = "offset" /\ len[t] = bars.n /\ cnt[t] <= bars.n
  BY DEF ChartInv, Clamping, ClampStart, Goto
<1>3. b \in Nat /\ b + cnt[t] <= bars.n
  BY <1>1, <1>2 DEF Least
<1>4. /\ pc' = [pc EXCEPT ![t] = "slice"] /\ beg' = [beg EXCEPT ![t] = b]
      /\ UNCHANGED <<holder, bars, len, cnt, view>>
  BY DEF ClampStart, Goto
<1>5. ASSUME NEW u \in Thread PROVE Clamping(u)'
  <2>1. CASE u = t
    BY <1>1, <1>2, <1>3, <1>4, <2>1 DEF Clamping
  <2>2. CASE u # t
    <3>1. Clamping(u)
      BY DEF ChartInv
    <3> QED BY <1>1, <1>4, <2>2, <3>1 DEF Clamping
  <2> QED BY <2>1, <2>2
<1>6. TypeOK'
  BY <1>1, <1>3, <1>4 DEF ChartInv, ChartTyped, TypeOK, ClampStart, Thread, position, drawn, input,
                          screen
<1>7. ChartTyped'
  BY <1>1, <1>4, <1>6 DEF ChartInv, ChartTyped, Place, Thread
<1> QED BY <1>5, <1>7 DEF ChartInv

LEMMA SliceKeeps ==
  ASSUME ChartInv, NEW t \in Thread, Slice(t)
  PROVE  ChartInv'
<1> DEFINE v == [of |-> bars.of, title |-> symbol, n |-> bars.n, start |-> beg[t],
                 count |-> cnt[t], status |-> "bars"]
<1>1. /\ pc \in [Thread -> Place] /\ view \in [Thread -> View] /\ beg[t] \in Nat
      /\ cnt[t] \in Nat /\ bars.n \in Nat /\ bars.of \in Name /\ symbol \in Name
  BY BarsTyped DEF ChartInv, ChartTyped, TypeOK
<1>2. Clamping(t) /\ pc[t] = "slice"
  BY DEF ChartInv, Slice, Goto
<1>3. v \in View /\ Within(v) /\ holder = t
  BY <1>1, <1>2 DEF Clamping, View, Within, Status
<1>4. /\ pc' = [pc EXCEPT ![t] = "publish"] /\ holder' = "none"
      /\ view' = [view EXCEPT ![t] = v] /\ UNCHANGED <<bars, len, cnt, beg>>
  BY DEF Slice, Goto
<1>5. Leaves(t, "publish")
  BY <1>1, <1>3, <1>4 DEF Leaves, Outside, Place
<1>6. TypeOK'
  BY <1>1, <1>3, <1>4 DEF ChartInv, ChartTyped, TypeOK, Slice, Thread, drawn, input, screen
<1> QED BY <1>5, <1>6, PlainKeeps

LEMMA PublishKeeps ==
  ASSUME ChartInv, NEW t \in Thread, Publish(t)
  PROVE  ChartInv'
<1>1. TypeOK'
  BY ChartFacts DEF TypeOK, Publish, Goto, position, bounds, input, screen, Thread
<1>2. Leaves(t, "bump")
  BY ChartFacts DEF Leaves, Outside, Place, TypeOK, Thread, Publish, Goto, position, bounds,
     input, screen
<1> QED BY <1>1, <1>2, PlainKeeps DEF Thread

LEMMA BumpKeeps ==
  ASSUME ChartInv, NEW t \in Thread, Bump(t)
  PROVE  ChartInv'
<1>1. TypeOK'
  BY ChartFacts DEF TypeOK, Bump, AfterRender, Goto, position, bounds, input, screen, Thread
<1>2. Leaves(t, AfterRender(t))
  BY ChartFacts DEF Leaves, Outside, Place, TypeOK, Thread, Bump, AfterRender, Goto, position,
     bounds, input, screen
<1> QED BY <1>1, <1>2, PlainKeeps DEF Thread, AfterRender

-----------------------------------------------------------------------------
(* The window's thread *)

LEMMA AskSymbolKeeps ==
  ASSUME ChartInv, NEW s \in Typed, AskSymbol(s)
  PROVE  ChartInv'
<1>0. s \in Name
  BY ChartAssumption DEF Name
<1>1. asks' \in 0..MaxAsks
  BY ChartAssumption, ChartFacts DEF AskSymbol, TypeOK
<1>2. TypeOK'
  BY <1>0, <1>1, ChartFacts DEF TypeOK, AskSymbol, Goto, position, drawn, bounds, screen, Thread
<1>3. Leaves("window", "ask")
  BY <1>1, ChartFacts DEF Leaves, Outside, Place, TypeOK, Thread, AskSymbol, Goto, position,
     drawn, bounds, screen
<1> QED BY <1>2, <1>3, PlainKeeps DEF Thread

LEMMA AskRequestKeeps ==
  ASSUME ChartInv, AskRequest
  PROVE  ChartInv'
<1>1. TypeOK'
  BY ChartFacts DEF TypeOK, AskRequest, Goto, position, drawn, bounds, input, screen, Thread
<1>2. Leaves("window", "idle")
  BY ChartFacts DEF Leaves, Outside, Place, TypeOK, Thread, AskRequest, Goto, position, drawn,
     bounds, input, screen
<1> QED BY <1>1, <1>2, PlainKeeps DEF Thread

LEMMA BeginKeeps ==
  ASSUME ChartInv, NEW g \in Gesture, Begin(g)
  PROVE  ChartInv'
<1>1. gestures' \in 0..MaxGestures /\ bars.n \in Nat
  BY ChartAssumption, ChartFacts, BarsTyped DEF Begin, TypeOK
<1>2. TypeOK'
  BY <1>1, ChartFacts DEF TypeOK, Begin, Goto, position, drawn, screen, Thread
<1>3. Leaves("window", "count")
  BY <1>1, ChartFacts DEF Leaves, Outside, Place, TypeOK, Thread, Begin, Goto, position, drawn,
     screen
<1> QED BY <1>2, <1>3, PlainKeeps DEF Thread

LEMMA ReadCountKeeps ==
  ASSUME ChartInv, ReadCount
  PROVE  ChartInv'
<1>1. TypeOK'
  BY ChartFacts DEF TypeOK, ReadCount, Goto, position, drawn, input, screen, Thread
<1>2. Leaves("window", "aim")
  BY ChartFacts DEF Leaves, Outside, Place, TypeOK, Thread, ReadCount, Goto, position, drawn,
     input, screen
<1> QED BY <1>1, <1>2, PlainKeeps DEF Thread

\* A zoom shows no more bars than there are.
LEMMA ZoomedBounds ==
  ASSUME TypeOK
  PROVE  Zoomed \in Nat /\ Zoomed <= len["window"]
<1> DEFINE w == cnt["window"]
           n == len["window"]
<1>1. w \in Nat /\ n \in Nat /\ MinVisible \in Nat
  BY ChartAssumption DEF TypeOK, Thread
<1>2. (w * 4) \div 5 \in Nat /\ (w * 5) \div 4 + 1 \in Nat
  BY <1>1
<1> QED BY <1>1, <1>2 DEF Zoomed, Least, Most

\* A gesture never aims before the first bar.
LEMMA TargetNat ==
  ASSUME TypeOK
  PROVE  Target \subseteq Nat
<1>1. start \in Nat /\ cnt["window"] \in Nat /\ len["window"] \in Nat
  BY DEF TypeOK, Thread
<1>2. Room \in Nat
  BY <1>1 DEF Room, Most
<1>3. Step \in Nat
  <2>1. cnt["window"] \div 6 \in Nat
    BY <1>1
  <2> QED BY <2>1 DEF Step, Most
<1>4. Clamped(start + Step, 0, Room) \in Nat
  BY <1>1, <1>2, <1>3 DEF Clamped, Least, Most
<1>5. Clamped(start - Step, 0, Room) \in Nat
  BY <1>1, <1>2, <1>3 DEF Clamped, Least, Most
<1>6. Least(Most(start + cnt["window"] - Zoomed, 0), len["window"] - Zoomed) \in Nat
  BY <1>1, ZoomedBounds DEF Least, Most
<1>7. 0..Room \subseteq Nat
  BY <1>2
<1> QED BY <1>4, <1>5, <1>6, <1>7 DEF Target

LEMMA AimKeeps ==
  ASSUME ChartInv, Aim
  PROVE  ChartInv'
<1> DEFINE x == IF gesture \in {"in", "out"} THEN "resize" ELSE "move"
<1>1. aim' \in Nat
  BY ChartFacts, TargetNat DEF Aim
<1>2. TypeOK'
  BY <1>1, ChartFacts DEF TypeOK, Aim, Goto, position, drawn, bounds, screen, Thread
<1>3. Leaves("window", x)
  BY <1>1, ChartFacts DEF Leaves, Outside, Place, TypeOK, Thread, Aim, Goto, position, drawn,
     bounds, screen
<1> QED BY <1>2, <1>3, PlainKeeps DEF Thread

LEMMA ResizeKeeps ==
  ASSUME ChartInv, Resize
  PROVE  ChartInv'
<1>1. count' \in Nat
  BY ChartFacts, ZoomedBounds DEF Resize
<1>2. TypeOK'
  BY <1>1, ChartFacts DEF TypeOK, Resize, Goto, drawn, bounds, input, screen, Thread
<1>3. Leaves("window", "move")
  BY <1>1, ChartFacts DEF Leaves, Outside, Place, TypeOK, Thread, Resize, Goto, drawn, bounds,
     input, screen
<1> QED BY <1>2, <1>3, PlainKeeps DEF Thread

LEMMA MoveKeeps ==
  ASSUME ChartInv, Move
  PROVE  ChartInv'
<1>1. TypeOK'
  BY ChartFacts DEF TypeOK, Move, Goto, drawn, bounds, input, screen, Thread
<1>2. Leaves("window", "render")
  BY ChartFacts DEF Leaves, Outside, Place, TypeOK, Thread, Move, Goto, drawn, bounds, input,
     screen
<1> QED BY <1>1, <1>2, PlainKeeps DEF Thread

LEMMA PushKeeps ==
  ASSUME ChartInv, Push
  PROVE  ChartInv'
<1>1. TypeOK'
  BY ChartFacts DEF TypeOK, Push, Goto, position, drawn, bounds, input, Thread
<1>2. Leaves("window", "idle")
  BY ChartFacts DEF Leaves, Outside, Place, TypeOK, Thread, Push, Goto, position, drawn,
     bounds, input
<1> QED BY <1>1, <1>2, PlainKeeps DEF Thread

LEMMA TickKeeps ==
  ASSUME ChartInv, Tick
  PROVE  ChartInv'
<1>1. TypeOK'
  BY ChartFacts DEF TypeOK, Tick, Goto, position, drawn, bounds, input, Thread
<1>2. Leaves("window", "push")
  BY ChartFacts DEF Leaves, Outside, Place, TypeOK, Thread, Tick, Goto, position, drawn,
     bounds, input
<1> QED BY <1>1, <1>2, PlainKeeps DEF Thread

-----------------------------------------------------------------------------
(* The data thread *)

LEMMA TakeRequestKeeps ==
  ASSUME ChartInv, TakeRequest
  PROVE  ChartInv'
<1>1. TypeOK'
  BY ChartFacts DEF TypeOK, TakeRequest, Goto, position, drawn, bounds, input, screen, Thread
<1>2. Leaves("data", "name")
  BY ChartFacts DEF Leaves, Outside, Place, TypeOK, Thread, TakeRequest, Goto, position, drawn,
     bounds, input, screen
<1> QED BY <1>1, <1>2, PlainKeeps DEF Thread

LEMMA ReadSymbolKeeps ==
  ASSUME ChartInv, ReadSymbol
  PROVE  ChartInv'
<1> DEFINE x == IF symbol = Empty THEN "idle" ELSE "announce"
<1>1. TypeOK'
  BY ChartFacts DEF TypeOK, ReadSymbol, position, drawn, bounds, input, screen, Thread
<1>2. Leaves("data", x)
  BY ChartFacts DEF Leaves, Outside, Place, TypeOK, Thread, ReadSymbol, position, drawn, bounds,
     input, screen
<1> QED BY <1>1, <1>2, PlainKeeps DEF Thread

LEMMA AnnounceKeeps ==
  ASSUME ChartInv, Announce
  PROVE  ChartInv'
<1>1. chart' \in View
  BY ChartFacts DEF Announce, TypeOK, View, Status
<1>2. TypeOK'
  BY <1>1, ChartFacts DEF TypeOK, Announce, Goto, position, bounds, input, screen, Thread
<1>3. Leaves("data", "fetch")
  BY ChartFacts DEF Leaves, Outside, Place, TypeOK, Thread, Announce, Goto, position, bounds,
     input, screen
<1> QED BY <1>2, <1>3, PlainKeeps DEF Thread

LEMMA FetchedKeeps ==
  ASSUME ChartInv, NEW n \in Lengths, Fetched(n)
  PROVE  ChartInv'
<1> DEFINE x == IF n < 2 THEN "clear" ELSE "bars"
<1>1. n \in Nat /\ len' = [len EXCEPT !["data"] = n] /\ len'["data"] \in Lengths
  BY ChartAssumption, ChartFacts DEF Fetched, TypeOK, Thread
<1>2. TypeOK'
  BY <1>1, ChartFacts DEF TypeOK, Fetched, Goto, position, drawn, input, screen, Thread
<1>3. Leaves("data", x)
  BY <1>1, ChartFacts DEF Leaves, Outside, Place, TypeOK, Thread, Fetched, Goto, position,
     drawn, input, screen
<1> QED BY <1>1, <1>2, <1>3, PlainKeeps DEF Thread

LEMMA ClearBarsKeeps ==
  ASSUME ChartInv, ClearBars
  PROVE  ChartInv'
<1>1. bars' \in [of : Name, n : Lengths \cup {0}]
  BY ChartFacts DEF ClearBars, NoBars, TypeOK
<1>2. Blank(loading, "no data") \in View /\ Within(Blank(loading, "no data"))
  <2>1. loading \in Name /\ MinVisible \in Nat
    BY ChartAssumption, ChartFacts DEF TypeOK
  <2>2. Blank(loading, "no data") \in View
    BY <2>1 DEF Blank, View, Status
  <2>3. Within(Blank(loading, "no data"))
    BY <2>1 DEF Blank, Within, Least
  <2> QED BY <2>2, <2>3
<1>3. TypeOK'
  BY <1>1, <1>2, ChartFacts DEF TypeOK, ClearBars, Goto, position, drawn, input, screen, Thread
<1>4. Leaves("data", "publish")
  BY <1>1, <1>2, ChartFacts DEF Leaves, Outside, Place, TypeOK, Thread, ClearBars, Goto,
     position, drawn, input, screen
<1> QED BY <1>3, <1>4, PlainKeeps DEF Thread

LEMMA StoreBarsKeeps ==
  ASSUME ChartInv, StoreBars
  PROVE  ChartInv'
<1>1. bars' \in [of : Name, n : Lengths \cup {0}]
  BY ChartFacts DEF StoreBars, Goto, TypeOK, ChartInv, ChartTyped
<1>2. TypeOK'
  BY <1>1, ChartFacts DEF TypeOK, StoreBars, Goto, position, drawn, bounds, input, screen, Thread
<1>3. Leaves("data", "symbol")
  BY <1>1, ChartFacts DEF Leaves, Outside, Place, TypeOK, Thread, StoreBars, Goto, position,
     drawn, bounds, input, screen
<1> QED BY <1>2, <1>3, PlainKeeps DEF Thread

LEMMA StoreSymbolKeeps ==
  ASSUME ChartInv, StoreSymbol
  PROVE  ChartInv'
<1>1. TypeOK'
  BY ChartFacts DEF TypeOK, StoreSymbol, Goto, position, drawn, bounds, input, screen, Thread
<1>2. Leaves("data", "setcount")
  BY ChartFacts DEF Leaves, Outside, Place, TypeOK, Thread, StoreSymbol, Goto, position, drawn,
     bounds, input, screen
<1> QED BY <1>1, <1>2, PlainKeeps DEF Thread

\* A load shows no more bars than it brought.
LEMMA VisibleBounds ==
  ASSUME TypeOK
  PROVE  Visible \in Nat /\ Visible <= len["data"]
<1>1. len["data"] \in Nat
  BY DEF TypeOK, Thread
<1> QED BY <1>1, ChartAssumption DEF Visible, Least, Most

LEMMA StoreCountKeeps ==
  ASSUME ChartInv, StoreCount
  PROVE  ChartInv'
<1>1. count' \in Nat
  BY ChartFacts, VisibleBounds DEF StoreCount
<1>2. TypeOK'
  BY <1>1, ChartFacts DEF TypeOK, StoreCount, Goto, drawn, bounds, input, screen, Thread
<1>3. Leaves("data", "setstart")
  BY <1>1, ChartFacts DEF Leaves, Outside, Place, TypeOK, Thread, StoreCount, Goto, drawn,
     bounds, input, screen
<1> QED BY <1>2, <1>3, PlainKeeps DEF Thread

LEMMA StoreStartKeeps ==
  ASSUME ChartInv, StoreStart
  PROVE  ChartInv'
<1>1. start' \in Nat
  <2>1. len["data"] \in Nat
    BY ChartFacts DEF TypeOK, Thread
  <2> QED BY <2>1, ChartFacts, VisibleBounds DEF StoreStart
<1>2. TypeOK'
  BY <1>1, ChartFacts DEF TypeOK, StoreStart, Goto, drawn, bounds, input, screen, Thread
<1>3. Leaves("data", "render")
  BY <1>1, ChartFacts DEF Leaves, Outside, Place, TypeOK, Thread, StoreStart, Goto, drawn,
     bounds, input, screen
<1> QED BY <1>2, <1>3, PlainKeeps DEF Thread

-----------------------------------------------------------------------------

LEMMA ChartStep == ChartInv /\ [Next]_vars => ChartInv'
<1> SUFFICES ASSUME ChartInv, [Next]_vars PROVE ChartInv'
  OBVIOUS
<1>1. ASSUME NEW t \in Thread,
             ClampCount(t) \/ ClampStart(t) \/ Slice(t) \/ Publish(t) \/ Bump(t)
      PROVE  ChartInv'
  BY <1>1, ClampCountKeeps, ClampStartKeeps, SliceKeeps, PublishKeeps, BumpKeeps
<1>2. ASSUME NEW s \in Typed, AskSymbol(s) PROVE ChartInv'
  BY <1>2, AskSymbolKeeps
<1>3. ASSUME NEW g \in Gesture, Begin(g) PROVE ChartInv'
  BY <1>3, BeginKeeps
<1>4. CASE AskRequest \/ ReadCount \/ Aim \/ Resize \/ Move \/ Push \/ Tick
  BY <1>4, AskRequestKeeps, ReadCountKeeps, AimKeeps, ResizeKeeps, MoveKeeps, PushKeeps,
     TickKeeps
<1>5. ASSUME NEW n \in Lengths, Fetched(n) PROVE ChartInv'
  BY <1>5, FetchedKeeps
<1>6. CASE TakeRequest \/ ReadSymbol \/ Announce \/ ClearBars \/ StoreBars \/ StoreSymbol
           \/ StoreCount \/ StoreStart
  BY <1>6, TakeRequestKeeps, ReadSymbolKeeps, AnnounceKeeps, ClearBarsKeeps, StoreBarsKeeps,
     StoreSymbolKeeps, StoreCountKeeps, StoreStartKeeps
<1>7. CASE UNCHANGED vars
  <2>1. TypeOK'
    BY <1>7, ChartFacts DEF TypeOK, vars, position, drawn, bounds, input, screen
  <2>2. ChartTyped'
    BY <1>7, <2>1 DEF ChartInv, ChartTyped, vars, bounds
  <2>3. \A t \in Thread : Clamping(t)'
    BY <1>7 DEF ChartInv, Clamping, vars, bounds
  <2> QED BY <2>2, <2>3 DEF ChartInv
<1> QED BY <1>1, <1>2, <1>3, <1>4, <1>5, <1>6, <1>7 DEF Next

\* Every reachable state of the charts has the declared types.
THEOREM TypeCorrect == Spec => []TypeOK
<1>1. ChartInv => TypeOK
  BY DEF ChartInv, ChartTyped
<1> QED BY <1>1, ChartInit, ChartStep, PTL DEF Spec

\* No rendering slices outside the bars it holds, however loads, drags and zooms
\* interleave, for every number of bars and every width.
THEOREM SliceInBoundsHolds == Spec => []SliceInBounds
<1>1. ChartInv => SliceInBounds
  BY DEF ChartInv, Clamping, Within, SliceInBounds
<1> QED BY <1>1, ChartInit, ChartStep, PTL DEF Spec

-----------------------------------------------------------------------------
(* The screen *)

\* The data thread stores no bars it could not render.
Stored ==
  /\ pc["data"] = "bars" => len["data"] >= 2
  /\ pc["data"] \in {"symbol", "setcount", "setstart", "render", "offset", "slice"}
       => bars.n >= 2

\* A step of the window's thread.
WindowStep ==
  \/ \E s \in Typed : AskSymbol(s)
  \/ AskRequest
  \/ \E g \in Gesture : Begin(g)
  \/ ReadCount \/ Aim \/ Resize \/ Move \/ Push \/ Tick

\* A step of the data thread before and between the renderings.
DataStep ==
  \/ TakeRequest \/ ReadSymbol \/ Announce
  \/ \E n \in Lengths : Fetched(n)
  \/ ClearBars \/ StoreBars \/ StoreSymbol \/ StoreCount \/ StoreStart

Rendering(t) == ClampCount(t) \/ ClampStart(t) \/ Slice(t) \/ Publish(t) \/ Bump(t)

LEMMA NextIs ==
  ASSUME Next
  PROVE  (\E t \in Thread : Rendering(t)) \/ WindowStep \/ DataStep
BY DEF Next, Rendering, WindowStep, DataStep

LEMMA WindowStepIs ==
  ASSUME ChartInv, WindowStep
  PROVE  /\ \E x : pc' = [pc EXCEPT !["window"] = x]
         /\ UNCHANGED <<bars, drawn>> /\ len'["data"] = len["data"]
<1>1. \E x : pc' = [pc EXCEPT !["window"] = x]
  BY DEF WindowStep, AskSymbol, AskRequest, Begin, ReadCount, Aim, Resize, Move, Push, Tick, Goto
<1>2. UNCHANGED <<bars, drawn>>
  BY DEF WindowStep, AskSymbol, AskRequest, Begin, ReadCount, Aim, Resize, Move, Push, Tick
<1>3. len'["data"] = len["data"]
  <2>1. len' = len \/ \E n : len' = [len EXCEPT !["window"] = n]
    BY DEF WindowStep, AskSymbol, AskRequest, Begin, ReadCount, Aim, Resize, Move, Push, Tick,
           bounds
  <2> QED BY <2>1, ChartFacts DEF TypeOK, Thread
<1> QED BY <1>1, <1>2, <1>3

LEMMA StoredStep == ChartInv /\ Stored /\ [Next]_vars => Stored'
<1> SUFFICES ASSUME ChartInv, Stored, [Next]_vars PROVE Stored'
  OBVIOUS
<1>0. /\ pc \in [Thread -> Place] /\ len \in [Thread -> Nat] /\ bars.n \in Nat
      /\ Lengths \subseteq Nat
  BY ChartFacts, ChartAssumption, BarsTyped DEF TypeOK
<1>1. ASSUME NEW t \in Thread, Rendering(t) PROVE Stored'
  <2>1. bars' = bars /\ \A u \in Thread \ {t} : pc'[u] = pc[u] /\ len'[u] = len[u]
    BY <1>0, <1>1 DEF Rendering, ClampCount, ClampStart, Slice, Publish, Bump, Goto, bounds
  <2>2. CASE t = "data"
    BY <1>0, <1>1, <2>1, <2>2 DEF Stored, Rendering, ClampCount, ClampStart, Slice, Publish, Bump,
       Goto, AfterRender
  <2>3. CASE t # "data"
    BY <2>1, <2>3 DEF Stored, Thread
  <2> QED BY <2>2, <2>3
<1>2. CASE WindowStep
  BY <1>0, <1>2, WindowStepIs DEF Stored, Thread
<1>3. CASE DataStep
  <2>1. CASE \E n \in Lengths : Fetched(n)
    BY <1>0, <2>1 DEF Stored, Fetched, Thread
  <2>2. CASE StoreBars
    BY <1>0, <2>2 DEF Stored, StoreBars, Goto, Thread
  <2>3. CASE TakeRequest \/ ReadSymbol \/ Announce \/ ClearBars
    BY <1>0, <2>3 DEF Stored, TakeRequest, ReadSymbol, Announce, ClearBars, Goto, Thread
  <2>4. CASE StoreSymbol \/ StoreCount \/ StoreStart
    BY <1>0, <2>4 DEF Stored, StoreSymbol, StoreCount, StoreStart, Goto, Thread
  <2> QED BY <1>3, <2>1, <2>2, <2>3, <2>4 DEF DataStep
<1>4. CASE UNCHANGED vars
  BY <1>4 DEF Stored, vars, bounds
<1> QED BY <1>1, <1>2, <1>3, <1>4, NextIs

\* Whoever stores a chart has yet to bump the generation, and the window that has noted
\* a generation has yet to push the chart; what else changes the chart announces a load
\* that is still to be published.
ScreenInv ==
  /\ lastGen <= chartGen
  /\ (pc["window"] \notin {"bump", "push"} /\ pc["data"] # "bump" /\ lastGen = chartGen)
       => \/ shown = chart
          \/ Announced /\ chart = [shown EXCEPT !.status = "loading"]

\* A step of a thread that is neither bumping nor pushing, and touches neither the chart
\* nor the screen, may go anywhere that leaves no load announced in vain.
LEMMA UnseenKeeps ==
  ASSUME ScreenInv, pc \in [Thread -> Place], NEW t \in Thread, NEW x,
         pc' = [pc EXCEPT ![t] = x], pc[t] \notin {"bump", "push"},
         Announced => Announced', UNCHANGED <<drawn, screen>>
  PROVE  ScreenInv'
<1>1. pc'["window"] \notin {"bump", "push"} => pc["window"] \notin {"bump", "push"}
  BY DEF Thread
<1>2. pc'["data"] # "bump" => pc["data"] # "bump"
  BY DEF Thread
<1> QED BY <1>1, <1>2 DEF ScreenInv, drawn, screen

LEMMA ScreenStep == ChartInv /\ Stored /\ ScreenInv /\ [Next]_vars => ScreenInv'
<1> SUFFICES ASSUME ChartInv, Stored, ScreenInv, [Next]_vars PROVE ScreenInv'
  OBVIOUS
<1>0. /\ pc \in [Thread -> Place] /\ chartGen \in Nat /\ lastGen \in Nat
      /\ "window" \in Thread /\ "data" \in Thread
  BY ChartFacts DEF TypeOK, Thread
<1>1. ASSUME NEW t \in Thread, ClampCount(t) \/ ClampStart(t) \/ Slice(t)
      PROVE  ScreenInv'
  <2>1. PICK x : pc' = [pc EXCEPT ![t] = x]
    BY <1>1 DEF ClampCount, ClampStart, Slice, Goto
  <2>2. pc[t] \notin {"bump", "push"} /\ UNCHANGED <<drawn, screen>>
    BY <1>1 DEF ClampCount, ClampStart, Slice, Goto
  <2>3. Announced => Announced'
    <3>1. CASE t = "window"
      BY <1>0, <2>1, <3>1 DEF Announced
    <3>2. CASE t = "data" /\ ClampCount(t)
      <4>1. bars.n # 0
        BY <3>2 DEF Stored, ClampCount
      <4> QED BY <1>0, <3>2, <4>1 DEF Announced, ClampCount
    <3>3. CASE t = "data" /\ (ClampStart(t) \/ Slice(t))
      BY <1>0, <3>3 DEF Announced, ClampStart, Slice, Goto
    <3> QED BY <1>1, <3>1, <3>2, <3>3 DEF Thread
  <2> QED BY <1>0, <2>1, <2>2, <2>3, UnseenKeeps
<1>2. ASSUME NEW t \in Thread, Publish(t) PROVE ScreenInv'
  BY <1>0, <1>2 DEF ScreenInv, Publish, Goto, screen, Thread
<1>3. ASSUME NEW t \in Thread, Bump(t) PROVE ScreenInv'
  BY <1>0, <1>3 DEF ScreenInv, Bump, screen
<1>4. CASE (\E s \in Typed : AskSymbol(s)) \/ AskRequest \/ (\E g \in Gesture : Begin(g))
           \/ ReadCount \/ Aim \/ Resize \/ Move
  <2>1. PICK x : pc' = [pc EXCEPT !["window"] = x]
    BY <1>4, WindowStepIs DEF WindowStep
  <2>2. pc["window"] \notin {"bump", "push"} /\ UNCHANGED <<drawn, screen>>
    BY <1>4 DEF AskSymbol, AskRequest, Begin, ReadCount, Aim, Resize, Move, Goto
  <2>3. Announced => Announced'
    BY <1>0, <2>1 DEF Announced
  <2> QED BY <1>0, <2>1, <2>2, <2>3, UnseenKeeps
<1>5. CASE Push
  BY <1>0, <1>5 DEF ScreenInv, Push, Goto, drawn, Thread
<1>6. CASE Tick
  BY <1>0, <1>6 DEF ScreenInv, Tick, Goto, drawn, Thread
<1>7. CASE TakeRequest \/ ReadSymbol \/ (\E n \in Lengths : Fetched(n)) \/ ClearBars
           \/ StoreBars \/ StoreSymbol \/ StoreCount \/ StoreStart
  <2>1. PICK x : pc' = [pc EXCEPT !["data"] = x]
    BY <1>7 DEF TakeRequest, ReadSymbol, Fetched, ClearBars, StoreBars, StoreSymbol, StoreCount,
                StoreStart, Goto
  <2>2. pc["data"] \notin {"bump", "push"} /\ UNCHANGED <<drawn, screen>>
    BY <1>7 DEF TakeRequest, ReadSymbol, Fetched, ClearBars, StoreBars, StoreSymbol, StoreCount,
                StoreStart, Goto
  <2>3. Announced => Announced'
    BY <1>0, <1>7 DEF Announced, TakeRequest, ReadSymbol, Fetched, ClearBars, StoreBars,
       StoreSymbol, StoreCount, StoreStart, Goto
  <2> QED BY <1>0, <2>1, <2>2, <2>3, UnseenKeeps
<1>8. CASE Announce
  <2>1. ~Announced
    BY <1>8 DEF Announced, Announce, Goto
  <2>2. pc'["data"] = "fetch" /\ pc'["window"] = pc["window"] /\ Announced'
    BY <1>0, <1>8 DEF Announced, Announce, Goto
  <2> QED BY <1>8, <2>1, <2>2 DEF ScreenInv, Announce, Goto, screen
<1>9. CASE UNCHANGED vars
  BY <1>9 DEF ScreenInv, Announced, vars, drawn, screen
<1> QED BY <1>1, <1>2, <1>3, <1>4, <1>5, <1>6, <1>7, <1>8, <1>9 DEF Next

\* When the window rests and has seen the last generation, the screen shows the chart or
\* what it was before a load under way was announced in it, however the threads store,
\* announce, bump, note and push.
THEOREM ScreenIsCurrentHolds == Spec => []ScreenIsCurrent
<1>1. Init => Stored /\ ScreenInv
  BY DEF Init, Stored, ScreenInv, Thread
<1>2. ScreenInv => ScreenIsCurrent
  BY DEF ScreenInv, ScreenIsCurrent
<1> QED BY <1>1, <1>2, ChartInit, ChartStep, StoredStep, ScreenStep, PTL DEF Spec

-----------------------------------------------------------------------------
(* Loads *)

\* Nothing has been asked for that the data thread has not taken.
Calm == ~request /\ pc["window"] # "ask"

\* What a view shows is of the bars kept.
Fits(v) == v.of = bars.of /\ v.status # "loading"

\* Before the first gesture the data thread alone renders, and carries the bars to the
\* view and the view to the chart.  While nothing new is asked for, what it loads is the
\* symbol stored, if there is one, and so is the title.
Loading ==
  /\ pc["window"] \in {"idle", "ask", "push"}
  /\ pc["data"] \in {"symbol", "setcount", "setstart", "render", "offset", "slice", "publish",
                     "bump"} => bars.of = loading
  /\ pc["data"] = "publish" => Fits(view["data"])
  /\ pc["data"] \in {"bump", "idle", "name"} => Fits(chart)
  /\ (Calm /\ symbol # Empty) =>
       /\ pc["data"] \notin {"idle", "name"} => symbol = loading
       /\ pc["data"] = "publish" => view["data"].title = symbol
       /\ pc["data"] = "bump" => chart.title = symbol
       /\ pc["data"] = "idle" => symbol = bars.of /\ chart.title = symbol

LoadInv == gestures = 0 => Loading

\* A step of the window's thread that asks for nothing that is taken.
LEMMA WindowLoads ==
  ASSUME Loading, pc \in [Thread -> Place],
         (\E s \in Typed : AskSymbol(s)) \/ AskRequest \/ Push \/ Tick
  PROVE  Loading'
<1>1. CASE \E s \in Typed : AskSymbol(s)
  BY <1>1 DEF Loading, Fits, Calm, AskSymbol, Goto, bounds, drawn, Thread
<1>2. CASE AskRequest
  BY <1>2 DEF Loading, Fits, Calm, AskRequest, Goto, bounds, drawn, Thread
<1>3. CASE Push
  BY <1>3 DEF Loading, Fits, Calm, Push, Goto, bounds, drawn, Thread
<1>4. CASE Tick
  BY <1>4 DEF Loading, Fits, Calm, Tick, Goto, bounds, drawn, Thread
<1> QED BY <1>1, <1>2, <1>3, <1>4

LEMMA RenderLoads ==
  ASSUME ChartInv, Stored, Loading, NEW t \in Thread, Rendering(t)
  PROVE  Loading'
<1>0. pc \in [Thread -> Place] /\ view \in [Thread -> View]
  BY ChartFacts DEF TypeOK
<1>1. t = "data"
  BY DEF Loading, Rendering, ClampCount, ClampStart, Slice, Publish, Bump, Goto, Thread
<1>2. CASE ClampCount(t)
  <2>1. bars.n # 0
    BY <1>1, <1>2 DEF Stored, ClampCount
  <2> QED BY <1>0, <1>1, <1>2, <2>1 DEF Loading, Fits, Calm, ClampCount, drawn, Thread
<1>3. CASE ClampStart(t)
  BY <1>0, <1>1, <1>3 DEF Loading, Fits, Calm, ClampStart, Goto, drawn, Thread
<1>4. CASE Slice(t)
  BY <1>0, <1>1, <1>4 DEF Loading, Fits, Calm, Slice, Goto, drawn, Thread
<1>5. CASE Publish(t)
  BY <1>0, <1>1, <1>5 DEF Loading, Fits, Calm, Publish, Goto, bounds, Thread
<1>6. CASE Bump(t)
  BY <1>0, <1>1, <1>6 DEF Loading, Fits, Calm, Bump, AfterRender, Goto, bounds, Thread
<1> QED BY <1>2, <1>3, <1>4, <1>5, <1>6 DEF Rendering

LEMMA DataLoads ==
  ASSUME ChartInv, Loading, DataStep
  PROVE  Loading'
<1>0. /\ pc \in [Thread -> Place] /\ len \in [Thread -> Nat] /\ view \in [Thread -> View]
      /\ Lengths \subseteq Nat
  BY ChartFacts, ChartAssumption DEF TypeOK
<1>1. CASE TakeRequest
  BY <1>0, <1>1 DEF Loading, Fits, Calm, TakeRequest, Goto, bounds, drawn, Thread
<1>2. CASE ReadSymbol
  BY <1>0, <1>2 DEF Loading, Fits, Calm, ReadSymbol, bounds, drawn, Thread
<1>3. CASE Announce
  BY <1>0, <1>3 DEF Loading, Fits, Calm, Announce, Goto, bounds, Thread
<1>4. CASE \E n \in Lengths : Fetched(n)
  BY <1>0, <1>4 DEF Loading, Fits, Calm, Fetched, drawn, Thread
<1>5. CASE ClearBars
  BY <1>0, <1>5 DEF Loading, Fits, Calm, ClearBars, NoBars, Blank, Goto, drawn, Thread
<1>6. CASE StoreBars
  BY <1>0, <1>6 DEF Loading, Fits, Calm, StoreBars, Goto, bounds, drawn, Thread
<1>7. CASE StoreSymbol
  BY <1>0, <1>7 DEF Loading, Fits, Calm, StoreSymbol, Goto, bounds, drawn, Thread
<1>8. CASE StoreCount \/ StoreStart
  BY <1>0, <1>8 DEF Loading, Fits, Calm, StoreCount, StoreStart, Goto, bounds, drawn, Thread
<1> QED BY <1>1, <1>2, <1>3, <1>4, <1>5, <1>6, <1>7, <1>8 DEF DataStep

LEMMA LoadStep == ChartInv /\ Stored /\ LoadInv /\ [Next]_vars => LoadInv'
<1> SUFFICES ASSUME ChartInv, Stored, LoadInv, [Next]_vars, gestures' = 0 PROVE Loading'
  BY DEF LoadInv
<1>1. gestures \in Nat /\ pc \in [Thread -> Place]
  BY ChartFacts, ChartAssumption DEF TypeOK
<1>2. ~\E g \in Gesture : Begin(g)
  BY <1>1 DEF Begin
<1>3. gestures = 0
  BY <1>2 DEF Next, vars, input, ClampCount, ClampStart, Slice, Publish, Bump, AskSymbol,
     AskRequest, ReadCount, Aim, Resize, Move, Push, Tick, TakeRequest, ReadSymbol, Announce,
     Fetched, ClearBars, StoreBars, StoreSymbol, StoreCount, StoreStart
<1>4. Loading
  BY <1>3 DEF LoadInv
<1>5. ~(ReadCount \/ Aim \/ Resize \/ Move)
  BY <1>4 DEF Loading, ReadCount, Aim, Resize, Move, Goto
<1>6. CASE UNCHANGED vars
  BY <1>4, <1>6 DEF Loading, Fits, Calm, vars, bounds, drawn
<1>7. CASE WindowStep
  BY <1>1, <1>2, <1>4, <1>5, <1>7, WindowLoads DEF WindowStep
<1> QED BY <1>4, <1>6, <1>7, RenderLoads, DataLoads, NextIs

\* However requests and loads overlap, and whatever comes back, the chart is of the bars
\* kept and announces nothing once every request has been served, and the symbol stored,
\* if there is one, is theirs and in the title; as long as no gesture renders.
THEOREM LoadsAgreeHolds == Spec => []LoadsAgree
<1>1. Init => Stored /\ LoadInv
  BY DEF Init, Stored, LoadInv, Loading, Fits, Calm, NoBars, Blank, Thread
<1>2. LoadInv => LoadsAgree
  BY DEF LoadInv, Loading, Fits, Calm, LoadsAgree, QuietAgrees, Quiet, Thread
<1> QED BY <1>1, <1>2, ChartInit, ChartStep, StoredStep, LoadStep, PTL DEF Spec

-----------------------------------------------------------------------------
(* The self-update *)

Stage == {"idle", "lock", "ask", "done", "show", "url", "create", "copy", "script", "say",
          "exit", "failed"}

UpdateTyped ==
  /\ release \in 1..Newest /\ status.url \in 0..Newest
  /\ step \in [Update!Thread -> Stage]
  /\ asset \in [Downloads -> 0..Newest] /\ written \in [Downloads -> 0..Chunks]
  /\ newFile \in [1..Chunks -> 0..Newest]

UnderWay(d) == step[d] \notin {"idle", "failed"}

\* How much of the file beside the executable a download answers for.
Copying(d) ==
  /\ step[d] \in {"idle", "url", "create"} => written[d] = 0
  /\ step[d] \in {"create", "copy", "script", "say", "exit"} => asset[d] # Update!None
  /\ step[d] \in {"copy", "script", "say", "exit"}
       => \A k \in 1..written[d] : newFile[k] = asset[d]
  /\ step[d] \in {"script", "say", "exit"} => written[d] = Chunks

\* Without an overlap one download at most writes the file, and the script follows one
\* that has copied all of it and is not replaced before the program ends.
UpdateInv ==
  /\ UpdateTyped
  /\ InstalledWhole
  /\ ~overlap =>
       /\ \A d, e \in Downloads : UnderWay(d) /\ UnderWay(e) => d = e
       /\ \A d \in Downloads : Copying(d)
       /\ script => \E d \in Downloads : step[d] \in {"say", "exit"}

LEMMA UpdateConstants ==
  /\ Checks \cap Downloads = {} /\ "timer" \notin Downloads
  /\ Newest \in Nat \ {0} /\ Chunks \in Nat \ {0}
BY PartsAssumption DEF Update!UpdateAssumption

LEMMA UpdateInit == Update!Init => UpdateInv
<1> SUFFICES ASSUME Update!Init PROVE UpdateInv
  OBVIOUS
<1>1. UpdateTyped
  BY UpdateConstants DEF Update!Init, UpdateTyped, Stage, Update!Own, Update!None, Update!Whole
<1>2. InstalledWhole
  <2>1. Update!Own \in Update!Own..Newest
    BY UpdateConstants DEF Update!Own
  <2> QED BY <2>1 DEF Update!Init, InstalledWhole, Update!InstalledWhole
<1>3. \A d \in Downloads : Copying(d) /\ ~UnderWay(d)
  BY DEF Update!Init, Copying, UnderWay, Update!Thread
<1> QED BY <1>1, <1>2, <1>3 DEF UpdateInv, Update!Init

\* A step that leaves the files and the downloads alone.
LEMMA UpdateRests ==
  ASSUME UpdateInv, UpdateTyped', \A d \in Downloads : step'[d] = step[d],
         UNCHANGED <<asset, written, newFile, exe, overlap>>, script' => script
  PROVE  UpdateInv'
<1>1. \A d \in Downloads : (UnderWay(d) <=> UnderWay(d)') /\ (Copying(d) <=> Copying(d)')
  BY DEF UnderWay, Copying
<1>2. InstalledWhole'
  BY DEF UpdateInv, InstalledWhole, Update!InstalledWhole, Update!Whole
<1> QED BY <1>1, <1>2 DEF UpdateInv

\* A step of a download under way: without an overlap it is the only one, so it may
\* write the file.
LEMMA DownloadMoves ==
  ASSUME UpdateInv, UpdateTyped', NEW d \in Downloads, NEW x, UnderWay(d),
         step' = [step EXCEPT ![d] = x], UNCHANGED <<exe, overlap>>,
         \A e \in Downloads \ {d} : asset'[e] = asset[e] /\ written'[e] = written[e],
         ~overlap => Copying(d)',
         script' => x \in {"say", "exit"} \/ (script /\ step[d] \notin {"say", "exit"})
  PROVE  UpdateInv'
<1>1. step \in [Update!Thread -> Stage] /\ d \in Update!Thread
  BY DEF UpdateInv, UpdateTyped, Update!Thread
<1>2. InstalledWhole'
  BY DEF UpdateInv, InstalledWhole, Update!InstalledWhole, Update!Whole
<1> SUFFICES ASSUME ~overlap'
             PROVE  /\ \A e, f \in Downloads : UnderWay(e)' /\ UnderWay(f)' => e = f
                    /\ \A e \in Downloads : Copying(e)'
                    /\ script' => \E e \in Downloads : step'[e] \in {"say", "exit"}
  BY <1>2 DEF UpdateInv
<1>3. ASSUME NEW e \in Downloads, e # d PROVE ~UnderWay(e)' /\ Copying(e)'
  <2>1. ~UnderWay(e) /\ Copying(e)
    BY <1>3 DEF UpdateInv
  <2>2. step'[e] = step[e] /\ written'[e] = written[e]
    BY <1>1, <1>3 DEF Update!Thread
  <2> QED BY <2>1, <2>2 DEF UnderWay, Copying
<1>4. script /\ step[d] \notin {"say", "exit"} => FALSE
  BY DEF UpdateInv, UnderWay
<1> QED BY <1>1, <1>3, <1>4

LEMMA StartDownloadKeeps ==
  ASSUME UpdateInv, NEW d \in Downloads, Update!StartDownload(d)
  PROVE  UpdateInv'
<1>1. /\ step \in [Update!Thread -> Stage] /\ d \in Update!Thread
      /\ step' = [step EXCEPT ![d] = "url"] /\ step[d] = "idle"
      /\ UNCHANGED <<release, status, asset, written, newFile, exe, script>>
      /\ overlap' = (overlap \/ \E e \in Downloads : UnderWay(e))
  BY DEF UpdateInv, UpdateTyped, Update!Thread, Update!StartDownload, Update!Goto, Update!shared,
         Update!files, UnderWay
<1>2. UpdateTyped'
  BY <1>1 DEF UpdateInv, UpdateTyped, Stage
<1>3. InstalledWhole'
  BY <1>1 DEF UpdateInv, InstalledWhole, Update!InstalledWhole, Update!Whole
<1>4. ASSUME ~overlap', NEW e \in Downloads
      PROVE  Copying(e)' /\ (UnderWay(e)' => e = d) /\ step[e] \notin {"say", "exit"}
  <2>1. ~overlap /\ ~UnderWay(e) /\ Copying(e)
    BY <1>1, <1>4 DEF UpdateInv
  <2> QED BY <1>1, <2>1 DEF Copying, UnderWay
<1> QED BY <1>1, <1>2, <1>3, <1>4 DEF UpdateInv

LEMMA ReadUrlKeeps ==
  ASSUME UpdateInv, NEW d \in Downloads, Update!ReadUrl(d)
  PROVE  UpdateInv'
<1> DEFINE x == IF status.url = Update!None THEN "failed" ELSE "create"
<1>1. /\ step \in [Update!Thread -> Stage] /\ d \in Update!Thread
      /\ asset \in [Downloads -> 0..Newest] /\ status.url \in 0..Newest
      /\ step' = [step EXCEPT ![d] = x] /\ step[d] = "url"
      /\ asset' = [asset EXCEPT ![d] = status.url]
      /\ UNCHANGED <<release, status, written, newFile, exe, script, overlap>>
  BY DEF UpdateInv, UpdateTyped, Update!Thread, Update!ReadUrl, Update!shared, Update!files
<1>2. UpdateTyped'
  BY <1>1 DEF UpdateInv, UpdateTyped, Stage
<1>3. ~overlap => Copying(d)'
  BY <1>1 DEF UpdateInv, Copying
<1> QED BY <1>1, <1>2, <1>3, DownloadMoves DEF UnderWay

LEMMA CreateKeeps ==
  ASSUME UpdateInv, NEW d \in Downloads, Update!Create(d)
  PROVE  UpdateInv'
<1>1. /\ step \in [Update!Thread -> Stage] /\ d \in Update!Thread
      /\ step' = [step EXCEPT ![d] = "copy"] /\ step[d] = "create"
      /\ newFile' = Update!Whole(Update!None)
      /\ UNCHANGED <<release, status, asset, written, exe, script, overlap>>
  BY DEF UpdateInv, UpdateTyped, Update!Thread, Update!Create, Update!Goto, Update!shared
<1>2. UpdateTyped'
  BY <1>1, UpdateConstants DEF UpdateInv, UpdateTyped, Stage, Update!Whole, Update!None
<1>3. ~overlap => Copying(d)'
  BY <1>1 DEF UpdateInv, Copying
<1> QED BY <1>1, <1>2, <1>3, DownloadMoves DEF UnderWay

LEMMA CopyKeeps ==
  ASSUME UpdateInv, NEW d \in Downloads, Update!Copy(d)
  PROVE  UpdateInv'
<1> DEFINE n == written[d] + 1
<1>1. /\ step \in [Update!Thread -> Stage] /\ step' = [step EXCEPT ![d] = "copy"]
      /\ step[d] = "copy"
      /\ written \in [Downloads -> 0..Chunks] /\ newFile \in [1..Chunks -> 0..Newest]
      /\ asset \in [Downloads -> 0..Newest] /\ n \in 1..Chunks
      /\ written' = [written EXCEPT ![d] = n] /\ newFile' = [newFile EXCEPT ![n] = asset[d]]
      /\ UNCHANGED <<release, status, step, asset, exe, script, overlap>>
  BY UpdateConstants DEF UpdateInv, UpdateTyped, Update!Copy, Update!shared, Update!Thread
<1>2. UpdateTyped'
  <2>1. written' \in [Downloads -> 0..Chunks]
    BY <1>1
  <2>2. asset[d] \in 0..Newest
    BY <1>1
  <2>3. newFile' \in [1..Chunks -> 0..Newest]
    BY <1>1, <2>2
  <2> QED BY <1>1, <2>1, <2>3 DEF UpdateInv, UpdateTyped
<1>3. ASSUME ~overlap PROVE Copying(d)'
  <2>1. Copying(d)
    BY <1>3 DEF UpdateInv
  <2>2. \A k \in 1..n : newFile'[k] = asset[d]
    BY <1>1, <2>1 DEF Copying
  <2> QED BY <1>1, <2>1, <2>2 DEF Copying
<1> QED BY <1>1, <1>2, <1>3, DownloadMoves DEF UnderWay

\* The steps that only move a download along, one after its last chunk.
LEMMA OtherMovesKeep ==
  ASSUME UpdateInv, NEW d \in Downloads,
         \/ Update!DownloadFails(d) \/ Update!Copied(d) \/ Update!SpawnScript(d)
         \/ Update!SayRestarting(d)
  PROVE  UpdateInv'
<1>1. PICK x \in {"failed", "script", "say", "exit"} :
        /\ step' = [step EXCEPT ![d] = x]
        /\ \/ x = "failed" /\ step[d] \in {"create", "copy"} /\ script' = script
           \/ x = "script" /\ step[d] = "copy" /\ written[d] = Chunks /\ script' = script
           \/ x = "say" /\ step[d] = "script"
           \/ x = "exit" /\ step[d] = "say"
  BY DEF Update!DownloadFails, Update!Copied, Update!SpawnScript, Update!SayRestarting, Update!Goto,
         Update!files
<1>2. /\ step \in [Update!Thread -> Stage] /\ d \in Update!Thread
      /\ UNCHANGED <<release, status, asset, written, newFile, exe, overlap>>
  BY DEF UpdateInv, UpdateTyped, Update!Thread, Update!DownloadFails, Update!Copied,
         Update!SpawnScript, Update!SayRestarting, Update!shared, Update!files
<1>3. UpdateTyped'
  BY <1>1, <1>2 DEF UpdateInv, UpdateTyped, Stage
<1>4. ASSUME ~overlap PROVE Copying(d)'
  <2>1. Copying(d) /\ step'[d] = x
    BY <1>1, <1>2, <1>4 DEF UpdateInv
  <2> QED BY <1>1, <1>2, <2>1 DEF Copying
<1>5. UnderWay(d)
  BY <1>1 DEF UnderWay
<1>6. script' => x \in {"say", "exit"} \/ (script /\ step[d] \notin {"say", "exit"})
  BY <1>1
<1> QED BY <1>1, <1>2, <1>3, <1>4, <1>5, <1>6, DownloadMoves

\* The script moves the file of the download that spawned it.
LEMMA SwapKeeps ==
  ASSUME UpdateInv, Update!Swap
  PROVE  UpdateInv'
<1>1. /\ UpdateTyped /\ script /\ exe' = newFile /\ script' = FALSE
      /\ UNCHANGED <<release, status, step, asset, written, newFile, overlap>>
  BY DEF UpdateInv, Update!Swap, Update!shared
<1>2. UpdateTyped'
  BY <1>1 DEF UpdateTyped
<1>3. ASSUME ~overlap PROVE \E v \in Update!Own..Newest : newFile = Update!Whole(v)
  <2>1. PICK d \in Downloads : step[d] \in {"say", "exit"} /\ Copying(d)
    BY <1>1, <1>3 DEF UpdateInv
  <2>2. \A k \in 1..Chunks : newFile[k] = asset[d]
    BY <2>1 DEF Copying
  <2>3. newFile = [k \in 1..Chunks |-> asset[d]]
    BY <1>1, <2>2 DEF UpdateTyped
  <2>4. asset[d] \in Update!Own..Newest
    BY <1>1, <2>1, UpdateConstants DEF UpdateTyped, Copying, Update!Own, Update!None
  <2> QED BY <2>3, <2>4 DEF Update!Whole
<1>4. InstalledWhole'
  BY <1>1, <1>3 DEF InstalledWhole, Update!InstalledWhole, Update!Whole
<1>5. \A d \in Downloads : (UnderWay(d) <=> UnderWay(d)') /\ (Copying(d) <=> Copying(d)')
  BY <1>1 DEF UnderWay, Copying
<1> QED BY <1>1, <1>2, <1>4, <1>5 DEF UpdateInv

\* A step of a check, of the timer, of the process or of the server.
LEMMA OthersKeep ==
  ASSUME UpdateInv,
         \/ \E c \in Checks : Update!StartCheck(c) \/ Update!LockStatus(c) \/ Update!Answered(c)
         \/ Update!TimerFires \/ Update!TimerShows
         \/ \E d \in Downloads : Update!Exit(d)
         \/ Update!SwapTooEarly \/ Update!Release \/ UNCHANGED Update!vars
  PROVE  UpdateInv'
<1>0. UpdateTyped
  BY DEF UpdateInv
<1>1. UNCHANGED <<asset, written, newFile, exe, overlap>> /\ (script' => script)
  <2>1. CASE Update!SwapTooEarly
    BY <2>1 DEF Update!SwapTooEarly
  <2>2. CASE ~Update!SwapTooEarly
    <3>1. UNCHANGED <<asset, written, Update!files, overlap>>
      BY <2>2 DEF Update!StartCheck, Update!LockStatus, Update!Answered, Update!TimerFires,
         Update!TimerShows, Update!Exit, Update!Release, Update!vars
    <3> QED BY <3>1 DEF Update!files
  <2> QED BY <2>1, <2>2
<1>2. release' \in 1..Newest /\ status'.url \in 0..Newest
  <2>1. CASE Update!Release
    BY <1>0, <2>1, UpdateConstants DEF UpdateTyped, Update!Release, Update!shared
  <2>2. ASSUME NEW c \in Checks, Update!Answered(c)
        PROVE  release' \in 1..Newest /\ status'.url \in 0..Newest
    <3>1. \/ status' \in [available : {TRUE}, url : {release, Update!None}]
          \/ status' = [available |-> FALSE, url |-> Update!None]
      BY <2>2 DEF Update!Answered
    <3>2. CASE status' \in [available : {TRUE}, url : {release, Update!None}]
      BY <1>0, <2>2, <3>2, UpdateConstants DEF UpdateTyped, Update!Answered, Update!None
    <3>3. CASE status' = [available |-> FALSE, url |-> Update!None]
      BY <1>0, <2>2, <3>3, UpdateConstants DEF UpdateTyped, Update!Answered, Update!None
    <3> QED BY <3>1, <3>2, <3>3
  <2>3. CASE UNCHANGED <<release, status>>
    BY <1>0, <2>3 DEF UpdateTyped
  <2> QED BY <2>1, <2>2, <2>3 DEF Update!StartCheck, Update!LockStatus, Update!TimerFires,
        Update!TimerShows, Update!Exit, Update!SwapTooEarly, Update!vars, Update!shared
<1>3. \/ step' = step
      \/ \E t \in Checks \cup {"timer"}, x \in Stage : step' = [step EXCEPT ![t] = x]
  BY DEF Update!StartCheck, Update!LockStatus, Update!Answered, Update!TimerFires,
     Update!TimerShows, Update!Exit, Update!SwapTooEarly, Update!Release, Update!vars,
     Update!Goto, Stage
<1>4. step' \in [Update!Thread -> Stage] /\ \A d \in Downloads : step'[d] = step[d]
  BY <1>0, <1>3, UpdateConstants DEF UpdateTyped, Update!Thread
<1>5. UpdateTyped'
  BY <1>0, <1>1, <1>2, <1>4 DEF UpdateTyped
<1> QED BY <1>1, <1>4, <1>5, UpdateRests

LEMMA UpdateStep == UpdateInv /\ [Update!Next]_(Update!vars) => UpdateInv'
BY StartDownloadKeeps, ReadUrlKeeps, CreateKeeps, CopyKeeps, OtherMovesKeep, SwapKeeps, OthersKeep
   DEF Update!Next

\* What there is to be launched is one whole release, whatever failed, broke off or was
\* tried again before, if no two downloads overlap; for every number of downloads, checks,
\* releases and chunks.
THEOREM InstalledWholeHolds == Update!Spec => []InstalledWhole
<1>1. UpdateInv => InstalledWhole
  BY DEF UpdateInv
<1> QED BY <1>1, UpdateInit, UpdateStep, PTL DEF Update!Spec

-----------------------------------------------------------------------------
(* The settings *)

Field == {"mode", "live", "paper", "account", "multiplier"}

\* The numbers the window shows as they are, and those of them that are in range.
Tenth == {m \in Nat : m % 10 = 0}
Exact == {m \in Tenth : 10 <= m /\ m <= 500}

\* Multipliers are typed in whole tenths, and those of the environment and of an earlier
\* version are such and in range: another is shown rounded or clamped, and read back so.
ShownExactly ==
  /\ Multipliers \subseteq Tenth
  /\ \A s \in {Defaults} \cup Earlier : s.multiplier \in Exact

\* Applying what the window shows would change nothing but what was typed.
Faithful ==
  /\ DOMAIN fields = Field /\ fields.multiplier \subseteq Tenth
  /\ \A k \in Field \ touched : Store!Applied(controls)[k] = controls[k]

\* What is chosen is stored, in the new place or the old one, or it is the defaults and
\* nothing is stored; while the program runs it is in force.
StoreInv ==
  ~harmed =>
    /\ chosen.multiplier \in Exact
    /\ \/ file = {chosen}
       \/ file = {} /\ legacy = {chosen} /\ ~alive
       \/ file = {} /\ legacy = {} /\ chosen = Defaults
    /\ alive => controls = chosen /\ Faithful
    /\ ~alive => touched = {}

LEMMA ParsedIsTyped ==
  ASSUME NEW S, NEW old, S # {}
  PROVE  Store!Parsed(S, old) \in S
BY DEF Store!Parsed

LEMMA ClampedExact ==
  ASSUME NEW v \in Tenth
  PROVE  Store!Clamped(v, 10, 500) \in Exact /\ (v \in Exact => Store!Clamped(v, 10, 500) = v)
<1> DEFINE low == IF v <= 500 THEN v ELSE 500
<1>1. v \in Nat /\ v # Store!NaN
  BY DEF Tenth, Store!NaN
<1>2. Store!Min({v, 500}) = low
  BY <1>1 DEF Store!Min
<1>3. Store!Max({10, low}) = IF low >= 10 THEN low ELSE 10
  BY <1>1 DEF Store!Max
<1> QED BY <1>1, <1>2, <1>3 DEF Store!Clamped, Exact, Tenth

\* A whole tenth is shown as it is.
LEMMA TenthShown ==
  ASSUME NEW v \in Exact, NEW t \in Store!Tenths(v)
  PROVE  t = v
<1>1. v \in Nat /\ v # Store!NaN /\ v = 10 * (v \div 10)
  BY DEF Exact, Tenth, Store!NaN
<1>2. t - v \in -5..5 /\ t \in {v, v + 10}
  BY <1>1 DEF Store!Tenths
<1> QED BY <1>1, <1>2

\* A window opened on settings that show exactly is faithful to them.
LEMMA OpenedFaithful ==
  ASSUME controls'.multiplier \in Exact, fields' \in Store!ShownAs(controls')
  PROVE  Faithful'
<1>1. PICK t \in Store!Tenths(controls'.multiplier) :
        fields' = [mode |-> controls'.mode, live |-> {controls'.live},
                   paper |-> {controls'.paper}, account |-> controls'.account,
                   multiplier |-> {t}]
  BY DEF Store!ShownAs
<1>2. t = controls'.multiplier
  BY TenthShown
<1>3. \A v, old : Store!Parsed({v}, old) = v
  BY ParsedIsTyped
<1>4. Store!Clamped(t, 10, 500) = t
  BY <1>2, ClampedExact DEF Exact
<1>5. \A k \in Field : Store!Applied(controls)'[k] = controls'[k]
  <2> DEFINE A == Store!Applied(controls)'
  <2>1. /\ A.mode = fields'.mode /\ A.account = fields'.account
        /\ A.live = Store!Parsed(fields'.live, controls'.live)
        /\ A.paper = Store!Parsed(fields'.paper, controls'.paper)
        /\ A.multiplier = IF fields'.multiplier = {} THEN controls'.multiplier
                          ELSE Store!Clamped(Store!Parsed(fields'.multiplier, 0), 10, 500)
    BY DEF Store!Applied
  <2>2. /\ fields'.mode = controls'.mode /\ fields'.account = controls'.account
        /\ fields'.live = {controls'.live} /\ fields'.paper = {controls'.paper}
        /\ fields'.multiplier = {t}
    BY <1>1
  <2>3. /\ Store!Parsed({controls'.live}, controls'.live) = controls'.live
        /\ Store!Parsed({controls'.paper}, controls'.paper) = controls'.paper
        /\ Store!Parsed({t}, 0) = t
    BY <1>3
  <2>4. A.live = controls'.live /\ A.paper = controls'.paper
    BY <2>1, <2>2, <2>3, Zenon
  <2>5. A.multiplier = Store!Clamped(Store!Parsed({t}, 0), 10, 500)
    <3>1. {t} # {}
      OBVIOUS
    <3> QED BY <2>1, <2>2, <3>1, Zenon
  <2>6. A.multiplier = controls'.multiplier
    BY <1>2, <1>4, <2>3, <2>5, Zenon
  <2> QED BY <2>1, <2>2, <2>4, <2>6 DEF Field
<1>6. DOMAIN fields' = Field /\ fields'.multiplier \subseteq Tenth
  <2>1. DOMAIN fields' = Field
    BY <1>1 DEF Field
  <2>2. fields'.multiplier = {t} /\ t \in Tenth
    BY <1>1, <1>2 DEF Exact
  <2> QED BY <2>1, <2>2
<1> QED BY <1>5, <1>6 DEF Faithful

\* What is applied is in range and shows exactly, and applied again is the same.
LEMMA AppliedExact ==
  ASSUME controls.multiplier \in Exact, fields.multiplier \subseteq Tenth
  PROVE  Store!Applied(controls).multiplier \in Exact
<1>1. CASE fields.multiplier = {}
  BY <1>1 DEF Store!Applied
<1>2. CASE fields.multiplier # {}
  <2>1. Store!Parsed(fields.multiplier, 0) \in Tenth
    BY <1>2, ParsedIsTyped
  <2> QED BY <1>2, <2>1, ClampedExact DEF Store!Applied
<1> QED BY <1>1, <1>2

LEMMA AppliedAgain ==
  ASSUME NEW s, NEW k \in Field
  PROVE  Store!Applied(Store!Applied(s))[k] = Store!Applied(s)[k]
<1> DEFINE A == Store!Applied(s)
           B == Store!Applied(A)
<1>1. /\ A.mode = fields.mode /\ A.account = fields.account
      /\ A.live = Store!Parsed(fields.live, s.live)
      /\ A.paper = Store!Parsed(fields.paper, s.paper)
  BY DEF Store!Applied
<1>2. /\ B.mode = fields.mode /\ B.account = fields.account
      /\ B.live = Store!Parsed(fields.live, A.live)
      /\ B.paper = Store!Parsed(fields.paper, A.paper)
      /\ B.multiplier = A.multiplier
  BY DEF Store!Applied
<1>3. \A S, old : Store!Parsed(S, Store!Parsed(S, old)) = Store!Parsed(S, old)
  BY DEF Store!Parsed
<1>4. \A j \in Field : B[j] = A[j]
  BY <1>1, <1>2, <1>3 DEF Field
<1> QED BY <1>4

LEMMA StoreInit == ASSUME ShownExactly PROVE Store!Init => StoreInv
BY DEF Store!Init, StoreInv, ShownExactly, Store!NoProcess

LEMMA LaunchKeeps ==
  ASSUME StoreInv, ShownExactly, Store!Launch
  PROVE  StoreInv'
<1> SUFFICES ASSUME ~harmed' PROVE StoreInv'
  BY DEF StoreInv
<1>1. ~alive /\ alive' /\ Store!LoadInto /\ fields' \in Store!ShownAs(controls')
      /\ UNCHANGED <<chosen, touched>>
  BY DEF Store!Launch
<1>2. ~harmed
  BY <1>1 DEF Store!LoadInto, Store!Saved, Store!stored
<1>3. chosen.multiplier \in Exact /\ touched = {}
  BY <1>1, <1>2 DEF StoreInv
<1>4. controls' = chosen /\ (file' = {chosen} \/ (file' = {} /\ legacy' = {} /\ chosen = Defaults))
  <2>1. CASE file = {chosen}
    BY <1>1, <2>1 DEF Store!LoadInto, Store!stored
  <2>2. CASE file = {} /\ legacy = {chosen}
    <3>1. controls' \in legacy /\ Store!Saved(CHOOSE s \in legacy : TRUE)
      BY <1>1, <2>2 DEF Store!LoadInto
    <3>2. (CHOOSE s \in legacy : TRUE) = chosen
      BY <2>2
    <3>3. file' = Store!Written(chosen)
      BY <3>1, <3>2 DEF Store!Saved
    <3> QED BY <1>3, <2>2, <3>1, <3>3 DEF Store!Written, Exact, Tenth, Store!NaN
  <2>3. CASE file = {} /\ legacy = {} /\ chosen = Defaults
    BY <1>1, <2>3 DEF Store!LoadInto, Store!stored
  <2> QED BY <1>2, <2>1, <2>2, <2>3 DEF StoreInv
<1>5. Faithful'
  BY <1>1, <1>3, <1>4, OpenedFaithful
<1> QED BY <1>1, <1>3, <1>4, <1>5 DEF StoreInv

\* SAVE SETTINGS and START put in force what the window shows, which is what was typed
\* and, elsewhere, what was chosen before; and store it.
LEMMA PressKeeps ==
  ASSUME StoreInv, Store!Press
  PROVE  StoreInv'
<1> SUFFICES ASSUME ~harmed' PROVE StoreInv'
  BY DEF StoreInv
<1> DEFINE A == Store!Applied(controls)
<1>1. /\ alive /\ alive' = alive /\ UNCHANGED <<fields, legacy>>
      /\ controls' = A /\ chosen' = Store!Choose(A) /\ touched' = {}
      /\ Store!Saved(A)
  BY DEF Store!Press, Store!ApplySettings
<1>2. ~harmed /\ file' = Store!Written(A)
  BY <1>1 DEF Store!Saved
<1>3. controls = chosen /\ Faithful /\ controls.multiplier \in Exact
  BY <1>1, <1>2 DEF StoreInv
<1>4. A.multiplier \in Exact
  BY <1>3, AppliedExact DEF Faithful
<1>5. chosen' = A
  <2>1. DOMAIN A = Field /\ A = [k \in Field |-> A[k]]
    BY DEF Store!Applied, Field
  <2>2. \A k \in Field : (IF k \in touched THEN A[k] ELSE chosen[k]) = A[k]
    BY <1>3 DEF Faithful
  <2> QED BY <1>1, <2>1, <2>2 DEF Store!Choose
<1>6. file' = {chosen'}
  BY <1>2, <1>4, <1>5 DEF Store!Written, Exact, Tenth, Store!NaN
<1>7. Faithful'
  <2>1. Store!Applied(controls)' = Store!Applied(A)
    BY <1>1 DEF Store!Applied
  <2> QED BY <1>1, <1>3, <2>1, AppliedAgain DEF Faithful
<1> QED BY <1>1, <1>4, <1>5, <1>6, <1>7 DEF StoreInv

\* A field typed into, or filled by the picker, is touched.
LEMMA TypedKeeps ==
  ASSUME StoreInv, alive, NEW k \in Field, NEW v, fields' = [fields EXCEPT ![k] = v],
         touched' = touched \cup {k}, k = "multiplier" => v \subseteq Tenth,
         UNCHANGED <<alive, controls, file, legacy, chosen, harmed>>
  PROVE  StoreInv'
<1> SUFFICES ASSUME ~harmed PROVE StoreInv'
  BY DEF StoreInv
<1>1. Faithful
  BY DEF StoreInv
<1>2. \A j \in Field : fields'[j] = IF j = k THEN v ELSE fields[j]
  BY <1>1 DEF Faithful
<1>3. DOMAIN fields' = Field /\ fields'.multiplier \subseteq Tenth
  BY <1>1, <1>2 DEF Faithful, Field
<1>4. ASSUME NEW j \in Field \ touched' PROVE Store!Applied(controls)'[j] = controls'[j]
  <2>1. Store!Applied(controls)[j] = controls[j] /\ j # k
    BY <1>1 DEF Faithful
  <2>2. fields'[j] = fields[j]
    BY <1>2, <2>1
  <2> QED BY <2>1, <2>2 DEF Store!Applied, Field
<1>5. Faithful'
  BY <1>3, <1>4 DEF Faithful
<1> QED BY <1>5 DEF StoreInv

LEMMA StoreStep == ASSUME ShownExactly PROVE StoreInv /\ [Store!Next]_(Store!vars) => StoreInv'
<1> SUFFICES ASSUME StoreInv, [Store!Next]_(Store!vars) PROVE StoreInv'
  OBVIOUS
<1>1. CASE Store!Launch
  BY <1>1, LaunchKeeps
<1>2. CASE Store!Killed
  BY <1>2 DEF Store!Killed, Store!End, StoreInv, Store!NoProcess
<1>3. CASE Store!KilledSaving \/ Store!KilledMigrating
  BY <1>3 DEF Store!KilledSaving, Store!KilledMigrating, StoreInv
<1>4. ASSUME NEW k \in DOMAIN fields, NEW v \in Store!Entry(k), Store!Type(k, v)
      PROVE  StoreInv'
  <2>1. CASE harmed
    BY <1>4, <2>1 DEF Store!Type, StoreInv
  <2>2. CASE ~harmed
    <3>1. k \in Field
      BY <1>4, <2>2 DEF Store!Type, StoreInv, Faithful
    <3>2. k = "multiplier" => v \subseteq Tenth
      BY <1>4 DEF Store!Entry, ShownExactly
    <3> QED BY <1>4, <3>1, <3>2, TypedKeeps DEF Store!Type, Store!stored
  <2> QED BY <2>1, <2>2
<1>5. CASE Store!Press
  BY <1>5, PressKeeps
<1>6. CASE Store!Pick
  <2>1. CASE UNCHANGED <<fields, touched>>
    BY <1>6, <2>1 DEF Store!Pick, Store!stored, StoreInv, Faithful, Store!Applied
  <2>2. CASE ~UNCHANGED <<fields, touched>>
    BY <1>6, <2>2, TypedKeeps DEF Store!Pick, Store!stored, Field
  <2> QED BY <2>1, <2>2
<1>7. CASE Store!Detect \/ (\E d \in detecting : Store!Detected(d)) \/ UNCHANGED Store!vars
  <2>1. UNCHANGED <<alive, controls, fields, file, legacy, chosen, touched, harmed>>
    BY <1>7 DEF Store!Detect, Store!Detected, Store!vars, Store!stored
  <2> QED BY <2>1 DEF StoreInv, Faithful, Store!Applied
<1> QED BY <1>1, <1>2, <1>3, <1>4, <1>5, <1>6, <1>7 DEF Store!Next

\* While the program runs, every setting in force is the one the operator last gave and
\* saved, whatever was typed, closed and launched since, if no write of a file failed or was
\* cut short and multipliers are whole tenths.
THEOREM ChoicesSurviveHolds == ASSUME ShownExactly PROVE Store!Spec => []ChoicesSurvive
<1>1. StoreInv => ChoicesSurvive
  BY DEF StoreInv, ChoicesSurvive, Store!ChoicesSurvive
<1> QED BY <1>1, StoreInit, StoreStep, PTL DEF Store!Spec

-----------------------------------------------------------------------------

\* What runs behind the window is one of its parts, by that part's own specification.
THEOREM WindowIsItsParts == SpecWindow => Spec /\ Store!Spec /\ Update!Spec
<1>1. InitWindow => Init /\ Store!Init /\ Update!Init
  BY DEF InitWindow
<1>2. [NextWindow]_<<part, vars, storeVars, updateVars>>
        => [Next]_vars /\ [Store!Next]_(Store!vars) /\ [Update!Next]_(Update!vars)
  BY DEF NextWindow, storeVars, updateVars, Store!vars, Store!stored, Store!picker, Update!vars,
         Update!shared, Update!files
<1> QED BY <1>1, <1>2, PTL DEF SpecWindow, Spec, Store!Spec, Update!Spec
=============================================================================
