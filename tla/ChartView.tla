------------------------------ MODULE ChartView ------------------------------
(***************************************************************************)
(* The Charts tab: the data thread loads bars on request                   *)
(* (pax-client/src/data.rs, load_into_state) while the window's thread     *)
(* asks for symbols, pans and zooms (pax-client/src/main.rs), and both     *)
(* render the visible window of the stored bars (data.rs, rerender).       *)
(*                                                                         *)
(* The two threads share a dozen atomics and mutexes and take no lock      *)
(* across them but the one on the bars, held while a window is rendered.   *)
(* Each step below is one load or store of what the other thread uses,     *)
(* except that a rendering writes count and start back and reads the       *)
(* symbol in one step.  Bars are counted, not drawn; label and overlay,    *)
(* which travel with the symbol, are left out.                             *)
(***************************************************************************)
EXTENDS Integers

CONSTANTS
  Sym,          \* the symbols the operator looks at
  Empty,        \* the empty string, which the symbol is at first
  Typed,        \* what may be in the field when it is loaded: symbols, or nothing
  Lengths,      \* the numbers of bars a request may return
  MinVisible, DefaultVisible,
  MaxAsks,      \* bound on the operator's requests
  MaxGestures   \* bound on drags, scrolls and zooms

ASSUME ChartAssumption ==
  /\ Empty \notin Sym /\ Typed \subseteq Sym \cup {Empty}
  /\ Lengths \subseteq Nat
  /\ MinVisible \in Nat \ {0} /\ DefaultVisible \in Nat /\ MinVisible <= DefaultVisible
  /\ MaxAsks \in Nat /\ MaxGestures \in Nat

VARIABLES
  \* shared
  bars,                        \* whose bars are stored, and how many
  holder,                      \* the thread that holds the lock on them
  symbol, count, start,        \* chart_symbol, chart_count, chart_start
  request,                     \* chart_request
  chart, chartGen,             \* the rendered view, and how many there have been
  \* per thread
  pc,                          \* how far it is
  len, cnt, beg,               \* bars, visible bars and offset as it read or clamped them
  view,                        \* the view it rendered and has not stored
  \* the window's thread
  gesture, aim,                \* what it handles, and the start it computed
  lastGen, shown,              \* last_chart_gen, and the view on the screen
  asks, gestures,
  \* the data thread
  loading,                     \* the symbol it loads
  \* history
  asked                        \* the symbol last asked for

Thread == {"window", "data"}

bounds   == <<len, cnt, beg, view>>
position == <<count, start>>
drawn    == <<chart, chartGen>>
screen   == <<lastGen, shown>>
input    == <<gesture, aim, asks, gestures, asked>>
vars == <<bars, holder, symbol, position, request, drawn, pc, bounds, input, screen, loading>>

Gesture == {"drag", "forward", "back", "in", "out"}

NoBars(s) == [of |-> s, n |-> 0]

Name == Sym \cup {Empty}

\* What the line below a chart says: nothing yet, that it is being loaded, which bars it
\* shows, or that there are none.
Status == {"none", "loading", "bars", "no data"}

\* A rendered window: whose bars, under which title, which of how many, and its status.
View == [of : Name, title : Name, n : Nat, start : Nat, count : Nat, status : Status]

Blank(s, st) ==
  [of |-> s, title |-> s, n |-> 0, start |-> 0, count |-> 0, status |-> st]

Least(m, n) == IF m <= n THEN m ELSE n
Most(m, n) == IF m >= n THEN m ELSE n
Clamped(v, lo, hi) == Most(lo, Least(v, hi))

Init ==
  /\ symbol = Empty
  /\ bars = NoBars(Empty) /\ holder = "none"
  /\ count = DefaultVisible /\ start = 0 /\ request = FALSE
  /\ chart = Blank(Empty, "none") /\ chartGen = 0
  /\ pc = [t \in Thread |-> "idle"]
  /\ len = [t \in Thread |-> 0] /\ cnt = [t \in Thread |-> 0]
  /\ beg = [t \in Thread |-> 0]
  /\ view = [t \in Thread |-> Blank(Empty, "none")]
  /\ gesture = "drag" /\ aim = 0 /\ lastGen = 0 /\ shown = Blank(Empty, "none")
  /\ asks = 0 /\ gestures = 0
  /\ loading = Empty /\ asked = Empty

Goto(t, from, to) == pc[t] = from /\ pc' = [pc EXCEPT ![t] = to]

-----------------------------------------------------------------------------
(* rerender, on either thread *)

AfterRender(t) == IF t = "window" THEN "push" ELSE "idle"

\* Lock the bars and clamp the number of visible ones; nothing to do without bars.
ClampCount(t) ==
  /\ pc[t] = "render" /\ holder = "none"
  /\ IF bars.n = 0
       THEN /\ pc' = [pc EXCEPT ![t] = AfterRender(t)]
            /\ UNCHANGED <<holder, len, cnt>>
       ELSE /\ pc' = [pc EXCEPT ![t] = "offset"]
            /\ holder' = t
            /\ len' = [len EXCEPT ![t] = bars.n]
            /\ cnt' = [cnt EXCEPT ![t] = Clamped(count, Least(MinVisible, bars.n), bars.n)]
  /\ UNCHANGED <<bars, symbol, position, request, drawn, beg, view, input, screen,
                 loading>>

ClampStart(t) ==
  /\ Goto(t, "offset", "slice")
  /\ beg' = [beg EXCEPT ![t] = Least(start, len[t] - cnt[t])]
  /\ UNCHANGED <<bars, holder, symbol, position, request, drawn, len, cnt, view, input,
                 screen, loading>>

\* Write both back, render the slice and unlock.
Slice(t) ==
  /\ Goto(t, "slice", "publish")
  /\ count' = cnt[t]
  /\ start' = beg[t]
  /\ view' = [view EXCEPT ![t] = [of |-> bars.of, title |-> symbol, n |-> bars.n,
                                  start |-> beg[t], count |-> cnt[t], status |-> "bars"]]
  /\ holder' = "none"
  /\ UNCHANGED <<bars, symbol, request, drawn, len, cnt, beg, input, screen,
                 loading>>

Publish(t) ==
  /\ Goto(t, "publish", "bump")
  /\ chart' = view[t]
  /\ UNCHANGED <<bars, holder, symbol, position, request, chartGen, bounds, input,
                 screen, loading>>

\* Mutant: the generation is bumped by the window's thread only.
BumpForgotten(t) ==
  /\ Goto(t, "bump", AfterRender(t))
  /\ chartGen' = IF t = "window" THEN chartGen + 1 ELSE chartGen
  /\ UNCHANGED <<bars, holder, symbol, position, request, chart, bounds, input, screen,
                 loading>>

Bump(t) ==
  /\ Goto(t, "bump", AfterRender(t))
  /\ chartGen' = chartGen + 1
  /\ UNCHANGED <<bars, holder, symbol, position, request, chart, bounds, input, screen,
                 loading>>

-----------------------------------------------------------------------------
(* The window's thread *)

\* Load chart, whatever is in the field, and View on a portfolio row: the symbol, then
\* the request.
AskSymbol(s) ==
  /\ Goto("window", "idle", "ask") /\ asks < MaxAsks
  /\ asks' = asks + 1
  /\ symbol' = s /\ asked' = IF s = Empty THEN asked ELSE s
  /\ UNCHANGED <<bars, holder, position, request, drawn, bounds, gesture, aim, gestures,
                 screen, loading>>

AskRequest ==
  /\ Goto("window", "ask", "idle")
  /\ request' = TRUE
  /\ UNCHANGED <<bars, holder, symbol, position, drawn, bounds, input, screen, loading>>

\* A gesture looks at the bars, then at the number of visible ones.
Begin(g) ==
  /\ pc["window"] = "idle" /\ holder = "none" /\ gestures < MaxGestures
  /\ bars.n > 0
  /\ pc' = [pc EXCEPT !["window"] = "count"]
  /\ gestures' = gestures + 1 /\ gesture' = g
  /\ len' = [len EXCEPT !["window"] = bars.n]
  /\ UNCHANGED <<bars, holder, symbol, position, request, drawn, cnt, beg, view, aim,
                 asks, asked, screen, loading>>

ReadCount ==
  /\ Goto("window", "count", "aim")
  /\ cnt' = [cnt EXCEPT !["window"] = count]
  /\ UNCHANGED <<bars, holder, symbol, position, request, drawn, len, beg, view, input,
                 screen, loading>>

Room == Most(len["window"] - cnt["window"], 0)
Step == Most(cnt["window"] \div 6, 1)

Zoomed ==
  IF gesture = "in"
    THEN Least(Most((cnt["window"] * 4) \div 5, MinVisible), len["window"])
    ELSE Least((cnt["window"] * 5) \div 4 + 1, len["window"])

\* Where the gesture takes the window: a drag anywhere, a scroll by a step, a zoom
\* to the same right edge.
Target ==
  CASE gesture = "drag"    -> 0..Room
    [] gesture = "forward" -> {Clamped(start + Step, 0, Room)}
    [] gesture = "back"    -> {Clamped(start - Step, 0, Room)}
    [] OTHER -> {Least(Most(start + cnt["window"] - Zoomed, 0), len["window"] - Zoomed)}

Aim ==
  /\ pc["window"] = "aim"
  /\ pc' = [pc EXCEPT !["window"] = IF gesture \in {"in", "out"} THEN "resize" ELSE "move"]
  /\ aim' \in Target
  /\ UNCHANGED <<bars, holder, symbol, position, request, drawn, bounds, gesture, asks,
                 gestures, asked, screen, loading>>

Resize ==
  /\ Goto("window", "resize", "move")
  /\ count' = Zoomed
  /\ UNCHANGED <<bars, holder, symbol, start, request, drawn, bounds, input, screen,
                 loading>>

Move ==
  /\ Goto("window", "move", "render")
  /\ start' = aim
  /\ UNCHANGED <<bars, holder, symbol, count, request, drawn, bounds, input, screen,
                 loading>>

\* push_chart copies the view to the screen.
Push ==
  /\ Goto("window", "push", "idle")
  /\ shown' = chart
  /\ UNCHANGED <<bars, holder, symbol, position, request, drawn, bounds, input, lastGen,
                 loading>>

\* The timer pushes when the generation has moved.
Tick ==
  /\ Goto("window", "idle", "push") /\ chartGen # lastGen
  /\ lastGen' = chartGen
  /\ UNCHANGED <<bars, holder, symbol, position, request, drawn, bounds, input, shown,
                 loading>>

-----------------------------------------------------------------------------
(* The data thread *)

TakeRequest ==
  /\ Goto("data", "idle", "name") /\ request
  /\ request' = FALSE
  /\ UNCHANGED <<bars, holder, symbol, position, drawn, bounds, input, screen, loading>>

\* The request says only that there is one: the symbol is read after it, and for an
\* empty one nothing is done.
ReadSymbol ==
  /\ pc["data"] = "name"
  /\ pc' = [pc EXCEPT !["data"] = IF symbol = Empty THEN "idle" ELSE "announce"]
  /\ loading' = symbol
  /\ UNCHANGED <<bars, holder, symbol, position, request, drawn, bounds, input, screen>>

\* "Loading": a store into the chart that is there, not counted as a rendering.
Announce ==
  /\ Goto("data", "announce", "fetch")
  /\ chart' = [chart EXCEPT !.status = "loading"]
  /\ UNCHANGED <<bars, holder, symbol, position, request, chartGen, bounds, input, screen,
                 loading>>

\* historical_data (external) returns, perhaps with next to nothing.
Fetched(n) ==
  /\ pc["data"] = "fetch"
  /\ pc' = [pc EXCEPT !["data"] = IF n < 2 THEN "clear" ELSE "bars"]
  /\ len' = [len EXCEPT !["data"] = n]
  /\ UNCHANGED <<bars, holder, symbol, position, request, drawn, cnt, beg, view, input,
                 screen, loading>>

\* Mutant: the chart drawn before stays where a message should take its place.
ClearBarsOnly ==
  /\ Goto("data", "clear", "bump") /\ holder = "none"
  /\ bars' = NoBars(loading)
  /\ UNCHANGED <<holder, symbol, position, request, drawn, bounds, input, screen, loading>>

\* Without bars a message takes the chart's place.
ClearBars ==
  /\ Goto("data", "clear", "publish") /\ holder = "none"
  /\ bars' = NoBars(loading)
  /\ view' = [view EXCEPT !["data"] = Blank(loading, "no data")]
  /\ UNCHANGED <<holder, symbol, position, request, drawn, len, cnt, beg, input, screen,
                 loading>>

\* Mutant: the bars are replaced under the feet of whoever renders them.
StoreBarsUnlocked ==
  /\ Goto("data", "bars", "symbol")
  /\ bars' = [of |-> loading, n |-> len["data"]]
  /\ UNCHANGED <<holder, symbol, position, request, drawn, bounds, input, screen, loading>>

StoreBars ==
  /\ Goto("data", "bars", "symbol") /\ holder = "none"
  /\ bars' = [of |-> loading, n |-> len["data"]]
  /\ UNCHANGED <<holder, symbol, position, request, drawn, bounds, input, screen, loading>>

StoreSymbol ==
  /\ Goto("data", "symbol", "setcount")
  /\ symbol' = loading
  /\ UNCHANGED <<bars, holder, position, request, drawn, bounds, input, screen, loading>>

Visible == Most(Least(len["data"], DefaultVisible), Least(MinVisible, len["data"]))

StoreCount ==
  /\ Goto("data", "setcount", "setstart")
  /\ count' = Visible
  /\ UNCHANGED <<bars, holder, symbol, start, request, drawn, bounds, input, screen,
                 loading>>

StoreStart ==
  /\ Goto("data", "setstart", "render")
  /\ start' = len["data"] - Visible
  /\ UNCHANGED <<bars, holder, symbol, count, request, drawn, bounds, input, screen,
                 loading>>

Next ==
  \/ \E t \in Thread : ClampCount(t) \/ ClampStart(t) \/ Slice(t) \/ Publish(t) \/ Bump(t)
  \/ \E s \in Typed : AskSymbol(s)
  \/ AskRequest
  \/ \E g \in Gesture : Begin(g)
  \/ ReadCount \/ Aim \/ Resize \/ Move \/ Push \/ Tick
  \/ TakeRequest \/ ReadSymbol \/ Announce
  \/ \E n \in Lengths : Fetched(n)
  \/ ClearBars \/ StoreBars \/ StoreSymbol \/ StoreCount \/ StoreStart

Spec == Init /\ [][Next]_vars

-----------------------------------------------------------------------------
(* Properties *)

TypeOK ==
  /\ bars \in [of : Name, n : Lengths \cup {0}] /\ holder \in Thread \cup {"none"}
  /\ symbol \in Name /\ count \in Nat /\ start \in Nat /\ request \in BOOLEAN
  /\ chart \in View /\ chartGen \in Nat
  /\ pc["window"] \in {"idle", "ask", "count", "aim", "resize", "move", "render",
                       "offset", "slice", "publish", "bump", "push"}
  /\ pc["data"] \in {"idle", "name", "announce", "fetch", "clear", "bars", "symbol", "setcount",
                     "setstart", "render", "offset", "slice", "publish", "bump"}
  /\ len \in [Thread -> Nat] /\ cnt \in [Thread -> Nat]
  /\ beg \in [Thread -> Nat] /\ view \in [Thread -> View]
  /\ gesture \in Gesture /\ aim \in Nat /\ lastGen \in Nat /\ shown \in View
  /\ asks \in 0..MaxAsks /\ gestures \in 0..MaxGestures
  /\ loading \in Name /\ asked \in Name

\* data.rs, "Clamp the window to the available data": however a load and a gesture
\* interleave, the slice a thread renders lies within the bars that are stored then
\* (a slice outside them would panic) and is no narrower than the tightest zoom.
SliceInBounds ==
  \A t \in Thread : /\ view[t].start + view[t].count <= view[t].n
                    /\ view[t].count >= Least(MinVisible, view[t].n)

\* The data thread has announced a load and not yet published it.
Announced == pc["data"] \in {"fetch", "clear", "bars", "symbol", "setcount", "setstart",
                             "render", "offset", "slice", "publish"}

\* state.rs, chart_gen is "Bumped whenever chart is re-rendered, so the GUI knows to
\* push it": when the window rests, has seen the last generation, and nobody is
\* between storing a view and bumping, the screen shows the chart - but for the
\* announcement of a load under way, which may wait in the chart unseen.
ScreenIsCurrent ==
  (pc["window"] = "idle" /\ pc["data"] # "bump" /\ lastGen = chartGen)
    => \/ shown = chart
       \/ Announced /\ chart = [shown EXCEPT !.status = "loading"]

\* data.rs, "Loading {sym}…": the announcement reaches the operator while the load is
\* under way.
LoadingShown ==
  (pc["window"] = "idle" /\ pc["data"] # "bump" /\ lastGen = chartGen) => shown = chart

Quiet == pc = [t \in Thread |-> "idle"] /\ ~request

\* state.rs, chart_symbol is the "Symbol the chart should show", chart_request is
\* "Set by the GUI to request a (re)load": once every request has been served,
\* the chart shows the symbol last asked for.
LastAskedShown == Quiet => chart.of = asked

\* data.rs, rerender will "publish a fresh ChartView": when nothing is left to do, the
\* chart is drawn from the bars kept, no load is announced any more, and the symbol
\* stored and the title are theirs, unless an empty request came last.
QuietAgrees ==
  Quiet => /\ chart.of = bars.of /\ chart.status # "loading"
           /\ symbol # Empty => symbol = bars.of /\ chart.title = bars.of

\* Without a gesture, when the data thread alone renders: however requests and loads
\* overlap, and whatever comes back, the chart, its title, its bars and the stored
\* symbol agree once every request has been served, as long as a symbol is stored.
LoadsAgree == gestures = 0 => QuietAgrees

\* A chart is titled with the symbol whose bars it shows.
TitleMatches == chart.title = chart.of
=============================================================================
