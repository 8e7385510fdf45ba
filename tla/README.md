# Pax Americana: TLA+ models, checks and proofs

Pax Americana copies the positions of one Interactive Brokers account (the *master*) to
others (*clients*). `pax-master` streams its account's positions into a snapshot and
serves it over HTTP; each `pax-client` polls the snapshot, computes scaled targets, and
trades its own account towards them with market orders. `pax-core` holds what both share.

These modules model the program's own logic: what it decides, from which possibly
outdated reading, in which order, and what happens when threads, the broker and the
operator do something in between. Each module's header names the source it models, and
`PROJECT.json` ("map") gives the lines each definition stands for.

## 1. Inventory

| Component | Source | State it keeps | Operations | Talks to |
|---|---|---|---|---|
| Reconciliation, sizing | `pax-core/src/reconcile.rs`, `sizing.rs`, `model.rs` | none (pure) | `reconcile`, `target_net_qty`, `round_qty` | called by the engine |
| Margin check | `pax-client/src/engine.rs`, `ib.rs` | the funds a pass has left | what-if, reservation | broker |
| Trading loop | `engine.rs` `run_session`, `do_close_all` | cooldowns, rejection backoffs, placed orders, locked targets, New-Only baseline; the ledger file | one cycle: order stream, CLOSE ALL, margin, positions, snapshot, gate, live orders, submission | broker, master's HTTP API, flags of the window |
| Engine life, license | `engine.rs` `engine_main`, `license.rs` | `running`, `session_gen`, `halted`, `close_all` (shared) | START, STOP, CLOSE ALL, SAVE; connect, account, license, loop, panic | the window's thread, through relaxed atomics |
| Drawdown guard | `engine.rs`, `ledger.rs` | peak, breach count, halt; one file | check, reset, load, save | broker balances, disk |
| Master feed | `pax-master/src/ib.rs`, `state.rs` | book, snapshot, JSON, generation | replay, update, publish, mark offline, APPLY | broker stream, HTTP readers, the window |
| Working-order mirror | `pax-core/src/orders.rs`, `pax-master/src/ib.rs` | none (pure) | capture, scale, tolerant diff, effective positions | not called by this version's engine |
| HTTP API | `server.rs`, `master_api.rs`, `protocol.rs` | none | serve and fetch a snapshot | feed, trading loop |
| Charts | `pax-client/src/data.rs`, `main.rs` | bars, window, view, generation | load, pan, scroll, zoom, render, push | data thread and window, through atomics and mutexes |
| Portfolio book | `data.rs` | rows by symbol, connection | probe, subscribe, fold updates, publish, reconnect | broker stream, settings |
| Port probing | `ib.rs` | none | candidates in order, the first that answers | engine, portfolio, feed |
| Settings | `main.rs`, `persist.rs`, `config.rs`, `appdata.rs` | fields, values in force, one file, the plain file of an earlier version | type, apply, save, load, migrate, detect accounts | disk, window |
| Self-update | `pax-core/src/update.rs`, `main.rs` | status under a mutex, two files beside the program | check, download, script that swaps | release server, disk, the window's timer |
| Market hours | `market_hours.rs` | none (pure) | civil dates, daylight saving, trading window | called by the engine |
| Master configuration, windows, theme, logs | remaining files | labels | input, output and layout | |

Where it is hard:

* **Interleaving.** Two threads of the client share about twenty relaxed atomics and
  mutexes and hold no lock across them. The broker fills, rejects and streams between any
  two calls of the engine; updates run on threads of their own.
* **Outdated readings.** A cycle reads positions first and submits orders several network
  calls later; a chart gesture computes an offset for bars that may be replaced; the data
  thread compares the settings in force with those it captured.
* **Failure.** Reads fail or return partial data, links drop, servers vanish, orders are
  refused, sessions panic, the program is killed, a file is left half written.
* **What survives.** A session's timers and baseline are forgotten on a reconnect, its
  orders are not; targets and the high-water mark share one file, written in place.

What makes each component correct: a pass never carries a position beyond its target or
through zero, and stays within the buying power; the loop never orders twice what is on its
way, gets to the target in the end, and resumes with targets that were computed; a stopped
session never trades again and every START gets a session with its own settings; the halts
stay until lifted, and are not set by a bad reading; the served book is one the account
had; a mirrored order book is left alone; a slice never leaves the stored bars and the
screen catches up; the Portfolio tab shows one account, the selected one in the end; what
the operator chose survives restarts; what is launched is one whole release; the calendar
is right.

## 2. Modules

| Module | Models | Extends / is used by |
|---|---|---|
| `Reconcile` | sizing and one reconciliation pass, as operators | used by the next three |
| `ReconcilePasses` | passes in isolation, with the funds of the margin check: an order fills whole or cannot be submitted, the next pass looks again | `Reconcile` |
| `TradeLoop` | the engine session against broker, feed, timers, buttons, ledger file, panics and crashes | `Reconcile`; refines `CommittedMoves` |
| `WorkingOrders` | resting orders: capture and tags, scaling, tolerant diff, effective positions | `Reconcile` |
| `CommittedMoves` | abstract: a symbol commits to one destination at a time and only moves towards it | instantiated in `TradeLoop` |
| `EngineSession` | engine thread and window thread, one load or store per step | |
| `Drawdown` | high-water mark, confirmation cycles, ledger file | |
| `MasterFeed` | subscription, worker, two-step publication, APPLY, readers | |
| `ChartView` | data thread and window thread over the chart's shared state | |
| `Connections` | what settings hold, the ports they lead to, the account looked at there | used by the next two |
| `Portfolio` | the data thread's connection and the rows it publishes | `Connections` |
| `ClientSettings` | window fields, values in force, files, account detection, across launches | `Connections` |
| `SelfUpdate` | checks, downloads, the script, the executable | |
| `MarketHours` | the calendar arithmetic beside a calendar that is walked day by day | |
| `MC*` | the values of constants for TLC | |
| `*_proofs` | theorems | |

Three instances put parts that share no state into one run: `MCMirrors` is
`ReconcilePasses` or `WorkingOrders`, `MCGuards` is `Drawdown` or `MarketHours`, `MCWindow`
is `ChartView`, `ClientSettings` or `SelfUpdate`. A variable (`which`, `guard`, `part`)
says which part a behaviour is of; the variables of the others rest. Each part keeps the
next-state relation of its own module.

How state and code correspond:

* **Quantities** are integers counted in fractions of a share (`Unit` to a share), so the
  half-share tolerance, rounding and flooring of the `f64` code are exact for the quantities
  used. A book is a function from symbols; a symbol that is not listed has 0.
* **`ReconcilePasses`**: `todo` are the intents of the pass not handled yet, `avail` what its
  reservations have left of `funds`, `cooling` the symbols that may not be ordered again,
  `resting` those among them of orders before the first pass. One unit of an instrument ties up
  one unit of buying power. `Fails` is the submission that returns an error (engine.rs:794): no
  cooldown starts, what was reserved stays reserved, and the pass goes on. `failed` (which symbols
  in which pass) and `unsent` (the margin that opening legs which were allowed and not sent were
  to free) are history.
* **`TradeLoop`**: `pc` is the place in `run_session`; `seenPos`, `busy`, `todo` are the
  cycle's locals (`client_positions`, `active_market_sides`, intents not handled yet);
  `cooling`, `backoff`, `base` the session's; `seenMaster`, `target` the ledger's, and the
  file beside them. One action per stage, every early return (`Hold`, `OffHours`,
  `LinkLost`, halted reading) an alternative. Timers are sets of what is still running; when
  a cooldown may run out is the constant `Latency`. `Faults` says what may go wrong in the
  environment. A panic ends the session, and with it a START that would have resumed it; a
  crash also loses the window's flags. What is kept across either is the session's ledger
  while it runs and the file between sessions.
* **`EngineSession`**: a button is the sequence of its stores (`op`), a loop condition that
  of its loads. Steps interleave sequentially: the client is built for Windows on x86-64,
  where relaxed loads and stores are not reordered among themselves. Trading is one stage.
  A host stands for the settings saved with it: its account and license.
* **`Drawdown`**: reads are good (the equity) or bad (`BadReads`); which, the code cannot
  know. Every save of the ledger may fail in silence: those of a cycle with no more ado (it may
  also not be due), that at the end of a session with `"unsaved"`, that of a reset with
  `"unsavedReset"` among the `Events`. `high`, `kept`, `known`, `real`, `tripped`, `baseline`,
  `last` are history that no action depends on.
* **`MasterFeed`**: the broker replays, ends the replay and streams changes; `past` is the
  history of books the account had since the subscription.
* **`WorkingOrders`**: the capture tags an order as an entry by the book it finds. The
  caller of the diff (`Mirror`) is external, for nothing in this version calls it: it
  cancels and places all the diff says. A list of orders is a sequence; those wanted keep the
  numbers of the master's they were scaled from, and the diff is sets of numbers. Prices are
  in cents.
* **`ChartView`**: `holder` is the lock on the bars; a rendering writes both bounds back and
  reads the symbol in one step, every other access is a step. Bars are counted. `Typed` is what
  may be in the field when it is loaded: a request for `Empty` is taken and not served.
  `Announce` writes that a load begins (the `status` of the view) into the chart and bumps
  nothing.
* **`Connections`, `Portfolio`, `ClientSettings`**: settings are records of mode, ports,
  account and multiplier; host, trade mode, execution mode and drawdown limit travel as
  these do and are left out. `controls` is what is in force. In `Portfolio`, `conn` is what
  the data thread captured and `stage` its place in `data_main`. `Listening` are the candidates
  with a Gateway; a probe that reaches one of them has found those before it failing, and each
  counts as a trouble. In `ClientSettings`, what
  is typed is kept as the set of values it parses to (none, one); `chosen` and `harmed` are
  history.
* **`SelfUpdate`**: a file is a function from its chunks to the release each came from;
  `locker` (`holder` in the module) has the mutex on the status. `overlap` is history: two
  downloads at a time.
* **Mutants** are definitions commented "Mutant"; each stands for a plausible slip in the
  definition after it, and shows that a property notices.

## 3. Runs

| Run | Question | States | Bounds, and why they are enough |
|---|---|---|---|
| `Mirrors` | is a pass right, within its funds, and nothing left after it; is a mirrored order book left alone? | 1.05 million | half shares, books of up to 2.5 and masters of up to 3 shares either way, ratios 1/3 to 3, multipliers 0.1 to 1.5, three passes; two symbols that flip, cool from before or not, and scarce funds; any submission may fail: every branch of sizing, both ties, every classification, both legs, an opening refused between two that pass, a budget swollen by a leg that is not sent. Orders: two of the master's at a time, of every kind, within and beyond the tolerances |
| `TradeLoopPrompt` | can the loop overshoot if orders settle within their cooldown and a cycle; what do restarts resume with; is the master followed in the end? | 81 thousand | one symbol, all faults but those of the file, a master that flips twice, unknown balances, a fractional start |
| `TradeLoopStack` | does a pass stack orders, or trade while halted? | 877 thousand | orders that stay in flight for ever, START and CLOSE ALL twice at any step, three orders, panics, crashes and a file that tears |
| `EngineSession` | can a stopped session go on, or trade with other settings than its START's; a STOP not end, a START not begin? | 199 thousand | five presses: enough for START, STOP, START, SAVE and CLOSE ALL to overlap one session and the next |
| `MasterFeed` | is what is served a book the account had, and the latest in the end? | 258 thousand | two symbols, two changes, one drop, one APPLY: a change during each phase of a replay and after a reconnect |
| `Guards` | does the mark hold, and can bad reads halt the account; is the trading window right? | 498 thousand | four levels, two bad reads (low, or 0), three confirmation cycles, three sessions, panics, crashes and saves that fail; every day from 1970 into 2101 (2000 is a leap year, 2100 is none), each half hour and the second before it |
| `Window` | can a slice leave the bars, or the screen stay behind; do choices survive; is the executable whole? | 5.4 million (of two symbols that are alike) | loads of 0, 3 and 5 bars with a zoom of 2 to 3, three requests, for symbols or nothing, and a gesture at any point of them: a request, one on top of it, and an empty one; two launches, edits and presses with each mishap of the files; two checks and two downloads of one or two releases, each of two chunks |
| `Portfolio` | do rows of two accounts mix, and is the selected account shown in the end? | 583 thousand | two accounts, one behind both Gateways; both modes, a live port with and one without a Gateway; two saves, two troubles (a Gateway that fails to answer, a lost link, a failed call) and a trade at any step of the data thread |
| `CloseAllShort` | **violated**: can CLOSE ALL end up short? | | see below |
| `StartLost` | **violated**: can a START get lost? | | |
| `HaltReconnect` | **violated**: does a drawdown halt survive a reconnect? | | |
| `FlipHalf` | **violated**: can an order carry a position through zero? | | |

Only `Mirrors`, `EngineSession`, `StartLost`, `Window`, `Guards`, `Portfolio` and `FlipHalf`
may stop: their bounds (passes, presses, requests, launches, days, saves) run out. All others
are also checked for deadlock.

`TypeOK` of `ReconcilePasses`, `WorkingOrders`, `ChartView`, `ClientSettings` and
`Portfolio` is defined for the reader and is no invariant of a regular run.

**Fairness.** `TradeLoop`: the engine thread runs on (its sleeps are short and broker reads
are taken to return), timers run out, and nothing that may fail fails for ever: a fill, a
submission, a snapshot over readable balances and a reading of the positions that are tried
again and again succeed at some time (strong fairness). No fairness on `Reject`, `LinkLost`,
`Hold`, `MasterMoves`, panics, crashes or the buttons. `EngineSession`: both threads are
scheduled (weak), and a Gateway that listens accepts in the end (strong, for it may also
fail). `MasterFeed`: the worker, the window's handler and the broker's replay run on (weak),
the Gateway does not refuse for ever (strong). `Portfolio`: the data thread runs on (weak);
what the account was sent is received, and a book that is published time and again is once
published whole after what was received (strong): the thread drains its stream only for a
while before it publishes. Nothing else has liveness.

### What the code does otherwise

Four divergences are runs (`PROJECT.json` "findings" quotes the documents):

* `CloseAllShort`: `do_close_all` (engine.rs:836) sells the positions it reads whatever is
  in flight, since `read_open_orders` leaves market orders out. A sell under way and its own
  both fill, and the account is short, which README says can never happen.
* `StartLost`: a session that gives up on its account (engine.rs:151) stores `running =
  false` after a START stored `true`; no session begins.
* `HaltReconnect`: `drawdown_hit` (engine.rs:245) is a local of the session. After a lost
  link the new session trades until the breach is confirmed again, though README says that
  trading resumes with STOP and START.
* `FlipHalf`: an order that cannot be submitted (engine.rs:794) is logged, and the pass goes on.
  When it was the flattening leg of a flip, the opening leg goes from a position that is still
  held and carries it through zero, which the two legs are there to exclude
  (reconcile.rs:13-15).

More configurations reproduce others; they are no regular runs, and TLC reports a
violation of the property in each:

| Configuration (module) | Property | What happens |
|---|---|---|
| `CloseAllLeaves` (`MCTradeLoop`) | `CloseAllFlattens` | a buy in flight fills after CLOSE ALL has read the positions, and stays |
| `SlowFill` (`MCTradeLoop`) | `NoOvershoot` | an order fills after the positions were read (engine.rs:498) and its cooldown runs out before the pass: it is ordered again |
| `LiveReadStack` (`MCTradeLoop`) | `PassNeverStacks` | a failed read of live orders counts as none (engine.rs:670) |
| `FlipOneOrder` (`MCTradeLoop`) | `NoReversal` | the cooldown runs out between the legs of a flip; the opening leg goes alone |
| `NewOnlyReconnect` (`MCTradeLoop`) | `NewOnlyFollows` | a reconnect takes a new baseline (engine.rs:258) |
| `BudgetFlip` (`MCReconcilePasses`) | `NeverOverdrawn` | the opening leg of a flip whose cooldown runs, or whose flattening leg has failed, is asked about while the position it would reduce is held: what that frees is spent on another opening (engine.rs:937) |
| `StartStuck` (`MCEngineSession`) | `StartBegins` | the connect loop (engine.rs:112) keeps probing the host it captured |
| `HaltUnasked` (`MCEngineSession`) | `HaltIsAsked` | CLOSE ALL's halt (engine.rs:402) is stored after a START cleared it |
| `HighGlitch` (`MCGuards`) | `NoFalseHalt` | one reading that is too high raises the mark for good (engine.rs:480) |
| `PeakCrash` (`MCGuards`) | `PeakIsTrueHigh` | a high seen since the last save (engine.rs:803) is lost with a crash |
| `ChartRequestLost` (`ChartView`) | `LastAskedShown` | a load in progress overwrites the symbol of a newer request (data.rs:238) |
| `MirrorOrder` (`MCMirrors`) | `Settles` | the broker lists the orders in another order than they were placed: the greedy match (orders.rs:95) replaces one of them |
| `SettingsTorn` (`MCSettings`) | `ChoicesSurviveMishaps` | the plain file of an earlier version is removed, and a kill cuts the write of its successor short (persist.rs:52) |
| `UpdateTwice` (`SelfUpdate`) | `InstalledWholeAlways` | two downloads at a time write one file (update.rs:79) |

Small changes of these configurations, given here with the file they start from, reproduce
some more. Where a property is named, it replaces the one in the file, as an INVARIANT
unless PROPERTY is said. `TypeOK` lines, if any, may stay.

| From, with | Property | What happens |
|---|---|---|
| `BudgetFlip`: `Sym = {a, b, c}`, `Cases <- MCGuardCases` | PROPERTY `NeverMassClose` | the empty-master guard starts at three positions (engine.rs:694) |
| `BudgetFlip`: `Cases <- MCFlatCases` | PROPERTY `RefusedForLack` | an opening is refused for funds reserved by one that a cooldown then passes over (engine.rs:732) |
| `HaltUnasked`: `Trouble <- MCLicense` | `LicensedAccount` | another account passes on the first one's verification (engine.rs:215) |
| `HaltUnasked` | `OneSave` | host of one SAVE, account of the next (engine.rs:94, 144) |
| `HaltUnasked`: `Trouble <- MCLink` | PROPERTY `AppliedOnStart` | settings saved come into force with a reconnect, which state.rs:76 leaves to START |
| `MasterFeed`: `Accounts = {m, x}` | `PointInTime` | two accounts of one login share the book's keys (pax-master ib.rs:113) |
| `PeakCrash`: `Account = {x, y}`, `Events <- MCSwitch` | `PeakIsHigh` | the one ledger file is overwritten by another account's session (ledger.rs:49) |
| `PeakCrash`: `Events <- MCTorn` | `PeakIsHigh` | a crash within the write leaves a file that loads as none (appdata.rs:72) |
| `HighGlitch`: `Events <- MCUnsavedReset`, `BadReads = {0}`, `MaxBad = 0`, `Levels = {80, 90, 100}`, `MaxSessions = 2` | `NoFalseHalt` | the save of a reset fails unnoticed (ledger.rs:82), and the next session halts on the mark that was reset |
| `NewOnlyReconnect`: `MasterNets <- MCTurn`, `InitMasterNets <- MCOne`, `InitNets <- MCOne`, `Faults <- MCNoFaults`, `Lo <- MCLoOne`, `Hi = 1` | PROPERTY `Converges` | a baseline position that the master turned round is closed and not opened (engine.rs:743) |
| `HaltReconnect`: `Events <- MCStart` | `SessionBaseline` | README speaks of the session's baseline, the code of the high-water mark (engine.rs:480) |
| `ChartRequestLost` | `TitleMatches` | a request stored while a load is rendered shows the bars of one symbol under the name of the other (data.rs:261) |
| `ChartRequestLost` | `LoadingShown` | the announcement of a load is no rendering, and the timer passes over it (data.rs:147) |
| `ChartRequestLost`: `MaxGestures = 1`, `Lengths = {0, 3, 5}` | `QuietAgrees` | a gesture renders while a load overwrites the symbol: with all quiet the title is one symbol's and the bars another's (data.rs:264) |
| `MirrorOrder`: `RestingOrders <- MCTwoSells`, `MaxOrders = 2`, `MaxFills = 2`, `AnyOrder = FALSE` | `SellsOnlyClose` | a stop and a limit to sell, each capped to the long by itself, both fill (orders.rs:50) |
| `MirrorOrder`: `RestingOrders <- MCOrders`, `MaxOrders = 2`, `MaxPlaced = 2`, `MaxFills = 2`, `AnyOrder = FALSE` | `CountedOnce` | an entry that filled counts as position and, until the next capture, as pending (pax-master ib.rs:162) |
| `SettingsTorn`: `Multipliers = {123}`, `Mishaps = {}` | `ChoicesSurvive` | a number is shown rounded and read back so (main.rs:66) |
| `SettingsTorn`: `Multipliers <- MCNaN`, `Mishaps = {}` | `ChoicesSurvive` | `nan` passes the clamp, and the file with it does not load (main.rs:393) |
| `SettingsTorn`: `MaxDetects = 2` | PROPERTY `PickerNeverGoesBack` | the older of two detections answers last (main.rs:505) |
| `UpdateTwice` | `WindowNeverWaits` | the timer waits for the mutex a check holds over its HTTP call (main.rs:454) |
| `UpdateTwice`: `Downloads = {d1}` | `AppliedIsInstalled` | the script swaps before the program has ended, and the program ends without the update (main.rs:477) |
| `Portfolio`: `MaxSaves = 1`, `MaxMoves = 0`, `MaxTroubles = 0` | PROPERTY `PortsFollowed` | a port that was changed is not followed while the link holds (data.rs:94) |
| `Portfolio`: `MaxSaves = 0`, `MaxMoves = 0`, `MaxTroubles = 1` | PROPERTY `SelectedShown` | the Gateway of the mode selected fails to answer once, the other mode's is taken, which does not have the account selected, and the thread stays there (ib.rs:78-90, data.rs:94) |
| `Portfolio`: SPECIFICATION `Spec` | `ConnectedShowsAccount` | the old account's rows stay until the first publication (data.rs:77) |
| `Portfolio`: SPECIFICATION `Spec` | `ModeKept` | one mode falls back to the other's port (pax-client ib.rs:37), where no Gateway listens at its own (`Behind <- MCBehindLive`, `MaxTroubles = 0`) or it fails to answer |

Two changes of the same kind hold: `SlowFill` with `Sym = {a, b}`, `Oid = {1, 2, 3}` and
`Latency = "prompt"` (two symbols: `NoOvershoot`, `OneCommitment`), and `NewOnlyReconnect`
with `MasterNets <- MCFlip`, `InitMasterNets <- MCLong`, `Faults <- MCHolds`, `MaxMoves = 2`,
`Lo <- MCLoOne` (no lost links: PROPERTY `NewOnlyFollows`).

## 4. Proofs

The proofs hold for every value of the constants that satisfies the modules' named
assumptions: any symbols, quantities, targets, faults, bounds.

`TradeLoop_proofs`

* `TypeCorrect`: `TypeOK` is inductive as it stands.
* `PromptInvariant`, `NoOvershootHolds`. Assumed: `PromptSettlement` - an order is settled
  by the time its cooldown, and with it the cycle that would look again, is over, and CLOSE
  ALL is not used; `SlowFill` and `CloseAllShort` show what happens otherwise. `NoOvershoot`
  is not inductive: that a position is in range says nothing of the orders in flight.
  `PromptInv` adds that a symbol has at most one order in flight and that it leads into
  range; that a symbol with one is cooling; that for a symbol that is not cooling the
  position this cycle has read is the true one; and that each intent of the pass leads from
  the position read into range. An intent is placed only for a symbol not cooling, so it
  leads from the true position into range, with nothing else in flight.
* `ImplementsCommittedMoves`: under the mapping of a position and its order in flight to a
  committed destination, submitting is `Commit`, a fill `Move`, a rejection `Abandon`, all
  else a stutter.
* `PassNeverStacksHolds`. Assumed: `ReliableLiveReads` (`LiveReadStack` shows why). With no
  assumption on latency. The invariant `StackInv`: during a pass each order in flight was
  seen by the read or belongs to a symbol ordered in this pass, which is still cooling.
* `TargetsHeldAlways`. Assumed: `DiskWorks` - no save fails or is cut short. Through lost
  links, restarts, panics and crashes a target changes only where the master's net did,
  because what a session has locked is in the file before it trades on it (`Saved`).
* `HaltedHoldsAlways`: no assumption.

`EngineSession_proofs`

* `TypeCorrect`, `StopInvariant`, `StoppedStaysStoppedHolds`. Why `StopInv` is needed: the
  session looks at `running` first and at the generation afterwards; that it sees a START's
  `running` rather than the STOP is harmless only because START bumps the generation before.
* `StartAppliesHolds`: by `SettingsInv`, which says what a session has captured by each place
  of its life if nothing was saved since its START.

`Drawdown_proofs`

* `TypeCorrect`.
* `PeakIsHighHolds`. Assumed: the operator does not switch accounts, and no write of the
  file is cut short (`PeakCrash` with `MCSwitch` and `MCTorn` shows why); saves may fail.
  `PeakInv` adds that the file holds at least what was kept, and between sessions nothing else
  is known.
* `NoFalseHaltHolds`. Assumed: bad reads are lower than anything the account is worth, the
  save of a reset does not fail (`HighGlitch`, as it is and with `MCUnsavedReset`, shows why),
  and the threshold is at most 100%. `HaltInv` adds that while no
  good read was a breach there were as many bad reads as breaches counted, and that a mark
  is one the account had or so low that the next good read replaces it; hence a good read
  that is a breach of the mark is one of the true high (`BreachMonotone`).

`MasterFeed_proofs`

* `TypeCorrect`. `Counted` adds that the generation is the number of finished uses of APPLY;
  otherwise nothing bounds it.
* `LockstepHolds`, `NoLostApplyHolds`: the first is inductive as it stands, the second with
  `Counted`.
* `PointInTimeHolds`. Assumed: one account behind the login (`MasterFeed` with a second one
  shows why). That the book is one the account had says nothing of the messages still on the
  stream. `OnCourse` says that these lead through a *course* of books, one for each message,
  from the worker's book to what has arrived - the account's book but for what is still to
  be replayed - and that from the end of the replay on each of them is one the account had.
  A change appends the book it makes, the end of the replay the account's own, a lost
  connection cuts the course short, and draining walks along it, so that a book published
  after the end of the replay is a past one (`BookIsPast`). `ServedInv` adds that before a new
  connection forgets the past, the last one was marked as lost in both views.

`Mirrors_proofs`, about the positions (`ReconcilePasses`)

* `NeverBeyondTargetHolds`, `LongOnlyNeverShortsHolds`, `FlattenBeforeOpenHolds`: no
  assumption beyond `PassAssumption`. An order is computed once and placed later, so
  `TodoInv` says of each intent that may still be placed - its symbol is not cooling - that it
  is one of the position as it is now: each symbol is ordered at most once in a pass. An
  opening leg has its flattening leg before it, unless that was for a fraction of a share, in
  which case the position is one, or its submission has failed, of which `FlattenBeforeOpen`
  says nothing (`FlipHalf` shows why). `IntentsStayBetween`: an intent of
  `SymbolIntents`, floored to whole shares, ends between the position and the target.
* `NearestHolds`. Assumed: `force_min_one`, as every call of the engine has it
  (engine.rs:615). By the bounds of the rounding alone, `RoundQtyNearest`.
* `ThirdPassIdleHolds`: no assumption beyond `PassAssumption`. `IdleInv` says how far each
  symbol is that did not cool from before and had no submission fail: one ordered in this pass
  is within a share of its target or, in the first pass, flattened (`LegLeaves`); for any
  other, each intent is still to be handled, was refused, or is of less than a share. So a
  second pass meets no flip but of a fraction (`Flattened`), and a third nothing to do. That
  targets are of whole shares and on the master's side (`Aligned`) is what makes the opening
  leg after a fraction exact.
* `WithinBuyingPowerHolds`. Assumed: finitely many instruments. The property says by how much
  the account may be overdrawn, with cooling flips and failed submissions: by what opening legs
  that were allowed and not sent were to free (`unsent`; `BudgetFlip` shows that it is
  overdrawn). `BudgetInv`: what the budget has left, and a share for each opening leg still to
  be asked about after its flattening leg, come to no more than the funds there are and what is
  unsent. The what-if of a leg after its flattening may free what is left of the position, less than a share, and
  the flattening freed a share or more (`LegMargin`).

`Mirrors_proofs`, about the resting orders (`WorkingOrders`, as `MCMirrors` runs it). Assumed
throughout: `OrdersAssumption`, which is `WorkingAssumption` of the instance.

* `OneEachHolds`: whatever the order in which the broker lists its orders. `Taken` chooses an
  assignment that serves first come, first served; that there is exactly one is shown by a
  least order that could not be served, or on which two such would differ (`TakenServes`,
  `ServedOnce`). Kept orders keep the order of the list and placed ones follow
  (`PlacesAfter`), so each wanted order has its own place in the new list (`ListedFulfils`).
* `SettlesHolds`. Assumed: the broker lists orders as they were placed (`~AnyOrder`;
  `MirrorOrder` shows why). An order just placed is the same as the one wanted whatever prices
  are read back (`ReadBackIsSame`), and a second match over the new list gives each wanted
  order the one it has (`ServedAgain`): what stands before it in the list and would do as
  well is the place of an order that comes before it.

`Portfolio_proofs`

* `TypeCorrect`, `OneAccountShownHolds`: no assumption beyond `PortfolioAssumption` and
  `ConnectionsAssumption`. That what is shown is of one account says nothing of what comes
  next; `OfViewed` adds that what has come and what is on its way is of the account viewed,
  and that there is nothing of either when the account is resolved anew. `SetToSeqIsSeq`
  and `RowsOfProperties` say what a subscription sends.

`Window_proofs`

* `WindowIsItsParts`: what the run `Window` takes together are the three specifications, and
  the theorems below are about these.
* `TypeCorrect`, `SliceInBoundsHolds`: no assumption beyond `ChartAssumption`. `Clamping` adds
  why the slice fits: from the clamp of the count to the slice the thread holds the lock, so
  the bars it clamped to are still the ones stored. Whatever a gesture stored as offset or
  count, a load may overtake it; only what a thread does outside the lock (`Leaves`) may
  touch the bars, and then nobody is between clamp and slice.
* `ScreenIsCurrentHolds`. `ScreenInv`: a chart differs from the one on the screen only while
  whoever stored it has yet to bump the generation, the window has not seen that bump, it has
  noted it and is about to push, or the difference is the announcement of a load. That a load
  which was announced ends in a rendering, so that no announcement stays, needs that what it
  stores it can render (`Stored`).
* `LoadsAgreeHolds`. `LoadInv` follows a load before the first gesture through its accesses:
  which of bars, symbol, offset, count and chart are already the new symbol's at each of them,
  unless a request is waiting or an empty one came last.
* `InstalledWholeHolds`. Outside an overlap (`UpdateTwice` shows why), `UpdateInv`: at most
  one download is under way, so the file holds what it has written; and a script that will
  swap the executable follows a download that is complete and that no other can replace
  before the program has ended.
* `ChoicesSurviveHolds`. Assumed: `ShownExactly` - multipliers are typed, and come from the
  environment or an earlier version, as the window shows them, in whole tenths (`SettingsTorn`
  with `Multipliers = {123}` shows why). `StoreInv`: the choices are in the file, or in the
  plain one of the earlier version, or are the defaults; and what the fields show, applied,
  changes nothing but what was typed, so that a press stores no field that was left alone.

`MarketHours_proofs`

* `CalendarAgreesHolds`, `GateAgreesHolds`, `EverySecondAgrees`: for every `LastDay`, so on
  every day from 1970 on; the last one at every second of the day and not only around the
  half hours. `CivilInverts` takes the era arithmetic apart (century, four years, year, day)
  and puts a date together again from its number; `FollowingDays` shows that the number
  grows by one over the ends of months, years and centuries. `CalendarInv` then has the
  Sundays counted so far within a week of their days, from which the two Sundays of the
  daylight-saving rule follow. Between the code's rule and New York's is only a Sunday, and
  neither trades on it (`GateAtSecond`).

Only model-checked is all liveness (`Converges`, `StartBegins`, `StopEnds`, `FeedConverges`,
`PortfolioFollows`), which is out of the proof system's reach, as is `ENABLED`.

## 5. Not modelled

* Binary floating point: quantities, prices and balances are exact fractions.
* A pass takes its intents in any order, the code by name; the notional and quantity caps
  are off in every call of the engine.
* In `TradeLoop`, which openings the what-if check refuses is arbitrary (`ReconcilePasses`
  follows the reservation), and the guard against a flapping master book (engine.rs:573) is a
  cycle that may hold at any time.
* Cancels: this version places market orders only, so the cancels of CLOSE ALL and of stray
  resting orders have nothing to cancel.
* The master's balance, and the change of its clientId between attempts: no property
  depends on them.
* The master's configuration, environment variables, HTTP, JSON, obfuscation of the settings
  file, ending other instances: input and output. Layout, labels, theme and logs: wording.

## 6. Plan

What is left, in the order of what matters most to an operator's account:

1. `CopyTrade`: `MasterFeed` and `TradeLoop` composed, the snapshot fetched from the feed, so
   that what a client trades on is shown to be a book the master had.
2. The flap guard of the engine with its own counters, in place of a `Hold` at any time.
