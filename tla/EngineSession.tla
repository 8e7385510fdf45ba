---------------------------- MODULE EngineSession ----------------------------
(***************************************************************************)
(* The life of the engine thread (pax-client/src/engine.rs, engine_main    *)
(* and the frame of run_session) under the operator's buttons              *)
(* (pax-client/src/state.rs, main.rs).                                     *)
(*                                                                         *)
(* The window's thread and the engine's share atomics and take no lock     *)
(* across them: a button is a sequence of stores, a loop condition one of  *)
(* loads, and each step below is one of them.  Steps interleave            *)
(* sequentially: the client is a Windows/x86-64 binary, where relaxed      *)
(* loads and stores keep their order.  What a cycle trades is TradeLoop's  *)
(* subject; here it is one stage.                                          *)
(***************************************************************************)
EXTENDS Integers

CONSTANTS
  Hosts,      \* the IB hosts the operator may configure, each with the account
              \* chosen along with it
  Reachable,  \* those a Gateway listens on
  Trouble,    \* what may go wrong in a session
  MaxPresses  \* bound on the operator's presses

AllTrouble == {"account", "license", "link", "panic"}

ASSUME SessionAssumption ==
  /\ Reachable \subseteq Hosts /\ Trouble \subseteq AllTrouble
  /\ MaxPresses \in Nat

VARIABLES
  \* shared atomics and controls
  running, gen, closeAll, halted, settings,
  \* the window's thread: how far it is in handling a START
  op,
  \* the engine's thread
  pc,        \* the stage it has reached
  myGen,     \* the generation captured by this session, or the last one
  host,      \* the host captured by this session
  account,   \* the one its account was captured with
  licensed,  \* the accounts that were verified; ever_authorized says there is one
  \* history, read by properties only
  presses,   \* buttons pressed
  saved,     \* SAVE SETTINGS pressed since the last START
  wanted,    \* the last of START and STOP to take effect
  asked,     \* CLOSE ALL pressed since the last START
  stopped,   \* STOP pressed since this session captured its generation
  sawStop    \* ... and before its last look at running

atomics == <<running, gen, closeAll, halted, settings>>
history == <<presses, saved, wanted, asked, stopped, sawStop>>
session == <<myGen, host, account, licensed>>
vars == <<atomics, op, pc, session, history>>

Stage == {"idle", "begin", "open", "probe", "wait", "account", "license", "refuse",
          "loop", "loopgen", "cycle", "flatten", "work", "trade", "over", "throttle"}

Init ==
  /\ running = FALSE /\ gen = 0 /\ closeAll = FALSE /\ halted = FALSE
  /\ settings \in Hosts
  /\ op = "none"
  /\ pc = "idle" /\ myGen = 0 /\ host = settings /\ account = settings
  /\ licensed = {} /\ saved = FALSE
  /\ presses = 0 /\ wanted = "STOP"
  /\ asked = FALSE /\ stopped = FALSE /\ sawStop = FALSE

-----------------------------------------------------------------------------
(* The window's thread *)

Press ==
  /\ op = "none" /\ presses < MaxPresses
  /\ presses' = presses + 1

\* SAVE SETTINGS: apply_settings.
PressSave(h) ==
  /\ Press
  /\ settings' = h /\ saved' = TRUE
  /\ UNCHANGED <<running, gen, closeAll, halted, op, pc, session, wanted, asked,
                 stopped, sawStop>>

\* START applies the settings, then start_engine's three stores follow.
PressStart(h) ==
  /\ Press
  /\ settings' = h /\ saved' = FALSE
  /\ op' = "clear"
  /\ UNCHANGED <<running, gen, closeAll, halted, pc, session, wanted, asked, stopped,
                 sawStop>>

\* Mutant: running is set before the generation is bumped.
ClearHaltRunning ==
  /\ op = "clear" /\ op' = "bump"
  /\ halted' = FALSE /\ asked' = FALSE /\ running' = TRUE
  /\ UNCHANGED <<gen, closeAll, settings, pc, session, presses, saved, wanted, stopped,
                 sawStop>>

ClearHalt ==
  /\ op = "clear" /\ op' = "bump"
  /\ halted' = FALSE /\ asked' = FALSE
  /\ UNCHANGED <<running, gen, closeAll, settings, pc, session, presses, saved, wanted,
                 stopped, sawStop>>

\* Mutant: a START while the engine runs is taken for done.
BumpGenIdle ==
  /\ op = "bump" /\ op' = "run"
  /\ gen' = IF running THEN gen ELSE gen + 1
  /\ UNCHANGED <<running, closeAll, halted, settings, pc, session, history>>

\* Mutant: the generation goes back.
BumpGenDown ==
  /\ op = "bump" /\ op' = "run"
  /\ gen' = gen - 1
  /\ UNCHANGED <<running, closeAll, halted, settings, pc, session, history>>

BumpGen ==
  /\ op = "bump" /\ op' = "run"
  /\ gen' = gen + 1
  /\ UNCHANGED <<running, closeAll, halted, settings, pc, session, history>>

SetRunning ==
  /\ op = "run" /\ op' = "none"
  /\ running' = TRUE /\ wanted' = "START"
  /\ UNCHANGED <<gen, closeAll, halted, settings, pc, session, presses, saved, asked, stopped,
                 sawStop>>

PressStop ==
  /\ Press
  /\ running' = FALSE /\ wanted' = "STOP" /\ stopped' = TRUE
  /\ UNCHANGED <<gen, closeAll, halted, settings, op, pc, session, saved, asked, sawStop>>

\* request_close_all is refused while the engine does not run.
PressCloseAll ==
  /\ Press
  /\ running
  /\ closeAll' = TRUE /\ asked' = TRUE
  /\ UNCHANGED <<running, gen, halted, settings, op, pc, session, saved, wanted, stopped,
                 sawStop>>

-----------------------------------------------------------------------------
(* The engine's thread *)

Goto(from, to) == pc = from /\ pc' = to

\* A step that only looks at the shared state.
Looking == UNCHANGED <<atomics, op, session, history>>

Wake == Goto("idle", "begin") /\ running /\ Looking

CaptureGen ==
  /\ Goto("begin", "open")
  /\ myGen' = gen
  /\ stopped' = FALSE /\ sawStop' = FALSE
  /\ UNCHANGED <<atomics, op, host, account, licensed, presses, saved, wanted, asked>>

\* run_session copies the controls it connects with.
CaptureSettings ==
  /\ Goto("open", "probe")
  /\ host' = settings
  /\ UNCHANGED <<atomics, op, myGen, account, licensed, history>>

\* Mutant: the connect loop does not look at running.
GiveUpNever == FALSE /\ UNCHANGED vars

\* The connect loop ends without a connection only when the engine is stopped.
GiveUp ==
  /\ pc \in {"probe", "wait"} /\ ~running
  /\ pc' = "over"
  /\ Looking

Connect == Goto("probe", "account") /\ running /\ host \in Reachable /\ Looking

ConnectFails == Goto("probe", "wait") /\ running /\ Looking

Retry == Goto("wait", "probe") /\ running /\ Looking

\* The account is read from the controls once the host is connected.
Resolve ==
  /\ Goto("account", "license")
  /\ account' = settings
  /\ UNCHANGED <<atomics, op, myGen, host, licensed, history>>

\* No account, several and none chosen, or not the one configured; a panic
\* anywhere in the session and a license denied or revoked end the same way.
Fault(kind) == kind \in Trouble /\ pc' = "refuse" /\ Looking

AccountRefused == pc = "account" /\ Fault("account")

Panic ==
  /\ pc \in {"account", "license", "cycle", "work", "trade"}
  /\ Fault("panic")

LicenseVerified ==
  /\ Goto("license", "loop")
  /\ licensed' = licensed \cup {account}
  /\ UNCHANGED <<atomics, op, myGen, host, account, history>>

LicenseRefused == pc \in {"license", "cycle"} /\ Fault("license")

\* An endpoint that does not answer is forgiven once a check has succeeded.
LicenseUnknown ==
  /\ "license" \in Trouble /\ pc = "license"
  /\ pc' = IF licensed # {} THEN "loop" ELSE "refuse"
  /\ Looking

\* Every refusal takes the engine out of the running state.
Refuse ==
  /\ Goto("refuse", "over")
  /\ running' = FALSE
  /\ UNCHANGED <<gen, closeAll, halted, settings, op, session, history>>

\* The loop condition loads running, then the generation.
LoadRunning ==
  /\ pc = "loop"
  /\ pc' = IF running THEN "loopgen" ELSE "over"
  /\ sawStop' = stopped
  /\ UNCHANGED <<atomics, op, session, presses, saved, wanted, asked, stopped>>

\* Mutant: the loop condition is running alone.
LoadGenIgnored == Goto("loopgen", "cycle") /\ Looking

LoadGen ==
  /\ pc = "loopgen"
  /\ pc' = IF gen = myGen THEN "cycle" ELSE "over"
  /\ Looking

LinkLost == pc \in {"cycle", "work"} /\ "link" \in Trouble /\ pc' = "over" /\ Looking

TakeCloseAll ==
  /\ pc = "cycle"
  /\ closeAll' = FALSE
  /\ pc' = IF closeAll THEN "flatten" ELSE "work"
  /\ UNCHANGED <<running, gen, halted, settings, op, session, history>>

\* do_close_all has submitted its orders.
Halt ==
  /\ Goto("flatten", "work")
  /\ halted' = TRUE
  /\ UNCHANGED <<running, gen, closeAll, settings, op, session, history>>

Work ==
  /\ pc = "work"
  /\ pc' = IF halted THEN "loop" ELSE "trade"
  /\ Looking

EndCycle == Goto("trade", "loop") /\ Looking

\* An automatic reconnect is throttled; a STOP or a START is not.
EndSession ==
  /\ pc = "over"
  /\ pc' = IF running /\ gen = myGen THEN "throttle" ELSE "idle"
  /\ Looking

Unthrottle == Goto("throttle", "idle") /\ Looking

Engine ==
  \/ Wake \/ CaptureGen \/ CaptureSettings \/ GiveUp \/ Connect \/ ConnectFails \/ Retry
  \/ Resolve \/ AccountRefused \/ Panic
  \/ LicenseVerified \/ LicenseRefused \/ LicenseUnknown \/ Refuse
  \/ LoadRunning \/ LoadGen \/ LinkLost \/ TakeCloseAll \/ Halt \/ Work \/ EndCycle
  \/ EndSession \/ Unthrottle

Handling == ClearHalt \/ BumpGen \/ SetRunning

Pressing ==
  \/ \E h \in Hosts : PressSave(h) \/ PressStart(h)
  \/ PressStop \/ PressCloseAll

Next == Engine \/ Handling \/ Pressing

Spec == Init /\ [][Next]_vars

\* Both threads are scheduled, and a Gateway that is there answers in the end.
Fairness == WF_vars(Engine) /\ WF_vars(Handling) /\ SF_vars(Connect)

FairSpec == Spec /\ Fairness

-----------------------------------------------------------------------------
(* Properties *)

TypeOK ==
  /\ running \in BOOLEAN /\ gen \in Nat /\ closeAll \in BOOLEAN /\ halted \in BOOLEAN
  /\ settings \in Hosts
  /\ op \in {"none", "clear", "bump", "run"}
  /\ pc \in Stage /\ myGen \in Nat /\ host \in Hosts /\ account \in Hosts
  /\ licensed \subseteq Hosts /\ saved \in BOOLEAN
  /\ presses \in Nat /\ wanted \in {"START", "STOP"}
  /\ asked \in BOOLEAN /\ stopped \in BOOLEAN /\ sawStop \in BOOLEAN

\* state.rs, "Bump the session generation BEFORE flipping running on, so any
\* session still winding down from a previous STOP exits cleanly": a session that
\* looks at running after a STOP begins no cycle, however soon START follows.
InCycle == {"cycle", "flatten", "work", "trade"}

StoppedStaysStopped == pc \in InCycle => ~sawStop

\* Why: running is on again after a STOP only when the generation has moved on.
StopInv ==
  /\ myGen <= gen
  /\ stopped /\ (running \/ op = "run") => myGen < gen
  /\ sawStop /\ pc = "loopgen" => myGen < gen
  /\ StoppedStaysStopped

\* The operator's START has been handled and nothing was pressed since.
Started == wanted = "START" /\ op = "none" /\ settings \in Reachable

\* CHANGELOG, "every START begins a fresh session"; README, "Host/ports/account
\* apply on START": a START with a host that answers leads to cycles of a session
\* begun for it, unless a refusal turns the engine off.
StartBegins == Started ~> (pc \in InCycle /\ myGen = gen) \/ ~Started \/ ~running

\* README, "Host/ports/account apply on START": however the button's stores and the
\* session's two reads of the settings interleave, the session that START has begun
\* trades on the host and the account it was pressed with, if nothing was saved since.
StartApplies ==
  pc \in InCycle /\ myGen = gen /\ op = "none" /\ ~saved => host = settings /\ account = settings

\* state.rs, "applied on START": what is saved without START leaves a session that
\* reconnects by itself where it was.
AppliedOnStart == [][pc = "open" /\ saved /\ op = "none" => host' = host]_vars

\* A session trades the account it was given along with the host.
OneSave == pc \in InCycle => account = host

\* engine.rs, an endpoint that does not answer is forgiven "on a *reconnect*" of "a
\* licensed account": no account is traded that was never verified.
LicensedAccount == pc \in InCycle => account \in licensed

\* A START is not lost on the way: until a session has begun for it, running is on.
StartNotLost == Started /\ myGen # gen => running

\* A STOP ends the session, wherever it is.
StopEnds == wanted = "STOP" ~> (pc = "idle" \/ wanted = "START" \/ op # "none")

\* state.rs: START "Clears any CLOSE ALL halt so trading re-arms": trading is halted
\* only by a CLOSE ALL pressed after the last START.
HaltIsAsked == halted => asked
=============================================================================
