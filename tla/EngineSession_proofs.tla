------------------------ MODULE EngineSession_proofs ------------------------
(***************************************************************************)
(* Proofs about the engine's life: its type invariant, and that a stopped  *)
(* session never comes back to life, for any number of presses.            *)
(***************************************************************************)
EXTENDS EngineSession, TLAPS

\* Every reachable state has the declared types.
THEOREM TypeCorrect == Spec => []TypeOK
<1>1. Init => TypeOK
  <2>1. Init => gen \in Nat /\ myGen \in Nat /\ presses \in Nat
    BY DEF Init
  <2>2. Init => pc \in Stage /\ op \in {"none", "clear", "bump", "run"}
    BY DEF Init, Stage
  <2>3. Init => settings \in Hosts /\ host \in Hosts /\ account \in Hosts /\ licensed \subseteq Hosts
             /\ wanted \in {"START", "STOP"}
    BY DEF Init
  <2>4. Init => /\ running \in BOOLEAN /\ closeAll \in BOOLEAN /\ halted \in BOOLEAN
                /\ saved \in BOOLEAN /\ asked \in BOOLEAN
                /\ stopped \in BOOLEAN /\ sawStop \in BOOLEAN
    BY Zenon DEF Init
  <2> QED BY <2>1, <2>2, <2>3, <2>4, Zenon DEF TypeOK
<1>2. TypeOK /\ [Next]_vars => TypeOK'
  <2> SUFFICES ASSUME TypeOK, [Next]_vars PROVE TypeOK'
    OBVIOUS
  <2> USE DEF TypeOK, atomics, history, session, Goto, Looking
  <2>0. /\ {"begin", "open", "probe", "wait", "account", "license", "refuse"} \subseteq Stage
        /\ {"loop", "loopgen", "cycle", "flatten", "work", "trade"} \subseteq Stage
        /\ {"over", "throttle", "idle"} \subseteq Stage
    BY DEF Stage
  <2>a. CASE \E h \in Hosts : PressSave(h) \/ PressStart(h)
    <3>1. PICK h \in Hosts : PressSave(h) \/ PressStart(h)
      BY <2>a
    <3>2. presses' \in Nat /\ settings' \in Hosts /\ op' \in {"none", "clear", "bump", "run"}
      BY <3>1 DEF Press, PressSave, PressStart
    <3>3. saved' \in BOOLEAN
      BY <3>1, Zenon DEF PressSave, PressStart
    <3>4. UNCHANGED <<running, gen, closeAll, halted, pc, session, wanted, asked, stopped,
                      sawStop>>
      BY <3>1, Zenon DEF PressSave, PressStart
    <3> QED BY <3>2, <3>3, <3>4
  <2>1. CASE PressStop \/ PressCloseAll
    <3>1. Press
      BY <2>1, Zenon DEF PressStop, PressCloseAll
    <3>2. presses' \in Nat
      BY <3>1 DEF Press
    <3>3. UNCHANGED <<gen, halted, settings, op, pc, session, sawStop>>
      BY <2>1, Zenon DEF PressStop, PressCloseAll
    <3>4. /\ running' \in BOOLEAN /\ saved' \in BOOLEAN /\ wanted' \in {"START", "STOP"} /\ stopped' \in BOOLEAN
          /\ closeAll' \in BOOLEAN /\ asked' \in BOOLEAN
      BY <2>1, Zenon DEF PressStop, PressCloseAll
    <3> QED BY <3>2, <3>3, <3>4
  <2>2. CASE ClearHalt
    BY <2>0, <2>2 DEF ClearHalt
  <2>3. CASE BumpGen
    BY <2>0, <2>3 DEF BumpGen
  <2>4. CASE SetRunning
    BY <2>0, <2>4 DEF SetRunning
  <2>5. CASE Wake
    BY <2>0, <2>5 DEF Wake
  <2>6. CASE CaptureGen
    BY <2>0, <2>6 DEF CaptureGen
  <2>7. CASE CaptureSettings
    BY <2>0, <2>7 DEF CaptureSettings
  <2>8. CASE GiveUp
    BY <2>0, <2>8 DEF GiveUp
  <2>9. CASE Connect
    BY <2>0, <2>9 DEF Connect
  <2>10. CASE ConnectFails \/ Retry
    BY <2>0, <2>10 DEF ConnectFails, Retry
  <2>11. CASE Resolve
    BY <2>0, <2>11 DEF Resolve
  <2>12. CASE AccountRefused \/ Panic \/ LicenseRefused
    BY <2>0, <2>12 DEF AccountRefused, Panic, LicenseRefused, Fault
  <2>13. CASE LicenseVerified
    BY <2>0, <2>13 DEF LicenseVerified
  <2>14. CASE LicenseUnknown
    BY <2>0, <2>14 DEF LicenseUnknown
  <2>15. CASE Refuse
    BY <2>0, <2>15 DEF Refuse
  <2>16. CASE LoadRunning
    BY <2>0, <2>16 DEF LoadRunning
  <2>17. CASE LoadGen
    BY <2>0, <2>17 DEF LoadGen
  <2>18. CASE LinkLost
    BY <2>0, <2>18 DEF LinkLost
  <2>19. CASE TakeCloseAll
    BY <2>0, <2>19 DEF TakeCloseAll
  <2>20. CASE Halt
    BY <2>0, <2>20 DEF Halt
  <2>21. CASE Work
    BY <2>0, <2>21 DEF Work
  <2>22. CASE EndCycle
    BY <2>0, <2>22 DEF EndCycle
  <2>23. CASE EndSession
    BY <2>0, <2>23 DEF EndSession
  <2>24. CASE Unthrottle
    BY <2>0, <2>24 DEF Unthrottle
  <2>25. CASE UNCHANGED vars
    BY <2>25 DEF vars
  <2> QED
    BY <2>a, <2>1, <2>2, <2>3, <2>4, <2>5, <2>6, <2>7, <2>8, <2>9, <2>10, <2>11, <2>12, <2>13, <2>14, <2>15, <2>16, <2>17, <2>18, <2>19, <2>20, <2>21, <2>22, <2>23, <2>24, <2>25
    DEF Next, Engine, Handling, Pressing
<1> QED BY <1>1, <1>2, PTL DEF Spec

\* Running is on again after a STOP only when the generation has moved on, because
\* START bumps it first: StopInv is inductive.
THEOREM StopInvariant == Spec => []StopInv
<1>1. Init => StopInv
  BY DEF Init, StopInv, StoppedStaysStopped, InCycle
<1>2. TypeOK /\ StopInv /\ [Next]_vars => StopInv'
  <2> SUFFICES ASSUME TypeOK, StopInv, [Next]_vars PROVE StopInv'
    OBVIOUS
  <2>1. CASE Pressing
    <3>1. UNCHANGED <<gen, myGen, pc, sawStop>> /\ op = "none"
      BY <2>1 DEF Pressing, Press, PressSave, PressStart, PressStop, PressCloseAll,
                  session
    <3>2. op' # "run"
      BY <2>1, <3>1
      DEF Pressing, PressSave, PressStart, PressStop, PressCloseAll
    <3>3. running' => running /\ (stopped' = stopped)
      BY <2>1 DEF Pressing, PressSave, PressStart, PressStop, PressCloseAll
    <3> QED BY <3>1, <3>2, <3>3 DEF StopInv, StoppedStaysStopped, InCycle
  <2>2. CASE ClearHalt
    <3>1. UNCHANGED <<running, gen, myGen, pc, stopped, sawStop>> /\ op' # "run"
      BY <2>2 DEF ClearHalt, session
    <3> QED BY <3>1 DEF StopInv, StoppedStaysStopped, InCycle
  <2>3. CASE BumpGen
    <3>1. UNCHANGED <<running, myGen, pc, stopped, sawStop>> /\ gen' = gen + 1
      BY <2>3 DEF BumpGen, session, history
    <3> QED BY <3>1 DEF StopInv, StoppedStaysStopped, InCycle, TypeOK
  <2>4. CASE SetRunning
    <3>1. UNCHANGED <<gen, myGen, pc, stopped, sawStop>> /\ op = "run" /\ op' # "run"
      BY <2>4 DEF SetRunning, session
    <3> QED BY <3>1 DEF StopInv, StoppedStaysStopped, InCycle
  <2>5. CASE CaptureGen
    <3>1. ~stopped' /\ ~sawStop' /\ myGen' = gen /\ gen' = gen /\ pc' = "open"
      BY <2>5 DEF CaptureGen, atomics, Goto
    <3> QED BY <3>1 DEF StopInv, StoppedStaysStopped, InCycle, TypeOK
  <2>6. CASE LoadRunning
    <3>1. /\ UNCHANGED <<running, gen, myGen, op, stopped>> /\ sawStop' = stopped
          /\ pc' = IF running THEN "loopgen" ELSE "over"
      BY <2>6 DEF LoadRunning, atomics, session
    <3> QED BY <3>1 DEF StopInv, StoppedStaysStopped, InCycle
  <2>7. CASE LoadGen
    <3>1. /\ UNCHANGED <<running, gen, myGen, op, stopped, sawStop>>
          /\ pc = "loopgen" /\ pc' = IF gen = myGen THEN "cycle" ELSE "over"
      BY <2>7 DEF LoadGen, Looking, atomics, session, history
    <3> QED BY <3>1 DEF StopInv, StoppedStaysStopped, InCycle, TypeOK
  <2>8. CASE Refuse
    <3>1. UNCHANGED <<gen, myGen, op, stopped, sawStop>> /\ ~running' /\ pc' = "over"
      BY <2>8 DEF Refuse, session, history, Goto
    <3>2. op = "run" /\ stopped => myGen < gen
      BY DEF StopInv
    <3> QED BY <3>1, <3>2 DEF StopInv, StoppedStaysStopped, InCycle
  <2>9. CASE UNCHANGED <<running, gen, myGen, op, stopped, sawStop>>
              /\ (pc' \in InCycle => pc \in InCycle) /\ pc' # "loopgen"
    BY <2>9 DEF StopInv, StoppedStaysStopped
  <2>10. CASE \/ Wake \/ CaptureSettings \/ GiveUp \/ Connect \/ ConnectFails \/ Retry
              \/ Resolve \/ AccountRefused \/ Panic
    <3>1. UNCHANGED <<running, gen, myGen, op, stopped, sawStop>>
      BY <2>10 DEF Wake, CaptureSettings, GiveUp, Connect, ConnectFails, Retry, Resolve,
                   AccountRefused, Panic, Fault, Looking, atomics, session, history
    <3>2. pc' \notin InCycle \cup {"loopgen"}
      BY <2>10 DEF Wake, CaptureSettings, GiveUp, Connect, ConnectFails, Retry, Resolve,
                   AccountRefused, Panic, Fault, Goto, InCycle
    <3> QED BY <2>9, <3>1, <3>2
  <2>11. CASE LicenseVerified \/ LicenseRefused \/ LicenseUnknown \/ LinkLost
    <3>1. UNCHANGED <<running, gen, myGen, op, stopped, sawStop>>
      BY <2>11 DEF LicenseVerified, LicenseRefused, LicenseUnknown, LinkLost, Fault,
                   Looking, atomics, session, history
    <3>2. pc' \notin InCycle \cup {"loopgen"}
      BY <2>11 DEF LicenseVerified, LicenseRefused, LicenseUnknown, LinkLost, Fault,
                   Goto, InCycle
    <3> QED BY <2>9, <3>1, <3>2
  <2>12. CASE TakeCloseAll \/ Halt \/ Work \/ EndCycle
    <3>1. UNCHANGED <<running, gen, myGen, op, stopped, sawStop>>
      BY <2>12 DEF TakeCloseAll, Halt, Work, EndCycle, Looking, atomics, session, history
    <3>2. pc \in InCycle /\ pc' # "loopgen"
      BY <2>12 DEF TakeCloseAll, Halt, Work, EndCycle, Goto, InCycle
    <3> QED BY <2>9, <3>1, <3>2
  <2>13. CASE EndSession \/ Unthrottle
    <3>1. UNCHANGED <<running, gen, myGen, op, stopped, sawStop>>
      BY <2>13 DEF EndSession, Unthrottle, Looking, atomics, session, history
    <3>2. pc' \notin InCycle \cup {"loopgen"}
      BY <2>13 DEF EndSession, Unthrottle, Goto, InCycle
    <3> QED BY <2>9, <3>1, <3>2
  <2>14. CASE UNCHANGED vars
    BY <2>14 DEF vars, atomics, session, history, StopInv, StoppedStaysStopped
  <2> QED
    BY <2>1, <2>2, <2>3, <2>4, <2>5, <2>6, <2>7, <2>8, <2>10, <2>11, <2>12, <2>13, <2>14
    DEF Next, Engine, Handling
<1> QED BY <1>1, <1>2, TypeCorrect, PTL DEF Spec

\* A session that looks at running after a STOP never begins another cycle.
THEOREM StoppedStaysStoppedHolds == Spec => []StoppedStaysStopped
<1>1. StopInv => StoppedStaysStopped
  BY DEF StopInv
<1> QED BY <1>1, StopInvariant, PTL

-----------------------------------------------------------------------------
(* The settings of a session are those of its START. *)

\* Where a session has its host, and where it has its account.
HasHost == Stage \ {"open"}
HasAccount == {"license", "loop", "loopgen"} \cup InCycle

\* A session of the present generation has what is in force, once START's stores are
\* past the bump and as long as nothing is saved.
SettingsInv ==
  op \in {"none", "run"} /\ myGen = gen /\ ~saved =>
    /\ pc \in HasHost => host = settings
    /\ pc \in HasAccount => account = settings

\* The session that START has begun trades on the host and the account it was pressed
\* with, however the button's stores and the session's reads interleave.
THEOREM StartAppliesHolds == Spec => []StartApplies
<1>1. Init => SettingsInv
  BY DEF Init, SettingsInv, HasAccount, InCycle
<1>2. TypeOK /\ StopInv /\ SettingsInv /\ [Next]_vars => SettingsInv'
  <2> SUFFICES ASSUME TypeOK, StopInv, SettingsInv, [Next]_vars PROVE SettingsInv'
    OBVIOUS
  <2> USE DEF HasHost, HasAccount, InCycle
  <2>0. myGen <= gen /\ myGen \in Nat /\ gen \in Nat /\ pc \in Stage
    BY DEF StopInv, TypeOK
  <2>1. CASE \E h \in Hosts : PressSave(h)
    BY <2>1 DEF PressSave, SettingsInv
  <2>2. CASE \E h \in Hosts : PressStart(h)
    BY <2>2 DEF PressStart, SettingsInv
  <2>3. CASE PressStop \/ PressCloseAll
    <3>1. UNCHANGED <<gen, settings, op, pc, session, saved>>
      BY <2>3 DEF PressStop, PressCloseAll
    <3> QED BY <3>1 DEF SettingsInv, session
  <2>4. CASE ClearHalt
    BY <2>4 DEF ClearHalt, SettingsInv
  <2>5. CASE BumpGen
    <3>1. UNCHANGED <<myGen, pc>> /\ gen' = gen + 1
      BY <2>5 DEF BumpGen, session
    <3> QED BY <2>0, <3>1 DEF SettingsInv
  <2>6. CASE SetRunning
    <3>1. UNCHANGED <<gen, settings, pc, session, saved>> /\ op = "run"
      BY <2>6 DEF SetRunning
    <3> QED BY <3>1 DEF SettingsInv, session
  <2>7. CASE CaptureGen
    <3>1. pc' = "open"
      BY <2>7 DEF CaptureGen, Goto
    <3> QED BY <3>1 DEF SettingsInv
  <2>8. CASE CaptureSettings
    <3>1. pc' = "probe" /\ host' = settings /\ settings' = settings
      BY <2>8 DEF CaptureSettings, Goto, atomics
    <3> QED BY <3>1 DEF SettingsInv
  <2>9. CASE Resolve
    <3>1. /\ pc = "account" /\ account' = settings
          /\ UNCHANGED <<atomics, op, myGen, host, history>>
      BY <2>9 DEF Resolve, Goto
    <3> QED BY <3>1 DEF SettingsInv, Stage, atomics, history
  <2>10. CASE LicenseVerified
    <3>1. /\ pc = "license"
          /\ UNCHANGED <<atomics, op, myGen, host, account, history>>
      BY <2>10 DEF LicenseVerified, Goto
    <3> QED BY <3>1 DEF SettingsInv, Stage, atomics, history
  <2>11. CASE /\ UNCHANGED <<gen, settings, op, myGen, host, account, saved>>
              /\ pc \in HasHost /\ (pc' \in HasAccount => pc \in HasAccount)
    BY <2>11 DEF SettingsInv
  <2>12. CASE Wake \/ GiveUp \/ Connect \/ ConnectFails \/ Retry
    BY <2>0, <2>11, <2>12 DEF Wake, GiveUp, Connect, ConnectFails, Retry, Goto, Looking,
                              atomics, session, history
  <2>13. CASE AccountRefused \/ Panic \/ LicenseRefused \/ LicenseUnknown \/ Refuse
    <3>1. UNCHANGED <<gen, settings, op, myGen, host, account, saved>>
      BY <2>13 DEF AccountRefused, Panic, LicenseRefused, LicenseUnknown, Refuse, Fault,
                   Looking, atomics, session, history
    <3>2. pc \in HasHost /\ (pc' \in HasAccount => pc \in HasAccount)
      BY <2>0, <2>13 DEF Stage, AccountRefused, Panic, LicenseRefused, LicenseUnknown, Refuse,
                         Fault, Goto
    <3> QED BY <2>11, <3>1, <3>2
  <2>14. CASE LoadRunning \/ LoadGen \/ LinkLost \/ TakeCloseAll \/ Halt \/ Work \/ EndCycle
    <3>1. UNCHANGED <<gen, settings, op, myGen, host, account, saved>>
      BY <2>14 DEF LoadRunning, LoadGen, LinkLost, TakeCloseAll, Halt, Work, EndCycle,
                   Looking, atomics, session, history
    <3>2. pc \in HasHost /\ pc \in HasAccount
      BY <2>0, <2>14 DEF Stage, LoadRunning, LoadGen, LinkLost, TakeCloseAll, Halt, Work, EndCycle,
                         Goto
    <3> QED BY <2>11, <3>1, <3>2
  <2>15. CASE EndSession \/ Unthrottle
    <3>1. UNCHANGED <<gen, settings, op, myGen, host, account, saved>>
      BY <2>15 DEF EndSession, Unthrottle, Looking, atomics, session, history
    <3>2. pc \in HasHost /\ pc' \notin HasAccount
      BY <2>0, <2>15 DEF Stage, EndSession, Unthrottle, Goto
    <3> QED BY <2>11, <3>1, <3>2
  <2>16. CASE UNCHANGED vars
    BY <2>16 DEF vars, atomics, session, history, SettingsInv
  <2> QED
    BY <2>1, <2>2, <2>3, <2>4, <2>5, <2>6, <2>7, <2>8, <2>9, <2>10, <2>12, <2>13, <2>14,
       <2>15, <2>16
    DEF Next, Engine, Handling, Pressing
<1>3. TypeOK /\ SettingsInv => StartApplies
  BY DEF SettingsInv, StartApplies, HasHost, HasAccount, InCycle, TypeOK
<1> QED BY <1>1, <1>2, <1>3, TypeCorrect, StopInvariant, PTL DEF Spec
=============================================================================
