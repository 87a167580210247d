------------------------ MODULE DaemonControlProofs ------------------------
(***************************************************************************)
(* Proofs about DaemonControl, for any number of launchers, commands and   *)
(* network changes.                                                        *)
(***************************************************************************)
EXTENDS DaemonControl, TLAPS

\* How the threads of a daemon, its parent and the state file go together,
\* whether commands overlap or not.
LifeInv ==
    /\ \A l \in Launchers :
          /\ wpc[l] \in {"sleep", "persist"} =>
                dpc[l] \in {"notify", "serve", "close", "join"}
          /\ lpc[l] \in {"idle", "prepare", "clean", "fork",
             "refused"} => dpc[l] = "none"
          /\ dpc[l] \in {"bind", "persist", "notify"} => pipe[l] = "empty"
          /\ dpc[l] = "none" => pipe[l] = "empty"
          /\ dpc[l] = "serve" => pipe[l] = "ready"
          /\ lpc[l] = "ok" => pipe[l] = "ready"
    /\ state # NoState => dpc[state.pid] \notin {"none", "bind", "persist", "exited"}

\* A daemon that has written the state file, and has not failed to report so, is
\* the one that the file names.
Known(l) ==
    /\ dpc[l] = "notify" \/ pipe[l] = "ready" => state # NoState /\ state.pid = l

\* One command at a time; a start is one until its daemon serves or has ended.
OneCommand ==
    /\ \A l, m \in Launchers : Starting(l) /\ Starting(m) => l = m
    /\ \A k, j \in Controls : ~ControlDone(k) /\ ~ControlDone(j) => k = j
    /\ \A l \in Launchers, k \in Controls : ~Starting(l) \/ ControlDone(k)

\* What holds if commands do not overlap: at most one daemon process exists, the
\* state file names it once it has been written, and a command that is about to
\* remove the file, or to fork, knows that there is none.
SerialInv ==
    /\ OneCommand
    /\ \A l \in Launchers :
          /\ lpc[l] \in {"clean", "fork"} => \A m \in Launchers : ~Running(m)
          /\ Running(l) => Known(l)
    /\ \A l, m \in Launchers : Running(l) /\ Running(m) => l = m
    /\ \A k \in Controls :
          /\ cpc[k] \in {"clean", "remove"} => \A m \in Launchers : ~Running(m)
          /\ cpc[k] \in {"kill", "poll"} =>
                /\ seen[k] \in Launchers
                /\ \A m \in Launchers \ {seen[k]} : ~Running(m)

\* What is written to the state file, or left of it, has its type.
LEMMA StateFileType ==
    /\ NoState \in StateFile
    /\ TypeOK => \A l \in Launchers : [pid |-> l, url |-> net] \in StateFile
    /\ TypeOK /\ state # NoState => state.pid \in Launchers
BY DEF TypeOK, StateFile

\* Types.
LEMMA TypeOKStep ==
    ASSUME TypeOK, [Next]_vars
    PROVE  TypeOK'
<1>. USE StateFileType DEF TypeOK, LauncherPCs, DaemonPCs, ControlPCs, Results,
       launcherVars, watcherVars, controlVars, envVars
<1>1. ASSUME NEW l \in Launchers, StartDaemonCommand(l)
      PROVE  TypeOK'
  BY <1>1 DEF StartDaemonCommand, LauncherGoto, MayStart
<1>2. ASSUME NEW l \in Launchers, Prepare(l)
      PROVE  TypeOK'
  BY <1>2 DEF Prepare, LauncherGoto, StateIsLive, PidIsRunning
<1>3. ASSUME NEW l \in Launchers, CleanStale(l)
      PROVE  TypeOK'
  BY <1>3 DEF CleanStale, LauncherGoto
<1>4. ASSUME NEW l \in Launchers, Fork(l)
      PROVE  TypeOK'
  <2>1. CASE LauncherGoto(l, "wait") /\ dpc' = [dpc EXCEPT ![l] = "bind"]
    BY <1>4, <2>1 DEF Fork, LauncherGoto
  <2>2. CASE LauncherGoto(l, "failed") /\ UNCHANGED dpc
    BY <1>4, <2>2 DEF Fork, LauncherGoto
  <2>. QED  BY <1>4, <2>1, <2>2 DEF Fork
<1>5. ASSUME NEW l \in Launchers, WaitReady(l)
      PROVE  TypeOK'
  <2>1. PICK next \in {"ok", "reap"} : LauncherGoto(l, next)
    BY <1>5 DEF WaitReady
  <2>2. UNCHANGED <<state, dpc>>
    BY <1>5 DEF WaitReady
  <2>. QED  BY <2>1, <2>2 DEF LauncherGoto
<1>6. ASSUME NEW l \in Launchers, Bind(l)
      PROVE  TypeOK'
  <2>1. PICK next \in {"persist", "close", "exited"} : DaemonGoto(l, next)
    BY <1>6 DEF Bind
  <2>2. UNCHANGED <<state, pipe, req, watcherVars>>
    BY <1>6 DEF Bind
  <2>. QED  BY <2>1, <2>2 DEF DaemonGoto
<1>7. ASSUME NEW l \in Launchers, Persist(l)
      PROVE  TypeOK'
  <2>1. PICK next \in {"notify", "close"} : DaemonGoto(l, next)
    BY <1>7 DEF Persist
  <2>2. state' \in StateFile
    <3>1. state' = state \/ state' = [pid |-> l, url |-> net]
      BY ONLY <1>7 DEF Persist
    <3>2. state \in StateFile /\ net \in Urls
      OBVIOUS
    <3>. QED  BY ONLY <3>1, <3>2, l \in Launchers DEF StateFile
  <2>3. wpc' = wpc \/ wpc' = [wpc EXCEPT ![l] = "sleep"]
    BY <1>7 DEF Persist
  <2>4. last' = last \/ last' = [last EXCEPT ![l] = net]
    BY <1>7 DEF Persist
  <2>5. UNCHANGED <<pipe, req, built>>
    BY <1>7 DEF Persist
  <2>6. wpc' \in [Launchers -> {"none", "sleep", "persist", "stopped"}]
    BY <2>3
  <2>7. last' \in [Launchers -> Urls]
    BY <2>4
  <2>8. dpc' \in [Launchers -> DaemonPCs]
    BY <2>1 DEF DaemonGoto
  <2>9. UNCHANGED <<net, changes, taken, lpc, cpc, kind, seen, result, struck>>
    BY <2>1 DEF DaemonGoto
  <2>. QED  BY <2>2, <2>5, <2>6, <2>7, <2>8, <2>9
<1>8. ASSUME NEW l \in Launchers, Notify(l)
      PROVE  TypeOK'
  <2>1. CASE /\ pipe' = [pipe EXCEPT ![l] = "ready"]
             /\ DaemonGoto(l, "serve") /\ UNCHANGED wpc
    BY <1>8, <2>1 DEF Notify, DaemonGoto
  <2>2. CASE /\ pipe' = [pipe EXCEPT ![l] = "failed"]
             /\ DaemonGoto(l, "close") /\ UNCHANGED wpc
    BY <1>8, <2>2 DEF Notify, DaemonGoto
  <2>3. CASE /\ wpc' = [wpc EXCEPT ![l] = "stopped"]
             /\ DaemonGoto(l, "killed") /\ UNCHANGED pipe
    BY <1>8, <2>3 DEF Notify, DaemonGoto
  <2>. QED  BY <1>8, <2>1, <2>2, <2>3 DEF Notify
<1>9. ASSUME NEW l \in Launchers, Signal(l)
      PROVE  TypeOK'
  BY <1>9 DEF Signal
<1>10. ASSUME NEW l \in Launchers, LeaveListener(l)
       PROVE  TypeOK'
  BY <1>10 DEF LeaveListener, DaemonGoto
<1>11. ASSUME NEW l \in Launchers, Close(l)
       PROVE  TypeOK'
  BY <1>11 DEF Close, DaemonGoto
<1>12. ASSUME NEW l \in Launchers, Join(l)
       PROVE  TypeOK'
  BY <1>12 DEF Join, DaemonGoto
<1>13. ASSUME NEW l \in Launchers, CleanUp(l)
       PROVE  TypeOK'
  <2>1. CASE DaemonGoto(l, "exited") /\ state' = NoState
    BY <1>13, <2>1 DEF CleanUp, DaemonGoto
  <2>2. CASE DaemonGoto(l, "killed") /\ UNCHANGED <<state, pipe>>
    BY <1>13, <2>2 DEF CleanUp, DaemonGoto
  <2>. QED  BY <1>13, <2>1, <2>2 DEF CleanUp
<1>14. ASSUME NEW l \in Launchers, Kill(l)
       PROVE  TypeOK'
  BY <1>14 DEF Kill, DaemonGoto
<1>15. ASSUME NEW l \in Launchers, WatcherStops(l)
       PROVE  TypeOK'
  BY <1>15 DEF WatcherStops, WatcherUnchanged
<1>16. ASSUME NEW l \in Launchers, WatcherBuilds(l)
       PROVE  TypeOK'
  BY <1>16 DEF WatcherBuilds, WatcherUnchanged
<1>17. ASSUME NEW l \in Launchers, WatcherPersists(l)
       PROVE  TypeOK'
  <2>1. state' \in StateFile
    <3>1. state' = state \/ state' = [pid |-> l, url |-> net]
      BY ONLY <1>17 DEF WatcherPersists
    <3>2. state \in StateFile /\ net \in Urls
      OBVIOUS
    <3>. QED  BY ONLY <3>1, <3>2, l \in Launchers DEF StateFile
  <2>2. wpc' = [wpc EXCEPT ![l] = "sleep"] /\ built' = built
    BY <1>17 DEF WatcherPersists
  <2>3. last' = last \/ last' = [last EXCEPT ![l] = built[l]]
    BY <1>17 DEF WatcherPersists
  <2>4. last' \in [Launchers -> Urls]
    <3>1. last \in [Launchers -> Urls] /\ built[l] \in Urls
      OBVIOUS
    <3>. QED  BY ONLY <2>3, <3>1
  <2>5. wpc' \in [Launchers -> {"none", "sleep", "persist", "stopped"}]
    BY <2>2
  <2>6. UNCHANGED <<net, changes, taken, lpc, pipe, dpc, req, cpc, kind, seen, result,
                   struck>>
    BY <1>17 DEF WatcherPersists, WatcherUnchanged
  <2>. QED  BY <2>1, <2>2, <2>4, <2>5, <2>6
<1>18. ASSUME NEW k \in Controls, StartControl(k)
       PROVE  TypeOK'
  BY <1>18 DEF StartControl, ControlGoto, MayStart
<1>19. ASSUME NEW k \in Controls, Load(k)
       PROVE  TypeOK'
  <2>1. CASE StateIsLive
    <3>1. state.pid \in Launchers /\ seen' = [seen EXCEPT ![k] = state.pid]
      BY <1>19, <2>1 DEF Load, StateIsLive
    <3>2. PICK next \in {"kill", "done"} : ControlGoto(k, next)
      BY <1>19, <2>1 DEF Load
    <3>3. result' = result \/ result' = [result EXCEPT ![k] = "running"]
      BY <1>19, <2>1 DEF Load
    <3>4. UNCHANGED <<state, req, kind, struck>>
      BY <1>19 DEF Load
    <3>5. \A j \in Controls : cpc'[j] \in {"kill", "poll"} => seen'[j] # NoState
      BY <3>1, <3>2, DaemonControlAssumption DEF ControlGoto
    <3>. QED  BY <3>1, <3>2, <3>3, <3>4, <3>5 DEF ControlGoto
  <2>2. CASE ~StateIsLive
    <3>1. ControlGoto(k, "clean") /\ UNCHANGED <<seen, result, state, req, kind, struck>>
      BY <1>19, <2>2 DEF Load
    <3>. QED  BY <3>1 DEF ControlGoto
  <2>. QED  BY <2>1, <2>2
<1>20. ASSUME NEW k \in Controls, CleanControl(k)
       PROVE  TypeOK'
  BY <1>20 DEF CleanControl, ControlGoto
<1>21. ASSUME NEW k \in Controls, StopKills(k)
       PROVE  TypeOK'
  <2>1. seen[k] \in Launchers /\ UNCHANGED <<state, kind, seen>>
    BY <1>21 DEF StopKills
  <2>2. PICK next \in {"poll", "clean", "done"} : ControlGoto(k, next)
    BY <1>21 DEF StopKills
  <2>3. req' \in {req, req \cup {seen[k]}} /\ struck' \in {struck, struck \cup {seen[k]}}
    BY <1>21 DEF StopKills
  <2>4. req \subseteq Launchers /\ struck \subseteq Launchers
    OBVIOUS
  <2>5. req' \subseteq Launchers /\ struck' \subseteq Launchers
    BY ONLY <2>1, <2>3, <2>4
  <2>6. UNCHANGED <<net, changes, taken, lpc, pipe, dpc, wpc, built, last>>
    BY <2>2 DEF ControlGoto
  <2>7. cpc' = [cpc EXCEPT ![k] = next]
    BY <2>2 DEF ControlGoto
  <2>8. \A j \in Controls : cpc'[j] \in {"kill", "poll"} => seen'[j] # NoState
    BY <1>21, <2>1, <2>7 DEF StopKills
  <2>9. result' = result \/ result' = [result EXCEPT ![k] = "failed"]
    BY <1>21 DEF StopKills
  <2>10. result' \in [Controls -> Results]
    BY <2>9
  <2>. QED  BY <2>1, <2>5, <2>6, <2>7, <2>8, <2>10
<1>22. ASSUME NEW k \in Controls, StopPolls(k)
       PROVE  TypeOK'
  <2>1. PICK next \in {"remove", "done"} : ControlGoto(k, next)
    BY <1>22 DEF StopPolls
  <2>2. result' = result \/ result' = [result EXCEPT ![k] = "timed out"]
    BY <1>22 DEF StopPolls
  <2>3. UNCHANGED <<state, req, kind, seen, struck>>
    BY <1>22 DEF StopPolls
  <2>. QED  BY <2>1, <2>2, <2>3 DEF ControlGoto
<1>23. ASSUME NEW k \in Controls, StopRemoves(k)
       PROVE  TypeOK'
  BY <1>23 DEF StopRemoves, ControlGoto
<1>24. ASSUME NetworkChanges
       PROVE  TypeOK'
  <2>1. net' \in Urls
    BY <1>24 DEF NetworkChanges
  <2>2. MaxChanges \in Nat
    BY DaemonControlAssumption
  <2>3. changes \in 0..MaxChanges /\ changes < MaxChanges /\ changes' = changes + 1
    BY <1>24 DEF NetworkChanges
  <2>4. changes' \in 0..MaxChanges
    <3>. HIDE DEF TypeOK
    <3>. QED  BY ONLY <2>2, <2>3
  <2>. QED  BY <1>24, <2>1, <2>4 DEF NetworkChanges
<1>25. CASE UNCHANGED vars
  BY <1>25 DEF vars
<1>26. ASSUME NEW l \in Launchers, PidReused(l) \/ StrangerEnds(l)
       PROVE  TypeOK'
  <2>1. taken' \in {taken \cup {l}, taken \ {l}} /\ taken \subseteq Launchers
    BY <1>26 DEF PidReused, StrangerEnds
  <2>2. taken' \subseteq Launchers
    BY ONLY <2>1, l \in Launchers
  <2>3. UNCHANGED <<state, net, changes, lpc, pipe, dpc, req, wpc, built, last, cpc,
                   kind, seen, result, struck>>
    BY <1>26 DEF PidReused, StrangerEnds
  <2>. QED  BY <2>2, <2>3
<1>27. ASSUME NEW l \in Launchers, Interrupt(l) \/ CloseReady(l) \/ Reap(l)
       PROVE  TypeOK'
  <2>1. PICK next \in {"interrupted", "reap", "failed"} : LauncherGoto(l, next)
    BY <1>27 DEF Interrupt, CloseReady, Reap
  <2>2. UNCHANGED <<state, dpc>>
    BY <1>27 DEF Interrupt, CloseReady, Reap
  <2>. QED  BY <1>27, <2>1, <2>2 DEF Interrupt, CloseReady, Reap, LauncherGoto
<1>. QED
  BY <1>1, <1>2, <1>3, <1>4, <1>5, <1>6, <1>7, <1>8, <1>9, <1>10, <1>11, <1>12,
     <1>13, <1>14, <1>15, <1>16, <1>17, <1>18, <1>19, <1>20, <1>21, <1>22, <1>23,
     <1>24, <1>25, <1>26, <1>27
     DEF Next, Launcher, Daemon, Watcher, Control

\* The watcher of a daemon ends before the daemon does, and a daemon removes its
\* state file last.
LEMMA LifeInvStep ==
    ASSUME TypeOK, LifeInv, [Next]_vars
    PROVE  LifeInv'
<1>. USE DaemonControlAssumption DEF TypeOK, StateFile, LauncherPCs, DaemonPCs,
       LifeInv, Running,
       launcherVars, watcherVars, controlVars, envVars
<1>1. ASSUME NEW l \in Launchers, StartDaemonCommand(l)
      PROVE  LifeInv'
  BY <1>1 DEF StartDaemonCommand, LauncherGoto, MayStart
<1>2. ASSUME NEW l \in Launchers, Prepare(l)
      PROVE  LifeInv'
  BY <1>2 DEF Prepare, LauncherGoto, StateIsLive, PidIsRunning
<1>3. ASSUME NEW l \in Launchers, CleanStale(l)
      PROVE  LifeInv'
  BY <1>3 DEF CleanStale, LauncherGoto
<1>4. ASSUME NEW l \in Launchers, Fork(l)
      PROVE  LifeInv'
  <2>1. CASE LauncherGoto(l, "wait") /\ dpc' = [dpc EXCEPT ![l] = "bind"]
    <3>1. lpc[l] = "fork" /\ dpc[l] = "none" /\ state' = state /\ Running(l)'
      BY <1>4, <2>1 DEF Fork, LauncherGoto
    <3>2. state # NoState => state.pid # l
      BY <3>1
    <3>3. pipe[l] = "empty" /\ wpc[l] \notin {"sleep", "persist"}
      BY <3>1
    <3>. QED  BY <1>4, <2>1, <3>1, <3>2, <3>3 DEF Fork, LauncherGoto
  <2>2. CASE LauncherGoto(l, "failed") /\ UNCHANGED dpc
    BY <1>4, <2>2 DEF Fork, LauncherGoto
  <2>. QED  BY <1>4, <2>1, <2>2 DEF Fork
<1>5. ASSUME NEW l \in Launchers, WaitReady(l)
      PROVE  LifeInv'
  BY <1>5 DEF WaitReady, LauncherGoto
<1>6. ASSUME NEW l \in Launchers, Bind(l)
      PROVE  LifeInv'
  BY <1>6 DEF Bind, DaemonGoto
<1>7. ASSUME NEW l \in Launchers, Persist(l)
      PROVE  LifeInv'
  BY <1>7 DEF Persist, DaemonGoto
<1>8. ASSUME NEW l \in Launchers, Notify(l)
      PROVE  LifeInv'
  <2>1. CASE /\ pipe' = [pipe EXCEPT ![l] = "ready"]
             /\ DaemonGoto(l, "serve") /\ UNCHANGED wpc
    BY <1>8, <2>1 DEF Notify, DaemonGoto
  <2>2. CASE /\ pipe' = [pipe EXCEPT ![l] = "failed"]
             /\ DaemonGoto(l, "close") /\ UNCHANGED wpc
    BY <1>8, <2>2 DEF Notify, DaemonGoto
  <2>3. CASE /\ wpc' = [wpc EXCEPT ![l] = "stopped"]
             /\ DaemonGoto(l, "killed") /\ UNCHANGED pipe
    BY <1>8, <2>3 DEF Notify, DaemonGoto
  <2>. QED  BY <1>8, <2>1, <2>2, <2>3 DEF Notify
<1>9. ASSUME NEW l \in Launchers, Signal(l)
      PROVE  LifeInv'
  BY <1>9 DEF Signal
<1>10. ASSUME NEW l \in Launchers, LeaveListener(l)
       PROVE  LifeInv'
  BY <1>10 DEF LeaveListener, DaemonGoto
<1>11. ASSUME NEW l \in Launchers, Close(l)
       PROVE  LifeInv'
  BY <1>11 DEF Close, DaemonGoto
<1>12. ASSUME NEW l \in Launchers, Join(l)
       PROVE  LifeInv'
  BY <1>12 DEF Join, DaemonGoto
<1>13. ASSUME NEW l \in Launchers, CleanUp(l)
       PROVE  LifeInv'
  <2>1. CASE DaemonGoto(l, "exited") /\ state' = NoState
    BY <1>13, <2>1 DEF CleanUp, DaemonGoto
  <2>2. CASE DaemonGoto(l, "killed") /\ UNCHANGED <<state, pipe>>
    BY <1>13, <2>2 DEF CleanUp, DaemonGoto
  <2>. QED  BY <1>13, <2>1, <2>2 DEF CleanUp
<1>14. ASSUME NEW l \in Launchers, Kill(l)
       PROVE  LifeInv'
  BY <1>14 DEF Kill, DaemonGoto
<1>15. ASSUME NEW l \in Launchers, WatcherStops(l)
       PROVE  LifeInv'
  BY <1>15 DEF WatcherStops, WatcherUnchanged
<1>16. ASSUME NEW l \in Launchers, WatcherBuilds(l)
       PROVE  LifeInv'
  BY <1>16 DEF WatcherBuilds, WatcherUnchanged
<1>17. ASSUME NEW l \in Launchers, WatcherPersists(l)
       PROVE  LifeInv'
  BY <1>17 DEF WatcherPersists, WatcherUnchanged
<1>18. ASSUME NEW k \in Controls, StartControl(k)
       PROVE  LifeInv'
  BY <1>18 DEF StartControl, ControlGoto, MayStart
<1>19. ASSUME NEW k \in Controls, Load(k)
       PROVE  LifeInv'
  BY <1>19 DEF Load, ControlGoto, StateIsLive, PidIsRunning
<1>20. ASSUME NEW k \in Controls, CleanControl(k)
       PROVE  LifeInv'
  BY <1>20 DEF CleanControl, ControlGoto
<1>21. ASSUME NEW k \in Controls, StopKills(k)
       PROVE  LifeInv'
  BY <1>21 DEF StopKills, ControlGoto, PidIsRunning
<1>22. ASSUME NEW k \in Controls, StopPolls(k)
       PROVE  LifeInv'
  <2>. UNCHANGED <<state, lpc, pipe, dpc, wpc>>
    BY <1>22 DEF StopPolls, ControlGoto
  <2>. QED  OBVIOUS
<1>23. ASSUME NEW k \in Controls, StopRemoves(k)
       PROVE  LifeInv'
  BY <1>23 DEF StopRemoves, ControlGoto
<1>24. ASSUME NetworkChanges
       PROVE  LifeInv'
  BY <1>24 DEF NetworkChanges
<1>25. CASE UNCHANGED vars
  BY <1>25 DEF vars
<1>26. ASSUME NEW l \in Launchers, PidReused(l) \/ StrangerEnds(l)
       PROVE  LifeInv'
  BY <1>26 DEF PidReused, StrangerEnds
<1>27. ASSUME NEW l \in Launchers, Interrupt(l) \/ CloseReady(l) \/ Reap(l)
       PROVE  LifeInv'
  <2>1. PICK next \in {"interrupted", "reap", "failed"} : LauncherGoto(l, next)
    BY <1>27 DEF Interrupt, CloseReady, Reap
  <2>2. UNCHANGED <<state, dpc>>
    BY <1>27 DEF Interrupt, CloseReady, Reap
  <2>. QED  BY <1>27, <2>1, <2>2 DEF Interrupt, CloseReady, Reap, LauncherGoto
<1>. QED
  BY <1>1, <1>2, <1>3, <1>4, <1>5, <1>6, <1>7, <1>8, <1>9, <1>10, <1>11, <1>12,
     <1>13, <1>14, <1>15, <1>16, <1>17, <1>18, <1>19, <1>20, <1>21, <1>22, <1>23,
     <1>24, <1>25, <1>26, <1>27
     DEF Next, Launcher, Daemon, Watcher, Control

\* Commands that do not overlap keep at most one daemon.
LEMMA SerialInvStep ==
    ASSUME TypeOK, LifeInv, SerialInv, ~Overlap, [Next]_vars
    PROVE  SerialInv'
<1>. USE DaemonControlAssumption DEF TypeOK, StateFile, LauncherPCs, DaemonPCs,
       ControlPCs, LifeInv, SerialInv, OneCommand, Known, Running, Starting,
       ControlDone,
       launcherVars, watcherVars, controlVars, envVars
<1>1. ASSUME NEW l \in Launchers, StartDaemonCommand(l)
      PROVE  SerialInv'
  BY <1>1 DEF StartDaemonCommand, LauncherGoto, MayStart
<1>2. ASSUME NEW l \in Launchers, Prepare(l)
      PROVE  SerialInv'
  BY <1>2 DEF Prepare, LauncherGoto, StateIsLive, PidIsRunning
<1>3. ASSUME NEW l \in Launchers, CleanStale(l)
      PROVE  SerialInv'
  BY <1>3 DEF CleanStale, LauncherGoto
<1>4. ASSUME NEW l \in Launchers, Fork(l)
      PROVE  SerialInv'
  <2>1. CASE LauncherGoto(l, "wait") /\ dpc' = [dpc EXCEPT ![l] = "bind"]
    <3>1. lpc[l] = "fork" /\ pipe[l] = "empty" /\ \A m \in Launchers : ~Running(m)
      BY <1>4 DEF Fork
    <3>2. lpc' = [lpc EXCEPT ![l] = "wait"] /\ UNCHANGED <<state, pipe, cpc, seen>>
      BY <1>4, <2>1 DEF Fork, LauncherGoto
    <3>3. \A m \in Launchers : Running(m)' => m = l
      BY <2>1, <3>1
    <3>4. \A k \in Controls : ControlDone(k)
      BY <3>1
    <3>5. \A m \in Launchers : Starting(m)' => m = l
      BY <3>1, <3>2, <3>3
    <3>6. OneCommand'
      <4>. HIDE DEF Starting, Running
      <4>. QED  BY <3>2, <3>4, <3>5
    <3>7. \A m \in Launchers : lpc'[m] \notin {"clean", "fork"}
      BY <3>1, <3>2
    <3>8. dpc'[l] = "bind" /\ pipe'[l] = "empty"
      BY <2>1, <3>1, <3>2
    <3>. HIDE DEF OneCommand, Running
    <3>. QED  BY <3>2, <3>3, <3>4, <3>6, <3>7, <3>8
  <2>2. CASE LauncherGoto(l, "failed") /\ UNCHANGED dpc
    BY <1>4, <2>2 DEF Fork, LauncherGoto
  <2>. QED  BY <1>4, <2>1, <2>2 DEF Fork
<1>5. ASSUME NEW l \in Launchers, WaitReady(l)
      PROVE  SerialInv'
  BY <1>5 DEF WaitReady, LauncherGoto
<1>6. ASSUME NEW l \in Launchers, Bind(l)
      PROVE  SerialInv'
  BY <1>6 DEF Bind, DaemonGoto
<1>7. ASSUME NEW l \in Launchers, Persist(l)
      PROVE  SerialInv'
  BY <1>7 DEF Persist, DaemonGoto
<1>8. ASSUME NEW l \in Launchers, Notify(l)
      PROVE  SerialInv'
  <2>1. CASE /\ pipe' = [pipe EXCEPT ![l] = "ready"]
             /\ DaemonGoto(l, "serve") /\ UNCHANGED wpc
    BY <1>8, <2>1 DEF Notify, DaemonGoto
  <2>2. CASE /\ pipe' = [pipe EXCEPT ![l] = "failed"]
             /\ DaemonGoto(l, "close") /\ UNCHANGED wpc
    BY <1>8, <2>2 DEF Notify, DaemonGoto
  <2>3. CASE /\ wpc' = [wpc EXCEPT ![l] = "stopped"]
             /\ DaemonGoto(l, "killed") /\ UNCHANGED pipe
    BY <1>8, <2>3 DEF Notify, DaemonGoto
  <2>. QED  BY <1>8, <2>1, <2>2, <2>3 DEF Notify
<1>9. ASSUME NEW l \in Launchers, Signal(l)
      PROVE  SerialInv'
  BY <1>9 DEF Signal
<1>10. ASSUME NEW l \in Launchers, LeaveListener(l)
       PROVE  SerialInv'
  BY <1>10 DEF LeaveListener, DaemonGoto
<1>11. ASSUME NEW l \in Launchers, Close(l)
       PROVE  SerialInv'
  BY <1>11 DEF Close, DaemonGoto
<1>12. ASSUME NEW l \in Launchers, Join(l)
       PROVE  SerialInv'
  BY <1>12 DEF Join, DaemonGoto
<1>13. ASSUME NEW l \in Launchers, CleanUp(l)
       PROVE  SerialInv'
  <2>1. CASE DaemonGoto(l, "exited") /\ state' = NoState
    BY <1>13, <2>1 DEF CleanUp, DaemonGoto
  <2>2. CASE DaemonGoto(l, "killed") /\ UNCHANGED <<state, pipe>>
    BY <1>13, <2>2 DEF CleanUp, DaemonGoto
  <2>. QED  BY <1>13, <2>1, <2>2 DEF CleanUp
<1>14. ASSUME NEW l \in Launchers, Kill(l)
       PROVE  SerialInv'
  BY <1>14 DEF Kill, DaemonGoto
<1>15. ASSUME NEW l \in Launchers, WatcherStops(l)
       PROVE  SerialInv'
  BY <1>15 DEF WatcherStops, WatcherUnchanged
<1>16. ASSUME NEW l \in Launchers, WatcherBuilds(l)
       PROVE  SerialInv'
  BY <1>16 DEF WatcherBuilds, WatcherUnchanged
<1>17. ASSUME NEW l \in Launchers, WatcherPersists(l)
       PROVE  SerialInv'
  BY <1>17 DEF WatcherPersists, WatcherUnchanged
<1>18. ASSUME NEW k \in Controls, StartControl(k)
       PROVE  SerialInv'
  BY <1>18 DEF StartControl, ControlGoto, MayStart
<1>19. ASSUME NEW k \in Controls, Load(k)
       PROVE  SerialInv'
  BY <1>19 DEF Load, ControlGoto, StateIsLive, PidIsRunning
<1>20. ASSUME NEW k \in Controls, CleanControl(k)
       PROVE  SerialInv'
  <2>1. UNCHANGED <<lpc, pipe, dpc, wpc, seen>> /\ cpc[k] = "clean"
    BY <1>20 DEF CleanControl, ControlGoto
  <2>2. cpc' = [cpc EXCEPT ![k] = "done"]
    BY <1>20 DEF CleanControl, ControlGoto
  <2>3. \A m \in Launchers : ~Running(m) /\ ~Running(m)'
    BY <2>1
  <2>. QED  BY <2>1, <2>2, <2>3
<1>21. ASSUME NEW k \in Controls, StopKills(k)
       PROVE  SerialInv'
  BY <1>21 DEF StopKills, ControlGoto, PidIsRunning
<1>22. ASSUME NEW k \in Controls, StopPolls(k)
       PROVE  SerialInv'
  <2>1. UNCHANGED <<state, lpc, pipe, dpc, seen>> /\ cpc[k] = "poll"
    BY <1>22 DEF StopPolls, ControlGoto
  <2>2. \A m \in Launchers : Running(m)' = Running(m)
    BY <2>1
  <2>3. CASE ~PidIsRunning(seen[k]) /\ ControlGoto(k, "remove")
    <3>1. cpc' = [cpc EXCEPT ![k] = "remove"]
      BY <2>3 DEF ControlGoto
    <3>2. \A m \in Launchers : ~Running(m)
      BY <2>1, <2>3 DEF PidIsRunning
    <3>. HIDE DEF Running
    <3>. QED  BY <2>1, <2>2, <3>1, <3>2
  <2>4. CASE ControlGoto(k, "done")
    <3>1. cpc' = [cpc EXCEPT ![k] = "done"]
      BY <2>4 DEF ControlGoto
    <3>. HIDE DEF Running
    <3>. QED  BY <2>1, <2>2, <3>1
  <2>. QED  BY <1>22, <2>3, <2>4 DEF StopPolls
<1>23. ASSUME NEW k \in Controls, StopRemoves(k)
       PROVE  SerialInv'
  BY <1>23 DEF StopRemoves, ControlGoto
<1>24. ASSUME NetworkChanges
       PROVE  SerialInv'
  BY <1>24 DEF NetworkChanges
<1>25. CASE UNCHANGED vars
  BY <1>25 DEF vars
<1>26. ASSUME NEW l \in Launchers, PidReused(l) \/ StrangerEnds(l)
       PROVE  SerialInv'
  BY <1>26 DEF PidReused, StrangerEnds
<1>27. ASSUME NEW l \in Launchers, Interrupt(l) \/ CloseReady(l) \/ Reap(l)
       PROVE  SerialInv'
  <2>1. PICK next \in {"interrupted", "reap", "failed"} : LauncherGoto(l, next)
    BY <1>27 DEF Interrupt, CloseReady, Reap
  <2>2. UNCHANGED <<state, dpc>>
    BY <1>27 DEF Interrupt, CloseReady, Reap
  <2>. QED  BY <1>27, <2>1, <2>2 DEF Interrupt, CloseReady, Reap, LauncherGoto
<1>. QED
  BY <1>1, <1>2, <1>3, <1>4, <1>5, <1>6, <1>7, <1>8, <1>9, <1>10, <1>11, <1>12,
     <1>13, <1>14, <1>15, <1>16, <1>17, <1>18, <1>19, <1>20, <1>21, <1>22, <1>23,
     <1>24, <1>25, <1>26, <1>27
     DEF Next, Launcher, Daemon, Watcher, Control

\* Types hold in every state.
THEOREM TypeCorrect == Spec => []TypeOK
<1>1. Init => TypeOK
  BY DaemonControlAssumption DEF Init, TypeOK, StateFile, LauncherPCs, DaemonPCs,
     ControlPCs, Results
<1>2. TypeOK /\ [Next]_vars => TypeOK'
  BY TypeOKStep
<1>. QED  BY <1>1, <1>2, PTL DEF Spec

\* The life cycle of daemons, whether commands overlap or not.
THEOREM LifeInvariant == Spec => []LifeInv
<1>1. Init => LifeInv
  BY DEF Init, LifeInv, Running
<1>2. TypeOK /\ LifeInv /\ [Next]_vars => LifeInv'
  BY LifeInvStep
<1>. QED  BY <1>1, <1>2, TypeCorrect, PTL DEF Spec

\* No daemon that ended by itself is left in the state file: the watcher is
\* joined before the file is removed.  This holds even if commands overlap.
THEOREM NoStateAfterExitHolds == Spec => []NoStateAfterExit
<1>1. TypeOK /\ LifeInv => NoStateAfterExit
  BY DEF TypeOK, StateFile, LifeInv, NoStateAfterExit
<1>. QED  BY <1>1, TypeCorrect, LifeInvariant, PTL

\* Commands that do not overlap keep the file and the daemon together.
THEOREM SerialInvariant == ASSUME ~Overlap PROVE Spec => []SerialInv
<1>1. Init => SerialInv
  BY DEF Init, SerialInv, OneCommand, Known, Running, Starting, ControlDone
<1>2. TypeOK /\ LifeInv /\ SerialInv /\ [Next]_vars => SerialInv'
  BY SerialInvStep
<1>. QED  BY <1>1, <1>2, TypeCorrect, LifeInvariant, PTL DEF Spec

\* If commands do not overlap, at most one daemon serves.
THEOREM OneDaemonHolds == ASSUME ~Overlap PROVE Spec => []OneDaemon
<1>1. SerialInv => OneDaemon
  BY DEF SerialInv, Running, OneDaemon
<1>. QED  BY <1>1, SerialInvariant, PTL

\* If commands do not overlap, hf status and hf stop find the daemon.
THEOREM FindableHolds == ASSUME ~Overlap PROVE Spec => []Findable
<1>1. LifeInv /\ SerialInv => Findable
  BY DEF LifeInv, SerialInv, Known, Running, Findable
<1>. QED  BY <1>1, LifeInvariant, SerialInvariant, PTL

\* If commands do not overlap, hf stop and hf status say that nothing runs only
\* when no daemon serves: only CleanControl and StopRemoves say so, and before
\* either the command has seen that there is no daemon.
THEOREM StoppedIsTrueHolds == ASSUME ~Overlap PROVE Spec => StoppedIsTrue
<1>. DEFINE Says(k) == /\ result'[k] \in {"already stopped", "stopped"}
                       /\ result[k] = "none"
<1>1. ASSUME TypeOK, SerialInv, Next, NEW k \in Controls, Says(k)
      PROVE  \A l \in Launchers : dpc[l] # "serve"
  <2>1. CASE \E l \in Launchers :
                \/ StartDaemonCommand(l) \/ Launcher(l) \/ Interrupt(l)
                \/ Daemon(l) \/ Signal(l) \/ Kill(l) \/ Watcher(l)
                \/ PidReused(l) \/ StrangerEnds(l)
    <3>1. result' = result
      BY <2>1 DEF StartDaemonCommand, Launcher, Prepare, CleanStale, Fork, WaitReady,
         Interrupt, CloseReady, Reap, LauncherGoto, Daemon, Bind, Persist, Notify, Close, Join, CleanUp,
         LeaveListener, Signal, Kill, DaemonGoto, Watcher, WatcherStops, WatcherBuilds,
         WatcherPersists, WatcherUnchanged, PidReused, StrangerEnds, controlVars
    <3>. QED  BY <1>1, <3>1
  <2>2. CASE NetworkChanges
    BY <1>1, <2>2 DEF NetworkChanges, controlVars
  <2>3. ASSUME NEW j \in Controls, StartControl(j) \/ Control(j)
        PROVE  \A l \in Launchers : dpc[l] # "serve"
    <3>1. CASE StartControl(j) \/ StopKills(j)
      <4>1. result' = result \/ result' = [result EXCEPT ![j] = "failed"]
        BY <3>1 DEF StartControl, StopKills
      <4>. QED  BY <1>1, <4>1 DEF TypeOK
    <3>2. CASE Load(j)
      <4>1. result' = result \/ result' = [result EXCEPT ![j] = "running"]
        BY <3>2 DEF Load
      <4>. QED  BY <1>1, <4>1 DEF TypeOK
    <3>3. CASE StopPolls(j)
      <4>1. result' = result \/ result' = [result EXCEPT ![j] = "timed out"]
        BY <3>3 DEF StopPolls
      <4>. QED  BY <1>1, <4>1 DEF TypeOK
    <3>4. CASE CleanControl(j) \/ StopRemoves(j)
      <4>1. cpc[j] \in {"clean", "remove"}
        BY <3>4 DEF CleanControl, StopRemoves
      <4>. QED  BY <1>1, <4>1 DEF SerialInv, Running
    <3>. QED  BY <2>3, <3>1, <3>2, <3>3, <3>4 DEF Control
  <2>. QED  BY <1>1, <2>1, <2>2, <2>3 DEF Next
<1>2. TypeOK /\ SerialInv /\ [Next]_vars =>
         [\A k \in Controls :
             result'[k] \in {"already stopped", "stopped"} /\ result[k] = "none" =>
                 \A l \in Launchers : dpc[l] # "serve"]_vars
  BY <1>1
<1>. QED  BY <1>2, TypeCorrect, SerialInvariant, PTL DEF Spec, StoppedIsTrue
=============================================================================
