--------------------------- MODULE DaemonControl ---------------------------
(***************************************************************************)
(* The life of daemons and what the hf commands know about it: hf -d       *)
(* (server() and server_run_process in src/src/server.c), hf status and    *)
(* hf stop (src/src/control.c), the state file they share                  *)
(* (src/src/daemon_state.c) and the watcher thread that refreshes the      *)
(* address in it.                                                          *)
(*                                                                         *)
(* The state file is replaced by a rename and read in one go, so it is one *)
(* variable.  Looking at it and at the process it names is one step,       *)
(* removing it another.  A daemon is named after the launcher that forked  *)
(* it.  The process id of a dead daemon can go to an unrelated process.    *)
(***************************************************************************)
EXTENDS Naturals

CONSTANTS
    Launchers,   \* hf -d commands, and the daemons they fork
    Controls,    \* hf status and hf stop commands
    Port,        \* the port each launcher is given
    Urls,        \* addresses the host can have
    MaxChanges,  \* bound: how often the network changes
    Overlap,     \* whether commands run at the same time
    Reuse,       \* whether process ids are reused
    NoState      \* there is no state file, or nothing was read from it

ASSUME DaemonControlAssumption ==
    /\ MaxChanges \in Nat
    /\ Overlap \in BOOLEAN
    /\ Reuse \in BOOLEAN
    /\ Urls # {}
    /\ NoState \notin [pid : Launchers, url : Urls]
    /\ NoState \notin Launchers

VARIABLES
    state,    \* the state file
    net,      \* the address of the host
    changes,  \* how often it has changed
    taken,    \* process ids of dead daemons that strangers have now
    lpc,      \* where each launcher is
    pipe,     \* what the daemon has written to the ready pipe
    dpc,      \* where each daemon's main thread is
    req,      \* daemons that were asked to shut down
    wpc,      \* where each daemon's watcher is
    built,    \* the address the watcher has just built
    last,     \* last_web_url of the watcher
    cpc,      \* where each control command is
    kind,     \* "status" or "stop"
    seen,     \* the daemon a control command has read from the file
    result,   \* what it printed
    struck    \* strangers that were sent SIGTERM

vars == <<state, net, changes, taken, lpc, pipe, dpc, req, wpc, built, last, cpc,
          kind, seen, result, struck>>

launcherVars == <<lpc, pipe>>
watcherVars == <<wpc, built, last>>
controlVars == <<cpc, kind, seen, result, struck>>
envVars == <<net, changes, taken>>

StateFile == [pid : Launchers, url : Urls] \cup {NoState}
LauncherPCs == {"idle", "prepare", "clean", "fork", "wait", "interrupted", "reap", "ok",
                "failed", "refused"}
DaemonPCs == {"none", "bind", "persist", "notify", "serve", "close", "join",
              "cleanup", "exited", "killed"}
ControlPCs == {"idle", "load", "clean", "kill", "poll", "remove", "done"}
Results == {"none", "running", "already stopped", "failed", "timed out", "stopped"}

TypeOK ==
    /\ state \in StateFile
    /\ net \in Urls
    /\ changes \in 0..MaxChanges
    /\ taken \subseteq Launchers
    /\ lpc \in [Launchers -> LauncherPCs]
    /\ pipe \in [Launchers -> {"empty", "ready", "failed"}]
    /\ dpc \in [Launchers -> DaemonPCs]
    /\ req \subseteq Launchers
    /\ wpc \in [Launchers -> {"none", "sleep", "persist", "stopped"}]
    /\ built \in [Launchers -> Urls]
    /\ last \in [Launchers -> Urls]
    /\ cpc \in [Controls -> ControlPCs]
    /\ kind \in [Controls -> {"status", "stop"}]
    /\ seen \in [Controls -> Launchers \cup {NoState}]
    /\ result \in [Controls -> Results]
    /\ struck \subseteq Launchers
    /\ \A k \in Controls : cpc[k] \in {"kill", "poll"} => seen[k] # NoState

Init ==
    /\ state = NoState
    /\ net \in Urls
    /\ changes = 0
    /\ taken = {}
    /\ lpc = [l \in Launchers |-> "idle"]
    /\ pipe = [l \in Launchers |-> "empty"]
    /\ dpc = [l \in Launchers |-> "none"]
    /\ req = {}
    /\ wpc = [l \in Launchers |-> "none"]
    /\ built = [l \in Launchers |-> net]
    /\ last = [l \in Launchers |-> net]
    /\ cpc = [k \in Controls |-> "idle"]
    /\ kind = [k \in Controls |-> "status"]
    /\ seen = [k \in Controls |-> NoState]
    /\ result = [k \in Controls |-> "none"]
    /\ struck = {}

---------------------------------------------------------------------------

\* The daemon's process exists.
Running(l) == dpc[l] \notin {"none", "exited", "killed"}

\* kill(pid, 0): some process has the pid; EPERM says so too.
PidIsRunning(l) == Running(l) \/ l \in taken

\* The state file can be read and names a process that exists.
StateIsLive == state # NoState /\ PidIsRunning(state.pid)

LauncherDone(l) == lpc[l] \in {"idle", "ok", "failed", "refused"}
ControlDone(k) == cpc[k] \in {"idle", "done"}

\* A start is under way: the command is at work, or its daemon is on its way up,
\* or down again.  A parent that only waits for the end of its daemon is not.
Starting(l) ==
    \/ lpc[l] \in {"prepare", "clean", "fork", "wait", "interrupted"}
    \/ Running(l) /\ pipe[l] # "ready"

\* A command may be started: at any time, or only when no other one is at work.
MayStart ==
    \/ Overlap
    \/ /\ \A l \in Launchers : ~Starting(l)
       /\ \A k \in Controls : ControlDone(k)

---------------------------------------------------------------------------
(* hf -d, the parent. *)

LauncherGoto(l, next) ==
    /\ lpc' = [lpc EXCEPT ![l] = next]
    /\ UNCHANGED <<envVars, pipe, req, watcherVars, controlVars>>

StartDaemonCommand(l) ==
    /\ lpc[l] = "idle"
    /\ MayStart
    /\ LauncherGoto(l, "prepare")
    /\ UNCHANGED <<state, dpc>>

\* Mutant: a state file is always taken for a stale one.
PrepareIgnoringState(l) ==
    /\ lpc[l] = "prepare"
    /\ LauncherGoto(l, IF state # NoState THEN "clean" ELSE "fork")
    /\ UNCHANGED <<state, dpc>>

\* server_prepare_daemon_state: "HFile is already running", a stale file, or no
\* file.
Prepare(l) ==
    /\ lpc[l] = "prepare"
    /\ LauncherGoto(l, IF StateIsLive THEN "refused"
                       ELSE IF state # NoState THEN "clean" ELSE "fork")
    /\ UNCHANGED <<state, dpc>>

\* Its daemon_state_cleanup_files.
CleanStale(l) ==
    /\ lpc[l] = "clean"
    /\ state' = NoState
    /\ LauncherGoto(l, "fork")
    /\ UNCHANGED dpc

\* pipe and fork; either can fail.
Fork(l) ==
    /\ lpc[l] = "fork"
    /\ \/ /\ LauncherGoto(l, "wait")
          /\ dpc' = [dpc EXCEPT ![l] = "bind"]
       \/ /\ LauncherGoto(l, "failed")
          /\ UNCHANGED dpc
    /\ UNCHANGED state

\* server_wait_for_daemon_ready: the byte 1, or a 0 or the end of the pipe.
WaitReady(l) ==
    /\ lpc[l] = "wait"
    /\ \/ pipe[l] = "ready" /\ LauncherGoto(l, "ok")
       \/ /\ pipe[l] = "failed" \/ (pipe[l] = "empty" /\ ~Running(l))
          /\ LauncherGoto(l, "reap")
    /\ UNCHANGED <<state, dpc>>

\* SIGINT or SIGTERM reaches the parent, whose handlers are installed without
\* SA_RESTART: an empty read fails with EINTR, and a waitpid is given up.
Interrupt(l) ==
    /\ \/ lpc[l] = "wait" /\ pipe[l] = "empty" /\ Running(l) /\ LauncherGoto(l, "interrupted")
       \/ lpc[l] = "reap" /\ Running(l) /\ LauncherGoto(l, "failed")
    /\ UNCHANGED <<state, dpc>>

\* After a read that failed the pipe is closed; what the daemon has written
\* meanwhile is lost.
CloseReady(l) ==
    /\ lpc[l] = "interrupted"
    /\ LauncherGoto(l, "reap")
    /\ UNCHANGED <<state, dpc>>

\* waitpid returns once the daemon has ended.
Reap(l) ==
    /\ lpc[l] = "reap"
    /\ ~Running(l)
    /\ LauncherGoto(l, "failed")
    /\ UNCHANGED <<state, dpc>>

---------------------------------------------------------------------------
(* The daemon. *)

DaemonGoto(l, next) ==
    /\ dpc' = [dpc EXCEPT ![l] = next]
    /\ UNCHANGED <<envVars, lpc, controlVars>>

\* setsid, redirected output, the stores and the listening socket.  Another
\* daemon may have the port, or any of them may fail.
Bind(l) ==
    /\ dpc[l] = "bind"
    /\ \/ /\ \A m \in Launchers \ {l} : Port[m] = Port[l] =>
                dpc[m] \notin {"persist", "notify", "serve", "close", "join"}
          /\ DaemonGoto(l, "persist")
       \/ DaemonGoto(l, "close")
       \/ DaemonGoto(l, "exited")            \* setsid or the log file failed
    /\ UNCHANGED <<state, pipe, req, watcherVars>>

\* server_persist_daemon_state and server_start_state_watcher.  Without a file
\* the daemon stops, without a watcher it goes on.
Persist(l) ==
    /\ dpc[l] = "persist"
    /\ \/ /\ state' = [pid |-> l, url |-> net]
          /\ \/ /\ wpc' = [wpc EXCEPT ![l] = "sleep"]
                /\ last' = [last EXCEPT ![l] = net]
             \/ UNCHANGED <<wpc, last>>
          /\ DaemonGoto(l, "notify")
          /\ UNCHANGED built
       \/ /\ DaemonGoto(l, "close")
          /\ UNCHANGED <<state, watcherVars>>
    /\ UNCHANGED <<pipe, req>>

\* Mutant: the parent is not told.
NotifyForgotten(l) ==
    /\ dpc[l] = "notify"
    /\ DaemonGoto(l, "serve")
    /\ UNCHANGED <<state, pipe, req, watcherVars>>

\* Nobody reads the ready pipe any more; writing to it raises SIGPIPE.
ReaderGone(l) == lpc[l] \notin {"wait", "interrupted"}

\* server_notify_parent with 1.  Without a reader SIGPIPE kills the daemon; if
\* the write just fails the daemon stops.
Notify(l) ==
    /\ dpc[l] = "notify"
    /\ \/ /\ ~ReaderGone(l)
          /\ pipe' = [pipe EXCEPT ![l] = "ready"]
          /\ DaemonGoto(l, "serve")
          /\ UNCHANGED wpc
       \/ /\ pipe' = [pipe EXCEPT ![l] = "failed"]
          /\ DaemonGoto(l, "close")
          /\ UNCHANGED wpc
       \/ /\ ReaderGone(l)
          /\ wpc' = [wpc EXCEPT ![l] = "stopped"]
          /\ DaemonGoto(l, "killed")
          /\ UNCHANGED pipe
    /\ UNCHANGED <<state, req, built, last>>

\* SIGINT or SIGTERM from elsewhere than hf stop.
Signal(l) ==
    /\ Running(l)
    /\ l \notin req
    /\ req' = req \cup {l}
    /\ UNCHANGED <<state, envVars, launcherVars, dpc, watcherVars, controlVars>>

\* server_run_listener returns: a shutdown was requested.
LeaveListener(l) ==
    /\ dpc[l] = "serve"
    /\ l \in req
    /\ DaemonGoto(l, "close")
    /\ UNCHANGED <<state, pipe, req, watcherVars>>

\* CLOSE_SOCK: shutdown_request.
Close(l) ==
    /\ dpc[l] = "close"
    /\ req' = req \cup {l}
    /\ DaemonGoto(l, "join")
    /\ UNCHANGED <<state, pipe, watcherVars>>

\* Mutant: the watcher is not joined.
JoinSkipped(l) ==
    /\ dpc[l] = "join"
    /\ DaemonGoto(l, "cleanup")
    /\ UNCHANGED <<state, pipe, req, watcherVars>>

\* server_join_state_watcher, and the rest of the shutdown of the server.
Join(l) ==
    /\ dpc[l] = "join"
    /\ wpc[l] \in {"none", "stopped"}
    /\ DaemonGoto(l, "cleanup")
    /\ UNCHANGED <<state, pipe, req, watcherVars>>

\* CLEAN_UP: the parent is told 0 if it was told nothing, which kills the daemon
\* if nobody reads it; the state file is removed, whatever it says, and the
\* process ends.
CleanUp(l) ==
    /\ dpc[l] = "cleanup"
    /\ \/ /\ pipe' = [pipe EXCEPT ![l] = IF @ = "empty" THEN "failed" ELSE @]
          /\ state' = NoState
          /\ DaemonGoto(l, "exited")
       \/ /\ pipe[l] = "empty" /\ ReaderGone(l)
          /\ DaemonGoto(l, "killed")
          /\ UNCHANGED <<state, pipe>>
    /\ UNCHANGED <<req, watcherVars>>

\* The process is killed.
Kill(l) ==
    /\ Running(l)
    /\ wpc' = [wpc EXCEPT ![l] = "stopped"]
    /\ DaemonGoto(l, "killed")
    /\ UNCHANGED <<state, pipe, req, built, last>>

---------------------------------------------------------------------------
(* The watcher thread. *)

WatcherUnchanged == UNCHANGED <<envVars, launcherVars, dpc, req, controlVars>>

\* server_wait_for_refresh_interval and the loop condition see the request.
WatcherStops(l) ==
    /\ wpc[l] = "sleep"
    /\ l \in req
    /\ wpc' = [wpc EXCEPT ![l] = "stopped"]
    /\ UNCHANGED <<state, built, last>>
    /\ WatcherUnchanged

\* The interval is over: the address is built and compared with the last one.
WatcherBuilds(l) ==
    /\ wpc[l] = "sleep"
    /\ l \notin req
    /\ net # last[l]
    /\ built' = [built EXCEPT ![l] = net]
    /\ wpc' = [wpc EXCEPT ![l] = "persist"]
    /\ UNCHANGED <<state, last>>
    /\ WatcherUnchanged

\* server_persist_daemon_state builds the address once more and writes it; what
\* is remembered and logged is the one built before.  A failed write is retried
\* after the next interval.
WatcherPersists(l) ==
    /\ wpc[l] = "persist"
    /\ wpc' = [wpc EXCEPT ![l] = "sleep"]
    /\ \/ /\ state' = [pid |-> l, url |-> net]
          /\ last' = [last EXCEPT ![l] = built[l]]
       \/ UNCHANGED <<state, last>>
    /\ UNCHANGED built
    /\ WatcherUnchanged

NetworkChanges ==
    /\ changes < MaxChanges
    /\ changes' = changes + 1
    /\ net' \in Urls \ {net}
    /\ UNCHANGED <<state, taken, launcherVars, dpc, req, watcherVars, controlVars>>

\* The kernel gives the pid of a daemon that is gone, and that its parent does
\* not wait for, to an unrelated process ...
PidReused(l) ==
    /\ Reuse
    /\ dpc[l] \in {"exited", "killed"}
    /\ lpc[l] \notin {"wait", "interrupted", "reap"}
    /\ l \notin taken
    /\ taken' = taken \cup {l}
    /\ UNCHANGED <<state, net, changes, launcherVars, dpc, req, watcherVars, controlVars>>

\* ... which ends at some time.
StrangerEnds(l) ==
    /\ l \in taken
    /\ taken' = taken \ {l}
    /\ UNCHANGED <<state, net, changes, launcherVars, dpc, req, watcherVars, controlVars>>

---------------------------------------------------------------------------
(* hf status and hf stop. *)

ControlGoto(k, next) ==
    /\ cpc' = [cpc EXCEPT ![k] = next]
    /\ UNCHANGED <<envVars, launcherVars, dpc, watcherVars>>

StartControl(k) ==
    /\ cpc[k] = "idle"
    /\ MayStart
    /\ \E c \in {"status", "stop"} : kind' = [kind EXCEPT ![k] = c]
    /\ ControlGoto(k, "load")
    /\ UNCHANGED <<state, req, seen, result, struck>>

\* Mutant: the state file is removed although its daemon runs.
LoadAlwaysStale(k) ==
    /\ cpc[k] = "load"
    /\ ControlGoto(k, "clean")
    /\ UNCHANGED <<state, req, kind, seen, result, struck>>

\* control_load_running_state up to its daemon_state_cleanup_files.
Load(k) ==
    /\ cpc[k] = "load"
    /\ IF StateIsLive
       THEN /\ seen' = [seen EXCEPT ![k] = state.pid]
            /\ IF kind[k] = "stop"
               THEN ControlGoto(k, "kill") /\ UNCHANGED result
               ELSE ControlGoto(k, "done") /\ result' = [result EXCEPT ![k] = "running"]
       ELSE ControlGoto(k, "clean") /\ UNCHANGED <<seen, result>>
    /\ UNCHANGED <<state, req, kind, struck>>

\* "No running daemon" or "already stopped".
CleanControl(k) ==
    /\ cpc[k] = "clean"
    /\ state' = NoState
    /\ result' = [result EXCEPT ![k] = "already stopped"]
    /\ ControlGoto(k, "done")
    /\ UNCHANGED <<req, kind, seen, struck>>

\* kill(SIGTERM) goes to whoever has the pid now.  ESRCH means that it has just
\* stopped; a stranger of another user cannot be signalled (EPERM).
StopKills(k) ==
    /\ cpc[k] = "kill"
    /\ \/ /\ PidIsRunning(seen[k])
          /\ IF Running(seen[k])
             THEN req' = req \cup {seen[k]} /\ UNCHANGED struck
             ELSE struck' = struck \cup {seen[k]} /\ UNCHANGED req
          /\ ControlGoto(k, "poll")
          /\ UNCHANGED result
       \/ /\ seen[k] \in taken
          /\ ControlGoto(k, "done")
          /\ result' = [result EXCEPT ![k] = "failed"]
          /\ UNCHANGED <<req, struck>>
       \/ /\ ~PidIsRunning(seen[k])
          /\ ControlGoto(k, "clean")
          /\ UNCHANGED <<req, result, struck>>
    /\ UNCHANGED <<state, kind, seen>>

\* Mutant: the last poll is not checked.
StopPollsOnce(k) ==
    /\ cpc[k] = "poll"
    /\ ControlGoto(k, "remove")
    /\ UNCHANGED <<state, req, kind, seen, result, struck>>

\* The 100 polls: the process is gone, or it is still there after 5 seconds.
StopPolls(k) ==
    /\ cpc[k] = "poll"
    /\ \/ ~PidIsRunning(seen[k]) /\ ControlGoto(k, "remove") /\ UNCHANGED result
       \/ /\ PidIsRunning(seen[k])
          /\ ControlGoto(k, "done")
          /\ result' = [result EXCEPT ![k] = "timed out"]
    /\ UNCHANGED <<state, req, kind, seen, struck>>

\* daemon_state_cleanup_files and "Server stopped".
StopRemoves(k) ==
    /\ cpc[k] = "remove"
    /\ state' = NoState
    /\ result' = [result EXCEPT ![k] = "stopped"]
    /\ ControlGoto(k, "done")
    /\ UNCHANGED <<req, kind, seen, struck>>

---------------------------------------------------------------------------

Launcher(l) ==
    \/ Prepare(l) \/ CleanStale(l) \/ Fork(l) \/ WaitReady(l) \/ CloseReady(l)
    \/ Reap(l)

Daemon(l) ==
    \/ Bind(l) \/ Persist(l) \/ Notify(l) \/ LeaveListener(l) \/ Close(l) \/ Join(l)
    \/ CleanUp(l)

Watcher(l) == WatcherStops(l) \/ WatcherBuilds(l) \/ WatcherPersists(l)

Control(k) ==
    Load(k) \/ CleanControl(k) \/ StopKills(k) \/ StopPolls(k) \/ StopRemoves(k)

Next ==
    \/ \E l \in Launchers :
          \/ StartDaemonCommand(l) \/ Launcher(l) \/ Interrupt(l)
          \/ Daemon(l) \/ Signal(l) \/ Kill(l) \/ Watcher(l)
          \/ PidReused(l) \/ StrangerEnds(l)
    \/ \E k \in Controls : StartControl(k) \/ Control(k)
    \/ NetworkChanges

\* Processes and threads that can take a step take one.
Fairness ==
    /\ \A l \in Launchers : WF_vars(Launcher(l)) /\ WF_vars(Daemon(l)) /\ WF_vars(Watcher(l))
    /\ \A k \in Controls : WF_vars(Control(k))

\* Writing the state file does not fail for ever.
WritesSucceed == \A l \in Launchers : SF_vars(WatcherPersists(l) /\ last' # last)

Spec == Init /\ [][Next]_vars

FairSpec == Spec /\ Fairness /\ WritesSucceed

---------------------------------------------------------------------------
(* Properties. *)

\* Only one daemon serves at a time, as "HFile is already running" promises,
\* also right after a stop that timed out or a crash.
OneDaemon ==
    \A l, m \in Launchers : dpc[l] = "serve" /\ dpc[m] = "serve" => l = m

\* The state file names the daemon that serves, so that hf status and hf stop
\* find it.
Findable ==
    \A l \in Launchers : dpc[l] = "serve" => state # NoState /\ state.pid = l

\* A daemon that ended by itself has removed its state file, and its watcher
\* does not bring it back.
NoStateAfterExit ==
    \A l \in Launchers : dpc[l] = "exited" => state = NoState \/ state.pid # l

\* hf stop says "Server stopped" or "already stopped" only when no daemon
\* serves, and hf status says "No running daemon" only then.
StoppedIsTrue ==
    [][\A k \in Controls :
          result'[k] \in {"already stopped", "stopped"} /\ result[k] = "none" =>
              \A l \in Launchers : dpc[l] # "serve"]_vars

\* hf stop signals daemons only: a state file whose daemon is gone is stale, and
\* for a stale file hf stop says "already stopped".  The code compares nothing
\* but the pid and violates it.
StopStrikesDaemonsOnly == struck = {}

\* Every command comes to an end (each is run once), with one exception: a signal
\* can interrupt the read of the ready pipe just before the daemon writes to it.
\* The parent then waits for the end of a daemon that serves, and only that end,
\* which a request to stop brings about, or a second signal, lets it go.
CommandsEnd ==
    <>[](/\ \A l \in Launchers :
              \/ LauncherDone(l)
              \/ lpc[l] = "reap" /\ dpc[l] = "serve" /\ l \notin req
         /\ \A k \in Controls : ControlDone(k))

\* Once the network stays as it is, the address in the state file of a daemon
\* with a watcher becomes the current one, as the message "network changed,
\* updated web ui address to %s" says.
UrlBecomesCurrent ==
    <>[](\A l \in Launchers :
            dpc[l] = "serve" /\ wpc[l] # "none" => state # NoState /\ state.url = net)
=============================================================================
