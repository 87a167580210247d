--------------------------- MODULE ServerProcess ---------------------------
(***************************************************************************)
(* The server process: the listener loop and the shutdown sequence of      *)
(* server_run_process (src/src/server.c), the connection tracker           *)
(* (src/src/server_conn_tracker.c), the threads it counts, the descriptors *)
(* they use and the signal that stops it all (src/src/shutdown.c).         *)
(*                                                                         *)
(* A critical section of the tracker's mutex is one atomic step.  What a   *)
(* handler reads and writes is abstracted to the blocking calls it makes,  *)
(* in its order:                                                           *)
(*    request   recv, reply                                                *)
(*    upload    recv, [send READY,] recvfile, reply                        *)
(*    download  recv, send READY or header, sendfile, [reply]              *)
(*    stream    recv, send headers, (wait for a message, send)*            *)
(***************************************************************************)
EXTENDS Integers, FiniteSets

CONSTANTS
    Conns,    \* connections, and the threads that serve them
    Fds,      \* descriptor numbers accept can return
    None      \* no connection, no descriptor

ASSUME ProcessAssumption ==
    /\ IsFiniteSet(Conns)
    /\ None \notin Conns
    /\ None \notin Fds

VARIABLES
    requested,      \* g_shutdown_requested
    main,           \* where the main thread is in server_run_process
    cur,            \* the connection server_run_listener holds
    watcher,        \* the state watcher thread of a daemon
    initialized,    \* g_server_conn_tracker.initialized
    shutting_down,  \* g_server_conn_tracker.shutting_down
    active_count,   \* g_server_conn_tracker.active_count
    entries,        \* the connections on the list at g_server_conn_tracker.head
    storeShut,      \* message_store_shutdown has been called
    pc,             \* where each connection thread is
    role,           \* what the peer asked for
    fdOf,           \* the descriptor number each thread holds in "conn"
    owner,          \* the kernel's table: the connection behind a descriptor
    aborted,        \* connections shut down with SHUT_RDWR
    inbox,          \* bytes have arrived on the connection and are not read yet
    gone,           \* connections whose peer has closed or reset
    temps           \* uploads whose temporary file is on disk

vars == <<requested, main, cur, watcher, initialized, shutting_down,
          active_count, entries, storeShut, pc, role, fdOf, owner, aborted,
          inbox, gone, temps>>

tracker == <<initialized, shutting_down, active_count, entries>>
sockets == <<fdOf, owner, aborted>>
peers == <<inbox, gone>>

MainPCs == {"init", "bind", "listen", "select", "begin", "spawn", "drop",
            "closing", "join", "store", "abort", "idle", "idleWait", "cleanup",
            "exited", "killed"}
ThreadPCs == {"none", "held", "detect", "recv", "send", "recvfile",
              "sendfile", "stream", "reply", "finish", "closed", "ended"}
Roles == {"request", "upload", "download", "stream"}

TypeOK ==
    /\ requested \in BOOLEAN
    /\ main \in MainPCs
    /\ cur \in Conns \cup {None}
    /\ watcher \in {"none", "running", "stopped"}
    /\ initialized \in BOOLEAN
    /\ shutting_down \in BOOLEAN
    /\ active_count \in 0..Cardinality(Conns)
    /\ entries \subseteq Conns
    /\ storeShut \in BOOLEAN
    /\ pc \in [Conns -> ThreadPCs]
    /\ role \in [Conns -> Roles]
    /\ fdOf \in [Conns -> Fds \cup {None}]
    /\ owner \in [Fds -> Conns \cup {None}]
    /\ aborted \subseteq Conns
    /\ inbox \subseteq Conns
    /\ gone \subseteq Conns
    /\ temps \subseteq Conns

Init ==
    /\ requested = FALSE
    /\ main = "init"
    /\ cur = None
    /\ watcher = "none"
    /\ initialized = FALSE
    /\ shutting_down = FALSE
    /\ active_count = 0
    /\ entries = {}
    /\ storeShut = FALSE
    /\ pc = [c \in Conns |-> "none"]
    /\ role = [c \in Conns |-> "request"]
    /\ fdOf = [c \in Conns |-> None]
    /\ owner = [f \in Fds |-> None]
    /\ aborted = {}
    /\ inbox = {}
    /\ gone = {}
    /\ temps = {}

---------------------------------------------------------------------------
(* The tracker. *)

\* Mutant: the entry is linked and not counted.
EnterUncounted(c) ==
    /\ entries' = entries \cup {c}
    /\ UNCHANGED <<initialized, shutting_down, active_count>>

\* The list and the count after server_conn_tracker_begin(c).
Enter(c) ==
    /\ entries' = entries \cup {c}
    /\ active_count' = active_count + 1
    /\ UNCHANGED <<initialized, shutting_down>>

\* server_conn_tracker_end(c): unlink, count down, and wake the main thread
\* when the last connection ends during a shutdown.
Leave(c) ==
    /\ entries' = entries \ {c}
    /\ active_count' = IF active_count > 0 THEN active_count - 1 ELSE 0
    /\ UNCHANGED <<initialized, shutting_down>>

\* Mutant: the main thread is never woken.
NeverWakesMain == FALSE

\* server_conn_tracker_end broadcasts to a waiting main thread.
WakesMain == shutting_down /\ active_count' = 0 /\ main = "idleWait"

---------------------------------------------------------------------------
(* Start-up and the listener loop, run by the main thread. *)

\* message_store_init and server_conn_tracker_init; either can fail.
InitStores ==
    /\ main = "init"
    /\ \/ /\ main' = "bind"
          /\ initialized' = TRUE
       \/ /\ main' = "cleanup"
          /\ UNCHANGED initialized
    /\ UNCHANGED <<requested, cur, watcher, shutting_down, active_count,
                   entries, storeShut, pc, role, sockets, peers, temps>>

\* create_listener_socket, then in daemon mode the state file and the watcher,
\* then the notification of the parent.  A failure goes to CLOSE_SOCK.
Bind ==
    /\ main = "bind"
    /\ main' \in {"listen", "closing"}
    /\ watcher' \in {"none", "running"}
    /\ UNCHANGED <<requested, cur, tracker, storeShut, pc, role, sockets,
                   peers, temps>>

\* The top of the loop of server_run_listener: leave on a shutdown request,
\* otherwise wait for a connection in net_wait_readable.
TestShutdown ==
    /\ main = "listen"
    /\ main' = IF requested THEN "closing" ELSE "select"
    /\ UNCHANGED <<requested, cur, watcher, tracker, storeShut, pc, role,
                   sockets, peers, temps>>

\* 250 ms pass, or a signal interrupts select, or accept fails.
SelectReturns ==
    /\ main = "select"
    /\ main' = "listen"
    /\ UNCHANGED <<requested, cur, watcher, tracker, storeShut, pc, role,
                   sockets, peers, temps>>

\* accept: the kernel gives a free descriptor.
Accept(c) ==
    /\ main = "select"
    /\ pc[c] = "none"
    /\ \E f \in Fds :
          /\ owner[f] = None
          /\ owner' = [owner EXCEPT ![f] = c]
          /\ fdOf' = [fdOf EXCEPT ![c] = f]
    /\ main' = "begin"
    /\ cur' = c
    /\ pc' = [pc EXCEPT ![c] = "held"]
    /\ UNCHANGED <<requested, watcher, tracker, storeShut, role, aborted,
                   peers, temps>>

\* server_conn_tracker_begin.  It returns NULL when malloc fails or when the
\* tracker is shutting down.
TrackerBegin ==
    /\ main = "begin"
    /\ ~shutting_down
    /\ Enter(cur)
    /\ main' = "spawn"
    /\ UNCHANGED <<requested, cur, watcher, storeShut, pc, role, sockets,
                   peers, temps>>

BeginFails ==
    /\ main = "begin"
    /\ main' = "drop"
    /\ UNCHANGED <<requested, cur, watcher, tracker, storeShut, pc, role,
                   sockets, peers, temps>>

\* pthread_create succeeds; the thread is detached.
Spawn ==
    /\ main = "spawn"
    /\ main' = "listen"
    /\ cur' = None
    /\ pc' = [pc EXCEPT ![cur] = "detect"]
    /\ UNCHANGED <<requested, watcher, tracker, storeShut, role, sockets,
                   peers, temps>>

\* pthread_create fails: server_conn_tracker_end, and the caller closes.
SpawnFails ==
    /\ main = "spawn"
    /\ Leave(cur)
    /\ main' = "drop"
    /\ UNCHANGED <<requested, cur, watcher, storeShut, pc, role, sockets,
                   peers, temps>>

\* server_run_listener closes a connection whose thread did not start.
Drop ==
    /\ main = "drop"
    /\ owner' = [owner EXCEPT ![fdOf[cur]] = None]
    /\ pc' = [pc EXCEPT ![cur] = "ended"]
    /\ main' = "listen"
    /\ cur' = None
    /\ UNCHANGED <<requested, watcher, tracker, storeShut, role, fdOf,
                   aborted, peers, temps>>

\* shutdown_signal_handler, on whichever thread.
Signal ==
    /\ ~requested
    /\ main \notin {"exited", "killed"}
    /\ requested' = TRUE
    /\ UNCHANGED <<main, cur, watcher, tracker, storeShut, pc, role, sockets,
                   peers, temps>>

---------------------------------------------------------------------------
(* CLOSE_SOCK and CLEAN_UP of server_run_process. *)

\* shutdown_request().
ShutdownRequest ==
    /\ main = "closing"
    /\ requested' = TRUE
    /\ main' = "join"
    /\ UNCHANGED <<cur, watcher, tracker, storeShut, pc, role, sockets,
                   peers, temps>>

\* The watcher sees shutdown_requested() within a second.
WatcherStops ==
    /\ watcher = "running"
    /\ requested
    /\ watcher' = "stopped"
    /\ UNCHANGED <<requested, main, cur, tracker, storeShut, pc, role,
                   sockets, peers, temps>>

\* server_join_state_watcher.
JoinWatcher ==
    /\ main = "join"
    /\ watcher # "running"
    /\ main' = "store"
    /\ UNCHANGED <<requested, cur, watcher, tracker, storeShut, pc, role,
                   sockets, peers, temps>>

\* message_store_shutdown, and the listening socket is closed.
StoreShutdown ==
    /\ main = "store"
    /\ storeShut' = TRUE
    /\ main' = "abort"
    /\ UNCHANGED <<requested, cur, watcher, tracker, pc, role, sockets,
                   peers, temps>>

\* server_conn_tracker_shutdown_all calls shutdown() with the descriptor of
\* every entry.  The kernel shuts down whatever is behind that number now:
\* a thread closes its descriptor before it leaves the list, so it can be
\* another connection than the entry's, or none.
ShutdownAll ==
    /\ main = "abort"
    /\ shutting_down' = TRUE
    /\ aborted' = aborted \cup ({owner[fdOf[c]] : c \in entries} \cap Conns)
    /\ main' = "idle"
    /\ UNCHANGED <<requested, cur, watcher, initialized, active_count,
                   entries, storeShut, pc, role, fdOf, owner, peers, temps>>

\* The loop of server_conn_tracker_wait_idle: the count is tested with the
\* lock held, and pthread_cond_wait releases it.
WaitIdle ==
    /\ main = "idle"
    /\ main' = IF active_count > 0 THEN "idleWait" ELSE "cleanup"
    /\ UNCHANGED <<requested, cur, watcher, tracker, storeShut, pc, role,
                   sockets, peers, temps>>

\* A spurious wake-up of pthread_cond_wait.
IdleWakesSpuriously ==
    /\ main = "idleWait"
    /\ main' = "idle"
    /\ UNCHANGED <<requested, cur, watcher, tracker, storeShut, pc, role,
                   sockets, peers, temps>>

\* message_store_cleanup and server_conn_tracker_cleanup; the process ends.
Cleanup ==
    /\ main = "cleanup"
    /\ main' = "exited"
    /\ initialized' = FALSE
    /\ shutting_down' = FALSE
    /\ active_count' = 0
    /\ entries' = {}
    /\ UNCHANGED <<requested, cur, watcher, storeShut, pc, role, sockets,
                   peers, temps>>

---------------------------------------------------------------------------
(* The connection threads. *)

\* A thread moves on and touches nothing but its own state.
Goto(c, next) ==
    /\ pc' = [pc EXCEPT ![c] = next]
    /\ UNCHANGED <<requested, main, cur, watcher, tracker, storeShut, sockets,
                   gone>>

\* recv returns 0 or an error: the peer is gone or the socket was shut down.
Broken(c) == c \in gone \cup aborted

\* server_detect_connection_kind peeks at the first bytes; fewer than two are
\* the invalid kind.
Detect(c) ==
    /\ pc[c] = "detect"
    /\ c \in inbox
    /\ \/ \E r \in Roles : Goto(c, "recv") /\ role' = [role EXCEPT ![c] = r]
       \/ Goto(c, "finish") /\ UNCHANGED role
    /\ UNCHANGED <<inbox, temps>>

\* recv_all of the header and prefix, or the HTTP header block.
RecvRequest(c) ==
    /\ pc[c] = "recv"
    /\ c \in inbox
    /\ inbox' = inbox \ {c}
    /\ \/ /\ Goto(c, IF role[c] = "request" THEN "reply" ELSE "send")
          /\ UNCHANGED temps
       \/ /\ Goto(c, "reply")            \* the request is rejected
          /\ UNCHANGED temps
       \/ /\ role[c] = "upload"          \* HTTP PUT has no READY response
          /\ Goto(c, "recvfile")
          /\ temps' = temps \cup {c}
    /\ UNCHANGED role

\* One more chunk of an upload (recv_socket_file, recv_socket_http_file); the
\* last one renames the temporary file to its final name.
RecvFile(c) ==
    /\ pc[c] = "recvfile"
    /\ c \in inbox
    /\ inbox' = inbox \ {c}
    /\ \/ /\ Goto(c, "recvfile")
          /\ UNCHANGED temps
       \/ /\ Goto(c, "reply")
          /\ temps' = temps \ {c}
    /\ UNCHANGED role

\* Mutant: an upload that fails leaves its temporary file behind.
RecvFailsKeepingTemp(c) ==
    /\ pc[c] \in {"detect", "recv", "recvfile"}
    /\ c \notin inbox
    /\ \/ Goto(c, "finish")
       \/ pc[c] # "detect" /\ Goto(c, "reply")
    /\ UNCHANGED <<inbox, role, temps>>

\* A receive fails: an invalid connection ends, a request is rejected or
\* dropped, an upload removes its temporary file first.
RecvFails(c) ==
    /\ pc[c] \in {"detect", "recv", "recvfile"}
    /\ c \notin inbox
    /\ temps' = temps \ {c}
    /\ \/ Goto(c, "finish")
       \/ pc[c] # "detect" /\ Goto(c, "reply")
    /\ UNCHANGED <<inbox, role>>

RecvBroken(c) == Broken(c) /\ RecvFails(c)

\* SO_RCVTIMEO: nothing arrives for 15 seconds.
RecvTimesOut(c) == ~Broken(c) /\ RecvFails(c)

\* send_all of a READY response, of HTTP or SSE headers, or of an SSE event.
\* There is no send timeout: it blocks as long as the peer does not read.
Send(c) ==
    /\ pc[c] = "send"
    /\ ~Broken(c)
    /\ UNCHANGED <<inbox, role>>
    /\ \/ role[c] = "download" /\ Goto(c, "sendfile") /\ UNCHANGED temps
       \/ role[c] = "stream" /\ Goto(c, "stream") /\ UNCHANGED temps
       \/ role[c] = "upload" /\ Goto(c, "recvfile") /\ temps' = temps \cup {c}

\* The body of a download (net_send_file_best_effort); the native protocol
\* sends a FINAL response after it.
SendFile(c) ==
    /\ pc[c] = "sendfile"
    /\ ~Broken(c)
    /\ \E next \in {"reply", "finish"} : Goto(c, next)
    /\ UNCHANGED <<inbox, role, temps>>

Reply(c) ==
    /\ pc[c] = "reply"
    /\ ~Broken(c)
    /\ Goto(c, "finish")
    /\ UNCHANGED <<inbox, role, temps>>

\* send_all passes MSG_NOSIGNAL, so a broken connection is an error code.
\* sendfile's error code is ECONNRESET when the peer reset the connection, or
\* the body went through send_all because sendfile is unsupported.
SendBroken(c) ==
    /\ pc[c] \in {"send", "reply", "sendfile"}
    /\ Broken(c)
    /\ \/ Goto(c, "finish")
       \/ pc[c] = "sendfile" /\ Goto(c, "reply")
    /\ UNCHANGED <<inbox, role, temps>>

\* sendfile() has no MSG_NOSIGNAL and the program leaves SIGPIPE at its
\* default: writing to a closed or shut down connection kills the process.
SendfileSigpipe(c) ==
    /\ pc[c] = "sendfile"
    /\ Broken(c)
    /\ main' = "killed"
    /\ pc' = [d \in Conns |-> "ended"]
    /\ watcher' = "stopped"
    /\ initialized' = FALSE
    /\ shutting_down' = FALSE
    /\ active_count' = 0
    /\ entries' = {}
    /\ owner' = [f \in Fds |-> None]
    /\ cur' = None
    /\ UNCHANGED <<requested, storeShut, role, fdOf, aborted, peers, temps>>

\* message_store_wait_for_update returns with a message or on its timeout.
StreamUpdate(c) ==
    /\ pc[c] = "stream"
    /\ Goto(c, IF requested THEN "finish" ELSE "send")
    /\ UNCHANGED <<inbox, role, temps>>

\* It returns at once when the store is shut down.
StreamShutdown(c) == storeShut /\ StreamUpdate(c)

\* Mutant: the handler has closed the descriptor already.
SocketCloseTwice(c) ==
    /\ pc[c] = "finish"
    /\ IF owner[fdOf[c]] = c
       THEN pc' = pc
       ELSE pc' = [pc EXCEPT ![c] = "closed"]
    /\ owner' = [owner EXCEPT ![fdOf[c]] = None]
    /\ UNCHANGED <<requested, main, cur, watcher, tracker, storeShut, role,
                   fdOf, aborted, peers, temps>>

\* Mutant: the thread leaves the list first and its socket stays open.
SocketNotClosed(c) ==
    /\ pc[c] = "finish"
    /\ pc' = [pc EXCEPT ![c] = "closed"]
    /\ UNCHANGED <<requested, main, cur, watcher, tracker, storeShut, role,
                   sockets, peers, temps>>

\* socket_close(conn) at the end of server_connection_thread_main ...
SocketClose(c) ==
    /\ pc[c] = "finish"
    /\ owner' = [owner EXCEPT ![fdOf[c]] = None]
    /\ pc' = [pc EXCEPT ![c] = "closed"]
    /\ UNCHANGED <<requested, main, cur, watcher, tracker, storeShut, role,
                   fdOf, aborted, peers, temps>>

\* ... and then server_conn_tracker_end(entry).
TrackerEnd(c) ==
    /\ pc[c] = "closed"
    /\ Leave(c)
    /\ main' = IF WakesMain THEN "idle" ELSE main
    /\ pc' = [pc EXCEPT ![c] = "ended"]
    /\ UNCHANGED <<requested, cur, watcher, storeShut, role, sockets, peers,
                   temps>>

---------------------------------------------------------------------------
(* The peers. *)

\* Bytes arrive that the thread may still read.  After SHUT_RDWR the kernel
\* answers them with a reset.
PeerSends(c) ==
    /\ pc[c] \in {"held", "detect", "recv", "send", "recvfile"}
    /\ c \notin inbox \cup gone \cup aborted
    /\ inbox' = inbox \cup {c}
    /\ UNCHANGED <<requested, main, cur, watcher, tracker, storeShut, pc,
                   role, sockets, gone, temps>>

\* The peer closes or resets the connection.
PeerCloses(c) ==
    /\ pc[c] \notin {"none", "closed", "ended"}
    /\ c \notin gone
    /\ gone' = gone \cup {c}
    /\ UNCHANGED <<requested, main, cur, watcher, tracker, storeShut, pc,
                   role, sockets, inbox, temps>>

---------------------------------------------------------------------------

MainStep ==
    \/ InitStores \/ Bind \/ TestShutdown \/ SelectReturns
    \/ TrackerBegin \/ BeginFails \/ Spawn \/ SpawnFails \/ Drop
    \/ ShutdownRequest \/ JoinWatcher \/ StoreShutdown
    \/ ShutdownAll \/ WaitIdle \/ Cleanup

\* The steps of a thread that need neither the peer nor a timeout.
ThreadStep(c) ==
    \/ Detect(c) \/ RecvRequest(c) \/ RecvFile(c) \/ RecvBroken(c)
    \/ SendBroken(c) \/ SendfileSigpipe(c) \/ StreamShutdown(c)
    \/ SocketClose(c) \/ TrackerEnd(c)

\* The steps of a thread that wait for the peer, a message or a timeout.
WaitingStep(c) ==
    \/ RecvTimesOut(c) \/ Send(c) \/ SendFile(c) \/ Reply(c) \/ StreamUpdate(c)

Next ==
    \/ MainStep \/ IdleWakesSpuriously \/ Signal \/ WatcherStops
    \/ \E c \in Conns : Accept(c) \/ PeerSends(c) \/ PeerCloses(c)
    \/ \E c \in Conns : ThreadStep(c) \/ WaitingStep(c)

\* Runnable threads run.  No peer ever has to read, send or close, and no
\* receive ever has to time out.
Fairness ==
    /\ WF_vars(MainStep)
    /\ WF_vars(WatcherStops)
    /\ \A c \in Conns : WF_vars(ThreadStep(c))

Spec == Init /\ [][Next]_vars /\ Fairness

---------------------------------------------------------------------------
(* Properties. *)

\* Threads that will still use the tracker or the message store.
Live == {c \in Conns : pc[c] \notin {"none", "held", "ended"}}

\* The tracker's and the store's mutexes are destroyed only after every
\* connection thread has made its last call: the count that wait_idle waits
\* for is the number of live threads, across failed starts and fd reuse.
NoUseAfterCleanup == ~initialized => Live = {}

\* A connection thread's descriptor is its own from accept to socket_close: no
\* other thread closes it although numbers are reused while old entries are
\* still listed.
SocketStaysOwn ==
    \A c \in Conns :
        pc[c] \notin {"none", "closed", "ended"} => owner[fdOf[c]] = c

\* Once server_conn_tracker_shutdown_all has run, no connection is left that
\* could keep a thread blocked: every open socket has been shut down, and
\* none is accepted afterwards.
EverySocketAborted ==
    shutting_down => \A f \in Fds : owner[f] # None => owner[f] \in aborted

\* A process that ends by returning from server_run_process has closed every
\* connection and left no temporary file in the receive directory.
CleanExit ==
    main = "exited" => temps = {} /\ \A f \in Fds : owner[f] = None

\* A signal ends the process, although peers stall for ever, no receive times
\* out and streams wait for messages that never come.
ShutdownCompletes == requested ~> main \in {"exited", "killed"}

\* What test_server_graceful_shutdown_on_signal expects of a server stopped by
\* a signal: once the shutdown sequence is under way the process ends without
\* temporary files left in the receive directory.
GracefulShutdownLeavesNoTemp ==
    storeShut /\ main \in {"exited", "killed"} => temps = {}

---------------------------------------------------------------------------
(* The inductive invariant behind the safety properties. *)

\* The list holds the live threads and the one about to be started, and the
\* count is its length.
TrackerInv ==
    /\ entries = Live \cup (IF main = "spawn" THEN {cur} ELSE {})
    /\ active_count = Cardinality(entries)

\* Where the main thread can be, given the rest.
MainInv ==
    /\ main \in {"begin", "spawn", "drop"} => cur \in Conns /\ pc[cur] = "held"
    /\ \A c \in Conns :
          pc[c] = "held" => main \in {"begin", "spawn", "drop"} /\ c = cur
    /\ main \in {"init", "bind", "cleanup", "exited", "killed"} => entries = {}
    /\ ~initialized => main \in {"init", "cleanup", "exited", "killed"}
    /\ shutting_down => main \in {"idle", "idleWait", "cleanup"}

\* The kernel's table agrees with the threads that have not closed yet.
OwnerInv ==
    \A f \in Fds : owner[f] # None =>
        /\ fdOf[owner[f]] = f
        /\ pc[owner[f]] \notin {"none", "closed", "ended"}

\* Only a thread inside an upload owns a temporary file.
TempInv == main # "killed" => \A c \in temps : pc[c] = "recvfile"

SafetyInv ==
    /\ TrackerInv
    /\ MainInv
    /\ OwnerInv
    /\ SocketStaysOwn
    /\ EverySocketAborted
    /\ TempInv
=============================================================================
