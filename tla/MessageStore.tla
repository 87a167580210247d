--------------------------- MODULE MessageStore ---------------------------
(***************************************************************************)
(* The latest-message store (src/src/message_store.c), the SSE stream      *)
(* threads that read it (http_handle_messages_stream, src/src/http.c) and  *)
(* the part of the shutdown sequence of server_run_process                 *)
(* (src/src/server.c) that concerns them.                                  *)
(*                                                                         *)
(* A critical section of g_message_store.mutex is one atomic step.  A      *)
(* thread inside pthread_cond_timedwait is at "wait"; a broadcast moves    *)
(* every waiting thread to "loop", where it takes the mutex again and      *)
(* tests the loop condition.                                               *)
(***************************************************************************)
EXTENDS Integers, Sequences, FiniteSets

CONSTANTS
    Streams,      \* connection threads that serve GET /api/messages/stream
    Chars,        \* the characters of a message
    Blank,        \* the characters message_store_set trims at the end
    Messages,     \* the messages the clients post
    NoMessage,    \* a NULL message pointer
    MaxVersion    \* bound: how many messages are posted

ASSUME MessagesAssumption ==
    /\ Messages \subseteq Seq(Chars)
    /\ NoMessage \notin Seq(Chars)
    /\ MaxVersion \in Nat

VARIABLES
    message,        \* g_message_store.message
    version,        \* g_message_store.version
    shutting_down,  \* g_message_store.shutting_down
    requested,      \* g_shutdown_requested
    main,           \* where the main thread is in server_run_process
    pc,             \* where each stream thread is
    known,          \* local "version" of each stream thread
    fetched,        \* local "message" of each stream thread
    conn,           \* the connection: "up", "stalled" (peer reads nothing), "down"
    hist,           \* ghost: every message stored, in order
    sent,           \* ghost: last event written to each stream
    late            \* ghost: keep-alives written after shutting_down was set

vars == <<message, version, shutting_down, requested, main, pc, known,
          fetched, conn, hist, sent, late>>

storeVars == <<message, version, shutting_down, hist>>
streamVars == <<pc, known, fetched, conn, sent, late>>

StreamPCs == {"idle", "headers", "snapshot", "event", "loop", "wait", "got",
              "keepalive", "done"}
MainPCs == {"listen", "requested", "shut", "aborted", "cleaned"}

Event == [ver : Nat, msg : Seq(Chars) \cup {NoMessage}]

TypeOK ==
    /\ message \in Seq(Chars) \cup {NoMessage}
    /\ version \in Nat
    /\ shutting_down \in BOOLEAN
    /\ requested \in BOOLEAN
    /\ main \in MainPCs
    /\ pc \in [Streams -> StreamPCs]
    /\ known \in [Streams -> Nat]
    /\ fetched \in [Streams -> Seq(Chars) \cup {NoMessage}]
    /\ conn \in [Streams -> {"up", "stalled", "down"}]
    /\ hist \in Seq(Seq(Chars))
    /\ sent \in [Streams -> Event]
    /\ late \in [Streams -> Nat]

\* message_store_init, before any connection is accepted.
Init ==
    /\ message = NoMessage
    /\ version = 0
    /\ shutting_down = FALSE
    /\ requested = FALSE
    /\ main = "listen"
    /\ pc = [s \in Streams |-> "idle"]
    /\ known = [s \in Streams |-> 0]
    /\ fetched = [s \in Streams |-> NoMessage]
    /\ conn = [s \in Streams |-> "up"]
    /\ hist = <<>>
    /\ sent = [s \in Streams |-> [ver |-> 0, msg |-> NoMessage]]
    /\ late = [s \in Streams |-> 0]

---------------------------------------------------------------------------
(* The store. *)

\* The positions of m up to its last character that is not blank.
KeptPositions(m) == {i \in 1..Len(m) : \E j \in i..Len(m) : m[j] \notin Blank}

\* The message without its trailing whitespace.
Trimmed(m) == SubSeq(m, 1, Cardinality(KeptPositions(m)))

\* The program counters after pthread_cond_broadcast.
Broadcast == [s \in Streams |-> IF pc[s] = "wait" THEN "loop" ELSE pc[s]]

\* Mutant: the waiting threads are not woken.
SetWithoutBroadcast(m) ==
    /\ main # "cleaned"
    /\ version < MaxVersion
    /\ message' = Trimmed(m)
    /\ version' = version + 1
    /\ hist' = Append(hist, Trimmed(m))
    /\ UNCHANGED <<shutting_down, requested, main, pc, known, fetched, conn,
                   sent, late>>

\* message_store_set, called by the thread of a connection that posts m.  It
\* does not look at shutting_down; the threads that call it are gone once
\* main has waited for the connections to end.
MessageStoreSet(m) ==
    /\ main # "cleaned"
    /\ version < MaxVersion
    /\ message' = Trimmed(m)
    /\ version' = version + 1
    /\ pc' = Broadcast
    /\ hist' = Append(hist, Trimmed(m))
    /\ UNCHANGED <<shutting_down, requested, main, known, fetched, conn,
                   sent, late>>

---------------------------------------------------------------------------
(* The stream threads. *)

\* The listener accepts the connection and starts its thread.
StreamStart(s) ==
    /\ main = "listen"
    /\ pc[s] = "idle"
    /\ pc' = [pc EXCEPT ![s] = "headers"]
    /\ UNCHANGED <<storeVars, requested, main, known, fetched, conn, sent, late>>

\* http_send_sse_headers.
SendHeaders(s) ==
    /\ pc[s] = "headers"
    /\ conn[s] # "stalled"
    /\ pc' = [pc EXCEPT ![s] = IF conn[s] = "up" THEN "snapshot" ELSE "done"]
    /\ UNCHANGED <<storeVars, requested, main, known, fetched, conn, sent, late>>

\* Mutant: the stream takes a copy without the version, as /latest does.
GetCopy(s) ==
    /\ pc[s] = "snapshot"
    /\ fetched' = [fetched EXCEPT ![s] = message]
    /\ pc' = [pc EXCEPT ![s] = IF message # NoMessage THEN "event" ELSE "loop"]
    /\ UNCHANGED <<storeVars, requested, main, known, conn, sent, late>>

\* message_store_get_snapshot: message and version under one lock.
GetSnapshot(s) ==
    /\ pc[s] = "snapshot"
    /\ known' = [known EXCEPT ![s] = version]
    /\ fetched' = [fetched EXCEPT ![s] = message]
    /\ pc' = [pc EXCEPT ![s] = IF message # NoMessage THEN "event" ELSE "loop"]
    /\ UNCHANGED <<storeVars, requested, main, conn, sent, late>>

\* malloc fails for the copy made by get_snapshot or wait_for_update, or for
\* the buffer of an event: the stream ends.
AllocFails(s) ==
    /\ \/ pc[s] = "snapshot" /\ message # NoMessage
       \/ pc[s] = "loop" /\ version > known[s]
       \/ pc[s] = "event"
    /\ pc' = [pc EXCEPT ![s] = "done"]
    /\ UNCHANGED <<storeVars, requested, main, known, fetched, conn, sent, late>>

\* clock_gettime fails, or pthread_cond_timedwait returns another error than
\* ETIMEDOUT: wait_for_update returns 1 and the stream ends.
WaitFails(s) ==
    /\ \/ pc[s] = "loop" /\ version <= known[s] /\ ~shutting_down
       \/ pc[s] = "wait"
    /\ pc' = [pc EXCEPT ![s] = "done"]
    /\ UNCHANGED <<storeVars, requested, main, known, fetched, conn, sent, late>>

\* After the wait loop of message_store_wait_for_update: the message is copied
\* when the version moved on, and the version is read under the same lock.
Collect(s) ==
    /\ known' = [known EXCEPT ![s] = version]
    /\ fetched' = [fetched EXCEPT ![s] =
                     IF version > known[s] THEN message ELSE NoMessage]
    /\ pc' = [pc EXCEPT ![s] = "got"]
    /\ UNCHANGED <<storeVars, requested, main, conn, sent, late>>

\* Mutant: the wait is entered without looking at shutting_down.
TestLoopVersionOnly(s) ==
    /\ pc[s] = "loop"
    /\ IF version > known[s]
       THEN Collect(s)
       ELSE /\ pc' = [pc EXCEPT ![s] = "wait"]
            /\ UNCHANGED <<storeVars, requested, main, known, fetched, conn,
                           sent, late>>

\* The loop test of wait_for_update: leave the loop on a new version or on
\* shutting_down, otherwise wait on the condition variable.
TestLoop(s) ==
    /\ pc[s] = "loop"
    /\ IF version > known[s] \/ shutting_down
       THEN Collect(s)
       ELSE /\ pc' = [pc EXCEPT ![s] = "wait"]
            /\ UNCHANGED <<storeVars, requested, main, known, fetched, conn,
                           sent, late>>

\* pthread_cond_timedwait returns ETIMEDOUT after 15 s: the loop is left.
WaitTimesOut(s) ==
    /\ pc[s] = "wait"
    /\ Collect(s)

\* A spurious wake-up: the loop test is made again.
SpuriousWakeup(s) ==
    /\ pc[s] = "wait"
    /\ pc' = [pc EXCEPT ![s] = "loop"]
    /\ UNCHANGED <<storeVars, requested, main, known, fetched, conn, sent, late>>

\* The test of shutdown_requested() and of the message after the wait: a
\* message fetched when shutdown is requested is dropped.
AfterWait(s) ==
    /\ pc[s] = "got"
    /\ pc' = [pc EXCEPT ![s] = IF requested THEN "done"
                               ELSE IF fetched[s] = NoMessage THEN "keepalive"
                               ELSE "event"]
    /\ UNCHANGED <<storeVars, requested, main, known, fetched, conn, sent, late>>

\* http_send_sse_message_event; send_all blocks while the peer reads nothing
\* and fails once the connection is down.
SendEvent(s) ==
    /\ pc[s] = "event"
    /\ conn[s] # "stalled"
    /\ IF conn[s] = "up"
       THEN /\ sent' = [sent EXCEPT ![s] = [ver |-> known[s], msg |-> fetched[s]]]
            /\ fetched' = [fetched EXCEPT ![s] = NoMessage]
            /\ pc' = [pc EXCEPT ![s] = "loop"]
       ELSE /\ pc' = [pc EXCEPT ![s] = "done"]
            /\ UNCHANGED <<sent, fetched>>
    /\ UNCHANGED <<storeVars, requested, main, known, conn, late>>

\* http_send_sse_keepalive.
SendKeepalive(s) ==
    /\ pc[s] = "keepalive"
    /\ conn[s] # "stalled"
    /\ pc' = [pc EXCEPT ![s] = IF conn[s] = "up" THEN "loop" ELSE "done"]
    /\ late' = IF conn[s] = "up" /\ shutting_down
               THEN [late EXCEPT ![s] = @ + 1] ELSE late
    /\ UNCHANGED <<storeVars, requested, main, known, fetched, conn, sent>>

\* The peer stops reading, reads again, or goes away.
PeerStalls(s) ==
    /\ conn[s] = "up"
    /\ conn' = [conn EXCEPT ![s] = "stalled"]
    /\ UNCHANGED <<storeVars, requested, main, pc, known, fetched, sent, late>>

PeerReads(s) ==
    /\ conn[s] = "stalled"
    /\ conn' = [conn EXCEPT ![s] = "up"]
    /\ UNCHANGED <<storeVars, requested, main, pc, known, fetched, sent, late>>

PeerCloses(s) ==
    /\ conn[s] # "down"
    /\ conn' = [conn EXCEPT ![s] = "down"]
    /\ UNCHANGED <<storeVars, requested, main, pc, known, fetched, sent, late>>

---------------------------------------------------------------------------
(* Shutdown: the signal handler and the end of server_run_process. *)

\* shutdown_signal_handler.
Signal ==
    /\ ~requested
    /\ requested' = TRUE
    /\ UNCHANGED <<storeVars, main, streamVars>>

\* Mutant: the shutdown sequence starts without shutdown_request().
LeaveListenerUnrequested ==
    /\ main = "listen"
    /\ main' = "requested"
    /\ UNCHANGED <<storeVars, requested, streamVars>>

\* server_run_listener leaves its loop when shutdown is requested, and
\* server_run_process calls shutdown_request().
LeaveListener ==
    /\ main = "listen"
    /\ requested
    /\ requested' = TRUE
    /\ main' = "requested"
    /\ UNCHANGED <<storeVars, streamVars>>

\* message_store_shutdown, after the watcher has been joined.
MessageStoreShutdown ==
    /\ main = "requested"
    /\ main' = "shut"
    /\ shutting_down' = TRUE
    /\ pc' = Broadcast
    /\ UNCHANGED <<message, version, hist, requested, known, fetched, conn,
                   sent, late>>

\* server_conn_tracker_shutdown_all: both directions of every connection are
\* shut down.
ShutdownAll ==
    /\ main = "shut"
    /\ main' = "aborted"
    /\ conn' = [s \in Streams |-> IF pc[s] \in {"idle", "done"} THEN conn[s]
                                  ELSE "down"]
    /\ UNCHANGED <<storeVars, requested, pc, known, fetched, sent, late>>

\* server_conn_tracker_wait_idle returns, then message_store_cleanup frees
\* the message and destroys the mutex.
MessageStoreCleanup ==
    /\ main = "aborted"
    /\ \A s \in Streams : pc[s] \in {"idle", "done"}
    /\ main' = "cleaned"
    /\ message' = NoMessage
    /\ UNCHANGED <<version, shutting_down, hist, requested, streamVars>>

---------------------------------------------------------------------------

StreamStep(s) ==
    \/ SendHeaders(s) \/ GetSnapshot(s) \/ TestLoop(s) \/ AfterWait(s)
    \/ SendEvent(s) \/ SendKeepalive(s)

MainStep == LeaveListener \/ MessageStoreShutdown \/ ShutdownAll \/ MessageStoreCleanup

Next ==
    \/ \E m \in Messages : MessageStoreSet(m)
    \/ \E s \in Streams :
         \/ StreamStart(s) \/ SendHeaders(s) \/ GetSnapshot(s) \/ AllocFails(s)
         \/ WaitFails(s)
         \/ TestLoop(s) \/ WaitTimesOut(s) \/ SpuriousWakeup(s) \/ AfterWait(s)
         \/ SendEvent(s) \/ SendKeepalive(s)
         \/ PeerStalls(s) \/ PeerReads(s) \/ PeerCloses(s)
    \/ Signal \/ LeaveListener \/ MessageStoreShutdown \/ ShutdownAll
    \/ MessageStoreCleanup

\* Threads that can run do run.  Nothing is assumed of the 15 s timeout, of
\* spurious wake-ups, of the peers, of the posting clients or of the signal.
Fairness == (\A s \in Streams : WF_vars(StreamStep(s))) /\ WF_vars(MainStep)

Spec == Init /\ [][Next]_vars /\ Fairness

---------------------------------------------------------------------------
(* Properties. *)

\* No wake-up is lost: a thread inside pthread_cond_timedwait has seen the
\* newest version, and the store is not shutting down.
NoLostWakeup ==
    \A s \in Streams :
        pc[s] = "wait" => known[s] = version /\ ~shutting_down

\* A stream never pairs a version with the text of another one: what the
\* thread is about to send, and what it last sent, is the message that was
\* stored under that version (the lock covers both reads, in the snapshot and
\* in the wait).
EventsMatchHistory ==
    \A s \in Streams :
        /\ sent[s].ver > 0 => /\ sent[s].ver <= Len(hist)
                              /\ sent[s].msg = hist[sent[s].ver]
        /\ pc[s] = "event" => /\ known[s] \in 1..Len(hist)
                              /\ fetched[s] = hist[known[s]]

\* Events go forward: a stream is never sent a version it was sent before, nor
\* an older one, however posts, timeouts and wake-ups interleave.
EventsGoForward ==
    [][\A s \in Streams : sent'[s] # sent[s] => sent'[s].ver > sent[s].ver]_vars

\* g_shutdown_requested is set before shutting_down, so a stream whose wait is
\* cut short by the shutdown does not turn into a busy loop of keep-alives: at
\* most the one it was already about to write goes out.
NoKeepaliveStorm == \A s \in Streams : late[s] <= 1

\* What the safety properties rest on.  StoreInv: the store holds the newest
\* message of the history under its own number, until it is cleaned up.
StoreInv ==
    /\ Len(hist) = version
    /\ main # "cleaned" => IF version = 0 THEN message = NoMessage
                           ELSE message = hist[version]

\* A thread that holds a message holds the one of its version and has not sent
\* that version yet.
StreamInv ==
    \A s \in Streams :
        /\ known[s] <= version
        /\ sent[s].ver <= known[s]
        /\ pc[s] \in {"idle", "headers", "snapshot"} => sent[s].ver = 0
        /\ pc[s] = "event" => fetched[s] # NoMessage
        /\ fetched[s] # NoMessage =>
              /\ known[s] \in 1..version
              /\ fetched[s] = hist[known[s]]
              /\ sent[s].ver < known[s]
        /\ sent[s].ver > 0 => sent[s].msg = hist[sent[s].ver]

\* The order of the shutdown sequence, and what it means for the threads.
ShutdownInv ==
    /\ main # "listen" => requested
    /\ shutting_down <=> main \in {"shut", "aborted", "cleaned"}
    /\ main = "cleaned" => \A s \in Streams : pc[s] \in {"idle", "done"}
    /\ \A s \in Streams : late[s] > 0 => /\ late[s] = 1
                                         /\ shutting_down
                                         /\ pc[s] # "keepalive"

\* The inductive invariant behind NoLostWakeup, EventsMatchHistory,
\* NoKeepaliveStorm and EventsGoForward.
SafetyInv == StoreInv /\ StreamInv /\ ShutdownInv /\ NoLostWakeup

\* The store and its streams implement the message board: the local version of
\* a thread is what it has looked at, and its last event what it was told.
Board == INSTANCE MessageBoard WITH
    Readers <- Streams,
    Texts <- {Trimmed(m) : m \in Messages},
    NoText <- NoMessage,
    posts <- hist,
    seen <- known,
    heard <- sent

\* Each event is the newest message at one instant of its stream, under its own
\* number, and is sent once, whatever posts come between the snapshot, the wait
\* and the send: the copy and the version are taken in one critical section.
ImplementsMessageBoard == Board!Spec

\* A posted message reaches every stream whose peer keeps reading, without the
\* help of the 15 s timeout, unless the stream ends or the shutdown begins.
EveryPostIsDelivered ==
    \A s \in Streams : \A v \in 1..MaxVersion :
        (pc[s] \notin {"idle", "done"} /\ version = v)
            ~> (sent[s].ver >= v \/ conn[s] # "up" \/ pc[s] = "done" \/ requested)

\* After a signal every stream thread ends and the store is cleaned up, even if
\* peers stall for ever and no wait ever times out.
ShutdownCompletes == requested ~> main = "cleaned"
=============================================================================
