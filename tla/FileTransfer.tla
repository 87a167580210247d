---------------------------- MODULE FileTransfer ----------------------------
(***************************************************************************)
(* One session of the native protocol, end to end: the client process      *)
(* (src/src/client.c) sends a file, gets a file or sends a text message,   *)
(* and a connection thread of the server (src/src/server.c) answers it.    *)
(*                                                                         *)
(* The two TCP streams are described by what was put on them.  Towards the *)
(* server: the preamble, then csent body bytes, then the end of the        *)
(* stream.  Towards the client: the READY frame (with the file prefix for  *)
(* a get), ssent body bytes, the FINAL frame, the end of the stream.  The  *)
(* client of a get counts bytes and not frames, so it can read bytes of an *)
(* early FINAL frame as content: cgot counts what it has read of the part  *)
(* of the stream that starts with the body.                                *)
(***************************************************************************)
EXTENDS Naturals

CONSTANTS
    MaxSize,    \* bound: the longest file or message
    MaxFile,    \* HF_MAX_FILE_SIZE
    FrameSize,  \* HF_PROTOCOL_RES_FRAME_SIZE: 4 in the code
    Window      \* bytes a stream holds before send blocks

ASSUME FileTransferAssumption ==
    /\ MaxSize \in Nat
    /\ MaxFile \in Nat
    /\ FrameSize \in Nat \ {0}
    /\ Window \in Nat \ {0}

VARIABLES
    kind,    \* what the client was asked to do
    valid,   \* the name is acceptable and, for a get, the file exists
    src,     \* the length of the source now; files can be truncated
    size,    \* content_size: the length announced to the peer
    cpc,     \* where the client is
    exit,    \* its exit code
    csent,   \* body bytes sent by the client
    cgot,    \* bytes the client read after READY and the prefix
    spc,     \* where the connection thread is
    sgot,    \* body bytes read by the server
    ssent,   \* body bytes sent by the server
    req,     \* the preamble has been sent
    ceof,    \* the client sends no more: shutdown(SHUT_WR) or close
    ready,   \* the READY frame: "none", "ok", "rejected"
    final,   \* the FINAL frame: "none", "ok", "failed"
    seof,    \* the server has closed the connection
    out,     \* the destination: "none", "temp", "published"
    good,    \* bytes of it that are content of the source
    fault    \* something outside the protocol went wrong

sessionVars == <<kind, valid, src, size, cpc, exit, csent, cgot, spc, sgot, ssent,
                 req, ceof, ready, final, seof, out, good, fault>>

SessionTypeOK ==
    /\ kind \in {"send", "get", "text"}
    /\ valid \in BOOLEAN
    /\ src \in 0..MaxSize
    /\ size \in 0..MaxSize
    /\ cpc \in {"start", "request", "ready", "body", "prefix", "recv", "final",
                "rename", "done"}
    /\ exit \in {0, 1}
    /\ csent \in 0..size
    /\ cgot \in 0..size
    /\ spc \in {"detect", "request", "open", "recv", "final", "send", "done"}
    /\ sgot \in 0..csent
    /\ ssent \in 0..size
    /\ req \in BOOLEAN
    /\ ceof \in BOOLEAN
    /\ ready \in {"none", "ok", "rejected"}
    /\ final \in {"none", "ok", "failed"}
    /\ seof \in BOOLEAN
    /\ out \in {"none", "temp", "published"}
    /\ good \in 0..size
    /\ fault \in BOOLEAN

SessionInit ==
    /\ kind \in {"send", "get", "text"}
    /\ valid \in BOOLEAN
    /\ src \in 0..MaxSize
    /\ kind = "send" => src <= MaxFile     \* checked before the client connects
    /\ size = src
    /\ cpc = "start"
    /\ exit = 0
    /\ csent = 0
    /\ cgot = 0
    /\ spc = "detect"
    /\ sgot = 0
    /\ ssent = 0
    /\ req = FALSE
    /\ ceof = FALSE
    /\ ready = "none"
    /\ final = "none"
    /\ seof = FALSE
    /\ out = "none"
    /\ good = 0
    /\ fault = FALSE

clientVars == <<cpc, exit, csent, cgot, req, ceof>>
serverVars == <<spc, sgot, ssent, ready, final, seof>>
sourceVars == <<kind, valid, src>>

---------------------------------------------------------------------------
(* The client. *)

\* CLEAN_UP of the three commands: the socket is closed, the temporary file of
\* a get that was not renamed is removed.
ClientExit(code) ==
    /\ cpc' = "done"
    /\ exit' = code
    /\ ceof' = TRUE
    /\ out' = IF kind = "get" /\ out = "temp" THEN "none" ELSE out

\* An error of the protocol, or the answer of the server, ends the command.
ClientFail ==
    /\ ClientExit(1)
    /\ UNCHANGED <<csent, cgot, req, good, fault, size, sourceVars, serverVars>>

Connect ==
    /\ cpc = "start"
    /\ cpc' = "request"
    /\ UNCHANGED <<exit, csent, cgot, req, ceof, out, good, fault, size, sourceVars,
                   serverVars>>

\* client_send_header_payload: header and prefix leave in one send.  A text
\* message follows its header at once, a file waits for READY.
SendRequest ==
    /\ cpc = "request"
    /\ req' = TRUE
    /\ cpc' = IF kind = "text" THEN "body" ELSE "ready"
    /\ UNCHANGED <<exit, csent, cgot, ceof, out, good, fault, size, sourceVars,
                   serverVars>>

\* client_recv_checked_response for READY: anything but OK ends the command,
\* and so does the end of the stream.
RecvReady ==
    /\ cpc = "ready"
    /\ \/ /\ ready = "ok"
          /\ cpc' = IF kind = "send" THEN "body" ELSE "prefix"
          /\ UNCHANGED <<exit, csent, cgot, req, ceof, out, good, fault, size,
                         sourceVars, serverVars>>
       \/ (ready = "rejected" \/ (ready = "none" /\ seof)) /\ ClientFail

\* client_send_file_body, or the payload of a text message: some bytes are sent;
\* the file has become too short; or the server has closed.
ClientSendBody ==
    /\ cpc = "body"
    /\ csent < size
    /\ \/ /\ ~seof
          /\ csent < src
          /\ csent - sgot < Window
          /\ csent' = csent + 1
          /\ UNCHANGED <<cpc, exit, cgot, req, ceof, out, good, fault, size,
                         sourceVars, serverVars>>
       \/ (seof \/ csent >= src) /\ ClientFail

\* All is sent; client_shutdown_write.
ShutdownWrite ==
    /\ cpc = "body"
    /\ csent = size
    /\ ceof' = TRUE
    /\ cpc' = "final"
    /\ UNCHANGED <<exit, csent, cgot, req, out, good, fault, size, sourceVars,
                   serverVars>>

\* The prefix of the answer to a get, the size limit, and the temporary file.
RecvPrefix ==
    /\ cpc = "prefix"
    /\ IF size > MaxFile
       THEN ClientFail
       ELSE /\ cpc' = "recv"
            /\ out' = "temp"
            /\ UNCHANGED <<exit, csent, cgot, req, ceof, good, fault, size,
                           sourceVars, serverVars>>

\* What is on the stream to the client from the start of the body on.
Available == ssent + (IF final = "none" THEN 0 ELSE FrameSize)

\* client_recv_file_body: content_size bytes, whatever they are.
ClientRecvBody ==
    /\ cpc = "recv"
    /\ cgot < size
    /\ \/ /\ cgot < Available
          /\ cgot' = cgot + 1
          /\ good' = IF cgot < ssent THEN good + 1 ELSE good
          /\ UNCHANGED <<cpc, exit, csent, req, ceof, out, fault, size, sourceVars,
                         serverVars>>
       \/ cgot >= Available /\ seof /\ ClientFail

BodyComplete ==
    /\ cpc = "recv"
    /\ cgot = size
    /\ cpc' = "final"
    /\ UNCHANGED <<exit, csent, cgot, req, ceof, out, good, fault, size, sourceVars,
                   serverVars>>

\* A whole FINAL frame can be read now.
FinalArrived == final # "none" /\ cgot = ssent

\* Mutant: a get is renamed as soon as all bytes have arrived.
RecvFinalUnread ==
    /\ cpc = "final"
    /\ \/ /\ kind = "get"
          /\ cpc' = "rename"
          /\ UNCHANGED <<exit, csent, cgot, req, ceof, out, good, fault, size,
                         sourceVars, serverVars>>
       \/ /\ FinalArrived /\ final = "ok" /\ kind # "get"
          /\ ClientExit(0)
          /\ UNCHANGED <<csent, cgot, req, good, fault, size, sourceVars, serverVars>>
       \/ FinalArrived /\ final = "failed" /\ ClientFail
       \/ ~FinalArrived /\ seof /\ ClientFail

\* client_recv_checked_response for FINAL.  When bytes of the frame were taken
\* for content, fewer than FrameSize are left and recv_all meets the end of the
\* stream.
RecvFinal ==
    /\ cpc = "final"
    /\ \/ /\ FinalArrived /\ final = "ok" /\ kind = "get"
          /\ cpc' = "rename"
          /\ UNCHANGED <<exit, csent, cgot, req, ceof, out, good, fault, size,
                         sourceVars, serverVars>>
       \/ /\ FinalArrived /\ final = "ok" /\ kind # "get"
          /\ ClientExit(0)
          /\ UNCHANGED <<csent, cgot, req, good, fault, size, sourceVars, serverVars>>
       \/ FinalArrived /\ final = "failed" /\ ClientFail
       \/ ~FinalArrived /\ seof /\ ClientFail

\* fs_commit_temp_file of a get.
Rename ==
    /\ cpc = "rename"
    /\ cpc' = "done"
    /\ out' = "published"
    /\ ceof' = TRUE
    /\ UNCHANGED <<exit, csent, cgot, req, good, fault, size, sourceVars, serverVars>>

\* A system call of the client fails: no connection, a timeout of 30 seconds, a
\* reset, a full disk.
ClientFault ==
    /\ cpc # "done"
    /\ fault' = TRUE
    /\ ClientExit(1)
    /\ UNCHANGED <<csent, cgot, req, good, size, sourceVars, serverVars>>

---------------------------------------------------------------------------
(* The connection thread. *)

\* The handler returns and the socket is closed.  A frame sent just before it
\* is f; a temporary file of an upload is removed unless it was renamed.
ServerEnd(f) ==
    /\ spc' = "done"
    /\ seof' = TRUE
    /\ final' = f
    /\ out' = IF kind = "send" /\ out = "temp" THEN "none" ELSE out
    /\ UNCHANGED <<sgot, ssent, good, clientVars, sourceVars>>

\* server_detect_connection_kind peeks at the stream; at the end of the stream
\* the connection is dropped.
Detect ==
    /\ spc = "detect"
    /\ \/ /\ req
          /\ spc' = "request"
          /\ UNCHANGED <<sgot, ssent, ready, final, seof, out, good, fault, size,
                         clientVars, sourceVars>>
       \/ /\ ~req /\ ceof
          /\ ServerEnd(final)
          /\ UNCHANGED <<ready, fault, size>>

\* Mutant: no READY frame is sent to a client that wants to send a file.
RecvSendUnanswered ==
    /\ spc = "request"
    /\ kind = "send"
    /\ spc' = "open"
    /\ UNCHANGED <<sgot, ssent, ready, final, seof, out, good, fault, size,
                   clientVars, sourceVars>>

\* server_handle_file_transfer up to READY.
RecvSend ==
    /\ spc = "request"
    /\ kind = "send"
    /\ \/ /\ valid
          /\ ready' = "ok"
          /\ spc' = "open"
          /\ UNCHANGED <<sgot, ssent, final, seof, out, good, fault, size, clientVars,
                         sourceVars>>
       \/ /\ ~valid
          /\ ready' = "rejected"
          /\ ServerEnd(final)
          /\ UNCHANGED <<fault, size>>

\* server_handle_get_file up to READY: the size is that of the open file.
RecvGet ==
    /\ spc = "request"
    /\ kind = "get"
    /\ \/ /\ valid
          /\ size' = src
          /\ ready' = "ok"
          /\ spc' = "send"
          /\ UNCHANGED <<sgot, ssent, final, seof, out, good, fault, clientVars,
                         sourceVars>>
       \/ /\ ~valid
          /\ ready' = "rejected"
          /\ ServerEnd(final)
          /\ UNCHANGED <<fault, size>>

\* server_handle_text_message up to the payload: a message that is too long is
\* refused without reading it.
RecvText ==
    /\ spc = "request"
    /\ kind = "text"
    /\ \/ /\ valid
          /\ spc' = "recv"
          /\ UNCHANGED <<sgot, ssent, ready, final, seof, out, good, fault, size,
                         clientVars, sourceVars>>
       \/ /\ ~valid
          /\ ServerEnd("failed")
          /\ UNCHANGED <<ready, fault, size>>

\* transfer_prepare_output.
ServerOpenTemp ==
    /\ spc = "open"
    /\ spc' = "recv"
    /\ out' = "temp"
    /\ UNCHANGED <<sgot, ssent, ready, final, seof, good, fault, size, clientVars,
                   sourceVars>>

\* net_recv_file_best_effort or recv_all of the payload: some bytes, or the end
\* of the stream before all have come.
ServerRecvBody ==
    /\ spc = "recv"
    /\ sgot < size
    /\ \/ /\ sgot < csent
          /\ sgot' = sgot + 1
          /\ good' = good + 1
          /\ UNCHANGED <<spc, ssent, ready, final, seof, out, fault, size, clientVars,
                         sourceVars>>
       \/ /\ sgot = csent /\ ceof
          /\ ServerEnd("failed")
          /\ UNCHANGED <<ready, fault, size>>

\* transfer_finalize_output, or app_submit_message.
ServerPublish ==
    /\ spc = "recv"
    /\ sgot = size
    /\ spc' = "final"
    /\ out' = "published"
    /\ UNCHANGED <<sgot, ssent, ready, final, seof, good, fault, size, clientVars,
                   sourceVars>>

\* Mutant: the connection is closed without the FINAL frame.
SendFinalForgotten ==
    /\ spc = "final"
    /\ ServerEnd(final)
    /\ UNCHANGED <<ready, fault, size>>

\* FINAL OK of an upload or a message.
SendFinal ==
    /\ spc = "final"
    /\ ServerEnd("ok")
    /\ UNCHANGED <<ready, fault, size>>

\* net_send_file_best_effort of a get.  A file that has become shorter ends the
\* body early; a FINAL FAILED frame then follows in place of the missing bytes.
ServerSendBody ==
    /\ spc = "send"
    /\ \/ /\ ssent < size /\ ssent < src
          /\ cpc # "done"
          /\ ssent - cgot < Window
          /\ ssent' = ssent + 1
          /\ UNCHANGED <<spc, sgot, ready, final, seof, out, good, fault, size,
                         clientVars, sourceVars>>
       \/ /\ ssent < size /\ ssent >= src
          /\ ServerEnd("failed")
          /\ UNCHANGED <<ready, fault, size>>
       \/ /\ ssent < size /\ cpc = "done"      \* no frame can be sent any more
          /\ ServerEnd(final)
          /\ UNCHANGED <<ready, fault, size>>
       \/ /\ ssent = size
          /\ ServerEnd("ok")
          /\ UNCHANGED <<ready, fault, size>>

\* Mutant: a failed upload is acknowledged.
ServerFaultAcknowledged ==
    /\ fault' = TRUE
    /\ spc = "recv"
    /\ ServerEnd("ok")
    /\ UNCHANGED <<ready, size>>

\* A system call of the server fails: the receive timeout of 15 seconds, a
\* reset, a full disk, no memory.  After READY the client is told with FINAL
\* FAILED; before, a get is rejected and a file transfer gets no answer.
ServerFault ==
    /\ fault' = TRUE
    /\ UNCHANGED size
    /\ \/ /\ spc \in {"open", "recv", "send"}
          /\ \E f \in {"none", "failed"} : ServerEnd(f)
          /\ UNCHANGED ready
       \/ /\ spc = "request" /\ kind = "get"
          /\ ready' = "rejected"
          /\ ServerEnd(final)
       \/ /\ spc = "request" /\ kind = "text"
          /\ ServerEnd("failed")
          /\ UNCHANGED ready
       \/ /\ spc \in {"request", "final"}
          /\ ServerEnd(final)
          /\ UNCHANGED ready
       \/ /\ spc = "detect"              \* also: only one byte has arrived
          /\ ServerEnd(final)
          /\ UNCHANGED ready

---------------------------------------------------------------------------

\* Somebody truncates the file that is being sent.
Truncate ==
    /\ kind \in {"send", "get"}
    /\ src' \in 0..src
    /\ src' < src
    /\ UNCHANGED <<kind, valid, size, out, good, fault, clientVars, serverVars>>

Client ==
    \/ Connect \/ SendRequest \/ RecvReady \/ ClientSendBody \/ ShutdownWrite
    \/ RecvPrefix \/ ClientRecvBody \/ BodyComplete \/ RecvFinal \/ Rename

Server ==
    \/ Detect \/ RecvSend \/ RecvGet \/ RecvText \/ ServerOpenTemp \/ ServerRecvBody
    \/ ServerPublish \/ SendFinal \/ ServerSendBody

Ended == cpc = "done" /\ spc = "done" /\ UNCHANGED sessionVars

SessionNext == Client \/ Server \/ ClientFault \/ ServerFault \/ Truncate \/ Ended

SessionSpec == SessionInit /\ [][SessionNext]_sessionVars

\* Both sides keep running.  Nothing is assumed of faults: in particular no
\* timeout has to fire.
FairSpec == SessionSpec /\ WF_sessionVars(Client) /\ WF_sessionVars(Server)

---------------------------------------------------------------------------
(* Properties. *)

\* A file appears under its final name, and a message in the store, only when
\* all of its bytes are content of the source: no bytes of a response frame, no
\* truncated source and no early end of a stream is ever published.
PublishedIsWhole ==
    out = "published" => good = size /\ (kind = "get" => cgot = good)
                                     /\ (kind # "get" => sgot = good)

\* Exit code 0 means that the file or message has arrived.  The converse does
\* not hold: FINAL can be lost after the server published the upload.
SuccessMeansDelivered ==
    cpc = "done" /\ exit = 0 => out = "published" /\ good = size

\* Nothing is published for a request the server refused.
RefusedHasNoEffect ==
    ready = "rejected" \/ final = "failed" => out # "published"

\* When both sides are done no temporary file is left on either.
NoTempLeft ==
    cpc = "done" /\ spc = "done" => out # "temp"

\* A command fails only for a reason: the two sides never disagree about how
\* many bytes or which frame comes next.
FailureHasCause ==
    cpc = "done" /\ exit = 1 =>
        fault \/ ~valid \/ src < size \/ (kind = "get" /\ size > MaxFile)

\* No session hangs, even if no timeout ever fires: the two sides never wait
\* for each other.
SessionEnds == <>(cpc = "done" /\ spc = "done")
=============================================================================
