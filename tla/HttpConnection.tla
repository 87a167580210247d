--------------------------- MODULE HttpConnection ---------------------------
(***************************************************************************)
(* One HTTP connection: a client that sends a request, possibly in pieces, *)
(* and the connection thread that detects the protocol (src/src/server.c), *)
(* reads the header, routes the request, handles it and answers            *)
(* (src/src/http.c).  There is one request per connection.                 *)
(*                                                                         *)
(* The stream towards the server is counted: HeaderLen units of header,    *)
(* then the body.  A client may stop sending, shut down its side or go     *)
(* away at any point, and it may send fewer or more bytes than it          *)
(* announced.  When the server closes a socket that still has, or later    *)
(* gets, bytes nobody read, the kernel resets the connection, and a reset  *)
(* can destroy an answer the client has not read yet.                      *)
(***************************************************************************)
EXTENDS Integers

CONSTANTS
    HeaderLen,   \* units of header, at least the two the detection looks at
    MaxText,     \* HF_PROTOCOL_MAX_TEXT_MESSAGE_SIZE
    MaxUpload,   \* HF_HTTP_UPLOAD_MAX
    MaxBody      \* bound: the longest body a client announces or sends

ASSUME HttpConnectionAssumption ==
    /\ HeaderLen \in Nat /\ HeaderLen >= 2
    /\ MaxText \in Nat /\ MaxUpload \in Nat /\ MaxBody \in Nat \ {0}

VARIABLES
    req,      \* the request the client makes
    sent,     \* units the client has sent
    client,   \* "open", "shut" (no more to send), "gone"
    got,      \* the status the client read, NoStatus so far, or Lost
    pc,       \* where the connection thread is
    taken,    \* units the thread has read from the socket
    status,   \* the answer to send, and the one that was sent
    answers,  \* answers put on the wire
    open,     \* the server's socket is open
    reset,    \* the kernel has reset the connection
    effect,   \* what the request changed: "none", "file", "message"
    temp,     \* the upload's temporary file exists
    late,     \* a recv of the server ran into its timeout
    fault     \* a call of the server failed: memory, disk, send

vars == <<req, sent, client, got, pc, taken, status, answers, open, reset, effect,
          temp, late, fault>>

clientVars == <<req, sent, client, got>>
netVars == <<open, reset>>
doneVars == <<effect, temp>>

Routes == {"asset", "files", "messages", "latest", "stream", "file", "badpath",
           "badname", "other"}
NoLength == -1

\* What clients may ask for: method and path, with the headers that the
\* handlers look at and the length of the body that the client means to send.
Requests ==
    [head : {"ok"}, method : {"GET", "PUT", "POST"}, route : Routes,
     chunked : BOOLEAN, length : {NoLength} \cup 0 .. MaxBody,
     rightType : BOOLEAN, body : 0 .. MaxBody]
    \cup
    [head : {"invalid", "long", "version"}, method : {"GET"}, route : {"other"},
     chunked : {FALSE}, length : {NoLength}, rightType : {FALSE}, body : {0, 1}]

Statuses == {200, 201, 400, 404, 405, 411, 413, 415, 431, 500, 501, 505}
NoStatus == 0
Lost == -1

PCs == {"detect", "header", "route", "discard", "open_temp", "put_body", "publish",
        "stat", "post_body", "store", "respond", "send_body", "stream", "close",
        "done"}

TypeOK ==
    /\ req \in Requests
    /\ sent \in 0 .. HeaderLen + MaxBody
    /\ client \in {"open", "shut", "gone"}
    /\ got \in Statuses \cup {NoStatus, Lost}
    /\ pc \in PCs
    /\ taken \in 0 .. HeaderLen + MaxBody
    /\ status \in Statuses \cup {NoStatus}
    /\ answers \in {0, 1}
    /\ open \in BOOLEAN
    /\ reset \in BOOLEAN
    /\ effect \in {"none", "file", "message"}
    /\ temp \in BOOLEAN
    /\ late \in BOOLEAN
    /\ fault \in BOOLEAN

\* accept has returned and the thread has started; the client may have sent
\* nothing yet.
Init ==
    /\ req \in Requests
    /\ sent = 0
    /\ client = "open"
    /\ got = NoStatus
    /\ pc = "detect"
    /\ taken = 0
    /\ status = NoStatus
    /\ answers = 0
    /\ open = TRUE
    /\ reset = FALSE
    /\ effect = "none"
    /\ temp = FALSE
    /\ late = FALSE
    /\ fault = FALSE

---------------------------------------------------------------------------
(* The client and the kernel's part of the connection. *)

\* One more unit arrives.  On a closed socket it is answered with a reset.
ClientSend ==
    /\ client = "open"
    /\ ~reset
    /\ sent < HeaderLen + req.body
    /\ sent' = sent + 1
    /\ reset' = ~open
    /\ UNCHANGED <<req, client, got, pc, taken, status, answers, open, doneVars,
                   late, fault>>

\* shutdown(SHUT_WR), also before everything was sent.
ClientShut ==
    /\ client = "open"
    /\ client' = "shut"
    /\ UNCHANGED <<req, sent, got, pc, taken, status, answers, netVars, doneVars,
                   late, fault>>

\* The client closes its socket, or its machine goes away.
ClientLeaves ==
    /\ client # "gone"
    /\ client' = "gone"
    /\ UNCHANGED <<req, sent, got, pc, taken, status, answers, netVars, doneVars,
                   late, fault>>

ClientReads ==
    /\ client # "gone"
    /\ got = NoStatus
    /\ answers = 1
    /\ got' = status
    /\ UNCHANGED <<req, sent, client, pc, taken, status, answers, netVars,
                   doneVars, late, fault>>

\* A reset that arrives before the client has read the answer.
ResetDestroys ==
    /\ client # "gone"
    /\ got = NoStatus
    /\ answers = 1
    /\ reset
    /\ got' = Lost
    /\ UNCHANGED <<req, sent, client, pc, taken, status, answers, netVars,
                   doneVars, late, fault>>

---------------------------------------------------------------------------
(* Reading. *)

\* The thread goes on at another place and changes nothing the client sees.
Goto(next) ==
    /\ pc' = next
    /\ UNCHANGED <<clientVars, netVars, answers>>

\* An answer has been decided; http_send_response sends it.
AnswerWith(code) ==
    /\ status' = code
    /\ Goto("respond")

\* The handler returns without an answer.
NoAnswer ==
    /\ Goto("close")
    /\ UNCHANGED status

Arrived == sent - taken

\* recv returns 0: everything was read and the client sends no more.
EndOfStream == Arrived = 0 /\ client # "open"

\* recv fails with EAGAIN after SO_RCVTIMEO (15 s, 30 s or 120 s).
TimedOut ==
    /\ Arrived = 0
    /\ client = "open"
    /\ late' = TRUE

\* server_detect_connection_kind: recv with MSG_PEEK returns what is there.
\* Fewer than two bytes, the end of the stream or a timeout drop the connection;
\* a capital letter means HTTP.
Detect ==
    /\ pc = "detect"
    /\ \/ /\ Arrived >= 2
          /\ Goto("header")
          /\ UNCHANGED <<status, late>>
       \/ /\ Arrived = 1 \/ EndOfStream
          /\ NoAnswer
          /\ UNCHANGED late
       \/ /\ TimedOut
          /\ NoAnswer
    /\ UNCHANGED <<taken, doneVars, fault>>

\* http_read_header_block: one byte per recv until the empty line, the end of
\* the buffer (a header that is too long), the end of the stream or a timeout.
ReadHeader ==
    /\ pc = "header"
    /\ \/ /\ Arrived > 0
          /\ taken' = taken + 1
          /\ Goto(IF taken' = HeaderLen THEN "route" ELSE "header")
          /\ UNCHANGED <<status, late>>
       \/ /\ EndOfStream
          /\ NoAnswer
          /\ UNCHANGED <<taken, late>>
       \/ /\ TimedOut
          /\ NoAnswer
          /\ UNCHANGED taken
    /\ UNCHANGED <<doneVars, fault>>

---------------------------------------------------------------------------
(* Routing: handle_http_connection and the dispatch functions. *)

MethodOf == [files |-> "GET", messages |-> "POST", latest |-> "GET",
             stream |-> "GET"]
FileRoutes == {"file", "badpath"}

\* The refusal that needs no handler, NoStatus if there is none.
Refusal ==
    CASE req.head = "long" -> 431
      [] req.head = "invalid" -> 400
      [] req.head = "version" -> 505
      [] req.route = "asset" -> IF req.method = "GET" THEN NoStatus ELSE 404
      [] req.route \in DOMAIN MethodOf ->
            IF req.method = MethodOf[req.route] THEN NoStatus ELSE 405
      [] req.route = "badname" -> 400
      [] req.route \in FileRoutes ->
            IF req.method \in {"GET", "PUT"} THEN NoStatus ELSE 405
      [] OTHER -> 404

\* The checks of a request with a body, in the order the handlers make them.
LengthRefusal(limit) ==
    CASE req.chunked -> 501
      [] req.length = NoLength -> 411
      [] req.length > limit -> 413
      [] OTHER -> NoStatus

\* Mutant: an upload of the wrong type is refused without reading its body.
PutKeepsBody ==
    /\ LengthRefusal(MaxUpload) = NoStatus
    /\ IF req.rightType /\ req.route = "file"
       THEN Goto("open_temp") /\ UNCHANGED status
       ELSE AnswerWith(IF req.rightType THEN 400 ELSE 415)

\* http_handle_file_put after the checks of the length: a wrong content type or
\* a path that leaves the directory is refused once the body has been read.
Put ==
    /\ LengthRefusal(MaxUpload) = NoStatus
    /\ IF req.rightType /\ req.route = "file"
       THEN Goto("open_temp") /\ UNCHANGED status
       ELSE Goto("discard") /\ status' = IF req.rightType THEN 400 ELSE 415

\* http_handle_messages_post after the checks of the length; here a wrong
\* content type is refused at once.
Post ==
    /\ LengthRefusal(MaxText) = NoStatus
    /\ IF req.rightType THEN Goto("post_body") /\ UNCHANGED status ELSE AnswerWith(415)

\* http_handle_files_list: the query path can be invalid or not a directory
\* (400) or not there (404), and reading the directory can fail (500).
ListFiles == \E code \in {200, 400, 404, 500} : AnswerWith(code)

\* http_send_file: the file may not be there; the answer's header goes out
\* before the file.
GetFile ==
    IF req.route = "badpath" THEN AnswerWith(400)
    ELSE \E code \in {200, 404} : AnswerWith(code)

\* message_store_get_copy fails only without memory.
GetLatest == \E code \in {200, 500} : AnswerWith(code)

Is(method, routes) == req.method = method /\ req.route \in routes

Route ==
    /\ pc = "route"
    /\ \/ Refusal # NoStatus /\ AnswerWith(Refusal)
       \/ /\ Refusal = NoStatus
          /\ \/ Is("GET", {"asset"}) /\ AnswerWith(200)
             \/ Is("GET", {"files"}) /\ ListFiles
             \/ Is("GET", {"latest"}) /\ GetLatest
             \/ Is("GET", FileRoutes) /\ GetFile
             \/ Is("GET", {"stream"}) /\ AnswerWith(200)
             \/ /\ Is("PUT", FileRoutes)
                /\ \/ Put
                   \/ /\ LengthRefusal(MaxUpload) # NoStatus
                      /\ AnswerWith(LengthRefusal(MaxUpload))
             \/ /\ Is("POST", {"messages"})
                /\ \/ Post
                   \/ /\ LengthRefusal(MaxText) # NoStatus
                      /\ AnswerWith(LengthRefusal(MaxText))
    /\ UNCHANGED <<taken, doneVars, late, fault>>

---------------------------------------------------------------------------
(* Bodies. *)

BodyLeft == HeaderLen + req.length - taken

\* http_discard_body reads what was announced.  Whatever stops it, the answer
\* that was decided before is sent.
Discard ==
    /\ pc = "discard"
    /\ \/ /\ BodyLeft > 0
          /\ Arrived > 0
          /\ taken' = taken + 1
          /\ Goto("discard")
          /\ UNCHANGED late
       \/ /\ BodyLeft = 0 \/ EndOfStream
          /\ Goto("respond")
          /\ UNCHANGED <<taken, late>>
       \/ /\ BodyLeft > 0
          /\ TimedOut
          /\ Goto("respond")
          /\ UNCHANGED taken
    /\ UNCHANGED <<status, doneVars, fault>>

\* transfer_prepare_output: a path that is too long or a temporary file that
\* cannot be created ends the upload before its body is read.
OpenTemp ==
    /\ pc = "open_temp"
    /\ \/ /\ temp' = TRUE
          /\ Goto("put_body")
          /\ UNCHANGED <<status, fault>>
       \/ /\ \E code \in {400, 500} : AnswerWith(code)
          /\ fault' = TRUE
          /\ UNCHANGED temp
    /\ UNCHANGED <<taken, effect, late>>

\* Mutant: a body that ends early is not answered, like that of a message.
PutBodySilent ==
    /\ pc = "put_body"
    /\ \/ /\ BodyLeft > 0
          /\ Arrived > 0
          /\ taken' = taken + 1
          /\ Goto("put_body")
          /\ UNCHANGED <<status, temp, late>>
       \/ /\ BodyLeft = 0
          /\ Goto("publish")
          /\ UNCHANGED <<status, taken, temp, late>>
       \/ /\ BodyLeft > 0
          /\ (EndOfStream /\ UNCHANGED late) \/ TimedOut
          /\ NoAnswer
          /\ temp' = FALSE
          /\ UNCHANGED taken
    /\ UNCHANGED <<effect, fault>>

\* transfer_recv_socket_http_file_buffered: every byte that was announced is
\* read and written.  The end of the stream, a timeout or a write that fails
\* remove the temporary file.
PutBody ==
    /\ pc = "put_body"
    /\ \/ /\ BodyLeft > 0
          /\ Arrived > 0
          /\ taken' = taken + 1
          /\ Goto("put_body")
          /\ UNCHANGED <<status, temp, late, fault>>
       \/ /\ BodyLeft = 0
          /\ Goto("publish")
          /\ UNCHANGED <<status, taken, temp, late, fault>>
       \/ /\ BodyLeft > 0
          /\ \/ EndOfStream /\ UNCHANGED <<late, fault>>
             \/ TimedOut /\ UNCHANGED fault
             \/ fault' = TRUE /\ UNCHANGED late
          /\ AnswerWith(500)
          /\ temp' = FALSE
          /\ UNCHANGED taken
    /\ UNCHANGED effect

\* transfer_finalize_output: close and rename.
Publish ==
    /\ pc = "publish"
    /\ temp' = FALSE
    /\ \/ /\ effect' = "file"
          /\ Goto("stat")
          /\ UNCHANGED <<status, fault>>
       \/ /\ AnswerWith(500)
          /\ fault' = TRUE
          /\ UNCHANGED effect
    /\ UNCHANGED <<taken, late>>

\* fs_stat_path of the saved path; somebody may have removed it.
Stat ==
    /\ pc = "stat"
    /\ \/ AnswerWith(201) /\ UNCHANGED fault
       \/ AnswerWith(500) /\ fault' = TRUE
    /\ UNCHANGED <<taken, doneVars, late>>

\* Mutant: recv_all tries again after EAGAIN as it does after EINTR.
PostBodyRetries ==
    /\ pc = "post_body"
    /\ \/ /\ BodyLeft > 0
          /\ Arrived > 0
          /\ taken' = taken + 1
          /\ Goto("post_body")
          /\ UNCHANGED status
       \/ /\ BodyLeft = 0
          /\ Goto("store")
          /\ UNCHANGED <<status, taken>>
       \/ /\ BodyLeft > 0
          /\ EndOfStream
          /\ NoAnswer
          /\ UNCHANGED taken
    /\ UNCHANGED <<doneVars, late, fault>>

\* recv_all of a message body: a body that does not come is not answered.
PostBody ==
    /\ pc = "post_body"
    /\ \/ /\ BodyLeft > 0
          /\ Arrived > 0
          /\ taken' = taken + 1
          /\ Goto("post_body")
          /\ UNCHANGED <<status, late, fault>>
       \/ /\ BodyLeft = 0
          /\ Goto("store")
          /\ UNCHANGED <<status, taken, late, fault>>
       \/ /\ BodyLeft > 0
          /\ (EndOfStream /\ UNCHANGED late) \/ TimedOut
          /\ NoAnswer
          /\ UNCHANGED <<taken, fault>>
       \/ /\ taken = HeaderLen                      \* malloc
          /\ AnswerWith(500)
          /\ fault' = TRUE
          /\ UNCHANGED <<taken, late>>
    /\ UNCHANGED doneVars

\* Mutant: the message is stored before its JSON is checked.
StoreBeforeParse ==
    /\ pc = "store"
    /\ effect' = "message"
    /\ \E code \in {201, 400} : AnswerWith(code)
    /\ UNCHANGED <<taken, temp, late, fault>>

\* http_parse_message_json and app_submit_message; nothing is stored from a
\* body that is not {"message": "..."}.
StoreMessage ==
    /\ pc = "store"
    /\ \/ /\ AnswerWith(400)
          /\ UNCHANGED <<effect, fault>>
       \/ /\ AnswerWith(500)
          /\ fault' = TRUE
          /\ UNCHANGED effect
       \/ /\ effect' = "message"
          /\ AnswerWith(201)
          /\ UNCHANGED fault
    /\ UNCHANGED <<taken, temp, late>>

---------------------------------------------------------------------------
(* Answering and closing. *)

Streams == req.route = "stream" /\ status = 200

\* Answers whose length only the directory, the message or the file bounds, and
\* the page itself.  All others, a header and a short text, fit into the buffers
\* of a fresh connection.
BodyMayBlock == status = 200 /\ req.route \in {"asset", "files", "latest", "file"}

\* The header of the answer, with its body if that is short; a response that
\* cannot be built or sent is no answer.
Respond ==
    /\ pc = "respond"
    /\ \/ /\ answers' = answers + 1
          /\ pc' = IF Streams THEN "stream" ELSE IF BodyMayBlock THEN "send_body"
                   ELSE "close"
          /\ UNCHANGED fault
       \/ /\ fault' = TRUE
          /\ pc' = "close"
          /\ UNCHANGED answers
    /\ UNCHANGED <<clientVars, netVars, status, taken, doneVars, late>>

\* send_all or net_send_file_best_effort of a body has returned: the client took
\* it, the buffers were large enough, or the send failed.  There is no send
\* timeout: a client that stays and does not read holds the thread.
SendBody ==
    /\ pc = "send_body"
    /\ Goto("close")
    /\ UNCHANGED <<taken, status, doneVars, late, fault>>

\* A stream ends when its client leaves, or when the message cannot be copied.
StreamEnds ==
    /\ pc = "stream"
    /\ \/ client = "gone" /\ UNCHANGED fault
       \/ fault' = TRUE
    /\ Goto("close")
    /\ UNCHANGED <<taken, status, doneVars, late>>

\* socket_close of the connection thread.  Bytes that were not read make the
\* kernel send a reset.
SocketClose ==
    /\ pc = "close"
    /\ pc' = "done"
    /\ open' = FALSE
    /\ reset' = (Arrived > 0)
    /\ UNCHANGED <<clientVars, answers, taken, status, doneVars, late, fault>>

---------------------------------------------------------------------------

\* The steps the connection thread can take by itself.
Server ==
    \/ Detect \/ ReadHeader \/ Route
    \/ Discard \/ OpenTemp \/ PutBody \/ Publish \/ Stat
    \/ PostBody \/ StoreMessage
    \/ Respond \/ StreamEnds \/ SocketClose

Next ==
    \/ ClientSend \/ ClientShut \/ ClientLeaves \/ ClientReads \/ ResetDestroys
    \/ Server
    \/ SendBody

Spec == Init /\ [][Next]_vars

\* The thread runs.  SO_RCVTIMEO ends a recv although the client is silent, and a
\* send to a client that is gone fails.  Nothing is assumed of the client: it need
\* not send, read or leave, so a body that waits for its reader may wait for ever.
FairSpec == Spec /\ WF_vars(Server) /\ WF_vars(client = "gone" /\ SendBody)

---------------------------------------------------------------------------
(* Properties. *)

\* A request is answered at most once, and a thread that ends without an answer
\* has a reason: the first bytes came one at a time, the header or a message
\* did not come in full, or a call failed.  (A POST whose body is cut short is
\* dropped, a PUT is answered 500.)
OneAnswer ==
    /\ answers <= 1
    /\ pc = "done" /\ answers = 0 =>
          \/ taken = 0 /\ (sent <= 1 \/ late \/ reset)
          \/ taken < HeaderLen /\ (late \/ client # "open")
          \/ req.method = "POST" /\ taken < HeaderLen + req.length
                /\ (late \/ client # "open")
          \/ fault

\* A refusal leaves files and messages alone, and a 201 was earned: all that
\* was announced, no more than the limit, has been read and is stored.  Only a
\* saved file that vanished before it was statted is answered with 500 although
\* it was published.  In any case no temporary file is left.
RefusedHasNoEffect ==
    /\ pc \in {"respond", "close", "done"} => ~temp
    /\ pc \in {"respond", "close", "done"} /\ status >= 400 /\ effect # "none"
          => status = 500 /\ effect = "file" /\ fault
    /\ status = 201 => effect # "none"
    /\ effect # "none" => taken = HeaderLen + req.length
    /\ effect = "message" => req.length <= MaxText

\* Bodies are drained before they are refused for what they are: when the client
\* of a PUT sends exactly the body it announced, does so in time, and no call
\* fails, a reset destroys the answer only if nothing takes uploads there (404,
\* 405), if the length was refused, or if the name cannot be decoded: those are
\* refused with the body unread.  Every other answer arrives: 201, the 415 of a
\* wrong type and the 400 of a path that leaves the directory.
UploadAnswersArrive ==
    got = Lost /\ req.method = "PUT" /\ req.head = "ok"
        /\ req.body = req.length /\ ~late /\ ~fault
    => \/ status \in {404, 405}
       \/ status \in {411, 413, 501}
       \/ status = 400 /\ req.route = "badname"

\* A client that falls silent, at any point and for ever, cannot keep the thread
\* in a recv: the thread ends, or it is sending a body of any length, which needs
\* a reader, or following the messages.  A client that is gone cannot keep it
\* anywhere.
ThreadEnds ==
    /\ <>(pc \in {"send_body", "stream", "done"})
    /\ client = "gone" ~> pc = "done"
=============================================================================
