------------------------ MODULE HttpConnectionProofs ------------------------
(***************************************************************************)
(* Proofs about HttpConnection, for headers, bodies and limits of any      *)
(* length.                                                                 *)
(***************************************************************************)
EXTENDS HttpConnection, TLAPS

Uploading == {"discard", "open_temp", "put_body", "publish", "stat"}
Posting == {"post_body", "store"}
Undecided == {"detect", "header", "route", "open_temp", "put_body", "publish", "stat",
              "post_body", "store"}
Ended == {"close", "done"}

\* How far the thread has read, and what it knows of the request, at each place.
PlaceInv ==
    /\ taken <= sent /\ sent <= HeaderLen + req.body
    /\ pc = "detect" => taken = 0
    /\ pc = "header" => taken < HeaderLen
    /\ pc \in {"route", "open_temp"} => taken = HeaderLen
    /\ pc \in Uploading => /\ Is("PUT", FileRoutes) /\ req.length \in Nat
                           /\ taken >= HeaderLen
                           /\ taken <= HeaderLen + req.length
    /\ pc \in Posting => /\ Is("POST", {"messages"}) /\ req.length \in Nat
                         /\ req.length <= MaxText
                         /\ taken >= HeaderLen
                         /\ taken <= HeaderLen + req.length
    /\ pc \in {"publish", "stat", "store"} => taken = HeaderLen + req.length

\* An answer is decided once and sent at most once, and only while the socket
\* is open; a reset comes after the close.
AnswerInv ==
    /\ pc \in Undecided => status = NoStatus
    /\ pc \in {"respond", "send_body", "stream"} => status # NoStatus
    /\ pc = "discard" => status \in {400, 415}
    /\ answers = 1 => pc \in {"send_body", "stream"} \cup Ended /\ status # NoStatus
    /\ pc \in {"send_body", "stream"} => answers = 1 /\ status = 200
    /\ status = 200 => req.method # "PUT"
    /\ open <=> pc # "done"
    /\ reset => pc = "done"
    /\ got # NoStatus => answers = 1
    /\ got = Lost => reset

\* What has been changed, and what was said about it.
EffectInv ==
    /\ temp <=> pc \in {"put_body", "publish"}
    /\ effect # "none" => /\ pc \in {"stat", "respond"} \cup Ended
                          /\ taken = HeaderLen + req.length
                          /\ status \in {NoStatus, 201, 500}
                          /\ status = NoStatus => pc = "stat"
                          /\ status = 500 => effect = "file" /\ fault
    /\ pc = "stat" => effect = "file"
    /\ effect = "message" => req.length <= MaxText
    /\ status = 201 => effect # "none"

\* Why a thread gave up without an answer.
SilenceInv ==
    pc \in Ended /\ answers = 0 =>
        \/ taken = 0 /\ sent >= 1 /\ (pc = "done" => reset)
        \/ taken < HeaderLen /\ (late \/ client # "open")
        \/ /\ req.method = "POST" /\ taken < HeaderLen + req.length
           /\ late \/ client # "open"
        \/ fault

\* A PUT whose client does what it announced.
Smooth == req.method = "PUT" /\ req.head = "ok" /\ req.body = req.length /\ ~late /\ ~fault

\* Refusals for which the body is not looked at.
Unread == status \in {404, 405, 411, 413, 501} \/ (status = 400 /\ req.route = "badname")

\* Nothing is under way and nothing will come.
Drained == taken = sent /\ (client # "open" \/ sent = HeaderLen + req.body)

\* By the time the answer of a smooth upload is decided the body has been read,
\* unless it was refused for something else.
DrainInv ==
    pc \in {"respond"} \cup Ended /\ Smooth /\ status # NoStatus /\ ~Unread
    => Drained /\ ~reset

\* The inductive invariant.
HttpInv == TypeOK /\ PlaceInv /\ AnswerInv /\ EffectInv /\ SilenceInv /\ DrainInv

\* A length that is not refused is a number within the limit.
LEMMA LengthAccepted ==
    ASSUME NEW limit \in Nat, req.length \in {NoLength} \cup 0 .. MaxBody
    PROVE  /\ LengthRefusal(limit) \in {501, 411, 413, NoStatus}
           /\ LengthRefusal(limit) = NoStatus => req.length \in Nat /\ req.length <= limit
  BY HttpConnectionAssumption DEF LengthRefusal, NoStatus, NoLength

\* What is refused without a handler is refused with an error, and an upload only
\* where nothing takes it or because of its name.
LEMMA RefusalIsError ==
    ASSUME req \in Requests
    PROVE  /\ Refusal \in {431, 400, 505, 404, 405, NoStatus}
           /\ req.method = "PUT" /\ req.head = "ok" =>
                 \/ Refusal \in {404, 405, NoStatus}
                 \/ Refusal = 400 /\ req.route = "badname"
  BY DEF Refusal, Requests, NoStatus, Is, FileRoutes, MethodOf, Routes

\* The lengths of a request are numbers.
LEMMA RequestFields ==
    ASSUME req \in Requests
    PROVE  /\ req.body \in 0 .. MaxBody
           /\ req.length \in {NoLength} \cup 0 .. MaxBody
<1>1. req.length \in {NoLength} \cup 0 .. MaxBody
  BY DEF Requests
<1>2. req.body \in 0 .. MaxBody \/ req.body \in {0, 1}
  BY DEF Requests
<1>. QED  BY <1>1, <1>2, HttpConnectionAssumption

\* Names of sets and tuples, and the parts of the invariant.
USE DEF HttpInv, Is, Uploading, Posting, Undecided, Ended, clientVars, netVars, doneVars

\* A byte that arrives after the close brings the reset.
LEMMA ClientSendKeeps ==
    ASSUME HttpInv, ClientSend
    PROVE  HttpInv'
<1>1. UNCHANGED <<req, client, got, pc, taken, status, answers, open, effect,
                   temp, late, fault>>
  BY DEF ClientSend
<1>2. /\ client = "open" /\ ~reset /\ sent < HeaderLen + req.body
      /\ sent' = sent + 1 /\ reset' = ~open
  <2>. USE DEF TypeOK, ClientSend
  <2>1. client = "open" /\ ~reset /\ sent < HeaderLen + req.body
    OBVIOUS
  <2>2. sent' = sent + 1 /\ reset' = ~open
    OBVIOUS
  <2>. QED  BY ONLY <2>1, <2>2
<1>3. TypeOK'
  BY <1>1, <1>2, RequestFields, HttpConnectionAssumption DEF TypeOK, PlaceInv,
     AnswerInv, Statuses, PCs, Lost, NoStatus
<1>4. PlaceInv'
  BY <1>1, <1>2, RequestFields, HttpConnectionAssumption DEF TypeOK, PlaceInv
<1>5. AnswerInv'
  BY <1>1, <1>2, RequestFields, HttpConnectionAssumption DEF TypeOK, AnswerInv,
     Lost, Statuses, NoStatus
<1>6. EffectInv'
  BY <1>1, <1>2, RequestFields, HttpConnectionAssumption DEF TypeOK, PlaceInv,
     AnswerInv, EffectInv, NoStatus
<1>7. SilenceInv'
  BY <1>1, <1>2, RequestFields, HttpConnectionAssumption DEF TypeOK, PlaceInv,
     AnswerInv, SilenceInv, NoStatus
<1>8. DrainInv'
  BY <1>1, <1>2, RequestFields, HttpConnectionAssumption DEF TypeOK, PlaceInv,
     AnswerInv, DrainInv, Smooth, Unread, Drained, NoStatus
<1>. QED  BY <1>3, <1>4, <1>5, <1>6, <1>7, <1>8

\* The client sends no more; what it had sent is still drained.
LEMMA ClientShutKeeps ==
    ASSUME HttpInv, ClientShut
    PROVE  HttpInv'
<1>1. UNCHANGED <<req, sent, got, pc, taken, status, answers, open, reset, effect,
                   temp, late, fault>>
  BY DEF ClientShut
<1>2. client = "open" /\ client' = "shut"
  BY DEF ClientShut
<1>3. TypeOK'
  BY <1>1, <1>2, RequestFields, HttpConnectionAssumption DEF TypeOK, PlaceInv,
     AnswerInv, Statuses, PCs, Lost, NoStatus
<1>4. PlaceInv'
  BY <1>1, <1>2, RequestFields, HttpConnectionAssumption DEF TypeOK, PlaceInv
<1>5. AnswerInv'
  BY <1>1, <1>2, RequestFields, HttpConnectionAssumption DEF TypeOK, AnswerInv,
     Lost, Statuses, NoStatus
<1>6. EffectInv'
  BY <1>1, <1>2, RequestFields, HttpConnectionAssumption DEF TypeOK, PlaceInv,
     AnswerInv, EffectInv, NoStatus
<1>7. SilenceInv'
  BY <1>1, <1>2, RequestFields, HttpConnectionAssumption DEF TypeOK, PlaceInv,
     AnswerInv, SilenceInv, NoStatus
<1>8. DrainInv'
  BY <1>1, <1>2, RequestFields, HttpConnectionAssumption DEF TypeOK, PlaceInv,
     AnswerInv, DrainInv, Smooth, Unread, Drained, NoStatus
<1>. QED  BY <1>3, <1>4, <1>5, <1>6, <1>7, <1>8

\* A client that leaves is a reason for silence from then on.
LEMMA ClientLeavesKeeps ==
    ASSUME HttpInv, ClientLeaves
    PROVE  HttpInv'
<1>1. UNCHANGED <<req, sent, got, pc, taken, status, answers, open, reset, effect,
                   temp, late, fault>>
  BY DEF ClientLeaves
<1>2. client' = "gone"
  BY DEF ClientLeaves
<1>3. TypeOK'
  BY <1>1, <1>2, RequestFields, HttpConnectionAssumption DEF TypeOK, PlaceInv,
     AnswerInv, Statuses, PCs, Lost, NoStatus
<1>4. PlaceInv'
  BY <1>1, <1>2, RequestFields, HttpConnectionAssumption DEF TypeOK, PlaceInv
<1>5. AnswerInv'
  BY <1>1, <1>2, RequestFields, HttpConnectionAssumption DEF TypeOK, AnswerInv,
     Lost, Statuses, NoStatus
<1>6. EffectInv'
  BY <1>1, <1>2, RequestFields, HttpConnectionAssumption DEF TypeOK, PlaceInv,
     AnswerInv, EffectInv, NoStatus
<1>7. SilenceInv'
  BY <1>1, <1>2, RequestFields, HttpConnectionAssumption DEF TypeOK, PlaceInv,
     AnswerInv, SilenceInv, NoStatus
<1>8. DrainInv'
  BY <1>1, <1>2, RequestFields, HttpConnectionAssumption DEF TypeOK, PlaceInv,
     AnswerInv, DrainInv, Smooth, Unread, Drained, NoStatus
<1>. QED  BY <1>3, <1>4, <1>5, <1>6, <1>7, <1>8

\* Only an answer that was sent is read.
LEMMA ClientReadsKeeps ==
    ASSUME HttpInv, ClientReads
    PROVE  HttpInv'
<1>1. UNCHANGED <<req, sent, client, pc, taken, status, answers, open, reset,
                   effect, temp, late, fault>>
  BY DEF ClientReads
<1>2. answers = 1 /\ got' = status /\ got = NoStatus
  BY DEF ClientReads
<1>3. TypeOK'
  BY <1>1, <1>2, RequestFields, HttpConnectionAssumption DEF TypeOK, PlaceInv,
     AnswerInv, Statuses, PCs, Lost, NoStatus
<1>4. PlaceInv'
  BY <1>1, <1>2, RequestFields, HttpConnectionAssumption DEF TypeOK, PlaceInv
<1>5. AnswerInv'
  BY <1>1, <1>2, RequestFields, HttpConnectionAssumption DEF TypeOK, AnswerInv,
     Lost, Statuses, NoStatus
<1>6. EffectInv'
  BY <1>1, <1>2, RequestFields, HttpConnectionAssumption DEF TypeOK, PlaceInv,
     AnswerInv, EffectInv, NoStatus
<1>7. SilenceInv'
  BY <1>1, <1>2, RequestFields, HttpConnectionAssumption DEF TypeOK, PlaceInv,
     AnswerInv, SilenceInv, NoStatus
<1>8. DrainInv'
  BY <1>1, <1>2, RequestFields, HttpConnectionAssumption DEF TypeOK, PlaceInv,
     AnswerInv, DrainInv, Smooth, Unread, Drained, NoStatus
<1>. QED  BY <1>3, <1>4, <1>5, <1>6, <1>7, <1>8

\* Only a reset destroys an answer.
LEMMA ResetDestroysKeeps ==
    ASSUME HttpInv, ResetDestroys
    PROVE  HttpInv'
<1>1. UNCHANGED <<req, sent, client, pc, taken, status, answers, open, reset,
                   effect, temp, late, fault>>
  BY DEF ResetDestroys
<1>2. answers = 1 /\ got' = Lost /\ reset
  BY DEF ResetDestroys
<1>3. TypeOK'
  BY <1>1, <1>2, RequestFields, HttpConnectionAssumption DEF TypeOK, PlaceInv,
     AnswerInv, Statuses, PCs, Lost, NoStatus
<1>4. PlaceInv'
  BY <1>1, <1>2, RequestFields, HttpConnectionAssumption DEF TypeOK, PlaceInv
<1>5. AnswerInv'
  BY <1>1, <1>2, RequestFields, HttpConnectionAssumption DEF TypeOK, AnswerInv,
     Lost, Statuses, NoStatus
<1>6. EffectInv'
  BY <1>1, <1>2, RequestFields, HttpConnectionAssumption DEF TypeOK, PlaceInv,
     AnswerInv, EffectInv, NoStatus
<1>7. SilenceInv'
  BY <1>1, <1>2, RequestFields, HttpConnectionAssumption DEF TypeOK, PlaceInv,
     AnswerInv, SilenceInv, NoStatus
<1>8. DrainInv'
  BY <1>1, <1>2, RequestFields, HttpConnectionAssumption DEF TypeOK, PlaceInv,
     AnswerInv, DrainInv, Smooth, Unread, Drained, NoStatus
<1>. QED  BY <1>3, <1>4, <1>5, <1>6, <1>7, <1>8

\* server_detect_connection_kind gives up with nothing read.
LEMMA DetectKeeps ==
    ASSUME HttpInv, Detect
    PROVE  HttpInv'
<1>1. UNCHANGED <<req, sent, client, got, taken, status, answers, open, reset,
                   effect, temp, fault>>
  BY DEF Detect, Arrived, Goto, EndOfStream, NoAnswer, TimedOut
<1>2. /\ pc = "detect" /\ pc' \in {"header", "close"}
      /\ late' \in BOOLEAN /\ (late => late')
      /\ pc' = "close" => sent - taken = 1 \/ client # "open" \/ late'
  <2>. USE DEF TypeOK, Detect, Arrived, Goto, EndOfStream, NoAnswer, TimedOut
  <2>1. pc = "detect" /\ pc' \in {"header", "close"}
    OBVIOUS
  <2>2. late' \in BOOLEAN /\ (late => late')
    OBVIOUS
  <2>3. pc' = "close" => sent - taken = 1 \/ client # "open" \/ late'
    OBVIOUS
  <2>. QED  BY ONLY <2>1, <2>2, <2>3
<1>3. TypeOK'
  BY <1>1, <1>2, RequestFields, HttpConnectionAssumption DEF TypeOK, PlaceInv,
     AnswerInv, Statuses, PCs, Lost, NoStatus
<1>4. PlaceInv'
  BY <1>1, <1>2, RequestFields, HttpConnectionAssumption DEF TypeOK, PlaceInv
<1>5. AnswerInv'
  BY <1>1, <1>2, RequestFields, HttpConnectionAssumption DEF TypeOK, AnswerInv,
     Lost, Statuses, NoStatus
<1>6. EffectInv'
  BY <1>1, <1>2, RequestFields, HttpConnectionAssumption DEF TypeOK, PlaceInv,
     AnswerInv, EffectInv, NoStatus
<1>7. SilenceInv'
  BY <1>1, <1>2, RequestFields, HttpConnectionAssumption DEF TypeOK, PlaceInv,
     AnswerInv, SilenceInv, NoStatus
<1>8. DrainInv'
  BY <1>1, <1>2, RequestFields, HttpConnectionAssumption DEF TypeOK, PlaceInv,
     AnswerInv, DrainInv, Smooth, Unread, Drained, NoStatus
<1>. QED  BY <1>3, <1>4, <1>5, <1>6, <1>7, <1>8

\* http_read_header_block gives up inside the header.
LEMMA ReadHeaderKeeps ==
    ASSUME HttpInv, ReadHeader
    PROVE  HttpInv'
<1>1. UNCHANGED <<req, sent, client, got, status, answers, open, reset, effect,
                   temp, fault>>
  BY DEF ReadHeader, Arrived, Goto, EndOfStream, NoAnswer, TimedOut
<1>2. /\ pc = "header" /\ pc' \in {"header", "route", "close"}
      /\ late' \in BOOLEAN /\ (late => late')
      /\ pc' # "close" => taken' = taken + 1 /\ sent - taken > 0
      /\ pc' # "close" => (pc' = "route" <=> taken' = HeaderLen)
      /\ pc' = "close" => taken' = taken /\ (client # "open" \/ late')
  <2>. USE DEF TypeOK, ReadHeader, Arrived, Goto, EndOfStream, NoAnswer, TimedOut
  <2>1. pc = "header" /\ pc' \in {"header", "route", "close"}
    OBVIOUS
  <2>2. late' \in BOOLEAN /\ (late => late')
    OBVIOUS
  <2>3. pc' # "close" => taken' = taken + 1 /\ sent - taken > 0
    OBVIOUS
  <2>4. pc' # "close" => (pc' = "route" <=> taken' = HeaderLen)
    OBVIOUS
  <2>5. pc' = "close" => taken' = taken /\ (client # "open" \/ late')
    OBVIOUS
  <2>. QED  BY ONLY <2>1, <2>2, <2>3, <2>4, <2>5
<1>3. TypeOK'
  BY <1>1, <1>2, RequestFields, HttpConnectionAssumption DEF TypeOK, PlaceInv,
     AnswerInv, Statuses, PCs, Lost, NoStatus
<1>4. PlaceInv'
  BY <1>1, <1>2, RequestFields, HttpConnectionAssumption DEF TypeOK, PlaceInv
<1>5. AnswerInv'
  BY <1>1, <1>2, RequestFields, HttpConnectionAssumption DEF TypeOK, AnswerInv,
     Lost, Statuses, NoStatus
<1>6. EffectInv'
  BY <1>1, <1>2, RequestFields, HttpConnectionAssumption DEF TypeOK, PlaceInv,
     AnswerInv, EffectInv, NoStatus
<1>7. SilenceInv'
  BY <1>1, <1>2, RequestFields, HttpConnectionAssumption DEF TypeOK, PlaceInv,
     AnswerInv, SilenceInv, NoStatus
<1>8. DrainInv'
  BY <1>1, <1>2, RequestFields, HttpConnectionAssumption DEF TypeOK, PlaceInv,
     AnswerInv, DrainInv, Smooth, Unread, Drained, NoStatus
<1>. QED  BY <1>3, <1>4, <1>5, <1>6, <1>7, <1>8

\* http_discard_body stops early only for a client that is silent or gone.
LEMMA DiscardKeeps ==
    ASSUME HttpInv, Discard
    PROVE  HttpInv'
<1>1. UNCHANGED <<req, sent, client, got, status, answers, open, reset, effect,
                   temp, fault>>
  BY DEF Discard, BodyLeft, Arrived, Goto, EndOfStream, TimedOut
<1>2. /\ pc = "discard" /\ pc' \in {"discard", "respond"}
      /\ late' \in BOOLEAN /\ (late => late')
      /\ pc' = "discard" => taken' = taken + 1 /\ sent - taken > 0 /\ HeaderLen + req.length - taken > 0
      /\ pc' = "respond" => /\ taken' = taken
                            /\ \/ HeaderLen + req.length - taken = 0
                               \/ sent - taken = 0 /\ client # "open"
                               \/ late'
  <2>. USE DEF TypeOK, Discard, BodyLeft, Arrived, Goto, EndOfStream, TimedOut
  <2>1. pc = "discard" /\ pc' \in {"discard", "respond"}
    OBVIOUS
  <2>2. late' \in BOOLEAN /\ (late => late')
    OBVIOUS
  <2>3. pc' = "discard" => taken' = taken + 1 /\ sent - taken > 0 /\ HeaderLen + req.length - taken > 0
    OBVIOUS
  <2>4. pc' = "respond" => /\ taken' = taken
                           /\ \/ HeaderLen + req.length - taken = 0
                              \/ sent - taken = 0 /\ client # "open"
                              \/ late'
    OBVIOUS
  <2>. QED  BY ONLY <2>1, <2>2, <2>3, <2>4
<1>3. TypeOK'
  BY <1>1, <1>2, RequestFields, HttpConnectionAssumption DEF TypeOK, PlaceInv,
     AnswerInv, Statuses, PCs, Lost, NoStatus
<1>4. PlaceInv'
  BY <1>1, <1>2, RequestFields, HttpConnectionAssumption DEF TypeOK, PlaceInv
<1>5. AnswerInv'
  BY <1>1, <1>2, RequestFields, HttpConnectionAssumption DEF TypeOK, AnswerInv,
     Lost, Statuses, NoStatus
<1>6. EffectInv'
  BY <1>1, <1>2, RequestFields, HttpConnectionAssumption DEF TypeOK, PlaceInv,
     AnswerInv, EffectInv, NoStatus
<1>7. SilenceInv'
  BY <1>1, <1>2, RequestFields, HttpConnectionAssumption DEF TypeOK, PlaceInv,
     AnswerInv, SilenceInv, NoStatus
<1>8. DrainInv'
  BY <1>1, <1>2, RequestFields, HttpConnectionAssumption DEF TypeOK, PlaceInv,
     AnswerInv, DrainInv, Smooth, Unread, Drained, NoStatus
<1>. QED  BY <1>3, <1>4, <1>5, <1>6, <1>7, <1>8

\* An upload that cannot start is a fault of the server.
LEMMA OpenTempKeeps ==
    ASSUME HttpInv, OpenTemp
    PROVE  HttpInv'
<1>1. UNCHANGED <<req, sent, client, got, taken, answers, open, reset, effect,
                   late>>
  BY DEF OpenTemp, Goto, AnswerWith
<1>2. /\ pc = "open_temp" /\ pc' \in {"put_body", "respond"}
      /\ fault' \in BOOLEAN /\ (fault => fault')
      /\ pc' = "put_body" => temp' /\ status' = status
      /\ pc' = "respond" => temp' = temp /\ status' \in {400, 500} /\ fault'
      /\ temp' \in BOOLEAN
  <2>. USE DEF TypeOK, OpenTemp, Goto, AnswerWith
  <2>1. pc = "open_temp" /\ pc' \in {"put_body", "respond"}
    OBVIOUS
  <2>2. fault' \in BOOLEAN /\ (fault => fault')
    OBVIOUS
  <2>3. pc' = "put_body" => temp' /\ status' = status
    OBVIOUS
  <2>4. pc' = "respond" => temp' = temp /\ status' \in {400, 500} /\ fault'
    OBVIOUS
  <2>5. temp' \in BOOLEAN
    OBVIOUS
  <2>. QED  BY ONLY <2>1, <2>2, <2>3, <2>4, <2>5
<1>3. TypeOK'
  BY <1>1, <1>2, RequestFields, HttpConnectionAssumption DEF TypeOK, PlaceInv,
     AnswerInv, Statuses, PCs, Lost, NoStatus
<1>4. PlaceInv'
  BY <1>1, <1>2, RequestFields, HttpConnectionAssumption DEF TypeOK, PlaceInv
<1>5. AnswerInv'
  BY <1>1, <1>2, RequestFields, HttpConnectionAssumption DEF TypeOK, AnswerInv,
     Lost, Statuses, NoStatus
<1>6. EffectInv'
  BY <1>1, <1>2, RequestFields, HttpConnectionAssumption DEF TypeOK, PlaceInv,
     AnswerInv, EffectInv, NoStatus
<1>7. SilenceInv'
  BY <1>1, <1>2, RequestFields, HttpConnectionAssumption DEF TypeOK, PlaceInv,
     AnswerInv, SilenceInv, NoStatus
<1>8. DrainInv'
  BY <1>1, <1>2, RequestFields, HttpConnectionAssumption DEF TypeOK, PlaceInv,
     AnswerInv, DrainInv, Smooth, Unread, Drained, NoStatus
<1>. QED  BY <1>3, <1>4, <1>5, <1>6, <1>7, <1>8

\* The body of an upload is read to its end, or answered with 500.
LEMMA PutBodyKeeps ==
    ASSUME HttpInv, PutBody
    PROVE  HttpInv'
<1>1. UNCHANGED <<req, sent, client, got, answers, open, reset, effect>>
  BY DEF PutBody, BodyLeft, Arrived, Goto, EndOfStream, TimedOut, AnswerWith
<1>2. /\ pc = "put_body" /\ pc' \in {"put_body", "publish", "respond"}
      /\ late' \in BOOLEAN
      /\ late => late'
      /\ fault' \in BOOLEAN /\ (fault => fault')
      /\ pc' = "put_body" => /\ taken' = taken + 1 /\ sent - taken > 0
                             /\ HeaderLen + req.length - taken > 0
      /\ pc' = "publish" => taken' = taken /\ HeaderLen + req.length - taken = 0
      /\ pc' # "respond" => UNCHANGED <<status, temp>>
      /\ pc' = "respond" => /\ taken' = taken /\ status' = 500 /\ temp' = FALSE
                            /\ (sent - taken = 0 /\ client # "open") \/ late' \/ fault'
      /\ temp' \in BOOLEAN
  <2>. USE DEF TypeOK, PutBody, BodyLeft, Arrived, Goto, EndOfStream, TimedOut,
        AnswerWith
  <2>1. pc = "put_body" /\ pc' \in {"put_body", "publish", "respond"}
    OBVIOUS
  <2>2. late' \in BOOLEAN
    OBVIOUS
  <2>3. late => late'
    OBVIOUS
  <2>4. fault' \in BOOLEAN /\ (fault => fault')
    OBVIOUS
  <2>5. pc' = "put_body" => /\ taken' = taken + 1 /\ sent - taken > 0
                            /\ HeaderLen + req.length - taken > 0
    OBVIOUS
  <2>6. pc' = "publish" => taken' = taken /\ HeaderLen + req.length - taken = 0
    OBVIOUS
  <2>7. pc' # "respond" => UNCHANGED <<status, temp>>
    OBVIOUS
  <2>8. pc' = "respond" => /\ taken' = taken /\ status' = 500 /\ temp' = FALSE
                           /\ (sent - taken = 0 /\ client # "open") \/ late' \/ fault'
    OBVIOUS
  <2>9. temp' \in BOOLEAN
    OBVIOUS
  <2>. QED  BY ONLY <2>1, <2>2, <2>3, <2>4, <2>5, <2>6, <2>7, <2>8, <2>9
<1>3. req.length \in Nat /\ taken \in Nat /\ sent \in Nat /\ HeaderLen \in Nat
  BY <1>2, RequestFields, HttpConnectionAssumption DEF TypeOK, PlaceInv
<1>4. /\ taken' \in Nat /\ taken' >= taken /\ taken' <= sent
      /\ taken' <= HeaderLen + req.length
      /\ pc' = "publish" => taken' = HeaderLen + req.length
  BY <1>2, <1>3 DEF PlaceInv
<1>5. status' = IF pc' = "respond" THEN 500 ELSE status
  BY <1>2
<1>6. temp' <=> pc' # "respond"
  <2>1. temp
    BY <1>2 DEF EffectInv
  <2>2. pc' # "respond" => temp'
    <3>1. pc' # "respond" => temp' = temp
      BY <1>2
    <3>. QED  BY ONLY <2>1, <3>1, Zenon
  <2>3. pc' = "respond" => ~temp'
    <3>1. pc' = "respond" => temp' = FALSE
      BY <1>2
    <3>. QED  BY ONLY <3>1, Zenon
  <2>. QED  BY ONLY <2>2, <2>3, Zenon
<1>7. TypeOK'
  BY <1>1, <1>2, <1>3, <1>4, <1>5, RequestFields, HttpConnectionAssumption
     DEF TypeOK, PlaceInv, Statuses, PCs
<1>8. PlaceInv'
  BY <1>1, <1>2, <1>3, <1>4 DEF PlaceInv
<1>9. AnswerInv'
  BY <1>1, <1>2, <1>5 DEF TypeOK, AnswerInv, NoStatus
<1>10. EffectInv'
  BY <1>1, <1>2, <1>5, <1>6 DEF AnswerInv, EffectInv, NoStatus
<1>11. SilenceInv'
  BY <1>1, <1>2 DEF SilenceInv
<1>12. DrainInv'
  BY <1>1, <1>2, <1>3, <1>4, RequestFields, HttpConnectionAssumption
     DEF TypeOK, PlaceInv, AnswerInv, DrainInv, Smooth, Unread, Drained, NoStatus
<1>. QED  BY <1>7, <1>8, <1>9, <1>10, <1>11, <1>12

\* The rename comes after the last announced byte.
LEMMA PublishKeeps ==
    ASSUME HttpInv, Publish
    PROVE  HttpInv'
<1>1. UNCHANGED <<req, sent, client, got, taken, answers, open, reset, late>>
  BY DEF Publish, Goto, AnswerWith
<1>2. /\ pc = "publish" /\ pc' \in {"stat", "respond"} /\ temp' = FALSE
      /\ temp' \in BOOLEAN
      /\ fault' \in BOOLEAN /\ (fault => fault')
      /\ pc' = "stat" => effect' = "file" /\ status' = status
      /\ pc' = "respond" => effect' = effect /\ status' = 500 /\ fault'
  <2>. USE DEF TypeOK, Publish, Goto, AnswerWith
  <2>1. pc = "publish" /\ pc' \in {"stat", "respond"} /\ temp' = FALSE
    OBVIOUS
  <2>2. temp' \in BOOLEAN
    OBVIOUS
  <2>3. fault' \in BOOLEAN /\ (fault => fault')
    OBVIOUS
  <2>4. pc' = "stat" => effect' = "file" /\ status' = status
    OBVIOUS
  <2>5. pc' = "respond" => effect' = effect /\ status' = 500 /\ fault'
    OBVIOUS
  <2>. QED  BY ONLY <2>1, <2>2, <2>3, <2>4, <2>5
<1>3. TypeOK'
  BY <1>1, <1>2, RequestFields, HttpConnectionAssumption DEF TypeOK, PlaceInv,
     AnswerInv, Statuses, PCs, Lost, NoStatus
<1>4. PlaceInv'
  BY <1>1, <1>2, RequestFields, HttpConnectionAssumption DEF TypeOK, PlaceInv
<1>5. AnswerInv'
  BY <1>1, <1>2, RequestFields, HttpConnectionAssumption DEF TypeOK, AnswerInv,
     Lost, Statuses, NoStatus
<1>6. EffectInv'
  BY <1>1, <1>2, RequestFields, HttpConnectionAssumption DEF TypeOK, PlaceInv,
     AnswerInv, EffectInv, NoStatus
<1>7. SilenceInv'
  BY <1>1, <1>2, RequestFields, HttpConnectionAssumption DEF TypeOK, PlaceInv,
     AnswerInv, SilenceInv, NoStatus
<1>8. DrainInv'
  BY <1>1, <1>2, RequestFields, HttpConnectionAssumption DEF TypeOK, PlaceInv,
     AnswerInv, DrainInv, Smooth, Unread, Drained, NoStatus
<1>. QED  BY <1>3, <1>4, <1>5, <1>6, <1>7, <1>8

\* A published file is answered 201, or 500 after a fault.
LEMMA StatKeeps ==
    ASSUME HttpInv, Stat
    PROVE  HttpInv'
<1>1. UNCHANGED <<req, sent, client, got, taken, answers, open, reset, effect,
                   temp, late>>
  BY DEF Stat, AnswerWith, Goto
<1>2. /\ pc = "stat" /\ pc' = "respond"
      /\ fault' \in BOOLEAN /\ (fault => fault')
      /\ status' = 201 \/ (status' = 500 /\ fault')
  <2>. USE DEF TypeOK, Stat, AnswerWith, Goto
  <2>1. pc = "stat" /\ pc' = "respond"
    OBVIOUS
  <2>2. fault' \in BOOLEAN /\ (fault => fault')
    OBVIOUS
  <2>3. status' = 201 \/ (status' = 500 /\ fault')
    OBVIOUS
  <2>. QED  BY ONLY <2>1, <2>2, <2>3
<1>3. TypeOK'
  BY <1>1, <1>2, RequestFields, HttpConnectionAssumption DEF TypeOK, PlaceInv,
     AnswerInv, Statuses, PCs, Lost, NoStatus
<1>4. PlaceInv'
  BY <1>1, <1>2, RequestFields, HttpConnectionAssumption DEF TypeOK, PlaceInv
<1>5. AnswerInv'
  BY <1>1, <1>2, RequestFields, HttpConnectionAssumption DEF TypeOK, AnswerInv,
     Lost, Statuses, NoStatus
<1>6. EffectInv'
  BY <1>1, <1>2, RequestFields, HttpConnectionAssumption DEF TypeOK, PlaceInv,
     AnswerInv, EffectInv, NoStatus
<1>7. SilenceInv'
  BY <1>1, <1>2, RequestFields, HttpConnectionAssumption DEF TypeOK, PlaceInv,
     AnswerInv, SilenceInv, NoStatus
<1>8. DrainInv'
  BY <1>1, <1>2, RequestFields, HttpConnectionAssumption DEF TypeOK, PlaceInv,
     AnswerInv, DrainInv, Smooth, Unread, Drained, NoStatus
<1>. QED  BY <1>3, <1>4, <1>5, <1>6, <1>7, <1>8

\* The body of a message is read to its end, or dropped.
LEMMA PostBodyKeeps ==
    ASSUME HttpInv, PostBody
    PROVE  HttpInv'
<1>1. UNCHANGED <<req, sent, client, got, answers, open, reset, effect, temp>>
  BY DEF PostBody, BodyLeft, Arrived, Goto, EndOfStream, TimedOut, NoAnswer,
     AnswerWith
<1>2. /\ pc = "post_body" /\ pc' \in {"post_body", "store", "close", "respond"}
      /\ late' \in BOOLEAN /\ (late => late')
      /\ fault' \in BOOLEAN /\ (fault => fault')
      /\ pc' = "post_body" => /\ taken' = taken + 1 /\ sent - taken > 0
                              /\ HeaderLen + req.length - taken > 0
      /\ pc' # "post_body" => taken' = taken
      /\ pc' = "store" => HeaderLen + req.length - taken = 0
      /\ pc' # "respond" => status' = status
      /\ pc' = "close" => HeaderLen + req.length - taken > 0 /\ (client # "open" \/ late')
      /\ pc' = "respond" => status' = 500 /\ fault'
  <2>. USE DEF TypeOK, PostBody, BodyLeft, Arrived, Goto, EndOfStream, TimedOut,
        NoAnswer, AnswerWith
  <2>1. pc = "post_body" /\ pc' \in {"post_body", "store", "close", "respond"}
    OBVIOUS
  <2>2. late' \in BOOLEAN /\ (late => late')
    OBVIOUS
  <2>3. fault' \in BOOLEAN /\ (fault => fault')
    OBVIOUS
  <2>4. pc' = "post_body" => /\ taken' = taken + 1 /\ sent - taken > 0
                             /\ HeaderLen + req.length - taken > 0
    OBVIOUS
  <2>5. pc' # "post_body" => taken' = taken
    OBVIOUS
  <2>6. pc' = "store" => HeaderLen + req.length - taken = 0
    OBVIOUS
  <2>7. pc' # "respond" => status' = status
    OBVIOUS
  <2>8. pc' = "close" => HeaderLen + req.length - taken > 0 /\ (client # "open" \/ late')
    OBVIOUS
  <2>9. pc' = "respond" => status' = 500 /\ fault'
    OBVIOUS
  <2>. QED  BY ONLY <2>1, <2>2, <2>3, <2>4, <2>5, <2>6, <2>7, <2>8, <2>9
<1>3. TypeOK'
  BY <1>1, <1>2, RequestFields, HttpConnectionAssumption DEF TypeOK, PlaceInv,
     AnswerInv, Statuses, PCs, Lost, NoStatus
<1>4. PlaceInv'
  BY <1>1, <1>2, RequestFields, HttpConnectionAssumption DEF TypeOK, PlaceInv
<1>5. AnswerInv'
  BY <1>1, <1>2, RequestFields, HttpConnectionAssumption DEF TypeOK, AnswerInv,
     Lost, Statuses, NoStatus
<1>6. EffectInv'
  BY <1>1, <1>2, RequestFields, HttpConnectionAssumption DEF TypeOK, PlaceInv,
     AnswerInv, EffectInv, NoStatus
<1>7. SilenceInv'
  BY <1>1, <1>2, RequestFields, HttpConnectionAssumption DEF TypeOK, PlaceInv,
     AnswerInv, SilenceInv, NoStatus
<1>8. DrainInv'
  BY <1>1, <1>2, RequestFields, HttpConnectionAssumption DEF TypeOK, PlaceInv,
     AnswerInv, DrainInv, Smooth, Unread, Drained, NoStatus
<1>. QED  BY <1>3, <1>4, <1>5, <1>6, <1>7, <1>8

\* A message is stored and answered 201, or neither.
LEMMA StoreMessageKeeps ==
    ASSUME HttpInv, StoreMessage
    PROVE  HttpInv'
<1>1. UNCHANGED <<req, sent, client, got, taken, answers, open, reset, temp,
                   late>>
  BY DEF StoreMessage, AnswerWith, Goto
<1>2. /\ pc = "store" /\ pc' = "respond"
      /\ fault' \in BOOLEAN /\ (fault => fault')
      /\ \/ status' = 400 /\ effect' = effect
         \/ status' = 500 /\ effect' = effect /\ fault'
         \/ status' = 201 /\ effect' = "message"
  <2>. USE DEF TypeOK, StoreMessage, AnswerWith, Goto
  <2>1. pc = "store" /\ pc' = "respond"
    OBVIOUS
  <2>2. fault' \in BOOLEAN /\ (fault => fault')
    OBVIOUS
  <2>3. \/ status' = 400 /\ effect' = effect
        \/ status' = 500 /\ effect' = effect /\ fault'
        \/ status' = 201 /\ effect' = "message"
    <3>1. \/ status' = 400 /\ effect' = effect
          \/ status' = 500 /\ effect' = effect /\ fault' = TRUE
          \/ status' = 201 /\ effect' = "message"
      BY Zenon
    <3>. QED  BY <3>1
  <2>. QED  BY ONLY <2>1, <2>2, <2>3
<1>3. TypeOK'
  BY <1>1, <1>2, RequestFields, HttpConnectionAssumption DEF TypeOK, PlaceInv,
     AnswerInv, Statuses, PCs, Lost, NoStatus
<1>4. PlaceInv'
  BY <1>1, <1>2, RequestFields, HttpConnectionAssumption DEF TypeOK, PlaceInv
<1>5. AnswerInv'
  BY <1>1, <1>2, RequestFields, HttpConnectionAssumption DEF TypeOK, AnswerInv,
     Lost, Statuses, NoStatus
<1>6. EffectInv'
  BY <1>1, <1>2, RequestFields, HttpConnectionAssumption DEF TypeOK, PlaceInv,
     AnswerInv, EffectInv, NoStatus
<1>7. SilenceInv'
  BY <1>1, <1>2, RequestFields, HttpConnectionAssumption DEF TypeOK, PlaceInv,
     AnswerInv, SilenceInv, NoStatus
<1>8. DrainInv'
  BY <1>1, <1>2, RequestFields, HttpConnectionAssumption DEF TypeOK, PlaceInv,
     AnswerInv, DrainInv, Smooth, Unread, Drained, NoStatus
<1>. QED  BY <1>3, <1>4, <1>5, <1>6, <1>7, <1>8

\* The one place where an answer is sent.
LEMMA RespondKeeps ==
    ASSUME HttpInv, Respond
    PROVE  HttpInv'
<1>1. UNCHANGED <<req, sent, client, got, taken, status, open, reset, effect,
                   temp, late>>
  BY DEF Respond, Streams, BodyMayBlock
<1>2. /\ pc = "respond" /\ pc' \in {"stream", "send_body", "close"}
      /\ fault' \in BOOLEAN /\ (fault => fault')
      /\ answers' = answers + 1 \/ (answers' = answers /\ fault' /\ pc' = "close")
      /\ pc' \in {"stream", "send_body"} => status = 200
  <2>. USE DEF TypeOK, Respond, Streams, BodyMayBlock
  <2>1. pc = "respond" /\ pc' \in {"stream", "send_body", "close"}
    OBVIOUS
  <2>2. fault' \in BOOLEAN /\ (fault => fault')
    OBVIOUS
  <2>3. answers' = answers + 1 \/ (answers' = answers /\ fault' /\ pc' = "close")
    OBVIOUS
  <2>4. pc' \in {"stream", "send_body"} => status = 200
    OBVIOUS
  <2>. QED  BY ONLY <2>1, <2>2, <2>3, <2>4
<1>3. TypeOK'
  BY <1>1, <1>2, RequestFields, HttpConnectionAssumption DEF TypeOK, PlaceInv,
     AnswerInv, Statuses, PCs, Lost, NoStatus
<1>4. PlaceInv'
  BY <1>1, <1>2, RequestFields, HttpConnectionAssumption DEF TypeOK, PlaceInv
<1>5. AnswerInv'
  BY <1>1, <1>2, RequestFields, HttpConnectionAssumption DEF TypeOK, AnswerInv,
     Lost, Statuses, NoStatus
<1>6. EffectInv'
  BY <1>1, <1>2, RequestFields, HttpConnectionAssumption DEF TypeOK, PlaceInv,
     AnswerInv, EffectInv, NoStatus
<1>7. SilenceInv'
  BY <1>1, <1>2, RequestFields, HttpConnectionAssumption DEF TypeOK, PlaceInv,
     AnswerInv, SilenceInv, NoStatus
<1>8. DrainInv'
  BY <1>1, <1>2, RequestFields, HttpConnectionAssumption DEF TypeOK, PlaceInv,
     AnswerInv, DrainInv, Smooth, Unread, Drained, NoStatus
<1>. QED  BY <1>3, <1>4, <1>5, <1>6, <1>7, <1>8

\* The header of a body was its answer.
LEMMA SendBodyKeeps ==
    ASSUME HttpInv, SendBody
    PROVE  HttpInv'
<1>1. UNCHANGED <<req, sent, client, got, taken, status, answers, open, reset,
                   effect, temp, late, fault>>
  BY DEF SendBody, Goto
<1>2. pc = "send_body" /\ pc' = "close"
  BY DEF SendBody, Goto
<1>3. TypeOK'
  BY <1>1, <1>2, RequestFields, HttpConnectionAssumption DEF TypeOK, PlaceInv,
     AnswerInv, Statuses, PCs, Lost, NoStatus
<1>4. PlaceInv'
  BY <1>1, <1>2, RequestFields, HttpConnectionAssumption DEF TypeOK, PlaceInv
<1>5. AnswerInv'
  BY <1>1, <1>2, RequestFields, HttpConnectionAssumption DEF TypeOK, AnswerInv,
     Lost, Statuses, NoStatus
<1>6. EffectInv'
  BY <1>1, <1>2, RequestFields, HttpConnectionAssumption DEF TypeOK, PlaceInv,
     AnswerInv, EffectInv, NoStatus
<1>7. SilenceInv'
  BY <1>1, <1>2, RequestFields, HttpConnectionAssumption DEF TypeOK, PlaceInv,
     AnswerInv, SilenceInv, NoStatus
<1>8. DrainInv'
  BY <1>1, <1>2, RequestFields, HttpConnectionAssumption DEF TypeOK, PlaceInv,
     AnswerInv, DrainInv, Smooth, Unread, Drained, NoStatus
<1>. QED  BY <1>3, <1>4, <1>5, <1>6, <1>7, <1>8

\* The header of a stream was its answer.
LEMMA StreamEndsKeeps ==
    ASSUME HttpInv, StreamEnds
    PROVE  HttpInv'
<1>1. UNCHANGED <<req, sent, client, got, taken, status, answers, open, reset,
                   effect, temp, late>>
  BY DEF StreamEnds, Goto
<1>2. /\ pc = "stream" /\ pc' = "close"
      /\ fault' \in BOOLEAN /\ (fault => fault')
  <2>. USE DEF TypeOK, StreamEnds, Goto
  <2>1. pc = "stream" /\ pc' = "close"
    OBVIOUS
  <2>2. fault' \in BOOLEAN /\ (fault => fault')
    OBVIOUS
  <2>. QED  BY ONLY <2>1, <2>2
<1>3. TypeOK'
  BY <1>1, <1>2, RequestFields, HttpConnectionAssumption DEF TypeOK, PlaceInv,
     AnswerInv, Statuses, PCs, Lost, NoStatus
<1>4. PlaceInv'
  BY <1>1, <1>2, RequestFields, HttpConnectionAssumption DEF TypeOK, PlaceInv
<1>5. AnswerInv'
  BY <1>1, <1>2, RequestFields, HttpConnectionAssumption DEF TypeOK, AnswerInv,
     Lost, Statuses, NoStatus
<1>6. EffectInv'
  BY <1>1, <1>2, RequestFields, HttpConnectionAssumption DEF TypeOK, PlaceInv,
     AnswerInv, EffectInv, NoStatus
<1>7. SilenceInv'
  BY <1>1, <1>2, RequestFields, HttpConnectionAssumption DEF TypeOK, PlaceInv,
     AnswerInv, SilenceInv, NoStatus
<1>8. DrainInv'
  BY <1>1, <1>2, RequestFields, HttpConnectionAssumption DEF TypeOK, PlaceInv,
     AnswerInv, DrainInv, Smooth, Unread, Drained, NoStatus
<1>. QED  BY <1>3, <1>4, <1>5, <1>6, <1>7, <1>8

\* Bytes nobody read turn the close into a reset.
LEMMA SocketCloseKeeps ==
    ASSUME HttpInv, SocketClose
    PROVE  HttpInv'
<1>1. UNCHANGED <<req, sent, client, got, taken, status, answers, effect, temp,
                   late, fault>>
  BY DEF SocketClose, Arrived
<1>2. /\ pc = "close" /\ pc' = "done" /\ open' = FALSE
      /\ reset' = (sent - taken > 0)
      /\ reset' \in BOOLEAN /\ open' \in BOOLEAN
  <2>. USE DEF TypeOK, SocketClose, Arrived
  <2>1. pc = "close" /\ pc' = "done" /\ open' = FALSE
    OBVIOUS
  <2>2. reset' = (sent - taken > 0)
    OBVIOUS
  <2>3. reset' \in BOOLEAN /\ open' \in BOOLEAN
    <3>1. (sent - taken > 0) \in BOOLEAN
      BY ONLY TRUE
    <3>. QED  BY ONLY <2>1, <2>2, <3>1
  <2>. QED  BY ONLY <2>1, <2>2, <2>3
<1>3. TypeOK'
  BY <1>1, <1>2, RequestFields, HttpConnectionAssumption DEF TypeOK, PlaceInv,
     AnswerInv, Statuses, PCs, Lost, NoStatus
<1>4. PlaceInv'
  BY <1>1, <1>2, RequestFields, HttpConnectionAssumption DEF TypeOK, PlaceInv
<1>5. AnswerInv'
  BY <1>1, <1>2, RequestFields, HttpConnectionAssumption DEF TypeOK, AnswerInv,
     Lost, Statuses, NoStatus
<1>6. EffectInv'
  BY <1>1, <1>2, RequestFields, HttpConnectionAssumption DEF TypeOK, PlaceInv,
     AnswerInv, EffectInv, NoStatus
<1>7. SilenceInv'
  <2>1. taken = 0 /\ sent >= 1 => reset'
    <3>1. sent \in Int
      BY HttpConnectionAssumption DEF TypeOK
    <3>2. taken = 0 /\ sent >= 1 => sent - taken > 0
      BY ONLY <3>1
    <3>3. reset' = (sent - taken > 0)
      BY <1>2
    <3>. QED  BY ONLY <3>2, <3>3
  <2>. QED  BY <1>1, <1>2, <2>1 DEF SilenceInv
<1>8. DrainInv'
  BY <1>1, <1>2, RequestFields, HttpConnectionAssumption DEF TypeOK, PlaceInv,
     AnswerInv, DrainInv, Smooth, Unread, Drained, NoStatus
<1>. QED  BY <1>3, <1>4, <1>5, <1>6, <1>7, <1>8

\* Only a request with an acceptable length reaches a body, and an upload is
\* refused here only with its body unread.
LEMMA RouteKeeps ==
    ASSUME HttpInv, Route
    PROVE  HttpInv'
<1>1. pc = "route" /\ UNCHANGED <<req, sent, client, got, taken, answers, open, reset,
                                 effect, temp, late, fault>>
  BY DEF Route, AnswerWith, Goto, ListFiles, GetFile, GetLatest, Put, Post
<1>. DEFINE Refused == pc' = "respond" /\ status' \in Statuses \ {201}
            Upload == Is("PUT", FileRoutes) /\ req.length \in Nat
            Message == Is("POST", {"messages"}) /\ req.length \in Nat
                       /\ req.length <= MaxText
            Early == \/ status' \in {404, 405, 411, 413, 501}
                     \/ status' = 400 /\ req.route = "badname"
<1>2. \/ /\ Refused
         /\ req.method = "PUT" /\ req.head = "ok" => Early
         /\ status' = 200 => req.method # "PUT"
      \/ Upload /\ pc' = "discard" /\ status' \in {400, 415}
      \/ Upload /\ pc' = "open_temp" /\ status' = status
      \/ Message /\ pc' = "post_body" /\ status' = status
  <2>1. CASE Refusal # NoStatus /\ AnswerWith(Refusal)
    BY <2>1, RefusalIsError DEF TypeOK, AnswerWith, Goto, Statuses, NoStatus
  <2>2. CASE Is("GET", {"asset"}) /\ AnswerWith(200)
    BY <2>2 DEF AnswerWith, Goto, Statuses
  <2>3. CASE Is("GET", {"files"}) /\ ListFiles
    BY <2>3 DEF ListFiles, AnswerWith, Goto, Statuses
  <2>4. CASE Is("GET", {"latest"}) /\ GetLatest
    BY <2>4 DEF GetLatest, AnswerWith, Goto, Statuses
  <2>5. CASE Is("GET", FileRoutes) /\ GetFile
    BY <2>5 DEF GetFile, AnswerWith, Goto, Statuses
  <2>6. CASE Is("GET", {"stream"}) /\ AnswerWith(200)
    BY <2>6 DEF AnswerWith, Goto, Statuses
  <2>7. CASE Is("PUT", FileRoutes) /\ Put
    BY <2>7, LengthAccepted, RequestFields, HttpConnectionAssumption
       DEF TypeOK, Put, Goto
  <2>8. CASE /\ Is("PUT", FileRoutes) /\ LengthRefusal(MaxUpload) # NoStatus
             /\ AnswerWith(LengthRefusal(MaxUpload))
    BY <2>8, LengthAccepted, RequestFields, HttpConnectionAssumption
       DEF TypeOK, AnswerWith, Goto, Statuses, NoStatus
  <2>9. CASE Is("POST", {"messages"}) /\ Post
    <3>1. Message
      BY <2>9, LengthAccepted, RequestFields, HttpConnectionAssumption
         DEF TypeOK, Post
    <3>2. CASE req.rightType
      BY <2>9, <3>1, <3>2 DEF Post, Goto
    <3>3. CASE ~req.rightType
      BY <2>9, <3>3 DEF Post, AnswerWith, Goto, Statuses
    <3>. QED  BY <3>2, <3>3
  <2>10. CASE /\ Is("POST", {"messages"}) /\ LengthRefusal(MaxText) # NoStatus
              /\ AnswerWith(LengthRefusal(MaxText))
    BY <2>10, LengthAccepted, RequestFields, HttpConnectionAssumption
       DEF TypeOK, AnswerWith, Goto, Statuses, NoStatus
  <2>. HIDE DEF Refused, Upload, Message, Early
  <2>. QED  BY <2>1, <2>2, <2>3, <2>4, <2>5, <2>6, <2>7, <2>8, <2>9, <2>10 DEF Route
<1>3. TypeOK'
  BY <1>1, <1>2, HttpConnectionAssumption DEF TypeOK, Statuses, PCs
<1>4. PlaceInv'
  BY <1>1, <1>2, RequestFields, HttpConnectionAssumption DEF TypeOK, PlaceInv
<1>5. AnswerInv'
  BY <1>1, <1>2 DEF TypeOK, AnswerInv, Statuses, NoStatus
<1>6. EffectInv'
  BY <1>1, <1>2 DEF TypeOK, AnswerInv, EffectInv, Statuses, NoStatus
<1>7. SilenceInv'
  BY <1>1, <1>2 DEF SilenceInv
<1>8. DrainInv'
  BY <1>1, <1>2 DEF DrainInv, Smooth, Unread
<1>. QED  BY <1>3, <1>4, <1>5, <1>6, <1>7, <1>8

\* A new connection: nothing sent, nothing read, nothing decided.
LEMMA InitHolds == Init => HttpInv
<1>. SUFFICES ASSUME Init PROVE HttpInv
  OBVIOUS
<1>1. TypeOK
  <2>1. sent \in 0 .. HeaderLen + MaxBody /\ taken \in 0 .. HeaderLen + MaxBody
    BY HttpConnectionAssumption DEF Init
  <2>2. /\ open \in BOOLEAN /\ reset \in BOOLEAN /\ temp \in BOOLEAN
        /\ late \in BOOLEAN /\ fault \in BOOLEAN
    BY DEF Init
  <2>3. pc \in PCs /\ answers \in {0, 1} /\ effect \in {"none", "file", "message"}
    BY DEF Init, PCs
  <2>. QED  BY <2>1, <2>2, <2>3 DEF Init, TypeOK
<1>2. PlaceInv
  BY HttpConnectionAssumption, RequestFields DEF Init, PlaceInv
<1>3. AnswerInv
  BY DEF Init, AnswerInv, NoStatus, Lost
<1>4. EffectInv
  BY DEF Init, EffectInv, NoStatus
<1>5. SilenceInv
  BY DEF Init, SilenceInv
<1>6. DrainInv
  BY DEF Init, DrainInv
<1>. QED  BY <1>1, <1>2, <1>3, <1>4, <1>5, <1>6

\* Every step of the client, the kernel and the thread keeps the invariant.
LEMMA HttpInvStep == HttpInv /\ [Next]_vars => HttpInv'
<1>1. HttpInv /\ UNCHANGED vars => HttpInv'
  BY DEF vars, TypeOK, PlaceInv, AnswerInv, EffectInv, SilenceInv, DrainInv, Smooth,
         Unread, Drained
<1>. QED
  BY <1>1, ClientSendKeeps, ClientShutKeeps, ClientLeavesKeeps, ClientReadsKeeps,
     ResetDestroysKeeps, DetectKeeps, ReadHeaderKeeps, RouteKeeps, DiscardKeeps,
     OpenTempKeeps, PutBodyKeeps, PublishKeeps, StatKeeps, PostBodyKeeps,
     StoreMessageKeeps, RespondKeeps, SendBodyKeeps, StreamEndsKeeps,
     SocketCloseKeeps
     DEF Next, Server

---------------------------------------------------------------------------

\* What is known at every place of the connection thread of http.c.
THEOREM ConnectionInvariant == Spec => []HttpInv
  BY InitHolds, HttpInvStep, PTL DEF Spec

\* The variables keep their types: the thread of http.c counts no byte beyond the
\* longest request and no second answer.
THEOREM TypeCorrect == Spec => []TypeOK
<1>1. HttpInv => TypeOK
  OBVIOUS
<1>. QED  BY <1>1, ConnectionInvariant, PTL

\* handle_http_connection answers at most once and is silent only for a reason.
THEOREM OneAnswerHolds == Spec => []OneAnswer
<1>1. HttpInv => OneAnswer
  BY DEF TypeOK, SilenceInv, OneAnswer
<1>. QED  BY <1>1, ConnectionInvariant, PTL

\* A refused request changes nothing, a 201 was earned, and no temporary file is
\* left, for limits and bodies of any size.
THEOREM RefusedHasNoEffectHolds == Spec => []RefusedHasNoEffect
<1>1. HttpInv => RefusedHasNoEffect
  BY DEF TypeOK, EffectInv, RefusedHasNoEffect, NoStatus, Statuses
<1>. QED  BY <1>1, ConnectionInvariant, PTL

\* http_handle_file_put drains a body before it refuses it for anything but its
\* length, so the client that sent it reads the answer; the answers that can be
\* lost are those of the dispatch, for a name that cannot be decoded among them.
THEOREM UploadAnswersArriveHolds == Spec => []UploadAnswersArrive
<1>1. HttpInv => UploadAnswersArrive
  BY DEF TypeOK, AnswerInv, DrainInv, Smooth, Unread, UploadAnswersArrive, NoStatus, Lost
<1>. QED  BY <1>1, ConnectionInvariant, PTL
=============================================================================
