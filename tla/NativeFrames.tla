---------------------------- MODULE NativeFrames ----------------------------
(***************************************************************************)
(* The byte layout of the native protocol: protocol.c, the integer helpers *)
(* and recv_all of net.c, and the checks of the three request handlers of  *)
(* server.c up to the first response frame.                                *)
(*                                                                         *)
(* The server reads a request from a TCP stream that delivers its bytes in *)
(* pieces of any length and may end anywhere; the bytes themselves are     *)
(* chosen by the peer, so the well-behaved client is one case among all.   *)
(* A byte has Base values and a 64-bit word is two bytes long (as is a     *)
(* 16-bit one), so that sums wrap around within TLC's reach; the order of  *)
(* the fields, their checks and the errors are those of the code.          *)
(***************************************************************************)
EXTENDS Integers, Sequences, SequencesExt

CONSTANTS
  Base,       \* the number of values of a byte (256 in the code)
  MaxName,    \* HF_PROTOCOL_MAX_FILE_NAME_LEN
  MaxText,    \* HF_PROTOCOL_MAX_TEXT_MESSAGE_SIZE
  MaxFile,    \* HF_MAX_FILE_SIZE, which the client tests before it sends
  Chunk       \* bound: bytes one recv returns at most

VARIABLES
  stage,      \* what the server is reading, or how it ended
  want,       \* the length recv_all was called with
  buf,        \* the bytes it has so far
  stream,     \* every byte the server took from the connection
  header,     \* type and payload_size, once decoded
  name,       \* file_name, up to its terminating NUL
  size,       \* content_size
  answer,     \* the response the handler asked for
  reply,      \* its bytes on the way to the client
  told        \* what client_recv_checked_response made of them

vars == <<stage, want, buf, stream, header, name, size, answer, reply, told>>

Byte == 0 .. Base - 1
Word == Base * Base                \* 2^64 (and 2^16) at this width

Magic == <<1, 2>>
Version == 3
SEND == 1
TEXT == 2
GET == 3
Types == {SEND, TEXT, GET}

INVALID_ARGUMENT == 5
FILE_NAME_LEN == 6
INVALID_FILE_NAME == 7
SIZE_MISMATCH == 8
ERR_IO == 9
ERR_EOF == 12
MSG_TOO_LARGE == 13

NUL == 0
Slash == 1                         \* stands for what fs_validate_file_name refuses

None == [none |-> TRUE]

-----------------------------------------------------------------------------
(* Encoders. *)

\* encode_u64_be, htons
Encode(v) == <<(v \div Base) % Base, v % Base>>

\* Mutant: a word read as little-endian
DecodeSwapped(b) == b[2] * Base + b[1]

\* decode_u64_be, ntohs
Decode(b) == b[1] * Base + b[2]

HeaderSize == 7

\* init_header and encode_header: magic, version, type, flags, payload size
EncodeHeader(type, payload) == Magic \o <<Version, type, 0>> \o Encode(payload)

\* proto_file_name_only_size, proto_file_transfer_prefix_size
NameOnlySize(len) == 2 + len
PrefixSize(len) == NameOnlySize(len) + 2

\* encode_file_name_only
EncodeName(n) == Encode(Len(n)) \o n

\* encode_file_prefix
EncodePrefix(n, s) == EncodeName(n) \o Encode(s)

\* client_send_header_payload with the payload of each command
ClientSend(n, s) == EncodeHeader(SEND, PrefixSize(Len(n)) + s) \o EncodePrefix(n, s)
ClientGet(n) == EncodeHeader(GET, NameOnlySize(Len(n))) \o EncodeName(n)
ClientText(t) == EncodeHeader(TEXT, Len(t)) \o t

\* decode_header: the checks in the order of the code
HeaderOk(b) ==
  /\ SubSeq(b, 1, 2) = Magic
  /\ b[3] = Version
  /\ b[4] \in Types
  /\ b[5] = 0

\* proto_res_frame_valid
FrameValid(f) ==
  /\ f.phase \in {0, 1} /\ f.status \in {0, 1, 2} /\ f.code <= MSG_TOO_LARGE
  /\ (f.status = 0) <=> (f.code = 0)
  /\ f.status \in IF f.phase = 0 THEN {0, 1} ELSE {0, 2}

\* encode_res_frame and decode_res_frame
EncodeFrame(f) == <<f.phase, f.status>> \o Encode(f.code)
DecodeFrame(b) == [phase |-> b[1], status |-> b[2], code |-> Decode(<<b[3], b[4]>>)]

ReadyOk == [phase |-> 0, status |-> 0, code |-> 0]
ReadyReject(code) == [phase |-> 0, status |-> 1, code |-> code]
FinalOk == [phase |-> 1, status |-> 0, code |-> 0]
FinalFailed(code) == [phase |-> 1, status |-> 2, code |-> code]

\* strlen: what a C string of these bytes holds
CString(b) ==
  LET ends == {i \in 1 .. Len(b) : b[i] = NUL}
  IN IF ends = {} THEN b
     ELSE SubSeq(b, 1, (CHOOSE i \in ends : \A j \in ends : i <= j) - 1)

\* fs_validate_file_name
NameValid(n) == n # <<>> /\ \A i \in 1 .. Len(n) : n[i] # Slash

-----------------------------------------------------------------------------

Init ==
  /\ stage = "header" /\ want = HeaderSize /\ buf = <<>> /\ stream = <<>>
  /\ header = None /\ name = <<>> /\ size = 0
  /\ answer = None /\ reply = <<>> /\ told = "nothing"

Reading == stage \in {"header", "text", "name_len", "name", "size"}

\* one recv inside recv_all: any non-empty piece of what is still missing
Recv ==
  /\ Reading /\ Len(buf) < want
  /\ \E k \in 1 .. Chunk : \E bytes \in [1 .. k -> Byte] :
       /\ Len(buf) + k <= want
       /\ buf' = buf \o bytes
       /\ stream' = stream \o bytes
  /\ UNCHANGED <<stage, want, header, name, size, answer, reply, told>>

Full == Reading /\ Len(buf) = want

\* server_send_response: an invalid frame is not sent
Respond(f) ==
  /\ stage' = "replied" /\ answer' = f
  /\ reply' = IF FrameValid(f) THEN EncodeFrame(f) ELSE <<>>
  /\ want' = 0 /\ buf' = <<>>
  /\ UNCHANGED <<stream, told>>

\* the handler gives up without a response
Close(why) ==
  /\ stage' = why /\ want' = 0 /\ buf' = <<>>
  /\ UNCHANGED <<stream, answer, reply, told>>

\* the next call of recv_all, for len bytes
Goto(s, len) ==
  /\ stage' = s /\ want' = len /\ buf' = <<>>
  /\ UNCHANGED <<stream, answer, reply, told>>

\* handle_protocol_connection and the first test of each handler
Header ==
  /\ stage = "header" /\ Full
  /\ UNCHANGED <<name, size>>
  /\ IF ~HeaderOk(buf) THEN Close("refused") /\ UNCHANGED header
     ELSE LET payload == Decode(SubSeq(buf, 6, 7)) IN
       /\ header' = [type |-> buf[4], payload |-> payload]
       /\ CASE buf[4] = TEXT /\ payload > MaxText -> Respond(FinalFailed(MSG_TOO_LARGE))
            [] buf[4] = SEND /\ payload < PrefixSize(1) ->
                 Respond(ReadyReject(INVALID_ARGUMENT))
            [] buf[4] = GET /\ payload < NameOnlySize(1) ->
                 Respond(ReadyReject(INVALID_ARGUMENT))
            [] buf[4] = TEXT /\ payload <= MaxText -> Goto("text", payload)
            [] OTHER -> Goto("name_len", 2)

\* server_handle_text_message: the message is in; the store accepts it
Text ==
  /\ stage = "text" /\ Full
  /\ name' = CString(buf)
  /\ Respond(FinalOk)
  /\ UNCHANGED <<header, size>>

\* proto_recv_file_name_only: the length; an upload is dropped without a
\* response where a download is rejected
NameLen ==
  /\ stage = "name_len" /\ Full
  /\ LET len == Decode(buf) IN
       IF len \in 1 .. MaxName THEN Goto("name", len)
       ELSE IF header.type = SEND THEN Close("refused")
       ELSE Respond(ReadyReject(FILE_NAME_LEN))
  /\ UNCHANGED <<header, name, size>>

\* server_handle_get_file after the name; app_prepare_download finds the
\* file or not
Get(n) ==
  \/ ~NameValid(n) /\ Respond(ReadyReject(INVALID_FILE_NAME))
  \/ /\ NameValid(n) /\ header.payload # NameOnlySize(Len(n))
     /\ Respond(ReadyReject(SIZE_MISMATCH))
  \/ /\ NameValid(n) /\ header.payload = NameOnlySize(Len(n))
     /\ \E f \in {ReadyOk, ReadyReject(INVALID_ARGUMENT)} : Respond(f)

Name ==
  /\ stage = "name" /\ Full
  /\ name' = CString(buf)
  /\ IF header.type = GET THEN Get(CString(buf)) ELSE Goto("size", 2)
  /\ UNCHANGED <<header, size>>

\* Mutant: a payload longer than its parts is let through
PayloadAtLeast(payload, n, s) == payload >= (PrefixSize(Len(n)) + s) % Word

\* the test of server_handle_file_transfer, in 64-bit arithmetic
PayloadMatches(payload, n, s) == payload = (PrefixSize(Len(n)) + s) % Word

\* proto_recv_file_transfer_prefix and the rest of server_handle_file_transfer
Size ==
  /\ stage = "size" /\ Full
  /\ size' = Decode(buf)
  /\ Respond(CASE ~NameValid(name) -> ReadyReject(INVALID_FILE_NAME)
               [] NameValid(name) /\ ~PayloadMatches(header.payload, name, Decode(buf)) ->
                    ReadyReject(SIZE_MISMATCH)
               [] OTHER -> ReadyOk)
  /\ UNCHANGED <<header, name>>

\* recv_all stops short: end of the stream, or an error
Fails ==
  /\ Reading /\ Len(buf) < want
  /\ \E code \in {ERR_EOF, ERR_IO} :
       IF stage = "header" \/ header.type = SEND THEN Close("broken")
       ELSE Respond(IF header.type = TEXT THEN FinalFailed(code) ELSE ReadyReject(code))
  /\ UNCHANGED <<header, name, size>>

\* client_recv_checked_response for the phase the command waits for
ClientReads ==
  /\ stage = "replied" /\ told = "nothing"
  /\ told' = IF Len(reply) < 4 THEN "silence"
             ELSE LET f == DecodeFrame(reply) IN
               IF FrameValid(f) /\ f.phase = (IF header.type = TEXT THEN 1 ELSE 0)
               THEN IF f.status = 0 THEN "ok" ELSE "refused"
               ELSE "invalid"
  /\ UNCHANGED <<stage, want, buf, stream, header, name, size, answer, reply>>

Next ==
  \/ Recv \/ Header \/ Text \/ NameLen \/ Name \/ Size \/ Fails \/ ClientReads

Spec == Init /\ [][Next]_vars

-----------------------------------------------------------------------------
(* Properties. *)

\* The variables stay in their types.
TypeOK ==
  /\ stage \in {"header", "text", "name_len", "name", "size", "replied", "refused", "broken"}
  /\ want \in 0 .. Word - 1 /\ buf \in Seq(Byte) /\ stream \in Seq(Byte) /\ name \in Seq(Byte)
  /\ header = None \/ header \in [type : Types, payload : 0 .. Word - 1]
  /\ size \in 0 .. Word - 1
  /\ told \in {"nothing", "ok", "refused", "silence", "invalid"}

Accepted == answer \in {ReadyOk, FinalOk}

\* the bytes of the file name as they came
NameField ==
  SubSeq(stream, HeaderSize + 3, HeaderSize + 2 + Decode(SubSeq(stream, HeaderSize + 1, HeaderSize + 2)))

\* A request the server accepts is, byte for byte, the one the client's
\* encoder writes for the values the server read from it, whatever pieces
\* recv returned: nothing is skipped, read twice or taken from the content
\* that follows. The one exception is a name with a NUL in it, which no C
\* client sends: the server goes by strlen, not by the length it received.
AcceptedIsCanonical ==
  /\ Accepted /\ header.type = SEND /\ CString(NameField) = NameField =>
       stream = EncodeHeader(SEND, (PrefixSize(Len(name)) + size) % Word)
                  \o EncodePrefix(name, size)
  /\ Accepted /\ header.type = GET /\ CString(NameField) = NameField =>
       stream = ClientGet(name)
  /\ Accepted /\ header.type = TEXT =>
       \E text \in {SubSeq(stream, HeaderSize + 1, Len(stream))} :
         stream = ClientText(text) /\ name = CString(text)

\* The sum prefix_size + content_size wraps around only for a content no
\* client can offer: for every content up to HF_MAX_FILE_SIZE the accepted
\* payload size is the true sum, not one reduced by 2^64.
SizesAgree ==
  Accepted /\ header.type = SEND /\ size <= MaxFile =>
    header.payload = PrefixSize(Len(name)) + size

\* The names the server takes.  hf -c checks only the length of a name, so it
\* also sends names with a backslash or with ".." in them, which are refused.
Names == {n \in UNION {[1 .. k -> Byte \ {NUL}] : k \in 1 .. MaxName} : NameValid(n)}

\* What a client sends under a name the server takes is never refused for its
\* form: on the bytes of an upload up to HF_MAX_FILE_SIZE, or on any first part
\* of them, the server never decides anything but to accept, and on those of a
\* download only that the file is missing or that the stream broke off.
HonestIsAccepted ==
  stage \in {"replied", "refused"} => \A n \in Names :
    /\ \A s \in 0 .. MaxFile : IsPrefix(stream, ClientSend(n, s)) => answer = ReadyOk
    /\ IsPrefix(stream, ClientGet(n)) =>
         answer \in {ReadyOk} \cup {ReadyReject(c) : c \in {INVALID_ARGUMENT, ERR_EOF, ERR_IO}}

\* The client draws from the bytes of the response the conclusion the server
\* meant: it goes on exactly when the server accepted, and every response a
\* handler asks for is one that encode_res_frame will send and decode_res_frame
\* will take.
AnswerIsUnderstood ==
  told # "nothing" => told = IF Accepted THEN "ok" ELSE "refused"
=============================================================================
