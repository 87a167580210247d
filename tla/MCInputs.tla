------------------------------ MODULE MCInputs ------------------------------
(***************************************************************************)
(* The conversions of what comes in, one of them in each behaviour: a      *)
(* Content-Length (ContentLength), the path of a request (PathNames), the  *)
(* text of a message (MessageText), a frame of the native protocol         *)
(* (NativeFrames), the command line (CommandLine) and the state file       *)
(* (StateText).  They share no state; the ones that are not chosen stay as *)
(* they start.                                                             *)
(***************************************************************************)
EXTENDS ContentLength

CONSTANTS
    MaxPieces, PathMax,                        \* of PathNames
    MaxLen,                                    \* of MessageText
    MaxArgs,                                   \* of CommandLine
    Base, MaxName, MaxText, MaxFile, Chunk,    \* of NativeFrames
    TextCap, LineCap, DirCap                   \* of StateText

\* Every character that some conversion of a path treats specially, and the
\* escapes of the ones that matter to the validators.
MCPieces ==
    {<<"a">>, <<".">>, <<"/">>, <<"\\">>, <<"%">>, <<"?">>, <<"&">>, <<"=">>,
     <<"%", "2", "E">>, <<"%", "2", "F">>, <<"%", "0", "0">>}

MCBases == {<<"d">>, <<"d", "/">>, <<"d", "/", "e">>}
MCWords == {"x", "8080"}
MCPorts == {"8080"}

\* Everything in the name of a directory that the reader of the state file
\* treats specially.
MCChars == {"a", "=", "LF", "CR", "port", "7"}
MCNumbers == {"1", "7", "41", "8888"}

\* HF_HTTP_PATH_MAX is a size.
ASSUME PathAssumption == PathMax \in Nat

\* What NativeFrames takes for granted of its bounds: a byte has room for the
\* types of requests, and honest sizes do not reach the wrap-around.
ASSUME FrameAssumption ==
    /\ Base \in Nat \ {0, 1, 2, 3} /\ MaxName \in Nat \ {0}
    /\ MaxText \in Nat /\ MaxFile \in Nat /\ Chunk \in Nat \ {0}
    /\ MaxName < Base * Base
    /\ MaxFile + MaxName + 4 < Base * Base

\* The buffer of fgets has room for the line of the longest directory.
ASSUME StateAssumption ==
    DirCap \in Nat \ {0} /\ LineCap \in Nat /\ LineCap > DirCap + 2

VARIABLES
    input,                                             \* the conversion chosen
    path, pieces,                                      \* of PathNames
    text, body, whole, stored, page, live,             \* of MessageText
    argv, awaits, opt, seen, parsed,                   \* of CommandLine
    stage, want, buf, stream, header, name, size,      \* of NativeFrames
    answer, reply, told,
    dir, file, phase, left, state, have                \* of StateText

pathVars == <<path, pieces>>
messageVars == <<text, body, whole, stored, page, live>>
lineVars == <<argv, awaits, opt, seen, parsed>>
frameVars == <<stage, want, buf, stream, header, name, size, answer, reply, told>>
stateVars == <<dir, file, phase, left, state, have>>

Path == INSTANCE PathNames WITH text <- path, Pieces <- MCPieces, Bases <- MCBases
Message == INSTANCE MessageText
Line == INSTANCE CommandLine WITH Words <- MCWords, Ports <- MCPorts, result <- parsed
Frame == INSTANCE NativeFrames
State == INSTANCE StateText WITH
    Chars <- MCChars, Numbers <- MCNumbers, Pid <- "41", Port <- "8888",
    Url <- "url", Log <- "log"

InputInit ==
    /\ input \in {"length", "path", "message", "line", "frame", "state"}
    /\ Init /\ Path!Init /\ Message!Init /\ Line!Init /\ Frame!Init /\ State!Init

InputNext ==
    \/ /\ input = "length" /\ Next
       /\ UNCHANGED <<input, pathVars, messageVars, lineVars, frameVars, stateVars>>
    \/ /\ input = "path" /\ Path!Next
       /\ UNCHANGED <<input, vars, messageVars, lineVars, frameVars, stateVars>>
    \/ /\ input = "message" /\ Message!Next
       /\ UNCHANGED <<input, vars, pathVars, lineVars, frameVars, stateVars>>
    \/ /\ input = "line" /\ Line!Next
       /\ UNCHANGED <<input, vars, pathVars, messageVars, frameVars, stateVars>>
    \/ /\ input = "frame" /\ Frame!Next
       /\ UNCHANGED <<input, vars, pathVars, messageVars, lineVars, stateVars>>
    \/ /\ input = "state" /\ State!Next
       /\ UNCHANGED <<input, vars, pathVars, messageVars, lineVars, frameVars>>

InputSpec ==
    InputInit /\ [][InputNext]_<<input, vars, pathVars, messageVars, lineVars,
                                 frameVars, stateVars>>

-----------------------------------------------------------------------------
(* The properties of the instances. *)

\* A link of the page reaches the entry it stands for: FileLink and DirLink,
\* decoded by http_decode_name and http_query_get_value, give the path back; and
\* every name that fs_validate_file_name lets a native client store has one.
LinkReachesEntry == Path!LinkReachesEntry /\ Path!NativeNamesAreServed

\* No request target makes the server open anything outside the receive
\* directory: fs_validate_relative_path sees what is opened.
TargetStaysInside == Path!TargetStaysInside

\* A message survives its conversions: http_parse_message_json and
\* message_store_set store what was typed, up to a U+0000 and without the white
\* space at the end, or refuse the whole of it for a lone surrogate, and store
\* nothing of a body that was cut; http_json_escape and
\* http_send_sse_message_event (without carriage returns) give it back.
MessageIsKept ==
    Message!StoredIsTyped /\ Message!PageShowsStored /\ Message!StreamShowsStored

\* parse_args accepts the command lines of usage() and no others, and hands
\* over the values that were written.
UsageIsParsed == Line!AcceptsUsage /\ Line!FieldsAsWritten

\* A frame the native server accepts is one a client writes, byte for byte,
\* with sizes that did not wrap around for any content a client can offer.
AcceptedIsCanonical == Frame!AcceptedIsCanonical /\ Frame!SizesAgree

\* A frame of a client whose name passes fs_validate_file_name is not refused for
\* its form by the native server (hf -c sends other names too, with a backslash
\* or with "..", which are refused), and the client draws from every answer the
\* conclusion the server meant.
HonestIsAccepted == Frame!HonestIsAccepted /\ Frame!AnswerIsUnderstood

\* What daemon_state_write wrote, daemon_state_read reads, also for the longest
\* directory; one with a line break in its name cannot replace what follows it.
StateReadsBack == State!ReadsBack /\ State!LaterFieldsAreOwn
=============================================================================
