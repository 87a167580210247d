------------------------------ MODULE MCClients -----------------------------
(***************************************************************************)
(* The programs at the other end of the server, one of them in each        *)
(* behaviour: several hf -g commands (ClientDownloads), the message panel  *)
(* of the web page (WebMessages) and its file panel (WebFiles).  They      *)
(* share no state; the ones that are not chosen stay as they start.        *)
(***************************************************************************)
EXTENDS ClientDownloads

CONSTANTS
    Loads, Posts, MaxPosts, MaxDrafts, MaxDrops, Window,     \* of WebMessages
    Dirs, Root, Listings, Uploads, MaxChanges                \* of WebFiles

ASSUME PageAssumption ==
    /\ {MaxPosts, MaxDrafts, MaxDrops, MaxChanges} \subseteq Nat
    /\ Window \in Nat \ {0}
    /\ Root \in Dirs

VARIABLES
    client,                                                  \* the program chosen
    board, load, post, input, typed, saved, hasty,           \* of WebMessages
    stream, version, events, drops, shown, newest,
    changes, listing, upload, picked, currentDir,            \* of WebFiles
    rowsDir, rows, promised, overlap, failed

messageVars == <<board, load, post, input, typed, saved, hasty, stream, version,
                 events, drops, shown, newest>>
fileVars == <<changes, listing, upload, picked, currentDir, rowsDir, rows,
              promised, overlap, failed>>
clientVars == <<client, vars, messageVars, fileVars>>

Messages == INSTANCE WebMessages
Files == INSTANCE WebFiles WITH Loads <- Listings, load <- listing

ClientInit ==
    /\ client \in {"downloads", "messages", "files"}
    /\ Init /\ Messages!Init /\ Files!Init
    /\ client # "messages" => board = 0

MessageStep(A) == client = "messages" /\ A /\ UNCHANGED <<client, vars, fileVars>>

ClientNext ==
    \/ client = "downloads" /\ Next /\ UNCHANGED <<client, messageVars, fileVars>>
    \/ MessageStep(Messages!Next)
    \/ client = "files" /\ Files!Next /\ UNCHANGED <<client, vars, messageVars>>

\* The fairness of WebMessages: the server's thread runs, the browser reconnects
\* and delivers.
ClientSpec ==
    /\ ClientInit /\ [][ClientNext]_clientVars
    /\ WF_clientVars(MessageStep(Messages!Connect))
    /\ WF_clientVars(MessageStep(Messages!SendEvent))
    /\ WF_clientVars(MessageStep(Messages!OnMessage))

-----------------------------------------------------------------------------
(* The properties of the instances. *)

\* postMessage never costs the user a text because of an error of the server.
TextIsKept == Messages!TextIsKept

\* Every message, or a newer one, reaches the panel of connectLatestMessageStream.
MessageArrives == Messages!MessageArrives

\* A file that uploadFile has reported as saved is in the rows of its folder,
\* when the listings of loadFiles did not overlap or fail.
UploadIsListed == Files!UploadIsListed
=============================================================================
