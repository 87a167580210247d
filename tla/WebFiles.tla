------------------------------ MODULE WebFiles ------------------------------
(***************************************************************************)
(* The file part of the web page (webui_app_js in src/src/webui.c) against *)
(* the receive directory: folders are opened, refreshed and left, files    *)
(* are uploaded into the folder that is shown, other clients upload too.   *)
(*                                                                         *)
(* A listing is the number of changes its folder had seen when the server  *)
(* read it.  Callbacks of the page are steps; requests and answers arrive  *)
(* in any order and can fail.  Folders below the root have no folders of   *)
(* their own.                                                              *)
(***************************************************************************)
EXTENDS Naturals

CONSTANTS
    Dirs,        \* folders
    Root,        \* the receive directory itself
    Loads,       \* requests of loadFiles that can be under way
    Uploads,     \* uploads of the page that can be under way
    MaxChanges   \* bound: changes per folder

VARIABLES
    changes,     \* changes of each folder on the server
    load,        \* requests of loadFiles
    upload,      \* requests of uploadFile
    picked,      \* a file has been chosen
    currentDir,  \* the folder named above the list, where uploads go
    rowsDir,     \* the folder whose rows are in the list
    rows,        \* and the listing they come from
    promised,    \* changes of each folder that "Saved ..." has announced
    overlap,     \* two listings were asked for at the same time
    failed       \* a listing could not be loaded

vars == <<changes, load, upload, picked, currentDir, rowsDir, rows, promised,
          overlap, failed>>

panelVars == <<currentDir, rowsDir, rows>>
userVars == <<promised, overlap, failed>>

Idle == [at |-> "idle", dir |-> Root, value |-> 0]
Request == [at : {"idle", "sent", "answered", "failed"}, dir : Dirs,
            value : 0 .. MaxChanges]
Sent(d) == [at |-> "sent", dir |-> d, value |-> 0]

TypeOK ==
    /\ changes \in [Dirs -> 0 .. MaxChanges]
    /\ load \in [Loads -> Request]
    /\ upload \in [Uploads -> Request]
    /\ picked \in BOOLEAN
    /\ currentDir \in Dirs
    /\ rowsDir \in Dirs
    /\ rows \in 0 .. MaxChanges
    /\ promised \in [Dirs -> 0 .. MaxChanges]
    /\ overlap \in BOOLEAN
    /\ failed \in BOOLEAN

\* The script has run and asked for the root; the list is empty.
Init ==
    /\ changes = [d \in Dirs |-> 0]
    /\ load = [[l \in Loads |-> Idle] EXCEPT ![CHOOSE l \in Loads : TRUE] = Sent(Root)]
    /\ upload = [u \in Uploads |-> Idle]
    /\ picked = FALSE
    /\ currentDir = Root /\ rowsDir = Root /\ rows = 0
    /\ promised = [d \in Dirs |-> 0]
    /\ overlap = FALSE /\ failed = FALSE

---------------------------------------------------------------------------
(* The server. *)

OthersChange(d) ==
    /\ changes[d] < MaxChanges
    /\ changes' = [changes EXCEPT ![d] = @ + 1]
    /\ UNCHANGED <<load, upload, picked, panelVars, userVars>>

\* http_handle_files_list reads the folder, or refuses.
AnswerLoad(l) ==
    /\ load[l].at = "sent"
    /\ \/ load' = [load EXCEPT ![l].at = "answered", ![l].value = changes[load[l].dir]]
       \/ load' = [load EXCEPT ![l].at = "failed"]
    /\ UNCHANGED <<changes, upload, picked, panelVars, userVars>>

\* http_handle_file_put publishes the file, or refuses.
AnswerUpload(u) ==
    /\ upload[u].at = "sent"
    /\ \/ /\ changes[upload[u].dir] < MaxChanges
          /\ changes' = [changes EXCEPT ![upload[u].dir] = @ + 1]
          /\ upload' = [upload EXCEPT ![u].at = "answered",
                                      ![u].value = changes[upload[u].dir] + 1]
       \/ /\ upload' = [upload EXCEPT ![u].at = "failed"]
          /\ UNCHANGED changes
    /\ UNCHANGED <<load, picked, panelVars, userVars>>

---------------------------------------------------------------------------
(* The page. *)

\* loadFiles up to its fetch.
AskFor(d) ==
    \E l \in Loads :
        /\ load[l] = Idle
        /\ load' = [load EXCEPT ![l] = Sent(d)]
        /\ overlap' = (overlap \/ \E m \in Loads : load[m] # Idle)

\* A click on the row of a folder, and on Up; parentDir gives the root here.
OpenDir(d) ==
    /\ (d # Root /\ rowsDir = Root) \/ (d = Root /\ currentDir # Root)
    /\ AskFor(d)
    /\ UNCHANGED <<changes, upload, picked, panelVars, promised, failed>>

Refresh ==
    /\ AskFor(currentDir)
    /\ UNCHANGED <<changes, upload, picked, panelVars, promised, failed>>

\* The answer of loadFiles: currentDir and the rows change together, whichever
\* folder is shown by now; after an error nothing changes.
LoadFiles(l) ==
    /\ load[l].at \in {"answered", "failed"}
    /\ load' = [load EXCEPT ![l] = Idle]
    /\ IF load[l].at = "answered"
       THEN /\ currentDir' = load[l].dir
            /\ rowsDir' = load[l].dir
            /\ rows' = load[l].value
            /\ UNCHANGED failed
       ELSE /\ failed' = TRUE
            /\ UNCHANGED panelVars
    /\ UNCHANGED <<changes, upload, picked, promised, overlap>>

PickFile ==
    /\ ~picked
    /\ picked' = TRUE
    /\ UNCHANGED <<changes, load, upload, panelVars, userVars>>

\* uploadFile up to its fetch: the path is built from the folder shown now.
ClickUpload(u) ==
    /\ picked
    /\ upload[u] = Idle
    /\ upload' = [upload EXCEPT ![u] = Sent(currentDir)]
    /\ UNCHANGED <<changes, load, picked, panelVars, userVars>>

Most(m, n) == IF m > n THEN m ELSE n

\* Mutant: the list is not loaded again after an upload.
UploadFileNoReload(u) ==
    /\ upload[u].at = "answered"
    /\ upload' = [upload EXCEPT ![u] = Idle]
    /\ picked' = FALSE
    /\ promised' = [promised EXCEPT ![upload[u].dir] = Most(@, upload[u].value)]
    /\ UNCHANGED <<changes, load, overlap, panelVars, failed>>

\* The answer to the PUT: "Saved ...", the choice is cleared and the folder that
\* is shown by now is loaded again; an error is only reported.
UploadFile(u) ==
    /\ upload[u].at \in {"answered", "failed"}
    /\ upload' = [upload EXCEPT ![u] = Idle]
    /\ IF upload[u].at = "answered"
       THEN /\ picked' = FALSE
            /\ promised' = [promised EXCEPT ![upload[u].dir] = Most(@, upload[u].value)]
            /\ AskFor(currentDir)
       ELSE UNCHANGED <<picked, promised, load, overlap>>
    /\ UNCHANGED <<changes, panelVars, failed>>

---------------------------------------------------------------------------

Next ==
    \/ \E d \in Dirs : OthersChange(d) \/ OpenDir(d)
    \/ \E l \in Loads : AnswerLoad(l) \/ LoadFiles(l)
    \/ \E u \in Uploads : ClickUpload(u) \/ AnswerUpload(u) \/ UploadFile(u)
    \/ Refresh \/ PickFile

Spec == Init /\ [][Next]_vars

---------------------------------------------------------------------------
(* Properties. *)

Quiet == \A l \in Loads : load[l] = Idle

\* A user who was told that a file is saved, and whose listings were loaded one
\* after the other and without errors, finds it in the list of its folder, also
\* when the folder was left and opened again during the upload.  (Answers that
\* overtake each other can leave an older listing, or another folder, on the
\* page.)
UploadIsListed == Quiet /\ ~overlap /\ ~failed => rows >= promised[currentDir]
=============================================================================
