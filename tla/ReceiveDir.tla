----------------------------- MODULE ReceiveDir -----------------------------
(***************************************************************************)
(* The receive directory and the threads that write and read it: uploads   *)
(* through a temporary file (src/src/transfer_io.c, src/src/fs.c), the     *)
(* HTTP handler that stats what it saved (src/src/http.c) and downloads    *)
(* (app_prepare_download in src/src/app_service.c and the sendfile loop of *)
(* src/src/net.c).  The server can crash and be restarted, also with a     *)
(* process id it had before.                                               *)
(*                                                                         *)
(* Every system call is one step.  An inode is named after the upload that *)
(* created it.  Clients use names that do not look like temporary names,   *)
(* and nobody else changes the directory.  Uploads of the two protocols    *)
(* take the same steps on the directory and differ in how they are         *)
(* answered.                                                               *)
(***************************************************************************)
EXTENDS Integers

CONSTANTS
    Names,       \* file names clients use
    Uploads,     \* uploads, and the inodes they create
    Downloads,   \* downloads
    Size,        \* the content size announced by each upload
    Pids,        \* process ids the server can get
    Attempts,    \* temporary names tried per upload: 3 in the code
    MaxCrashes,  \* bound: how often the server crashes
    NoFile       \* no inode

ASSUME ReceiveDirAssumption ==
    /\ NoFile \notin Uploads
    /\ Size \in [Uploads -> Nat]
    /\ Attempts \in Nat \ {0}
    /\ MaxCrashes \in Nat

VARIABLES
    dir,       \* final names to inodes
    temp,      \* temporary names <<name, pid, attempt>> to inodes
    written,   \* bytes in each inode
    pid,       \* the process id of the running server
    alive,     \* the server runs
    crashes,   \* how often it crashed
    up,        \* where each upload is
    target,    \* [name, pid, attempt]: the paths an upload thread holds
    ino,       \* the inode behind an upload's descriptor
    down,      \* where each download is
    dino,      \* the inode behind a download's descriptor
    dsize,     \* its size when fstat was called
    sent       \* bytes sent so far

vars == <<dir, temp, written, pid, alive, crashes, up, target, ino, down, dino,
          dsize, sent>>

dirVars == <<dir, temp, written>>
procVars == <<pid, alive, crashes>>
upVars == <<up, target, ino>>
downVars == <<down, dino, dsize, sent>>

TempNames == Names \X Pids \X (0 .. Attempts - 1)
UploadPCs == {"new", "temp", "body", "cleanup", "saved", "failed", "ok",
              "refused", "lost"}
DownloadPCs == {"new", "open", "ok", "failed"}
Inode == Uploads \cup {NoFile}

TypeOK ==
    /\ dir \in [Names -> Inode]
    /\ temp \in [TempNames -> Inode]
    /\ written \in [Uploads -> Nat]
    /\ pid \in Pids
    /\ alive \in BOOLEAN
    /\ crashes \in 0..MaxCrashes
    /\ up \in [Uploads -> UploadPCs]
    /\ target \in [Uploads -> TempNames]
    /\ ino \in [Uploads -> Inode]
    /\ down \in [Downloads -> DownloadPCs]
    /\ dino \in [Downloads -> Inode]
    /\ dsize \in [Downloads -> Nat]
    /\ sent \in [Downloads -> Nat]

Init ==
    /\ dir = [n \in Names |-> NoFile]
    /\ temp = [t \in TempNames |-> NoFile]
    /\ written = [u \in Uploads |-> 0]
    /\ pid \in Pids
    /\ alive = TRUE
    /\ crashes = 0
    /\ up = [u \in Uploads |-> "new"]
    /\ \E n \in Names : target = [u \in Uploads |-> <<n, pid, 0>>]
    /\ ino = [u \in Uploads |-> NoFile]
    /\ down = [d \in Downloads |-> "new"]
    /\ dino = [d \in Downloads |-> NoFile]
    /\ dsize = [d \in Downloads |-> 0]
    /\ sent = [d \in Downloads |-> 0]

---------------------------------------------------------------------------
(* Uploads. *)

Finished == {"ok", "refused", "lost"}

\* An upload thread moves on and changes nothing else of its own.
UploadGoto(u, next) ==
    /\ up' = [up EXCEPT ![u] = next]
    /\ UNCHANGED <<procVars, downVars>>

\* app_receive_file is called; getpid and the joined path are fixed here.
StartUpload(u) ==
    /\ alive
    /\ up[u] = "new"
    /\ \E n \in Names : target' = [target EXCEPT ![u] = <<n, pid, 0>>]
    /\ UploadGoto(u, "temp")
    /\ UNCHANGED <<dirVars, ino>>

\* Mutant: the file is opened without O_EXCL, so an existing one is truncated.
OpenTempShared(u) ==
    LET t == target[u]
        i == IF temp[t] = NoFile THEN u ELSE temp[t]
    IN  /\ up[u] = "temp"
        /\ temp' = [temp EXCEPT ![t] = i]
        /\ written' = [written EXCEPT ![i] = 0]
        /\ ino' = [ino EXCEPT ![u] = i]
        /\ UploadGoto(u, "body")
        /\ UNCHANGED <<dir, target>>

\* The loop of transfer_prepare_output: fs_open_temp_file creates the file
\* with O_EXCL; on EEXIST the next attempt number is tried, and after the last
\* one the upload fails.  Other errors of open end it at once.
OpenTemp(u) ==
    LET t == target[u]
    IN  /\ up[u] = "temp"
        /\ IF temp[t] = NoFile
           THEN \/ /\ temp' = [temp EXCEPT ![t] = u]
                   /\ ino' = [ino EXCEPT ![u] = u]
                   /\ UploadGoto(u, "body")
                   /\ UNCHANGED target
                \/ /\ UploadGoto(u, "failed")
                   /\ UNCHANGED <<temp, ino, target>>
           ELSE /\ IF t[3] + 1 < Attempts
                   THEN /\ target' = [target EXCEPT ![u] = <<t[1], t[2], t[3] + 1>>]
                        /\ UploadGoto(u, "temp")
                   ELSE /\ UploadGoto(u, "failed")
                        /\ UNCHANGED target
                /\ UNCHANGED <<temp, ino>>
        /\ UNCHANGED <<dir, written>>

\* net_recv_file_best_effort or the HTTP body loop writes some bytes ...
WriteBody(u) ==
    /\ up[u] = "body"
    /\ written[ino[u]] < Size[u]
    /\ written' = [written EXCEPT ![ino[u]] = @ + 1]
    /\ UploadGoto(u, "body")
    /\ UNCHANGED <<dir, temp, target, ino>>

\* ... or fails: EOF, a receive timeout, a full disk, and later a close or a
\* rename that fails.
BodyFails(u) ==
    /\ up[u] = "body"
    /\ UploadGoto(u, "cleanup")
    /\ UNCHANGED <<dirVars, target, ino>>

\* Mutant: the file is renamed before all of its bytes have arrived.
PublishEarly(u) ==
    /\ up[u] = "body"
    /\ temp[target[u]] # NoFile
    /\ dir' = [dir EXCEPT ![target[u][1]] = temp[target[u]]]
    /\ temp' = [temp EXCEPT ![target[u]] = NoFile]
    /\ UploadGoto(u, "saved")
    /\ UNCHANGED <<written, target, ino>>

\* transfer_finalize_output: close, then rename the temporary path, whatever
\* inode is behind it, to the final path.
Publish(u) ==
    /\ up[u] = "body"
    /\ written[ino[u]] = Size[u]
    /\ temp[target[u]] # NoFile
    /\ dir' = [dir EXCEPT ![target[u][1]] = temp[target[u]]]
    /\ temp' = [temp EXCEPT ![target[u]] = NoFile]
    /\ UploadGoto(u, "saved")
    /\ UNCHANGED <<written, target, ino>>

\* Mutant: the temporary file is not removed.
CleanupKeepingTemp(u) ==
    /\ up[u] = "cleanup"
    /\ UploadGoto(u, "failed")
    /\ UNCHANGED <<dirVars, target, ino>>

\* CLEANUP: the descriptor is closed and the temporary path removed.
Cleanup(u) ==
    /\ up[u] = "cleanup"
    /\ temp' = [temp EXCEPT ![target[u]] = NoFile]
    /\ UploadGoto(u, "failed")
    /\ UNCHANGED <<dir, written, target, ino>>

\* Mutant: a failed upload is answered like a saved one.
AnswerAlwaysOk(u) ==
    /\ up[u] \in {"saved", "failed"}
    /\ UploadGoto(u, "ok")
    /\ UNCHANGED <<dirVars, target, ino>>

\* The FINAL frame of the file transfer handler: OK after the rename, FAILED
\* otherwise.
Answer(u) ==
    /\ up[u] \in {"saved", "failed"}
    /\ UploadGoto(u, IF up[u] = "saved" THEN "ok" ELSE "refused")
    /\ UNCHANGED <<dirVars, target, ino>>

\* http_handle_file_put: 201 if the saved path is there when it is statted, 400,
\* 413 or 500 otherwise.
AnswerHttp(u) ==
    /\ up[u] \in {"saved", "failed"}
    /\ UploadGoto(u, IF up[u] = "saved" /\ dir[target[u][1]] # NoFile
                     THEN "ok" ELSE "refused")
    /\ UNCHANGED <<dirVars, target, ino>>

\* The response is not sent or does not reach the client.
AnswerLost(u) ==
    /\ up[u] \in {"saved", "failed"}
    /\ UploadGoto(u, "lost")
    /\ UNCHANGED <<dirVars, target, ino>>

---------------------------------------------------------------------------
(* Downloads. *)

\* app_prepare_download: open, and fstat of the open descriptor.
OpenDownload(d) ==
    /\ alive
    /\ down[d] = "new"
    /\ \E n \in Names :
          IF dir[n] # NoFile
          THEN /\ dino' = [dino EXCEPT ![d] = dir[n]]
               /\ dsize' = [dsize EXCEPT ![d] = written[dir[n]]]
               /\ down' = [down EXCEPT ![d] = "open"]
          ELSE /\ down' = [down EXCEPT ![d] = "failed"]
               /\ UNCHANGED <<dino, dsize>>
    /\ UNCHANGED <<dirVars, procVars, upVars, sent>>

\* sendfile sends some bytes; it returns 0 at the end of the file.
SendFile(d) ==
    /\ down[d] = "open"
    /\ sent[d] < dsize[d]
    /\ IF sent[d] < written[dino[d]]
       THEN /\ sent' = [sent EXCEPT ![d] = @ + 1]
            /\ UNCHANGED down
       ELSE /\ down' = [down EXCEPT ![d] = "failed"]   \* SOURCE_CHANGED
            /\ UNCHANGED sent
    /\ UNCHANGED <<dirVars, procVars, upVars, dino, dsize>>

FinishDownload(d) ==
    /\ down[d] = "open"
    /\ sent[d] = dsize[d]
    /\ down' = [down EXCEPT ![d] = "ok"]
    /\ UNCHANGED <<dirVars, procVars, upVars, dino, dsize, sent>>

\* The connection breaks.
DownloadFails(d) ==
    /\ down[d] = "open"
    /\ down' = [down EXCEPT ![d] = "failed"]
    /\ UNCHANGED <<dirVars, procVars, upVars, dino, dsize, sent>>

---------------------------------------------------------------------------
(* Crash and restart. *)

\* The process dies; what is in the directory stays there.
Crash ==
    /\ alive
    /\ crashes < MaxCrashes
    /\ alive' = FALSE
    /\ crashes' = crashes + 1
    /\ up' = [u \in Uploads |-> IF up[u] \in {"new"} \cup Finished THEN up[u]
                                ELSE "lost"]
    /\ down' = [d \in Downloads |-> IF down[d] = "open" THEN "failed" ELSE down[d]]
    /\ UNCHANGED <<dirVars, pid, target, ino, dino, dsize, sent>>

\* The server is started again; nothing removes temporary files.
Restart ==
    /\ ~alive
    /\ alive' = TRUE
    /\ pid' \in Pids
    /\ UNCHANGED <<dirVars, crashes, upVars, downVars>>

---------------------------------------------------------------------------

Next ==
    \/ \E u \in Uploads :
         \/ StartUpload(u) \/ OpenTemp(u) \/ WriteBody(u) \/ BodyFails(u)
         \/ Publish(u) \/ Cleanup(u) \/ Answer(u) \/ AnswerHttp(u) \/ AnswerLost(u)
    \/ \E d \in Downloads :
         \/ OpenDownload(d) \/ SendFile(d) \/ FinishDownload(d) \/ DownloadFails(d)
    \/ Crash \/ Restart

Spec == Init /\ [][Next]_vars

---------------------------------------------------------------------------
(* Properties. *)

\* Whatever is under a final name is a whole upload: no reader, and no crash
\* at any point, finds a partial file there.
PublishedIsComplete ==
    \A n \in Names : dir[n] # NoFile => written[dir[n]] = Size[dir[n]]

\* O_EXCL and the attempt number keep uploads apart: the temporary path of an
\* upload under way holds that upload's own inode, also when another upload of
\* the same name runs, or a crashed server with the same pid left files.
TempIsOwn ==
    \A u \in Uploads :
        up[u] \in {"body", "cleanup"} => ino[u] = u /\ temp[target[u]] = u

\* A temporary file belongs to an upload under way, or the server crashed while
\* it was: uploads that fail clean up after themselves.
TempHasOwner ==
    \A t \in TempNames : temp[t] # NoFile =>
        \/ up[temp[t]] \in {"body", "cleanup"}
        \/ up[temp[t]] = "lost" /\ crashes > 0

\* The file behind a download's descriptor never changes under it, whatever is
\* uploaded to the same name: no download fails with SOURCE_CHANGED here.
DownloadIsStable ==
    \A d \in Downloads : down[d] = "open" => written[dino[d]] = dsize[d]

\* What the client of an upload can know: nothing yet, or the answer it got.
PutState(at) ==
    IF at \in Finished THEN at ELSE IF at = "saved" THEN "applied" ELSE "new"

\* The directory implements atomic files.
Abstract == INSTANCE AtomicFiles WITH
    Puts <- Uploads,
    Gets <- Downloads,
    files <- dir,
    put <- [u \in Uploads |-> PutState(up[u])],
    get <- down,
    opened <- dino,
    amount <- [d \in Downloads |-> IF down[d] = "ok" THEN sent[d] ELSE 0]

\* Uploads and downloads are atomic: every behaviour of the directory is one
\* of AtomicFiles.
ImplementsAtomicFiles == Abstract!Spec
=============================================================================
