-------------------------- MODULE ClientDownloads ---------------------------
(***************************************************************************)
(* Several hf -g commands that write to one directory: client_get_file and *)
(* client_open_temp_download (src/src/client.c) at the level of system     *)
(* calls.  A command can be killed at any point; its temporary file stays, *)
(* and its process id can go to a later command.  Commands that run at the *)
(* same time have different process ids.                                   *)
(*                                                                         *)
(* An inode is named after the command that created it.  What the server   *)
(* sends is the subject of FileTransfer; here a body ends early or comes   *)
(* in full, and FINAL says that it did or does not.                        *)
(***************************************************************************)
EXTENDS Integers

CONSTANTS
    Names,      \* output paths
    Clients,    \* runs of hf -g, and the inodes they create
    Pids,       \* process ids
    Attempts,   \* temporary names tried: 3 in the code
    Size,       \* the length of the files
    NoFile      \* no inode

ASSUME ClientDownloadsAssumption ==
    /\ NoFile \notin Clients
    /\ Names # {} /\ Pids # {}
    /\ Attempts \in Nat \ {0}
    /\ Size \in Nat

VARIABLES
    out,      \* output paths to inodes
    temp,     \* temporary names <<path, pid, attempt>> to inodes
    got,      \* bytes in each inode
    pc,       \* where each command is
    pid,      \* its process id
    path      \* its tmp_path

vars == <<out, temp, got, pc, pid, path>>

TempNames == Names \X Pids \X (0 .. Attempts - 1)
Inode == Clients \cup {NoFile}
Live(c) == pc[c] \in {"open", "body", "final", "rename", "cleanup"}

TypeOK ==
    /\ out \in [Names -> Inode]
    /\ temp \in [TempNames -> Inode]
    /\ got \in [Clients -> 0 .. Size]
    /\ pc \in [Clients -> {"new", "open", "body", "final", "rename", "cleanup",
                           "ok", "failed", "killed"}]
    /\ pid \in [Clients -> Pids]
    /\ path \in [Clients -> TempNames]

Init ==
    /\ out = [n \in Names |-> NoFile]
    /\ temp = [t \in TempNames |-> NoFile]
    /\ got = [c \in Clients |-> 0]
    /\ pc = [c \in Clients |-> "new"]
    /\ pid = [c \in Clients |-> CHOOSE p \in Pids : TRUE]
    /\ path = [c \in Clients |-> CHOOSE t \in TempNames : TRUE]

---------------------------------------------------------------------------

Goto(c, next) == pc' = [pc EXCEPT ![c] = next]

\* Mutant: the process id is not part of the temporary name.
TempPathWithoutPid(n, p, a) == <<n, CHOOSE q \in Pids : TRUE, a>>

\* fs_build_temp_path: "%s.tmp.%d.%d".
TempPath(n, p, a) == <<n, p, a>>

\* READY, the prefix and the size were fine; the output path is known.  The
\* kernel gives a pid that no running command has.
Start(c) ==
    /\ pc[c] = "new"
    /\ \E p \in Pids, n \in Names :
          /\ \A d \in Clients : Live(d) => pid[d] # p
          /\ pid' = [pid EXCEPT ![c] = p]
          /\ path' = [path EXCEPT ![c] = TempPath(n, p, 0)]
    /\ Goto(c, "open")
    /\ UNCHANGED <<out, temp, got>>

\* client_open_temp_download: O_EXCL, the next attempt after EEXIST, failure
\* after the last one and after any other error.  tmp_path keeps the last name
\* that was tried, and CLEAN_UP follows.
OpenTemp(c) ==
    LET t == path[c]
        Fail == Goto(c, "cleanup") /\ UNCHANGED <<temp, path>>
    IN  /\ pc[c] = "open"
        /\ \/ /\ temp[t] = NoFile
              /\ temp' = [temp EXCEPT ![t] = c]
              /\ Goto(c, "body")
              /\ UNCHANGED path
           \/ /\ temp[t] = NoFile
              /\ Fail
           \/ /\ temp[t] # NoFile /\ t[3] + 1 < Attempts
              /\ path' = [path EXCEPT ![c] = TempPath(t[1], pid[c], t[3] + 1)]
              /\ Goto(c, "open")
              /\ UNCHANGED temp
           \/ /\ temp[t] # NoFile /\ t[3] + 1 >= Attempts
              /\ Fail
        /\ UNCHANGED <<out, got, pid>>

\* client_recv_file_body writes a byte, to the inode behind the descriptor.
RecvBody(c) ==
    /\ pc[c] = "body"
    /\ got[c] < Size
    /\ got' = [got EXCEPT ![c] = @ + 1]
    /\ UNCHANGED <<out, temp, pc, pid, path>>

\* The body is complete and the descriptor closed, or an error ends either.
CloseBody(c) ==
    /\ pc[c] = "body"
    /\ \/ got[c] = Size /\ Goto(c, "final")
       \/ Goto(c, "cleanup")
    /\ UNCHANGED <<out, temp, got, pid, path>>

\* The FINAL frame says OK, or anything else, or does not come.
RecvFinal(c) ==
    /\ pc[c] = "final"
    /\ \E next \in {"rename", "cleanup"} : Goto(c, next)
    /\ UNCHANGED <<out, temp, got, pid, path>>

\* fs_commit_temp_file renames what is behind the temporary path.
Rename(c) ==
    /\ pc[c] = "rename"
    /\ \/ /\ temp[path[c]] # NoFile
          /\ out' = [out EXCEPT ![path[c][1]] = temp[path[c]]]
          /\ temp' = [temp EXCEPT ![path[c]] = NoFile]
          /\ Goto(c, "ok")
       \/ /\ Goto(c, "cleanup")
          /\ UNCHANGED <<out, temp>>
    /\ UNCHANGED <<got, pid, path>>

\* CLEAN_UP removes tmp_path, also when all attempts found a file there and the
\* command never had one.
CleanUp(c) ==
    /\ pc[c] = "cleanup"
    /\ temp' = [temp EXCEPT ![path[c]] = NoFile]
    /\ Goto(c, "failed")
    /\ UNCHANGED <<out, got, pid, path>>

\* Ctrl-C or a crash.
Kill(c) ==
    /\ Live(c)
    /\ Goto(c, "killed")
    /\ UNCHANGED <<out, temp, got, pid, path>>

Next ==
    \E c \in Clients :
        \/ Start(c) \/ OpenTemp(c) \/ RecvBody(c) \/ CloseBody(c) \/ RecvFinal(c)
        \/ Rename(c) \/ CleanUp(c) \/ Kill(c)

Spec == Init /\ [][Next]_vars

---------------------------------------------------------------------------
(* Properties. *)

\* A command removes its own temporary file or that of a command that was
\* killed: the name that is left in tmp_path when all attempts failed never
\* belongs to a running command.
OnlyOrphansRemoved ==
    [][\A t \in TempNames : temp[t] # NoFile /\ temp'[t] = NoFile =>
          \/ pc[temp[t]] = "killed"
          \/ pc'[temp[t]] \in {"ok", "failed"} /\ pc[temp[t]] \in {"rename", "cleanup"}]_vars
=============================================================================
