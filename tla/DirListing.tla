----------------------------- MODULE DirListing -----------------------------
(***************************************************************************)
(* GET /api/files on a directory that uploads are changing: the            *)
(* opendir/readdir/lstat loop of http_list_files (src/src/http.c) next to  *)
(* every step of ReceiveDir, and the size that PUT reports after its own   *)
(* rename.  Neither takes a lock.                                          *)
(*                                                                         *)
(* readdir is as unspecific as POSIX: it returns the entries that are      *)
(* there from opendir to the end once, and may or may not return entries   *)
(* that come or go meanwhile.                                              *)
(***************************************************************************)
EXTENDS ReceiveDir, Sequences, Functions

CONSTANTS
    Mtime,     \* the time of the last write of each inode, in seconds
    Rank,      \* the order of strcmp on entry names
    MaxRows    \* bound: entries readdir returns

ASSUME DirListingAssumption ==
    /\ Mtime \in [Uploads -> Nat]
    /\ Rank \in [Names \cup TempNames -> Nat]
    /\ MaxRows \in Nat

VARIABLES
    list,      \* where the listing thread is
    unread,    \* entries readdir still has to return
    entry,     \* the entry it returned last
    rows,      \* the entries collected so far, and the answer
    steady,    \* entries that have been there since opendir
    told,      \* the size in the 201 answer of each upload
    pubs       \* inodes in the order in which they were renamed, per name

listVars == <<list, unread, entry, rows, steady>>
putVars == <<told, pubs>>
allVars == <<vars, listVars, putVars>>

Entries == Names \cup TempNames

\* The inode behind an entry.
At(e) == IF e \in Names THEN dir[e] ELSE temp[e]
Present == {e \in Entries : At(e) # NoFile}

Row == [name : Entries, ino : Uploads, size : Nat]

ListTypeOK ==
    /\ TypeOK
    /\ list \in {"idle", "read", "stat", "done", "failed"}
    /\ unread \subseteq Entries
    /\ entry \in Entries
    /\ rows \in Seq(Row)
    /\ steady \subseteq Entries
    /\ told \in [Uploads -> Nat \cup {-1}]
    /\ pubs \in [Names -> Seq(Uploads)]

ListInit ==
    /\ Init
    /\ list = "idle"
    /\ unread = {} /\ steady = {}
    /\ entry = CHOOSE e \in Entries : TRUE
    /\ rows = <<>>
    /\ told = [u \in Uploads |-> -1]
    /\ pubs = [n \in Names |-> <<>>]

---------------------------------------------------------------------------
(* Uploads, observed. *)

\* fs_stat_path of the saved path at the end of http_handle_file_put: the size
\* of what is behind the name now.
StatSize(u) == written[dir[target[u][1]]]

\* Any step of the directory.  A PUT answers with the size it has statted; a
\* crash ends the listing too.
DirStep ==
    /\ Next
    /\ told' = [u \in Uploads |->
                  IF up[u] = "saved" /\ up'[u] = "ok" THEN StatSize(u) ELSE told[u]]
    /\ pubs' = [n \in Names |-> IF dir'[n] = dir[n] THEN pubs[n]
                                ELSE Append(pubs[n], dir'[n])]
    /\ steady' = steady \cap Present'
    /\ IF alive /\ ~alive' /\ list \in {"read", "stat"}
       THEN list' = "failed" /\ rows' = <<>>
       ELSE UNCHANGED <<list, rows>>
    /\ UNCHANGED <<unread, entry>>

---------------------------------------------------------------------------
(* The listing. *)

OpenDir ==
    /\ alive
    /\ list = "idle"
    /\ list' = "read"
    /\ unread' = Present
    /\ steady' = Present
    /\ UNCHANGED <<vars, putVars, entry, rows>>

\* readdir returns an entry it had not returned, or one that is new.
ReadEntry ==
    /\ list = "read"
    /\ Len(rows) < MaxRows
    /\ entry' \in unread \cup (Present \ steady)
    /\ unread' = unread \ {entry'}
    /\ list' = "stat"
    /\ UNCHANGED <<vars, putVars, rows, steady>>

\* Mutant: an entry that cannot be statted ends the listing as if it were the
\* last one.
StatEntryStops ==
    /\ list = "stat"
    /\ IF entry \in Present
       THEN /\ rows' = Append(rows, [name |-> entry, ino |-> At(entry),
                                     size |-> written[At(entry)]])
            /\ list' = "read"
       ELSE /\ list' = "done"
            /\ UNCHANGED rows
    /\ UNCHANGED <<vars, putVars, unread, entry, steady>>

\* fs_stat_path of the joined path: a row, or nothing if the entry has gone.
StatEntry ==
    /\ list = "stat"
    /\ rows' = IF entry \in Present
               THEN Append(rows, [name |-> entry, ino |-> At(entry),
                                  size |-> written[At(entry)]])
               ELSE rows
    /\ list' = "read"
    /\ UNCHANGED <<vars, putVars, unread, entry, steady>>

\* http_file_entry_cmp: newest first, then by name.
EntryCmp(a, b) ==
    \/ Mtime[a.ino] > Mtime[b.ino]
    \/ Mtime[a.ino] = Mtime[b.ino] /\ Rank[a.name] < Rank[b.name]

\* qsort: the rows in an order without a row before one that precedes it; rows
\* that compare equal (a new entry that was returned twice) stay in any order.
Sorted(s) ==
    {r \in {[i \in 1 .. Len(s) |-> s[p[i]]] : p \in Bijection(1 .. Len(s), 1 .. Len(s))} :
        \A i, j \in 1 .. Len(s) : i < j => ~EntryCmp(r[j], r[i])}

\* readdir returns NULL: nothing is left that it has to return.  The rows are
\* sorted and become the answer.
Finish ==
    /\ list = "read"
    /\ unread \cap steady = {}
    /\ rows' \in Sorted(rows)
    /\ list' = "done"
    /\ UNCHANGED <<vars, putVars, unread, entry, steady>>

\* A path that does not fit its buffer, or no memory: 500 and no list.
ListFails ==
    /\ list \in {"read", "stat"}
    /\ list' = "failed"
    /\ rows' = <<>>
    /\ UNCHANGED <<vars, putVars, unread, entry, steady>>

---------------------------------------------------------------------------

ListNext == DirStep \/ OpenDir \/ ReadEntry \/ StatEntry \/ Finish \/ ListFails

ListSpec == ListInit /\ [][ListNext]_allVars

---------------------------------------------------------------------------
(* Properties. *)

RowsOf(e) == {i \in DOMAIN rows : rows[i].name = e}

\* A listing shows every entry that was there from beginning to end, once, also
\* a file that was replaced in between; it loses no file to the uploads around
\* it.
ListsEverythingSteady ==
    list = "done" => \A e \in steady : \E i \in DOMAIN rows : RowsOf(e) = {i}

Index(s, u) == CHOOSE i \in DOMAIN s : s[i] = u

\* The size that a PUT reports is that of a whole upload to the same name,
\* published by itself or after itself: never of an older file, and never of a
\* part of one.
PutReportsWholeFile ==
    \A u \in Uploads : told[u] # -1 =>
        LET s == pubs[target[u][1]]
        IN  /\ \E i \in DOMAIN s : s[i] = u
            /\ \E j \in Index(s, u) .. Len(s) : told[u] = Size[s[j]]
=============================================================================
