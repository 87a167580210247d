---------------------------- MODULE ClientsProofs ---------------------------
(***************************************************************************)
(* Proofs about the programs at the other end of the server, as MCClients  *)
(* composes them: any number of hf -g commands, paths, process ids and     *)
(* attempts (ClientDownloads), any number of posts and drafts on the page  *)
(* (WebMessages), any number of folders, listings and uploads (WebFiles).  *)
(***************************************************************************)
EXTENDS MCClients, TLAPS

---------------------------------------------------------------------------
(* hf -g: who owns a temporary name. *)

\* A name carries the process id of the command that uses it, commands that run
\* have different ones, and a temporary file is at the name that its command
\* opened until that command has ended or was killed.
OwnerInv ==
    /\ \A c \in Clients : pc[c] # "new" => path[c][2] = pid[c]
    /\ \A c, d \in Clients : Live(c) /\ Live(d) /\ c # d => pid[c] # pid[d]
    /\ \A t \in TempNames : temp[t] # NoFile =>
          /\ path[temp[t]] = t
          /\ pc[temp[t]] \in {"body", "final", "rename", "cleanup", "killed"}

DownloadsInv == TypeOK /\ OwnerInv

\* The first name that is tried.
LEMMA FirstName ==
    ASSUME NEW n \in Names, NEW p \in Pids
    PROVE  TempPath(n, p, 0) \in TempNames /\ TempPath(n, p, 0)[2] = p
  BY ClientDownloadsAssumption DEF TempNames, TempPath

\* No command has a file yet.
LEMMA DownloadsInit == Init => DownloadsInv
<1>. SUFFICES ASSUME Init PROVE DownloadsInv
  OBVIOUS
<1>1. TempNames # {} /\ Pids # {}
  <2>1. PICK n \in Names, p \in Pids : TRUE
    BY ClientDownloadsAssumption
  <2>2. TempPath(n, p, 0) \in TempNames
    BY FirstName
  <2>. QED  BY <2>2
<1>2. (CHOOSE p \in Pids : TRUE) \in Pids /\ (CHOOSE t \in TempNames : TRUE) \in TempNames
  BY <1>1
<1>3. TypeOK
  BY <1>2, ClientDownloadsAssumption DEF Init, TypeOK, Inode
<1>4. OwnerInv
  BY <1>2 DEF Init, OwnerInv, Live
<1>. QED  BY <1>3, <1>4 DEF DownloadsInv

\* The next name of client_open_temp_download is a name of the same process.
LEMMA NextName ==
    ASSUME TypeOK, NEW c \in Clients, path[c][3] + 1 < Attempts
    PROVE  /\ TempPath(path[c][1], pid[c], path[c][3] + 1) \in TempNames
           /\ TempPath(path[c][1], pid[c], path[c][3] + 1)[2] = pid[c]
  BY ClientDownloadsAssumption DEF TypeOK, TempNames, TempPath

\* Every step of a command keeps the types and the owners.
LEMMA DownloadsStep == DownloadsInv /\ [Next]_vars => DownloadsInv'
<1>. SUFFICES ASSUME DownloadsInv, [Next]_vars PROVE DownloadsInv'
  OBVIOUS
<1>. USE DEF DownloadsInv
<1>1. CASE UNCHANGED vars
  BY <1>1 DEF vars, TypeOK, OwnerInv, Live
<1>2. ASSUME NEW c \in Clients, Start(c) PROVE DownloadsInv'
  <2>1. PICK p \in Pids, n \in Names :
           /\ \A d \in Clients : Live(d) => pid[d] # p
           /\ pid' = [pid EXCEPT ![c] = p]
           /\ path' = [path EXCEPT ![c] = TempPath(n, p, 0)]
    BY <1>2 DEF Start
  <2>2. /\ pc[c] = "new" /\ pc' = [pc EXCEPT ![c] = "open"]
        /\ UNCHANGED <<out, temp, got>>
    BY <1>2 DEF Start, Goto
  <2>3. TypeOK'
    BY <2>1, <2>2, FirstName DEF TypeOK
  <2>4. OwnerInv'
    BY <2>1, <2>2, FirstName, ClientDownloadsAssumption DEF TypeOK, OwnerInv, Live, Inode
  <2>. QED  BY <2>3, <2>4
<1>3. ASSUME NEW c \in Clients, OpenTemp(c) PROVE DownloadsInv'
  <2>1. pc[c] = "open" /\ UNCHANGED <<out, got, pid>>
    BY <1>3 DEF OpenTemp
  <2>2. CASE /\ temp[path[c]] = NoFile /\ temp' = [temp EXCEPT ![path[c]] = c]
             /\ Goto(c, "body") /\ UNCHANGED path
    <3>1. TypeOK'
      BY <2>1, <2>2 DEF TypeOK, Inode, Goto
    <3>2. OwnerInv'
      BY <2>1, <2>2, ClientDownloadsAssumption DEF TypeOK, OwnerInv, Live, Inode, Goto
    <3>. QED  BY <3>1, <3>2
  <2>3. CASE Goto(c, "cleanup") /\ UNCHANGED <<temp, path>>
    BY <2>1, <2>3, ClientDownloadsAssumption DEF TypeOK, OwnerInv, Live, Inode, Goto
  <2>4. CASE /\ path[c][3] + 1 < Attempts
             /\ path' = [path EXCEPT ![c] = TempPath(path[c][1], pid[c], path[c][3] + 1)]
             /\ Goto(c, "open") /\ UNCHANGED temp
    <3>1. TypeOK'
      BY <2>1, <2>4, NextName DEF TypeOK, Goto
    <3>2. OwnerInv'
      BY <2>1, <2>4, NextName, ClientDownloadsAssumption
         DEF TypeOK, OwnerInv, Live, Inode, Goto
    <3>. QED  BY <3>1, <3>2
  <2>. QED  BY <1>3, <2>2, <2>3, <2>4 DEF OpenTemp
<1>4. ASSUME NEW c \in Clients, RecvBody(c) PROVE DownloadsInv'
  <2>1. got[c] \in 0 .. Size /\ got[c] < Size => got[c] + 1 \in 0 .. Size
    BY ClientDownloadsAssumption
  <2>. QED  BY <1>4, <2>1 DEF RecvBody, TypeOK, OwnerInv, Live
<1>5. ASSUME NEW c \in Clients, CloseBody(c) \/ RecvFinal(c) \/ Kill(c) PROVE DownloadsInv'
  <2>1. UNCHANGED <<out, temp, got, pid, path>>
    BY <1>5 DEF CloseBody, RecvFinal, Kill
  <2>2. PICK s \in {"final", "rename", "cleanup", "killed"} :
           pc' = [pc EXCEPT ![c] = s] /\ Live(c)
    BY <1>5 DEF CloseBody, RecvFinal, Kill, Goto, Live
  <2>3. s # "killed" => pc[c] \in {"body", "final"}
    BY <1>5, <2>2 DEF CloseBody, RecvFinal, Kill, Goto, TypeOK
  <2>4. TypeOK'
    BY <2>1, <2>2 DEF TypeOK
  <2>5. OwnerInv'
    BY <2>1, <2>2, ClientDownloadsAssumption DEF TypeOK, OwnerInv, Live, Inode
  <2>. QED  BY <2>4, <2>5
<1>6. ASSUME NEW c \in Clients, Rename(c) PROVE DownloadsInv'
  <2>1. pc[c] = "rename" /\ UNCHANGED <<got, pid, path>>
    BY <1>6 DEF Rename
  <2>2. CASE /\ temp[path[c]] # NoFile
             /\ out' = [out EXCEPT ![path[c][1]] = temp[path[c]]]
             /\ temp' = [temp EXCEPT ![path[c]] = NoFile] /\ Goto(c, "ok")
    <3>1. TypeOK'
      BY <2>1, <2>2 DEF TypeOK, Inode, Goto
    <3>2. OwnerInv'
      BY <2>1, <2>2, ClientDownloadsAssumption DEF TypeOK, OwnerInv, Live, Inode, Goto
    <3>. QED  BY <3>1, <3>2
  <2>3. CASE Goto(c, "cleanup") /\ UNCHANGED <<out, temp>>
    BY <2>1, <2>3, ClientDownloadsAssumption DEF TypeOK, OwnerInv, Live, Inode, Goto
  <2>. QED  BY <1>6, <2>2, <2>3 DEF Rename
<1>7. ASSUME NEW c \in Clients, CleanUp(c) PROVE DownloadsInv'
  <2>1. TypeOK'
    BY <1>7 DEF CleanUp, TypeOK, Inode, Goto
  <2>2. OwnerInv'
    BY <1>7, ClientDownloadsAssumption DEF CleanUp, TypeOK, OwnerInv, Live, Inode, Goto
  <2>. QED  BY <2>1, <2>2
<1>. QED  BY <1>1, <1>2, <1>3, <1>4, <1>5, <1>6, <1>7 DEF Next

\* Only Rename and CleanUp take a name away, and they take it from their own
\* command or from one that was killed: a running one would have the same pid.
LEMMA RemovalStep ==
    ASSUME DownloadsInv, Next, NEW t \in TempNames, temp[t] # NoFile, temp'[t] = NoFile
    PROVE  \/ pc[temp[t]] = "killed"
           \/ pc'[temp[t]] \in {"ok", "failed"} /\ pc[temp[t]] \in {"rename", "cleanup"}
<1>. USE DEF DownloadsInv
<1>1. PICK c \in Clients : Rename(c) \/ CleanUp(c)
  BY ClientDownloadsAssumption DEF Next, Start, OpenTemp, RecvBody, CloseBody, RecvFinal,
     Kill, TypeOK, Inode
<1>2. /\ pc[c] \in {"rename", "cleanup"} /\ path[c] = t
      /\ pc' = [pc EXCEPT ![c] = IF pc[c] = "rename" THEN "ok" ELSE "failed"]
  BY <1>1 DEF Rename, CleanUp, TypeOK, Goto
<1>3. temp[t] \in Clients /\ path[temp[t]] = t
  BY DEF TypeOK, Inode, OwnerInv
<1>4. CASE temp[t] = c
  BY <1>2, <1>4 DEF TypeOK
<1>5. CASE temp[t] # c
  <2>1. pid[temp[t]] = pid[c]
    BY <1>2, <1>3 DEF OwnerInv
  <2>2. ~ Live(temp[t])
    BY <1>2, <1>3, <1>5, <2>1 DEF OwnerInv, Live
  <2>. QED  BY <2>2 DEF OwnerInv, Live
<1>. QED  BY <1>4, <1>5

---------------------------------------------------------------------------
(* The message panel: where a draft can be. *)

\* What is in the text box while a POST is under way was posted or typed since;
\* what the server has accepted is stored; only the newest draft is in the box.
DraftInv ==
    /\ typed \in Nat
    /\ input \in {0, typed}
    /\ post \in [Posts -> [at : {"idle", "sent", "answered", "failed"}, value : Nat]]
    /\ \A p \in Posts :
          /\ post[p].at # "idle" => input \in {0, post[p].value} \cup hasty
          /\ post[p].at = "answered" => post[p].value \in saved \cup {0}

MessagesInv == DraftInv /\ TextIsKept

\* Nothing has been written yet.
LEMMA MessagesInit == Messages!Init => MessagesInv
  BY DEF Messages!Init, Messages!Idle, MessagesInv, DraftInv, TextIsKept,
     Messages!TextIsKept

\* Every callback of the page and every answer of the server keeps the drafts.
LEMMA MessagesStep == MessagesInv /\ [Messages!Next]_messageVars => MessagesInv'
<1>. SUFFICES ASSUME MessagesInv, [Messages!Next]_messageVars PROVE MessagesInv'
  OBVIOUS
<1>. USE DEF MessagesInv, TextIsKept, Messages!TextIsKept, Messages!draftVars,
             Messages!streamVars, Messages!panelVars
<1>1. CASE UNCHANGED <<post, input, typed, saved, hasty>>
  BY <1>1 DEF DraftInv
<1>2. CASE Messages!Type
  <2>1. /\ input = 0 \/ Messages!Posting
        /\ typed' = typed + 1 /\ input' = typed + 1 /\ UNCHANGED <<post, saved>>
        /\ hasty' = IF Messages!Posting THEN hasty \cup {typed + 1} ELSE hasty
    BY <1>2 DEF Messages!Type
  <2>2. ~Messages!Posting => \A p \in Posts : post[p].at = "idle"
    BY DEF Messages!Posting, Messages!Idle
  <2>3. DraftInv'
    BY <2>1, <2>2 DEF DraftInv
  <2>4. TextIsKept'
    <3>. SUFFICES ASSUME NEW d \in 1 .. typed + 1
                  PROVE  d \in saved \/ d = typed + 1 \/ d \in hasty' \/ d + 1 \in hasty'
      BY <2>1
    <3>1. typed \in Nat /\ hasty \subseteq hasty'
      BY <2>1 DEF DraftInv
    <3>2. CASE d \in 1 .. typed /\ d = input
      BY <2>1, <3>1, <3>2 DEF DraftInv
    <3>. QED  BY <3>1, <3>2
  <2>. QED  BY <2>3, <2>4
<1>3. ASSUME NEW p \in Posts, Messages!ClickPost(p) PROVE MessagesInv'
  BY <1>3 DEF Messages!ClickPost, DraftInv
<1>4. ASSUME NEW p \in Posts, Messages!AnswerPost(p) PROVE MessagesInv'
  <2>1. post[p].at = "sent" /\ UNCHANGED <<input, typed, hasty>>
    BY <1>4 DEF Messages!AnswerPost
  <2>2. CASE /\ saved' = saved \cup ({post[p].value} \ {0})
             /\ post' = [post EXCEPT ![p].at = "answered"]
    BY <2>1, <2>2 DEF DraftInv
  <2>3. CASE post' = [post EXCEPT ![p].at = "failed"] /\ UNCHANGED saved
    BY <2>1, <2>3 DEF DraftInv
  <2>. QED  BY <1>4, <2>2, <2>3 DEF Messages!AnswerPost
<1>5. ASSUME NEW p \in Posts, Messages!PostMessage(p) PROVE MessagesInv'
  <2>1. /\ post' = [post EXCEPT ![p] = Messages!Idle] /\ UNCHANGED <<typed, saved, hasty>>
        /\ \/ post[p].at = "answered" /\ input' = 0
           \/ post[p].at = "failed" /\ UNCHANGED input
    BY <1>5 DEF Messages!PostMessage
  <2>2. DraftInv'
    BY <2>1 DEF DraftInv, Messages!Idle
  <2>3. TextIsKept'
    BY <2>1 DEF DraftInv
  <2>. QED  BY <2>2, <2>3
<1>6. CASE UNCHANGED messageVars
  BY <1>1, <1>6 DEF messageVars
<1>7. CASE \/ Messages!OthersPost \/ Messages!SendEvent \/ Messages!OnMessage
           \/ Messages!Connect \/ Messages!Drop
           \/ \E l \in Loads : Messages!AnswerLoad(l) \/ Messages!LoadLatestMessage(l)
  BY <1>1, <1>7 DEF Messages!OthersPost, Messages!SendEvent, Messages!OnMessage,
     Messages!Connect, Messages!Drop, Messages!AnswerLoad, Messages!LoadLatestMessage
<1>. QED  BY <1>2, <1>3, <1>4, <1>5, <1>6, <1>7 DEF Messages!Next

---------------------------------------------------------------------------
(* The file panel: what a listing under way is good for. *)

FileRequest == [at : {"idle", "sent", "answered", "failed"}, dir : Dirs, value : Nat]

FilesTypeOK ==
    /\ changes \in [Dirs -> Nat]
    /\ listing \in [Listings -> FileRequest]
    /\ upload \in [Uploads -> FileRequest]
    /\ currentDir \in Dirs
    /\ rows \in Nat
    /\ promised \in [Dirs -> Nat]
    /\ overlap \in BOOLEAN
    /\ failed \in BOOLEAN

\* What was promised is on the server.  While no two listings were under way at
\* the same time, an answer on its way shows all that was promised of its folder.
PromiseInv ==
    /\ \A d \in Dirs : promised[d] <= changes[d]
    /\ \A u \in Uploads : upload[u].at = "answered" =>
          upload[u].value <= changes[upload[u].dir]
    /\ ~overlap =>
          /\ \A l, m \in Listings : listing[l] # Files!Idle /\ listing[m] # Files!Idle => l = m
          /\ \A l \in Listings : listing[l].at = "answered" =>
                listing[l].value >= promised[listing[l].dir]

FilesInv == FilesTypeOK /\ PromiseInv /\ UploadIsListed

\* A request for the listing of a folder or for an upload into it.
LEMMA SentIsRequest ==
    ASSUME NEW d \in Dirs
    PROVE  /\ Files!Sent(d) \in FileRequest /\ Files!Sent(d).at = "sent"
           /\ Files!Idle \in FileRequest /\ Files!Idle.at = "idle"
           /\ Files!Sent(d) # Files!Idle
  BY PageAssumption DEF Files!Sent, Files!Idle, FileRequest

\* Nothing has been promised, and the root has been asked for.
LEMMA FilesInit == Files!Init => FilesInv
<1>. SUFFICES ASSUME Files!Init PROVE FilesInv
  OBVIOUS
<1>. DEFINE first == CHOOSE l \in Listings : TRUE
<1>1. listing = [l \in Listings |-> IF l = first THEN Files!Sent(Root) ELSE Files!Idle]
  BY DEF Files!Init
<1>2. \A l \in Listings : /\ listing[l] \in FileRequest /\ listing[l].at # "answered"
                          /\ listing[l] # Files!Idle => l = first
  BY <1>1, SentIsRequest, PageAssumption
<1>. HIDE DEF first
<1>3. FilesTypeOK
  BY <1>1, <1>2, SentIsRequest, PageAssumption DEF Files!Init, FilesTypeOK
<1>4. PromiseInv
  BY <1>2, SentIsRequest, PageAssumption DEF Files!Init, PromiseInv
<1>5. UploadIsListed
  BY PageAssumption DEF Files!Init, UploadIsListed, Files!UploadIsListed
<1>. QED  BY <1>3, <1>4, <1>5 DEF FilesInv

\* loadFiles either is alone or is known to overlap; either way it invalidates
\* nothing that was shown.
LEMMA AskForKeeps ==
    ASSUME FilesTypeOK, NEW d \in Dirs, Files!AskFor(d)
    PROVE  /\ listing' \in [Listings -> FileRequest] /\ overlap' \in BOOLEAN
           /\ overlap => overlap'
           /\ ~ Files!Quiet'
           /\ ~overlap' =>
                 /\ \A l, m \in Listings :
                       listing'[l] # Files!Idle /\ listing'[m] # Files!Idle => l = m
                 /\ \A l \in Listings : listing'[l].at # "answered"
<1>1. PICK l \in Listings :
         /\ listing' = [listing EXCEPT ![l] = Files!Sent(d)]
         /\ overlap' = (overlap \/ \E m \in Listings : listing[m] # Files!Idle)
  BY DEF Files!AskFor
<1>2. listing' \in [Listings -> FileRequest] /\ listing'[l] = Files!Sent(d)
  BY <1>1, SentIsRequest DEF FilesTypeOK
<1>3. overlap' \in BOOLEAN /\ (overlap => overlap')
  BY <1>1 DEF FilesTypeOK
<1>4. ~ Files!Quiet'
  BY <1>2, SentIsRequest DEF Files!Quiet
<1>5. ~overlap' => \A m \in Listings : m # l => listing'[m] = Files!Idle
  BY <1>1 DEF FilesTypeOK
<1>. QED  BY <1>2, <1>3, <1>4, <1>5, SentIsRequest

\* Every callback of the page and every answer of the server keeps the promises.
LEMMA FilesStep == FilesInv /\ [Files!Next]_fileVars => FilesInv'
<1>. SUFFICES ASSUME FilesInv, [Files!Next]_fileVars PROVE FilesInv'
  OBVIOUS
<1>. USE DEF FilesInv, UploadIsListed, Files!UploadIsListed, Files!panelVars,
             Files!userVars
<1>1. CASE UNCHANGED <<changes, listing, upload, currentDir, rowsDir, rows, promised,
                       overlap, failed>>
  BY <1>1 DEF FilesTypeOK, PromiseInv, Files!Quiet
<1>2. ASSUME NEW d \in Dirs, Files!OthersChange(d) PROVE FilesInv'
  <2>1. /\ changes' = [changes EXCEPT ![d] = @ + 1]
        /\ UNCHANGED <<listing, upload, currentDir, rows, promised, overlap, failed>>
    BY <1>2 DEF Files!OthersChange
  <2>2. FilesTypeOK'
    BY <2>1 DEF FilesTypeOK
  <2>3. \A e \in Dirs : changes[e] <= changes'[e] /\ changes[e] \in Nat /\ changes'[e] \in Nat
    BY <2>1 DEF FilesTypeOK
  <2>4. PromiseInv'
    BY <2>1, <2>3 DEF FilesTypeOK, FileRequest, PromiseInv
  <2>. QED  BY <2>1, <2>2, <2>4 DEF Files!Quiet
<1>3. ASSUME NEW d \in Dirs, Files!OpenDir(d) \/ (d = currentDir /\ Files!Refresh)
      PROVE  FilesInv'
  <2>1. /\ Files!AskFor(d)
        /\ UNCHANGED <<changes, upload, currentDir, rows, promised, failed>>
    BY <1>3 DEF Files!OpenDir, Files!Refresh
  <2>. QED  BY <2>1, AskForKeeps DEF FilesTypeOK, PromiseInv
<1>4. ASSUME NEW l \in Listings, Files!AnswerLoad(l) PROVE FilesInv'
  <2>1. /\ listing[l].at = "sent"
        /\ UNCHANGED <<changes, upload, currentDir, rows, promised, overlap, failed>>
    BY <1>4 DEF Files!AnswerLoad
  <2>. DEFINE now == changes[listing[l].dir]
  <2>2. now \in Nat /\ promised[listing[l].dir] <= now /\ promised[listing[l].dir] \in Nat
    BY DEF FilesTypeOK, FileRequest, PromiseInv
  <2>3. CASE listing' = [listing EXCEPT ![l].at = "answered", ![l].value = now]
    <3>1. /\ listing'[l] = [listing[l] EXCEPT !.at = "answered", !.value = now]
          /\ \A m \in Listings : m # l => listing'[m] = listing[m]
      BY <2>3 DEF FilesTypeOK
    <3>2. /\ listing'[l] \in FileRequest /\ listing'[l].dir = listing[l].dir
          /\ listing'[l].value = now /\ listing'[l].at = "answered"
      <4>1. listing[l] \in FileRequest
        BY DEF FilesTypeOK
      <4>. HIDE DEF now
      <4>2. listing'[l] = [listing[l] EXCEPT !.at = "answered", !.value = now]
        BY <3>1
      <4>3. now \in Nat
        BY <2>2
      <4>4. listing'[l].at = "answered" /\ listing'[l].value = now
        BY ONLY <4>1, <4>2, <4>3 DEF FileRequest
      <4>5. listing'[l].dir = listing[l].dir
        BY ONLY <4>1, <4>2, <4>3 DEF FileRequest
      <4>6. listing'[l] \in FileRequest
        BY ONLY <4>1, <4>2, <4>3 DEF FileRequest
      <4>. QED  BY ONLY <4>4, <4>5, <4>6
    <3>3. listing' \in [Listings -> FileRequest]
      BY <2>3, <2>2 DEF FilesTypeOK, FileRequest
    <3>4. listing[l] # Files!Idle /\ listing'[l] # Files!Idle
      BY <2>1, <3>2, SentIsRequest, PageAssumption
    <3>. HIDE DEF now
    <3>5. PromiseInv'
      BY <2>1, <2>2, <3>1, <3>2, <3>4 DEF PromiseInv
    <3>6. ~ Files!Quiet'
      BY <3>4 DEF Files!Quiet
    <3>. QED  BY <2>1, <3>3, <3>5, <3>6 DEF FilesTypeOK
  <2>4. CASE listing' = [listing EXCEPT ![l].at = "failed"]
    <3>1. /\ listing'[l] = [listing[l] EXCEPT !.at = "failed"]
          /\ \A m \in Listings : m # l => listing'[m] = listing[m]
          /\ listing' \in [Listings -> FileRequest]
      BY <2>4 DEF FilesTypeOK, FileRequest
    <3>2. listing'[l].at = "failed"
      BY <3>1 DEF FilesTypeOK, FileRequest
    <3>3. listing[l] # Files!Idle /\ listing'[l] # Files!Idle
      BY <2>1, <3>2, SentIsRequest, PageAssumption
    <3>4. PromiseInv'
      BY <2>1, <3>1, <3>2, <3>3 DEF PromiseInv
    <3>5. ~ Files!Quiet'
      BY <3>3 DEF Files!Quiet
    <3>. QED  BY <2>1, <3>1, <3>4, <3>5 DEF FilesTypeOK
  <2>. QED  BY <1>4, <2>3, <2>4 DEF Files!AnswerLoad
<1>5. ASSUME NEW l \in Listings, Files!LoadFiles(l) PROVE FilesInv'
  <2>1. /\ listing[l].at \in {"answered", "failed"}
        /\ listing' = [listing EXCEPT ![l] = Files!Idle]
        /\ UNCHANGED <<changes, upload, promised, overlap>>
    BY <1>5 DEF Files!LoadFiles
  <2>2. listing' \in [Listings -> FileRequest]
    BY <2>1, SentIsRequest, PageAssumption DEF FilesTypeOK
  <2>3. PromiseInv'
    BY <2>1, SentIsRequest, PageAssumption DEF FilesTypeOK, PromiseInv
  <2>4. CASE /\ listing[l].at = "answered" /\ currentDir' = listing[l].dir
             /\ rows' = listing[l].value /\ UNCHANGED failed
    <3>1. FilesTypeOK'
      BY <2>1, <2>2, <2>4 DEF FilesTypeOK, FileRequest
    <3>2. ~overlap => rows' >= promised[currentDir']
      BY <2>4 DEF PromiseInv
    <3>. QED  BY <2>1, <2>3, <3>1, <3>2
  <2>5. CASE failed' = TRUE /\ UNCHANGED <<currentDir, rowsDir, rows>>
    <3>1. FilesTypeOK'
      BY <2>1, <2>2, <2>5 DEF FilesTypeOK
    <3>. QED  BY <2>3, <2>5, <3>1
  <2>. QED  BY <1>5, <2>4, <2>5 DEF Files!LoadFiles
<1>6. ASSUME NEW u \in Uploads, Files!ClickUpload(u) PROVE FilesInv'
  <2>1. /\ upload' = [upload EXCEPT ![u] = Files!Sent(currentDir)]
        /\ UNCHANGED <<changes, listing, currentDir, rows, promised, overlap, failed>>
    BY <1>6 DEF Files!ClickUpload
  <2>2. FilesTypeOK'
    BY <2>1, SentIsRequest DEF FilesTypeOK
  <2>3. PromiseInv'
    BY <2>1, SentIsRequest DEF FilesTypeOK, PromiseInv
  <2>. QED  BY <2>1, <2>2, <2>3 DEF Files!Quiet
<1>7. ASSUME NEW u \in Uploads, Files!AnswerUpload(u) PROVE FilesInv'
  <2>1. UNCHANGED <<listing, currentDir, rows, promised, overlap, failed>>
    BY <1>7 DEF Files!AnswerUpload
  <2>. DEFINE d == upload[u].dir
  <2>2. d \in Dirs
    BY DEF FilesTypeOK, FileRequest
  <2>3. CASE /\ changes' = [changes EXCEPT ![d] = @ + 1]
             /\ upload' = [upload EXCEPT ![u].at = "answered", ![u].value = changes[d] + 1]
    <3>1. /\ \A e \in Dirs : /\ changes[e] <= changes'[e]
                             /\ changes[e] \in Nat /\ changes'[e] \in Nat
          /\ changes' \in [Dirs -> Nat] /\ changes'[d] = changes[d] + 1
      BY <2>2, <2>3 DEF FilesTypeOK
    <3>2. /\ upload'[u] = [upload[u] EXCEPT !.at = "answered", !.value = changes[d] + 1]
          /\ \A v \in Uploads : v # u => upload'[v] = upload[v]
      BY <2>3 DEF FilesTypeOK
    <3>3. /\ upload' \in [Uploads -> FileRequest]
          /\ upload'[u].dir = d /\ upload'[u].value = changes[d] + 1
      <4>1. upload[u] \in FileRequest /\ changes[d] + 1 \in Nat
        BY <2>2, <3>1 DEF FilesTypeOK
      <4>2. upload'[u] \in FileRequest /\ upload'[u].dir = d /\ upload'[u].value = changes[d] + 1
        <5>1. upload'[u] = [upload[u] EXCEPT !.at = "answered", !.value = changes[d] + 1]
          BY <3>2
        <5>2. upload'[u].dir = upload[u].dir
          BY ONLY <4>1, <5>1 DEF FileRequest
        <5>3. upload'[u].value = changes[d] + 1
          BY ONLY <4>1, <5>1 DEF FileRequest
        <5>4. upload'[u] \in FileRequest
          BY ONLY <4>1, <5>1 DEF FileRequest
        <5>. QED  BY <5>2, <5>3, <5>4
      <4>. HIDE DEF d
      <4>. QED  BY <2>3, <3>2, <4>2 DEF FilesTypeOK
    <3>4. FilesTypeOK'
      BY <2>1, <3>1, <3>3 DEF FilesTypeOK
    <3>5. PromiseInv'
      <4>1. \A v \in Uploads : upload[v].dir \in Dirs /\ upload[v].value \in Nat
        BY DEF FilesTypeOK, FileRequest
      <4>2. \A e \in Dirs : promised[e] \in Nat
        BY DEF FilesTypeOK
      <4>3. upload'[u].value <= changes'[upload'[u].dir]
        BY <2>2, <3>1, <3>3
      <4>. HIDE DEF d
      <4>4. \A v \in Uploads : upload'[v].at = "answered" =>
               upload'[v].value <= changes'[upload'[v].dir]
        <5>1. ASSUME NEW v \in Uploads, v # u, upload'[v].at = "answered"
              PROVE  upload'[v].value <= changes'[upload'[v].dir]
          <6>1. upload'[v] = upload[v]
            BY <3>2, <5>1
          <6>2. upload[v].value <= changes[upload[v].dir] /\ upload[v].dir \in Dirs
            BY <4>1, <5>1, <6>1 DEF PromiseInv
          <6>. QED  BY <3>1, <4>1, <6>1, <6>2
        <5>. QED  BY <4>3, <5>1
      <4>5. \A e \in Dirs : promised[e] <= changes'[e]
        BY <3>1, <4>2 DEF PromiseInv
      <4>. QED  BY <2>1, <4>4, <4>5 DEF PromiseInv
    <3>. QED  BY <2>1, <3>4, <3>5 DEF Files!Quiet
  <2>4. CASE upload' = [upload EXCEPT ![u].at = "failed"] /\ UNCHANGED changes
    <3>1. FilesTypeOK'
      BY <2>1, <2>4 DEF FilesTypeOK, FileRequest
    <3>2. \A v \in Uploads : upload'[v].at = "answered" => upload'[v] = upload[v]
      BY <2>4 DEF FilesTypeOK, FileRequest
    <3>3. PromiseInv'
      BY <2>1, <2>4, <3>2 DEF PromiseInv
    <3>. QED  BY <2>1, <3>1, <3>3 DEF Files!Quiet
  <2>. QED  BY <1>7, <2>3, <2>4 DEF Files!AnswerUpload
<1>8. ASSUME NEW u \in Uploads, Files!UploadFile(u) PROVE FilesInv'
  <2>1. /\ upload' = [upload EXCEPT ![u] = Files!Idle]
        /\ UNCHANGED <<changes, currentDir, rows, failed>>
    BY <1>8 DEF Files!UploadFile
  <2>2. /\ upload' \in [Uploads -> FileRequest]
        /\ \A v \in Uploads : upload'[v].at = "answered" => upload'[v] = upload[v]
    BY <2>1, SentIsRequest, PageAssumption DEF FilesTypeOK
  <2>. DEFINE d == upload[u].dir
  <2>3. CASE /\ upload[u].at = "answered" /\ Files!AskFor(currentDir)
             /\ promised' = [promised EXCEPT ![d] = Files!Most(@, upload[u].value)]
    <3>1. /\ promised' \in [Dirs -> Nat]
          /\ \A e \in Dirs : promised'[e] <= changes[e]
      BY <2>3 DEF FilesTypeOK, FileRequest, PromiseInv, Files!Most
    <3>2. FilesTypeOK'
      BY <2>1, <2>2, <2>3, <3>1, AskForKeeps DEF FilesTypeOK
    <3>3. PromiseInv'
      BY <2>1, <2>2, <2>3, <3>1, AskForKeeps DEF FilesTypeOK, PromiseInv
    <3>. QED  BY <2>3, <3>2, <3>3, AskForKeeps DEF FilesTypeOK
  <2>4. CASE UNCHANGED <<promised, listing, overlap>>
    <3>1. FilesTypeOK'
      BY <2>1, <2>2, <2>4 DEF FilesTypeOK
    <3>2. PromiseInv'
      BY <2>1, <2>2, <2>4 DEF PromiseInv
    <3>. QED  BY <2>1, <2>4, <3>1, <3>2 DEF Files!Quiet
  <2>. QED  BY <1>8, <2>3, <2>4 DEF Files!UploadFile
<1>9. CASE Files!PickFile \/ UNCHANGED fileVars
  BY <1>1, <1>9 DEF Files!PickFile, fileVars
<1>10. CASE Files!Refresh
  BY <1>3, <1>10 DEF FilesTypeOK
<1>. QED  BY <1>2, <1>3, <1>4, <1>5, <1>6, <1>7, <1>8, <1>9, <1>10 DEF Files!Next

---------------------------------------------------------------------------
(* The composition: a step of one program leaves the others alone. *)

\* All three invariants hold at the start, whichever program is chosen.
LEMMA ClientsInit == ClientInit => DownloadsInv /\ MessagesInv /\ FilesInv
  BY DownloadsInit, MessagesInit, FilesInit DEF ClientInit

\* A step of the composition is a step, or none, of each program.
LEMMA ClientsStep ==
    [ClientNext]_clientVars => /\ [Next]_vars
                               /\ [Messages!Next]_messageVars
                               /\ [Files!Next]_fileVars
  BY DEF ClientNext, clientVars, MessageStep

\* The invariants of the three programs, for any number of commands, drafts,
\* folders and requests.
THEOREM ClientsInvariant == ClientSpec => [](DownloadsInv /\ MessagesInv /\ FilesInv)
  BY ClientsInit, ClientsStep, DownloadsStep, MessagesStep, FilesStep, PTL DEF ClientSpec

\* client_open_temp_download and the clean-up of client_get_file never remove the
\* temporary file of a command that is running, however many there are and
\* whatever became of those before them.
THEOREM OnlyOrphansRemovedHolds == ClientSpec => OnlyOrphansRemoved
<1>1. DownloadsInv /\ [Next]_vars =>
         [\A t \in TempNames : temp[t] # NoFile /\ temp'[t] = NoFile =>
             \/ pc[temp[t]] = "killed"
             \/ pc'[temp[t]] \in {"ok", "failed"} /\ pc[temp[t]] \in {"rename", "cleanup"}]_vars
  BY RemovalStep
<1>. QED
  BY <1>1, ClientsInvariant, ClientsStep, PTL DEF ClientSpec, OnlyOrphansRemoved

\* postMessage never costs the user a text because of an error of the server.
THEOREM TextIsKeptHolds == ClientSpec => []TextIsKept
<1>1. MessagesInv => TextIsKept
  BY DEF MessagesInv
<1>. QED  BY <1>1, ClientsInvariant, PTL

\* What uploadFile reported as saved is in the listing of its folder once the
\* page is quiet, unless listings overlapped or failed.
THEOREM UploadIsListedHolds == ClientSpec => []UploadIsListed
<1>1. FilesInv => UploadIsListed
  BY DEF FilesInv
<1>. QED  BY <1>1, ClientsInvariant, PTL
=============================================================================
