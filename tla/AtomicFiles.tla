---------------------------- MODULE AtomicFiles ----------------------------
(***************************************************************************)
(* What the receive directory promises its clients: a file name behaves    *)
(* like an atomic register of whole versions.  An upload takes effect at   *)
(* one instant, before it is acknowledged, or not at all; a refused upload *)
(* has no effect; a download delivers the whole of one version that was    *)
(* current when it was opened.  A request cut short by a crash or a lost   *)
(* connection leaves its client without an answer.                         *)
(***************************************************************************)
EXTENDS Naturals

CONSTANTS
    Names,      \* file names
    Puts,       \* uploads; each one is also the version it writes
    Gets,       \* downloads
    Size,       \* the size of each version
    NoFile      \* the name has never been written

VARIABLES
    files,      \* the current version of each name
    put,        \* "new", "applied", "ok", "refused", "lost"
    get,        \* "new", "open", "ok", "failed"
    opened,     \* the version a download reads
    amount      \* how much of it was delivered when it ended well

vars == <<files, put, get, opened, amount>>

Init ==
    /\ files = [n \in Names |-> NoFile]
    /\ put = [u \in Puts |-> "new"]
    /\ get = [d \in Gets |-> "new"]
    /\ opened = [d \in Gets |-> NoFile]
    /\ amount = [d \in Gets |-> 0]

\* The whole version u becomes the current one of a name.
Apply(u) ==
    /\ put[u] = "new"
    /\ \E n \in Names : files' = [files EXCEPT ![n] = u]
    /\ put' = [put EXCEPT ![u] = "applied"]
    /\ UNCHANGED <<get, opened, amount>>

\* An upload is acknowledged after it took effect, and refused only if it
\* never does.
Acknowledge(u) ==
    /\ put[u] = "applied"
    /\ put' = [put EXCEPT ![u] = "ok"]
    /\ UNCHANGED <<files, get, opened, amount>>

Refuse(u) ==
    /\ put[u] = "new"
    /\ put' = [put EXCEPT ![u] = "refused"]
    /\ UNCHANGED <<files, get, opened, amount>>

\* A download opens the current version and delivers all of it or fails.
Open(d) ==
    /\ get[d] = "new"
    /\ \E n \in Names :
          /\ files[n] # NoFile
          /\ opened' = [opened EXCEPT ![d] = files[n]]
    /\ get' = [get EXCEPT ![d] = "open"]
    /\ UNCHANGED <<files, put, amount>>

Deliver(d) ==
    /\ get[d] = "open"
    /\ get' = [get EXCEPT ![d] = "ok"]
    /\ amount' = [amount EXCEPT ![d] = Size[opened[d]]]
    /\ UNCHANGED <<files, put, opened>>

Fail(d) ==
    /\ get[d] \in {"new", "open"}
    /\ get' = [get EXCEPT ![d] = "failed"]
    /\ UNCHANGED <<files, put, opened, amount>>

\* The connection of one client is lost, or the server dies: any number of
\* requests under way stay without an answer.
Lose ==
    /\ \E P \in SUBSET {u \in Puts : put[u] \in {"new", "applied"}} :
          put' = [u \in Puts |-> IF u \in P THEN "lost" ELSE put[u]]
    /\ \E G \in SUBSET {d \in Gets : get[d] \in {"new", "open"}} :
          get' = [d \in Gets |-> IF d \in G THEN "failed" ELSE get[d]]
    /\ UNCHANGED <<files, opened, amount>>

Next ==
    \/ \E u \in Puts : Apply(u) \/ Acknowledge(u) \/ Refuse(u)
    \/ \E d \in Gets : Open(d) \/ Deliver(d) \/ Fail(d)
    \/ Lose

Spec == Init /\ [][Next]_vars
=============================================================================
