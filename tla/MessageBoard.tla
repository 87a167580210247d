---------------------------- MODULE MessageBoard ----------------------------
(***************************************************************************)
(* What the message store promises the readers of its streams: a board     *)
(* with numbered texts that is read atomically.  A reader looks at the     *)
(* newest text, and is then told that text under its number; it may miss   *)
(* texts that were followed by another before it looked, but it is never   *)
(* told one twice, an older one after a newer one, or one with the number  *)
(* of another.                                                             *)
(***************************************************************************)
EXTENDS Naturals, Sequences

CONSTANTS
    Readers,    \* streams
    Texts,      \* what can be posted
    NoText      \* nothing has been told

VARIABLES
    posts,      \* every text that was posted
    seen,       \* the number each reader has looked at
    heard       \* what it was told last, with its number

vars == <<posts, seen, heard>>

Init ==
    /\ posts = <<>>
    /\ seen = [r \in Readers |-> 0]
    /\ heard = [r \in Readers |-> [ver |-> 0, msg |-> NoText]]

Post ==
    /\ \E t \in Texts : posts' = Append(posts, t)
    /\ UNCHANGED <<seen, heard>>

\* One look at the board, between any two posts.
Look(r) ==
    /\ seen' = [seen EXCEPT ![r] = Len(posts)]
    /\ UNCHANGED <<posts, heard>>

Tell(r) ==
    /\ seen[r] > heard[r].ver
    /\ heard' = [heard EXCEPT ![r] = [ver |-> seen[r], msg |-> posts[seen[r]]]]
    /\ UNCHANGED <<posts, seen>>

Next == Post \/ \E r \in Readers : Look(r) \/ Tell(r)

Spec == Init /\ [][Next]_vars
=============================================================================
