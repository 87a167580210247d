---------------------------- MODULE MCReceiveDir ----------------------------
(***************************************************************************)
(* Instance of DirListing, and so of ReceiveDir, for TLC.  A behaviour has *)
(* one reader: a download next to three uploads to one name, or a listing  *)
(* next to two uploads to two names.                                       *)
(***************************************************************************)
EXTENDS DirListing

CONSTANTS u1, u2, u3, n1, n2, p1

\* Uploads of different sizes, and of different times.
MCSize == [u \in Uploads |-> CASE u = u1 -> 1 [] u = u2 -> 2 [] OTHER -> 0]
MCMtime == [u \in Uploads |-> IF u = u1 THEN 5 ELSE 6]

\* "n1" < "n1.tmp.p.a" < "n2" < "n2.tmp.p.a"
MCRank == [e \in Entries |-> CASE e = n1 -> 0
                               [] e = n2 -> 10
                               [] OTHER -> (IF e[1] = n1 THEN 1 ELSE 11) + e[3]]

VARIABLE reader

\* What the instance leaves out, depending on the reader.
Chosen ==
    CASE reader = "download" -> \A u \in Uploads : target[u][1] = n1
      [] reader = "listing" -> pid = p1 /\ up[u3] = "new"
                               /\ \A d \in Downloads : down[d] = "new"

MCInit == reader \in {"download", "listing"} /\ ListInit /\ Chosen

MCNext ==
    /\ UNCHANGED reader
    /\ \/ reader = "download" /\ Next /\ UNCHANGED <<listVars, putVars>>
       \/ reader = "listing" /\ ListNext
    /\ Chosen'

MCSpec == MCInit /\ [][MCNext]_<<reader, allVars>>
=============================================================================
