------------------------ MODULE MessageStoreProofs ------------------------
(***************************************************************************)
(* Proofs about MessageStore, for any set of streams, any messages and any *)
(* bound on the number of posts.                                           *)
(***************************************************************************)
EXTENDS MessageStore, FiniteSetTheorems, TLAPS

\* Trimming a message gives a message.
LEMMA TrimmedType ==
    ASSUME NEW m \in Messages
    PROVE  Trimmed(m) \in Seq(Chars)
<1>1. m \in Seq(Chars) /\ Len(m) \in Nat
  BY MessagesAssumption
<1>2. IsFiniteSet(1..Len(m)) /\ Cardinality(1..Len(m)) = Len(m)
  <2>1. /\ IsFiniteSet(1..Len(m))
        /\ Cardinality(1..Len(m)) = IF 1 > Len(m) THEN 0 ELSE Len(m) - 1 + 1
    BY <1>1, FS_Interval
  <2>. QED  BY <1>1, <2>1
<1>3. KeptPositions(m) \in SUBSET (1..Len(m))
  BY DEF KeptPositions
<1>4. Cardinality(KeptPositions(m)) <= Len(m) /\ IsFiniteSet(KeptPositions(m))
  BY <1>2, <1>3, FS_Subset
<1>5. Cardinality(KeptPositions(m)) \in Nat
  BY <1>4, FS_CardinalityType
<1>. QED  BY <1>1, <1>4, <1>5 DEF Trimmed

---------------------------------------------------------------------------

\* The type invariant holds in every reachable state.
THEOREM TypeCorrect == Spec => []TypeOK
<1>1. Init => TypeOK
  <2> SUFFICES ASSUME Init
               PROVE  TypeOK
    OBVIOUS
  <2>1. sent \in [Streams -> Event]
    BY DEF Init, Event
  <2>2. hist \in Seq(Seq(Chars))
    BY DEF Init
  <2>. QED  BY <2>1, <2>2 DEF Init, TypeOK, StreamPCs, MainPCs
<1>2. TypeOK /\ [Next]_vars => TypeOK'
  <2> SUFFICES ASSUME TypeOK, [Next]_vars
               PROVE  TypeOK'
    OBVIOUS
  <2>. USE DEF TypeOK, StreamPCs, MainPCs, Event, storeVars, streamVars
  <2>1. ASSUME NEW m \in Messages, MessageStoreSet(m)
        PROVE  TypeOK'
    BY <2>1, TrimmedType DEF MessageStoreSet, Broadcast
  <2>2. ASSUME NEW s \in Streams, StreamStart(s)
        PROVE  TypeOK'
    BY <2>2 DEF StreamStart
  <2>3. ASSUME NEW s \in Streams, SendHeaders(s)
        PROVE  TypeOK'
    BY <2>3 DEF SendHeaders
  <2>4. ASSUME NEW s \in Streams, GetSnapshot(s)
        PROVE  TypeOK'
    BY <2>4 DEF GetSnapshot
  <2>5. ASSUME NEW s \in Streams, AllocFails(s) \/ WaitFails(s)
        PROVE  TypeOK'
    BY <2>5 DEF AllocFails, WaitFails
  <2>6. ASSUME NEW s \in Streams, TestLoop(s)
        PROVE  TypeOK'
    BY <2>6 DEF TestLoop, Collect
  <2>7. ASSUME NEW s \in Streams, WaitTimesOut(s)
        PROVE  TypeOK'
    BY <2>7 DEF WaitTimesOut, Collect
  <2>8. ASSUME NEW s \in Streams, SpuriousWakeup(s)
        PROVE  TypeOK'
    BY <2>8 DEF SpuriousWakeup
  <2>9. ASSUME NEW s \in Streams, AfterWait(s)
        PROVE  TypeOK'
    BY <2>9 DEF AfterWait
  <2>10. ASSUME NEW s \in Streams, SendEvent(s)
         PROVE  TypeOK'
    <3>1. [ver |-> known[s], msg |-> fetched[s]] \in Event
      OBVIOUS
    <3>2. sent' \in [Streams -> Event]
      BY <2>10, <3>1 DEF SendEvent
    <3>. QED  BY <2>10, <3>2 DEF SendEvent
  <2>11. ASSUME NEW s \in Streams, SendKeepalive(s)
         PROVE  TypeOK'
    BY <2>11 DEF SendKeepalive
  <2>12. ASSUME NEW s \in Streams, PeerStalls(s) \/ PeerReads(s) \/ PeerCloses(s)
         PROVE  TypeOK'
    BY <2>12 DEF PeerStalls, PeerReads, PeerCloses
  <2>13. ASSUME Signal \/ LeaveListener \/ ShutdownAll \/ MessageStoreCleanup
         PROVE  TypeOK'
    BY <2>13 DEF Signal, LeaveListener, ShutdownAll, MessageStoreCleanup
  <2>14. ASSUME MessageStoreShutdown
         PROVE  TypeOK'
    BY <2>14 DEF MessageStoreShutdown, Broadcast
  <2>15. ASSUME UNCHANGED vars
         PROVE  TypeOK'
    BY <2>15 DEF vars
  <2>. QED
    BY <2>1, <2>2, <2>3, <2>4, <2>5, <2>6, <2>7, <2>8, <2>9, <2>10, <2>11,
       <2>12, <2>13, <2>14, <2>15 DEF Next
<1>. QED  BY <1>1, <1>2, PTL DEF Spec
---------------------------------------------------------------------------

\* The inductive invariant holds initially.
LEMMA SafetyInvInit == Init => SafetyInv
  BY DEF Init, SafetyInv, StoreInv, StreamInv, ShutdownInv, NoLostWakeup

\* Every step of every thread preserves the inductive invariant.
LEMMA SafetyInvStep ==
    ASSUME TypeOK, SafetyInv, [Next]_vars
    PROVE  SafetyInv'
<1>. USE MessagesAssumption
         DEF TypeOK, Event, SafetyInv, StoreInv, StreamInv, ShutdownInv,
             NoLostWakeup, storeVars, streamVars
<1>1. ASSUME NEW m \in Messages, MessageStoreSet(m)
      PROVE  SafetyInv'
  BY <1>1 DEF MessageStoreSet, Broadcast
<1>2. ASSUME NEW s \in Streams, StreamStart(s)
      PROVE  SafetyInv'
  BY <1>2 DEF StreamStart
<1>3. ASSUME NEW s \in Streams, SendHeaders(s)
      PROVE  SafetyInv'
  BY <1>3 DEF SendHeaders
<1>4. ASSUME NEW s \in Streams, GetSnapshot(s)
      PROVE  SafetyInv'
  BY <1>4 DEF GetSnapshot
<1>5. ASSUME NEW s \in Streams, AllocFails(s)
      PROVE  SafetyInv'
  BY <1>5 DEF AllocFails
<1>6. ASSUME NEW s \in Streams, WaitFails(s)
      PROVE  SafetyInv'
  BY <1>6 DEF WaitFails
<1>7. ASSUME NEW s \in Streams, TestLoop(s)
      PROVE  SafetyInv'
  <2>1. CASE version > known[s] \/ shutting_down
    <3>1. Collect(s) /\ pc[s] = "loop"
      BY <1>7, <2>1 DEF TestLoop
    <3>2. hist' = hist /\ version' = version /\ message' = message
      BY <3>1 DEF Collect
    <3>3. main # "cleaned"
      BY <3>1
    <3>4. StreamInv'
      BY <3>1, <3>2, <3>3 DEF Collect
    <3>. QED  BY <3>1, <3>2, <3>4 DEF Collect
  <2>2. CASE ~(version > known[s] \/ shutting_down)
    BY <1>7, <2>2 DEF TestLoop
  <2>. QED  BY <2>1, <2>2
<1>8. ASSUME NEW s \in Streams, WaitTimesOut(s)
      PROVE  SafetyInv'
  BY <1>8 DEF WaitTimesOut, Collect
<1>9. ASSUME NEW s \in Streams, SpuriousWakeup(s)
      PROVE  SafetyInv'
  BY <1>9 DEF SpuriousWakeup
<1>10. ASSUME NEW s \in Streams, AfterWait(s)
      PROVE  SafetyInv'
  BY <1>10 DEF AfterWait
<1>11. ASSUME NEW s \in Streams, SendEvent(s)
      PROVE  SafetyInv'
  BY <1>11 DEF SendEvent
<1>12. ASSUME NEW s \in Streams, SendKeepalive(s)
      PROVE  SafetyInv'
  BY <1>12 DEF SendKeepalive
<1>13. ASSUME NEW s \in Streams, PeerStalls(s) \/ PeerReads(s) \/ PeerCloses(s)
      PROVE  SafetyInv'
  <2>1. CASE PeerStalls(s)
    BY <2>1 DEF PeerStalls
  <2>2. CASE PeerReads(s)
    BY <2>2 DEF PeerReads
  <2>3. CASE PeerCloses(s)
    BY <2>3 DEF PeerCloses
  <2>. QED  BY <1>13, <2>1, <2>2, <2>3
<1>14. ASSUME Signal
      PROVE  SafetyInv'
  BY <1>14 DEF Signal
<1>15. ASSUME LeaveListener
      PROVE  SafetyInv'
  BY <1>15 DEF LeaveListener
<1>16. ASSUME MessageStoreShutdown
      PROVE  SafetyInv'
  BY <1>16 DEF MessageStoreShutdown, Broadcast
<1>17. ASSUME ShutdownAll
      PROVE  SafetyInv'
  BY <1>17 DEF ShutdownAll
<1>18. ASSUME MessageStoreCleanup
      PROVE  SafetyInv'
  BY <1>18 DEF MessageStoreCleanup
<1>19. ASSUME UNCHANGED vars
      PROVE  SafetyInv'
  BY <1>19 DEF vars
<1>. QED
  BY <1>1, <1>2, <1>3, <1>4, <1>5, <1>6, <1>7, <1>8, <1>9, <1>10, <1>11, <1>12,
     <1>13, <1>14, <1>15, <1>16, <1>17, <1>18, <1>19
     DEF Next
---------------------------------------------------------------------------

\* The inductive invariant holds in every reachable state.
THEOREM SafetyInvariant == Spec => []SafetyInv
<1>1. Init => SafetyInv
  BY SafetyInvInit
<1>2. TypeOK /\ SafetyInv /\ [Next]_vars => SafetyInv'
  BY SafetyInvStep
<1>. QED  BY <1>1, <1>2, TypeCorrect, PTL DEF Spec

\* No wake-up is lost, whatever the number of streams and posts.
THEOREM NoLostWakeupHolds == Spec => []NoLostWakeup
<1>1. SafetyInv => NoLostWakeup
  BY DEF SafetyInv
<1>. QED  BY <1>1, SafetyInvariant, PTL

\* A stream never pairs a version with the text of another.
THEOREM EventsMatchHistoryHolds == Spec => []EventsMatchHistory
<1>1. TypeOK /\ SafetyInv => EventsMatchHistory
  BY DEF TypeOK, Event, SafetyInv, StoreInv, StreamInv, EventsMatchHistory
<1>. QED  BY <1>1, TypeCorrect, SafetyInvariant, PTL

\* The shutdown never makes a stream write more than one late keep-alive.
THEOREM NoKeepaliveStormHolds == Spec => []NoKeepaliveStorm
<1>1. TypeOK /\ SafetyInv => NoKeepaliveStorm
  BY DEF TypeOK, SafetyInv, ShutdownInv, NoKeepaliveStorm
<1>. QED  BY <1>1, TypeCorrect, SafetyInvariant, PTL

\* The versions sent to a stream only go up: SendEvent is the one step that
\* writes an event, and it holds a version newer than the last one sent.
THEOREM EventsGoForwardHolds == Spec => EventsGoForward
<1> DEFINE Forward ==
      \A s \in Streams : sent'[s] # sent[s] => sent'[s].ver > sent[s].ver
<1>1. ASSUME TypeOK, SafetyInv, [Next]_vars
      PROVE  [Forward]_vars
  <2>1. ASSUME NEW s \in Streams, SendEvent(s)
        PROVE  Forward
    <3>1. fetched[s] # NoMessage /\ sent[s].ver < known[s]
      BY <1>1, <2>1 DEF SendEvent, SafetyInv, StreamInv
    <3>2. \/ sent' = sent
          \/ sent' = [sent EXCEPT ![s] = [ver |-> known[s], msg |-> fetched[s]]]
      BY <2>1 DEF SendEvent
    <3>. QED  BY <3>1, <3>2, <1>1 DEF TypeOK, Event
  <2>2. ASSUME sent' = sent
        PROVE  Forward
    BY <2>2
  <2>3. (\E s \in Streams : SendEvent(s)) \/ sent' = sent
    BY <1>1 DEF Next, MessageStoreSet, StreamStart, SendHeaders, GetSnapshot,
         AllocFails, WaitFails, TestLoop, Collect, WaitTimesOut, SpuriousWakeup,
         AfterWait, SendKeepalive, PeerStalls, PeerReads, PeerCloses, Signal,
         LeaveListener, MessageStoreShutdown, ShutdownAll, MessageStoreCleanup,
         storeVars, streamVars, vars
  <2>. QED  BY <2>1, <2>2, <2>3
<1>. QED  BY <1>1, TypeCorrect, SafetyInvariant, PTL DEF Spec, EventsGoForward
---------------------------------------------------------------------------

\* Every step of the store, of a stream or of the shutdown is a post, a look or
\* a telling of the message board, or leaves the board alone.
LEMMA BoardStep ==
    ASSUME TypeOK, SafetyInv, [Next]_vars
    PROVE  [Board!Next]_(Board!vars)
<1>1. ASSUME NEW m \in Messages, MessageStoreSet(m)
      PROVE  Board!Post
  BY <1>1 DEF MessageStoreSet, Board!Post
<1>2. Len(hist) = version
  BY DEF SafetyInv, StoreInv
<1>3. ASSUME NEW s \in Streams, GetSnapshot(s) \/ Collect(s)
      PROVE  Board!Look(s)
  BY <1>2, <1>3 DEF GetSnapshot, Collect, Board!Look, storeVars
<1>4. ASSUME NEW s \in Streams, SendEvent(s)
      PROVE  Board!Tell(s) \/ UNCHANGED Board!vars
  <2>1. CASE conn[s] = "up"
    <3>1. sent[s].ver < known[s] /\ fetched[s] = hist[known[s]]
      BY <1>4 DEF SendEvent, SafetyInv, StreamInv
    <3>2. known[s] > sent[s].ver
      BY <3>1 DEF TypeOK, Event
    <3>3. /\ sent' = [sent EXCEPT ![s] = [ver |-> known[s], msg |-> hist[known[s]]]]
          /\ hist' = hist /\ known' = known
      BY <1>4, <2>1, <3>1 DEF SendEvent, storeVars
    <3>. QED  BY <3>2, <3>3 DEF Board!Tell
  <2>2. CASE conn[s] # "up"
    BY <1>4, <2>2 DEF SendEvent, storeVars, Board!vars
  <2>. QED  BY <2>1, <2>2
<1>5. ASSUME NEW s \in Streams, TestLoop(s)
      PROVE  Board!Look(s) \/ UNCHANGED Board!vars
  <2>1. Collect(s) \/ UNCHANGED <<hist, known, sent>>
    BY <1>5 DEF TestLoop, storeVars
  <2>. QED  BY <2>1, <1>3 DEF Board!vars
<1>6. ASSUME NEW s \in Streams, WaitTimesOut(s)
      PROVE  Board!Look(s)
  BY <1>6, <1>3 DEF WaitTimesOut
<1>7. ASSUME NEW s \in Streams,
             \/ StreamStart(s) \/ SendHeaders(s) \/ AllocFails(s) \/ WaitFails(s)
             \/ SpuriousWakeup(s) \/ AfterWait(s) \/ SendKeepalive(s)
             \/ PeerStalls(s) \/ PeerReads(s) \/ PeerCloses(s)
      PROVE  UNCHANGED Board!vars
  BY <1>7 DEF StreamStart, SendHeaders, AllocFails, WaitFails, SpuriousWakeup,
       AfterWait, SendKeepalive, PeerStalls, PeerReads, PeerCloses, storeVars,
       Board!vars
<1>8. ASSUME \/ Signal \/ LeaveListener \/ MessageStoreShutdown \/ ShutdownAll
             \/ MessageStoreCleanup \/ UNCHANGED vars
      PROVE  UNCHANGED Board!vars
  BY <1>8 DEF Signal, LeaveListener, MessageStoreShutdown, ShutdownAll,
       MessageStoreCleanup, storeVars, streamVars, vars, Board!vars
<1>. QED
  BY <1>1, <1>3, <1>4, <1>5, <1>6, <1>7, <1>8 DEF Next, Board!Next

\* The message store with its streams, timeouts, broken connections and shutdown
\* is a message board, for any number of streams and posts.
THEOREM ImplementsBoard == Spec => ImplementsMessageBoard
<1>1. Init => Board!Init
  BY DEF Init, Board!Init
<1>2. TypeOK /\ SafetyInv /\ [Next]_vars => [Board!Next]_(Board!vars)
  BY BoardStep
<1>. QED
  BY <1>1, <1>2, TypeCorrect, SafetyInvariant, PTL
     DEF Spec, ImplementsMessageBoard, Board!Spec
=============================================================================
