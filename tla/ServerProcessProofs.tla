------------------------ MODULE ServerProcessProofs ------------------------
(***************************************************************************)
(* Proofs about ServerProcess, for any finite set of connections and any   *)
(* set of descriptors.                                                     *)
(***************************************************************************)
EXTENDS ServerProcess, FiniteSetTheorems, TLAPS

\* The type invariant without the bound on the count, which needs SafetyInv.
Types ==
    /\ requested \in BOOLEAN
    /\ main \in MainPCs
    /\ cur \in Conns \cup {None}
    /\ watcher \in {"none", "running", "stopped"}
    /\ initialized \in BOOLEAN
    /\ shutting_down \in BOOLEAN
    /\ active_count \in Nat
    /\ entries \subseteq Conns
    /\ storeShut \in BOOLEAN
    /\ pc \in [Conns -> ThreadPCs]
    /\ role \in [Conns -> Roles]
    /\ fdOf \in [Conns -> Fds \cup {None}]
    /\ owner \in [Fds -> Conns \cup {None}]
    /\ aborted \subseteq Conns
    /\ inbox \subseteq Conns
    /\ gone \subseteq Conns
    /\ temps \subseteq Conns

\* The main thread has a connection in hand where the code uses it.
CurInv == main \in {"begin", "spawn", "drop"} => cur \in Conns

\* Types and CurInv are preserved by every step.
LEMMA TypesStep ==
    ASSUME Types, CurInv, [Next]_vars
    PROVE  (Types /\ CurInv)'
<1>. USE DEF Types, CurInv, MainPCs, ThreadPCs, Roles, tracker, sockets, peers
<1>1. ASSUME InitStores
      PROVE  (Types /\ CurInv)'
  BY <1>1 DEF InitStores
<1>2. ASSUME Bind
      PROVE  (Types /\ CurInv)'
  BY <1>2 DEF Bind
<1>3. ASSUME TestShutdown
      PROVE  (Types /\ CurInv)'
  BY <1>3 DEF TestShutdown
<1>4. ASSUME SelectReturns
      PROVE  (Types /\ CurInv)'
  BY <1>4 DEF SelectReturns
<1>5. ASSUME TrackerBegin
      PROVE  (Types /\ CurInv)'
  BY <1>5 DEF TrackerBegin, Enter
<1>6. ASSUME BeginFails
      PROVE  (Types /\ CurInv)'
  BY <1>6 DEF BeginFails
<1>7. ASSUME Spawn
      PROVE  (Types /\ CurInv)'
  BY <1>7 DEF Spawn
<1>8. ASSUME SpawnFails
      PROVE  (Types /\ CurInv)'
  BY <1>8 DEF SpawnFails, Leave
<1>9. ASSUME Drop
      PROVE  (Types /\ CurInv)'
  BY <1>9 DEF Drop
<1>10. ASSUME ShutdownRequest
       PROVE  (Types /\ CurInv)'
  BY <1>10 DEF ShutdownRequest
<1>11. ASSUME JoinWatcher
       PROVE  (Types /\ CurInv)'
  BY <1>11 DEF JoinWatcher
<1>12. ASSUME StoreShutdown
       PROVE  (Types /\ CurInv)'
  BY <1>12 DEF StoreShutdown
<1>13. ASSUME ShutdownAll
       PROVE  (Types /\ CurInv)'
  BY <1>13 DEF ShutdownAll
<1>14. ASSUME WaitIdle
       PROVE  (Types /\ CurInv)'
  BY <1>14 DEF WaitIdle
<1>15. ASSUME Cleanup
       PROVE  (Types /\ CurInv)'
  BY <1>15 DEF Cleanup
<1>16. ASSUME IdleWakesSpuriously
       PROVE  (Types /\ CurInv)'
  BY <1>16 DEF IdleWakesSpuriously
<1>17. ASSUME Signal
       PROVE  (Types /\ CurInv)'
  BY <1>17 DEF Signal
<1>18. ASSUME WatcherStops
       PROVE  (Types /\ CurInv)'
  BY <1>18 DEF WatcherStops
<1>19. ASSUME NEW c \in Conns, Accept(c)
       PROVE  (Types /\ CurInv)'
  BY <1>19 DEF Accept
<1>20. ASSUME NEW c \in Conns, PeerSends(c)
       PROVE  (Types /\ CurInv)'
  BY <1>20 DEF PeerSends
<1>21. ASSUME NEW c \in Conns, PeerCloses(c)
       PROVE  (Types /\ CurInv)'
  BY <1>21 DEF PeerCloses
<1>22. ASSUME NEW c \in Conns, Detect(c)
       PROVE  (Types /\ CurInv)'
  BY <1>22 DEF Detect, Goto
<1>23. ASSUME NEW c \in Conns, RecvRequest(c)
       PROVE  (Types /\ CurInv)'
  BY <1>23 DEF RecvRequest, Goto
<1>24. ASSUME NEW c \in Conns, RecvFile(c)
       PROVE  (Types /\ CurInv)'
  BY <1>24 DEF RecvFile, Goto
<1>25. ASSUME NEW c \in Conns, RecvFails(c)
       PROVE  (Types /\ CurInv)'
  BY <1>25 DEF RecvFails, Goto
<1>26. ASSUME NEW c \in Conns, SendBroken(c)
       PROVE  (Types /\ CurInv)'
  BY <1>26 DEF SendBroken, Goto
<1>27. ASSUME NEW c \in Conns, SendfileSigpipe(c)
       PROVE  (Types /\ CurInv)'
  BY <1>27 DEF SendfileSigpipe
<1>28. ASSUME NEW c \in Conns, StreamUpdate(c)
       PROVE  (Types /\ CurInv)'
  BY <1>28 DEF StreamUpdate, Goto
<1>29. ASSUME NEW c \in Conns, SocketClose(c)
       PROVE  (Types /\ CurInv)'
  BY <1>29 DEF SocketClose
<1>30. ASSUME NEW c \in Conns, TrackerEnd(c)
       PROVE  (Types /\ CurInv)'
  BY <1>30 DEF TrackerEnd, Leave, WakesMain
<1>31. ASSUME NEW c \in Conns, Send(c)
       PROVE  (Types /\ CurInv)'
  BY <1>31 DEF Send, Goto
<1>32. ASSUME NEW c \in Conns, SendFile(c)
       PROVE  (Types /\ CurInv)'
  BY <1>32 DEF SendFile, Goto
<1>33. ASSUME NEW c \in Conns, Reply(c)
       PROVE  (Types /\ CurInv)'
  BY <1>33 DEF Reply, Goto
<1>34. ASSUME UNCHANGED vars
       PROVE  (Types /\ CurInv)'
  BY <1>34 DEF vars
<1>. QED
  BY <1>1, <1>2, <1>3, <1>4, <1>5, <1>6, <1>7, <1>8,
     <1>9, <1>10, <1>11, <1>12, <1>13, <1>14, <1>15, <1>16,
     <1>17, <1>18, <1>19, <1>20, <1>21, <1>22, <1>23, <1>24,
     <1>25, <1>26, <1>27, <1>28, <1>29, <1>30, <1>31, <1>32,
     <1>33, <1>34
     DEF Next, MainStep, ThreadStep, WaitingStep, RecvBroken, RecvTimesOut,
         StreamShutdown
---------------------------------------------------------------------------

\* A list of connections is finite and its count is a natural number.
LEMMA EntriesFinite ==
    ASSUME Types
    PROVE  IsFiniteSet(entries) /\ Cardinality(entries) \in Nat
<1>1. IsFiniteSet(entries)
  BY ProcessAssumption, FS_Subset DEF Types
<1>. QED  BY <1>1, FS_CardinalityType

\* The list and the count after a connection leaves.
LEMMA LeaveCounts ==
    ASSUME Types, active_count = Cardinality(entries),
           NEW c \in entries, Leave(c)
    PROVE  active_count' = Cardinality(entries')
<1>1. /\ IsFiniteSet(entries)
      /\ Cardinality(entries) \in Nat
  BY EntriesFinite
<1>2. Cardinality(entries \ {c}) = Cardinality(entries) - 1
  BY <1>1, FS_RemoveElement
<1>3. Cardinality(entries \ {c}) \in Nat
  BY <1>1, FS_RemoveElement, FS_CardinalityType
<1>. QED  BY <1>1, <1>2, <1>3 DEF Leave

\* Every step preserves what the descriptors and the temporary files need.
LEMMA SocketsStep ==
    ASSUME Types, SafetyInv, [Next]_vars
    PROVE  (OwnerInv /\ SocketStaysOwn /\ TempInv)'
<1>. USE ProcessAssumption
         DEF Types, SafetyInv, MainInv, OwnerInv, SocketStaysOwn, TempInv,
             MainPCs, ThreadPCs, Roles, tracker, sockets, peers
<1>1. ASSUME InitStores
      PROVE  (OwnerInv /\ SocketStaysOwn /\ TempInv)'
  BY <1>1 DEF InitStores
<1>2. ASSUME Bind
      PROVE  (OwnerInv /\ SocketStaysOwn /\ TempInv)'
  BY <1>2 DEF Bind
<1>3. ASSUME TestShutdown
      PROVE  (OwnerInv /\ SocketStaysOwn /\ TempInv)'
  BY <1>3 DEF TestShutdown
<1>4. ASSUME SelectReturns
      PROVE  (OwnerInv /\ SocketStaysOwn /\ TempInv)'
  BY <1>4 DEF SelectReturns
<1>5. ASSUME TrackerBegin
      PROVE  (OwnerInv /\ SocketStaysOwn /\ TempInv)'
  BY <1>5 DEF TrackerBegin, Enter
<1>6. ASSUME BeginFails
      PROVE  (OwnerInv /\ SocketStaysOwn /\ TempInv)'
  BY <1>6 DEF BeginFails
<1>7. ASSUME Spawn
      PROVE  (OwnerInv /\ SocketStaysOwn /\ TempInv)'
  BY <1>7 DEF Spawn
<1>8. ASSUME SpawnFails
      PROVE  (OwnerInv /\ SocketStaysOwn /\ TempInv)'
  BY <1>8 DEF SpawnFails, Leave
<1>9. ASSUME Drop
      PROVE  (OwnerInv /\ SocketStaysOwn /\ TempInv)'
  BY <1>9 DEF Drop
<1>10. ASSUME ShutdownRequest
       PROVE  (OwnerInv /\ SocketStaysOwn /\ TempInv)'
  BY <1>10 DEF ShutdownRequest
<1>11. ASSUME JoinWatcher
       PROVE  (OwnerInv /\ SocketStaysOwn /\ TempInv)'
  BY <1>11 DEF JoinWatcher
<1>12. ASSUME StoreShutdown
       PROVE  (OwnerInv /\ SocketStaysOwn /\ TempInv)'
  BY <1>12 DEF StoreShutdown
<1>13. ASSUME ShutdownAll
       PROVE  (OwnerInv /\ SocketStaysOwn /\ TempInv)'
  BY <1>13 DEF ShutdownAll
<1>14. ASSUME WaitIdle
       PROVE  (OwnerInv /\ SocketStaysOwn /\ TempInv)'
  BY <1>14 DEF WaitIdle
<1>15. ASSUME Cleanup
       PROVE  (OwnerInv /\ SocketStaysOwn /\ TempInv)'
  BY <1>15 DEF Cleanup
<1>16. ASSUME IdleWakesSpuriously
       PROVE  (OwnerInv /\ SocketStaysOwn /\ TempInv)'
  BY <1>16 DEF IdleWakesSpuriously
<1>17. ASSUME Signal
       PROVE  (OwnerInv /\ SocketStaysOwn /\ TempInv)'
  BY <1>17 DEF Signal
<1>18. ASSUME WatcherStops
       PROVE  (OwnerInv /\ SocketStaysOwn /\ TempInv)'
  BY <1>18 DEF WatcherStops
<1>19. ASSUME NEW c \in Conns, Accept(c)
       PROVE  (OwnerInv /\ SocketStaysOwn /\ TempInv)'
  BY <1>19 DEF Accept
<1>20. ASSUME NEW c \in Conns, PeerSends(c)
       PROVE  (OwnerInv /\ SocketStaysOwn /\ TempInv)'
  BY <1>20 DEF PeerSends
<1>21. ASSUME NEW c \in Conns, PeerCloses(c)
       PROVE  (OwnerInv /\ SocketStaysOwn /\ TempInv)'
  BY <1>21 DEF PeerCloses
<1>22. ASSUME NEW c \in Conns, Detect(c)
       PROVE  (OwnerInv /\ SocketStaysOwn /\ TempInv)'
  BY <1>22 DEF Detect, Goto
<1>23. ASSUME NEW c \in Conns, RecvRequest(c)
       PROVE  (OwnerInv /\ SocketStaysOwn /\ TempInv)'
  BY <1>23 DEF RecvRequest, Goto
<1>24. ASSUME NEW c \in Conns, RecvFile(c)
       PROVE  (OwnerInv /\ SocketStaysOwn /\ TempInv)'
  BY <1>24 DEF RecvFile, Goto
<1>25. ASSUME NEW c \in Conns, RecvFails(c)
       PROVE  (OwnerInv /\ SocketStaysOwn /\ TempInv)'
  BY <1>25 DEF RecvFails, Goto
<1>26. ASSUME NEW c \in Conns, SendBroken(c)
       PROVE  (OwnerInv /\ SocketStaysOwn /\ TempInv)'
  BY <1>26 DEF SendBroken, Goto
<1>27. ASSUME NEW c \in Conns, SendfileSigpipe(c)
       PROVE  (OwnerInv /\ SocketStaysOwn /\ TempInv)'
  BY <1>27 DEF SendfileSigpipe
<1>28. ASSUME NEW c \in Conns, StreamUpdate(c)
       PROVE  (OwnerInv /\ SocketStaysOwn /\ TempInv)'
  BY <1>28 DEF StreamUpdate, Goto
<1>29. ASSUME NEW c \in Conns, SocketClose(c)
       PROVE  (OwnerInv /\ SocketStaysOwn /\ TempInv)'
  BY <1>29 DEF SocketClose
<1>30. ASSUME NEW c \in Conns, TrackerEnd(c)
       PROVE  (OwnerInv /\ SocketStaysOwn /\ TempInv)'
  BY <1>30 DEF TrackerEnd, Leave, WakesMain
<1>31. ASSUME NEW c \in Conns, Send(c)
       PROVE  (OwnerInv /\ SocketStaysOwn /\ TempInv)'
  BY <1>31 DEF Send, Goto
<1>32. ASSUME NEW c \in Conns, SendFile(c)
       PROVE  (OwnerInv /\ SocketStaysOwn /\ TempInv)'
  BY <1>32 DEF SendFile, Goto
<1>33. ASSUME NEW c \in Conns, Reply(c)
       PROVE  (OwnerInv /\ SocketStaysOwn /\ TempInv)'
  BY <1>33 DEF Reply, Goto
<1>34. ASSUME UNCHANGED vars
       PROVE  (OwnerInv /\ SocketStaysOwn /\ TempInv)'
  BY <1>34 DEF vars
<1>. QED
  BY <1>1, <1>2, <1>3, <1>4, <1>5, <1>6, <1>7, <1>8,
     <1>9, <1>10, <1>11, <1>12, <1>13, <1>14, <1>15, <1>16,
     <1>17, <1>18, <1>19, <1>20, <1>21, <1>22, <1>23, <1>24,
     <1>25, <1>26, <1>27, <1>28, <1>29, <1>30, <1>31, <1>32,
     <1>33, <1>34
     DEF Next, MainStep, ThreadStep, WaitingStep, RecvBroken, RecvTimesOut,
         StreamShutdown

\* Every step preserves what is known of the main thread.
LEMMA MainStepInv ==
    ASSUME Types, SafetyInv, [Next]_vars
    PROVE  MainInv'
<1>. USE ProcessAssumption
         DEF Types, SafetyInv, MainInv, TrackerInv, Live,
             MainPCs, ThreadPCs, Roles, tracker, sockets, peers
<1>1. ASSUME InitStores
      PROVE  MainInv'
  BY <1>1 DEF InitStores
<1>2. ASSUME Bind
      PROVE  MainInv'
  BY <1>2 DEF Bind
<1>3. ASSUME TestShutdown
      PROVE  MainInv'
  BY <1>3 DEF TestShutdown
<1>4. ASSUME SelectReturns
      PROVE  MainInv'
  BY <1>4 DEF SelectReturns
<1>5. ASSUME TrackerBegin
      PROVE  MainInv'
  BY <1>5 DEF TrackerBegin, Enter
<1>6. ASSUME BeginFails
      PROVE  MainInv'
  BY <1>6 DEF BeginFails
<1>7. ASSUME Spawn
      PROVE  MainInv'
  BY <1>7 DEF Spawn
<1>8. ASSUME SpawnFails
      PROVE  MainInv'
  BY <1>8 DEF SpawnFails, Leave
<1>9. ASSUME Drop
      PROVE  MainInv'
  BY <1>9 DEF Drop
<1>10. ASSUME ShutdownRequest
       PROVE  MainInv'
  BY <1>10 DEF ShutdownRequest
<1>11. ASSUME JoinWatcher
       PROVE  MainInv'
  BY <1>11 DEF JoinWatcher
<1>12. ASSUME StoreShutdown
       PROVE  MainInv'
  BY <1>12 DEF StoreShutdown
<1>13. ASSUME ShutdownAll
       PROVE  MainInv'
  BY <1>13 DEF ShutdownAll
<1>14. ASSUME WaitIdle
       PROVE  MainInv'
  <2>1. active_count = 0 => entries = {}
    BY EntriesFinite, FS_EmptySet
  <2>. QED  BY <1>14, <2>1 DEF WaitIdle
<1>15. ASSUME Cleanup
       PROVE  MainInv'
  BY <1>15 DEF Cleanup
<1>16. ASSUME IdleWakesSpuriously
       PROVE  MainInv'
  BY <1>16 DEF IdleWakesSpuriously
<1>17. ASSUME Signal
       PROVE  MainInv'
  BY <1>17 DEF Signal
<1>18. ASSUME WatcherStops
       PROVE  MainInv'
  BY <1>18 DEF WatcherStops
<1>19. ASSUME NEW c \in Conns, Accept(c)
       PROVE  MainInv'
  BY <1>19 DEF Accept
<1>20. ASSUME NEW c \in Conns, PeerSends(c)
       PROVE  MainInv'
  BY <1>20 DEF PeerSends
<1>21. ASSUME NEW c \in Conns, PeerCloses(c)
       PROVE  MainInv'
  BY <1>21 DEF PeerCloses
<1>22. ASSUME NEW c \in Conns, Detect(c)
       PROVE  MainInv'
  BY <1>22 DEF Detect, Goto
<1>23. ASSUME NEW c \in Conns, RecvRequest(c)
       PROVE  MainInv'
  BY <1>23 DEF RecvRequest, Goto
<1>24. ASSUME NEW c \in Conns, RecvFile(c)
       PROVE  MainInv'
  BY <1>24 DEF RecvFile, Goto
<1>25. ASSUME NEW c \in Conns, RecvFails(c)
       PROVE  MainInv'
  BY <1>25 DEF RecvFails, Goto
<1>26. ASSUME NEW c \in Conns, SendBroken(c)
       PROVE  MainInv'
  BY <1>26 DEF SendBroken, Goto
<1>27. ASSUME NEW c \in Conns, SendfileSigpipe(c)
       PROVE  MainInv'
  BY <1>27 DEF SendfileSigpipe
<1>28. ASSUME NEW c \in Conns, StreamUpdate(c)
       PROVE  MainInv'
  BY <1>28 DEF StreamUpdate, Goto
<1>29. ASSUME NEW c \in Conns, SocketClose(c)
       PROVE  MainInv'
  BY <1>29 DEF SocketClose
<1>30. ASSUME NEW c \in Conns, TrackerEnd(c)
       PROVE  MainInv'
  BY <1>30 DEF TrackerEnd, Leave, WakesMain
<1>31. ASSUME NEW c \in Conns, Send(c)
       PROVE  MainInv'
  BY <1>31 DEF Send, Goto
<1>32. ASSUME NEW c \in Conns, SendFile(c)
       PROVE  MainInv'
  BY <1>32 DEF SendFile, Goto
<1>33. ASSUME NEW c \in Conns, Reply(c)
       PROVE  MainInv'
  BY <1>33 DEF Reply, Goto
<1>34. ASSUME UNCHANGED vars
       PROVE  MainInv'
  BY <1>34 DEF vars
<1>. QED
  BY <1>1, <1>2, <1>3, <1>4, <1>5, <1>6, <1>7, <1>8,
     <1>9, <1>10, <1>11, <1>12, <1>13, <1>14, <1>15, <1>16,
     <1>17, <1>18, <1>19, <1>20, <1>21, <1>22, <1>23, <1>24,
     <1>25, <1>26, <1>27, <1>28, <1>29, <1>30, <1>31, <1>32,
     <1>33, <1>34
     DEF Next, MainStep, ThreadStep, WaitingStep, RecvBroken, RecvTimesOut,
         StreamShutdown

\* Every step keeps the list and the count in step with the threads.
LEMMA TrackerStep ==
    ASSUME Types, SafetyInv, [Next]_vars
    PROVE  TrackerInv'
<1>. USE ProcessAssumption
         DEF Types, SafetyInv, MainInv, TrackerInv, Live,
             MainPCs, ThreadPCs, Roles, tracker, sockets, peers
<1>1. ASSUME InitStores
      PROVE  TrackerInv'
  BY <1>1 DEF InitStores
<1>2. ASSUME Bind
      PROVE  TrackerInv'
  BY <1>2 DEF Bind
<1>3. ASSUME TestShutdown
      PROVE  TrackerInv'
  BY <1>3 DEF TestShutdown
<1>4. ASSUME SelectReturns
      PROVE  TrackerInv'
  BY <1>4 DEF SelectReturns
<1>5. ASSUME TrackerBegin
      PROVE  TrackerInv'
  <2>1. IsFiniteSet(entries)
    BY EntriesFinite
  <2>2. cur \notin entries
    BY <1>5 DEF TrackerBegin
  <2>3. Cardinality(entries \cup {cur}) = Cardinality(entries) + 1
    BY <2>1, <2>2, FS_AddElement
  <2>. QED  BY <1>5, <2>3 DEF TrackerBegin, Enter
<1>6. ASSUME BeginFails
      PROVE  TrackerInv'
  BY <1>6 DEF BeginFails
<1>7. ASSUME Spawn
      PROVE  TrackerInv'
  BY <1>7 DEF Spawn
<1>8. ASSUME SpawnFails
      PROVE  TrackerInv'
  <2>1. active_count' = Cardinality(entries')
    BY <1>8, LeaveCounts DEF SpawnFails
  <2>2. entries' = Live'
    BY <1>8 DEF SpawnFails, Leave
  <2>. QED  BY <1>8, <2>1, <2>2 DEF SpawnFails
<1>9. ASSUME Drop
      PROVE  TrackerInv'
  BY <1>9 DEF Drop
<1>10. ASSUME ShutdownRequest
       PROVE  TrackerInv'
  BY <1>10 DEF ShutdownRequest
<1>11. ASSUME JoinWatcher
       PROVE  TrackerInv'
  BY <1>11 DEF JoinWatcher
<1>12. ASSUME StoreShutdown
       PROVE  TrackerInv'
  BY <1>12 DEF StoreShutdown
<1>13. ASSUME ShutdownAll
       PROVE  TrackerInv'
  BY <1>13 DEF ShutdownAll
<1>14. ASSUME WaitIdle
       PROVE  TrackerInv'
  BY <1>14 DEF WaitIdle
<1>15. ASSUME Cleanup
       PROVE  TrackerInv'
  <2>1. Live' = {}
    BY <1>15 DEF Cleanup
  <2>. QED  BY <1>15, <2>1, FS_EmptySet DEF Cleanup
<1>16. ASSUME IdleWakesSpuriously
       PROVE  TrackerInv'
  BY <1>16 DEF IdleWakesSpuriously
<1>17. ASSUME Signal
       PROVE  TrackerInv'
  BY <1>17 DEF Signal
<1>18. ASSUME WatcherStops
       PROVE  TrackerInv'
  BY <1>18 DEF WatcherStops
<1>19. ASSUME NEW c \in Conns, Accept(c)
       PROVE  TrackerInv'
  BY <1>19 DEF Accept
<1>20. ASSUME NEW c \in Conns, PeerSends(c)
       PROVE  TrackerInv'
  BY <1>20 DEF PeerSends
<1>21. ASSUME NEW c \in Conns, PeerCloses(c)
       PROVE  TrackerInv'
  BY <1>21 DEF PeerCloses
<1>22. ASSUME NEW c \in Conns, Detect(c)
       PROVE  TrackerInv'
  BY <1>22 DEF Detect, Goto
<1>23. ASSUME NEW c \in Conns, RecvRequest(c)
       PROVE  TrackerInv'
  BY <1>23 DEF RecvRequest, Goto
<1>24. ASSUME NEW c \in Conns, RecvFile(c)
       PROVE  TrackerInv'
  BY <1>24 DEF RecvFile, Goto
<1>25. ASSUME NEW c \in Conns, RecvFails(c)
       PROVE  TrackerInv'
  BY <1>25 DEF RecvFails, Goto
<1>26. ASSUME NEW c \in Conns, SendBroken(c)
       PROVE  TrackerInv'
  BY <1>26 DEF SendBroken, Goto
<1>27. ASSUME NEW c \in Conns, SendfileSigpipe(c)
       PROVE  TrackerInv'
  <2>1. Live' = {}
    BY <1>27 DEF SendfileSigpipe
  <2>. QED  BY <1>27, <2>1, FS_EmptySet DEF SendfileSigpipe
<1>28. ASSUME NEW c \in Conns, StreamUpdate(c)
       PROVE  TrackerInv'
  BY <1>28 DEF StreamUpdate, Goto
<1>29. ASSUME NEW c \in Conns, SocketClose(c)
       PROVE  TrackerInv'
  BY <1>29 DEF SocketClose
<1>30. ASSUME NEW c \in Conns, TrackerEnd(c)
       PROVE  TrackerInv'
  <2>1. c \in entries
    BY <1>30 DEF TrackerEnd
  <2>2. active_count' = Cardinality(entries')
    BY <1>30, <2>1, LeaveCounts DEF TrackerEnd
  <2>3. main' # "spawn" => main # "spawn"
    BY <1>30 DEF TrackerEnd, WakesMain
  <2>4. main = "spawn" => main' = "spawn" /\ cur # c
    BY <1>30 DEF TrackerEnd, WakesMain
  <2>5. Live' = Live \ {c}
    BY <1>30 DEF TrackerEnd
  <2>. QED  BY <1>30, <2>2, <2>3, <2>4, <2>5 DEF TrackerEnd, Leave
<1>31. ASSUME NEW c \in Conns, Send(c)
       PROVE  TrackerInv'
  BY <1>31 DEF Send, Goto
<1>32. ASSUME NEW c \in Conns, SendFile(c)
       PROVE  TrackerInv'
  BY <1>32 DEF SendFile, Goto
<1>33. ASSUME NEW c \in Conns, Reply(c)
       PROVE  TrackerInv'
  BY <1>33 DEF Reply, Goto
<1>34. ASSUME UNCHANGED vars
       PROVE  TrackerInv'
  BY <1>34 DEF vars
<1>. QED
  BY <1>1, <1>2, <1>3, <1>4, <1>5, <1>6, <1>7, <1>8,
     <1>9, <1>10, <1>11, <1>12, <1>13, <1>14, <1>15, <1>16,
     <1>17, <1>18, <1>19, <1>20, <1>21, <1>22, <1>23, <1>24,
     <1>25, <1>26, <1>27, <1>28, <1>29, <1>30, <1>31, <1>32,
     <1>33, <1>34
     DEF Next, MainStep, ThreadStep, WaitingStep, RecvBroken, RecvTimesOut,
         StreamShutdown

\* Every step keeps the open sockets aborted during a shutdown.
LEMMA AbortedStep ==
    ASSUME Types, SafetyInv, [Next]_vars
    PROVE  EverySocketAborted'
<1>. USE ProcessAssumption
         DEF Types, SafetyInv, MainInv, EverySocketAborted,
             MainPCs, ThreadPCs, Roles, tracker, sockets, peers
<1>1. ASSUME InitStores
      PROVE  EverySocketAborted'
  BY <1>1 DEF InitStores
<1>2. ASSUME Bind
      PROVE  EverySocketAborted'
  BY <1>2 DEF Bind
<1>3. ASSUME TestShutdown
      PROVE  EverySocketAborted'
  BY <1>3 DEF TestShutdown
<1>4. ASSUME SelectReturns
      PROVE  EverySocketAborted'
  BY <1>4 DEF SelectReturns
<1>5. ASSUME TrackerBegin
      PROVE  EverySocketAborted'
  BY <1>5 DEF TrackerBegin, Enter
<1>6. ASSUME BeginFails
      PROVE  EverySocketAborted'
  BY <1>6 DEF BeginFails
<1>7. ASSUME Spawn
      PROVE  EverySocketAborted'
  BY <1>7 DEF Spawn
<1>8. ASSUME SpawnFails
      PROVE  EverySocketAborted'
  BY <1>8 DEF SpawnFails, Leave
<1>9. ASSUME Drop
      PROVE  EverySocketAborted'
  BY <1>9 DEF Drop
<1>10. ASSUME ShutdownRequest
       PROVE  EverySocketAborted'
  BY <1>10 DEF ShutdownRequest
<1>11. ASSUME JoinWatcher
       PROVE  EverySocketAborted'
  BY <1>11 DEF JoinWatcher
<1>12. ASSUME StoreShutdown
       PROVE  EverySocketAborted'
  BY <1>12 DEF StoreShutdown
<1>13. ASSUME ShutdownAll
       PROVE  EverySocketAborted'
  <2> SUFFICES ASSUME NEW f \in Fds, owner'[f] # None
               PROVE  owner'[f] \in aborted'
    BY DEF EverySocketAborted
  <2> DEFINE c == owner[f]
  <2>1. c \in Conns /\ fdOf[c] = f /\ pc[c] \notin {"none", "closed", "ended"}
    BY <1>13 DEF ShutdownAll, OwnerInv
  <2>2. pc[c] # "held"
    BY <1>13, <2>1 DEF ShutdownAll
  <2>3. c \in entries
    BY <2>1, <2>2 DEF TrackerInv, Live
  <2>. QED  BY <1>13, <2>1, <2>3 DEF ShutdownAll
<1>14. ASSUME WaitIdle
       PROVE  EverySocketAborted'
  BY <1>14 DEF WaitIdle
<1>15. ASSUME Cleanup
       PROVE  EverySocketAborted'
  BY <1>15 DEF Cleanup
<1>16. ASSUME IdleWakesSpuriously
       PROVE  EverySocketAborted'
  BY <1>16 DEF IdleWakesSpuriously
<1>17. ASSUME Signal
       PROVE  EverySocketAborted'
  BY <1>17 DEF Signal
<1>18. ASSUME WatcherStops
       PROVE  EverySocketAborted'
  BY <1>18 DEF WatcherStops
<1>19. ASSUME NEW c \in Conns, Accept(c)
       PROVE  EverySocketAborted'
  BY <1>19 DEF Accept
<1>20. ASSUME NEW c \in Conns, PeerSends(c)
       PROVE  EverySocketAborted'
  BY <1>20 DEF PeerSends
<1>21. ASSUME NEW c \in Conns, PeerCloses(c)
       PROVE  EverySocketAborted'
  BY <1>21 DEF PeerCloses
<1>22. ASSUME NEW c \in Conns, Detect(c)
       PROVE  EverySocketAborted'
  BY <1>22 DEF Detect, Goto
<1>23. ASSUME NEW c \in Conns, RecvRequest(c)
       PROVE  EverySocketAborted'
  BY <1>23 DEF RecvRequest, Goto
<1>24. ASSUME NEW c \in Conns, RecvFile(c)
       PROVE  EverySocketAborted'
  BY <1>24 DEF RecvFile, Goto
<1>25. ASSUME NEW c \in Conns, RecvFails(c)
       PROVE  EverySocketAborted'
  BY <1>25 DEF RecvFails, Goto
<1>26. ASSUME NEW c \in Conns, SendBroken(c)
       PROVE  EverySocketAborted'
  BY <1>26 DEF SendBroken, Goto
<1>27. ASSUME NEW c \in Conns, SendfileSigpipe(c)
       PROVE  EverySocketAborted'
  BY <1>27 DEF SendfileSigpipe
<1>28. ASSUME NEW c \in Conns, StreamUpdate(c)
       PROVE  EverySocketAborted'
  BY <1>28 DEF StreamUpdate, Goto
<1>29. ASSUME NEW c \in Conns, SocketClose(c)
       PROVE  EverySocketAborted'
  BY <1>29 DEF SocketClose
<1>30. ASSUME NEW c \in Conns, TrackerEnd(c)
       PROVE  EverySocketAborted'
  BY <1>30 DEF TrackerEnd, Leave, WakesMain
<1>31. ASSUME NEW c \in Conns, Send(c)
       PROVE  EverySocketAborted'
  BY <1>31 DEF Send, Goto
<1>32. ASSUME NEW c \in Conns, SendFile(c)
       PROVE  EverySocketAborted'
  BY <1>32 DEF SendFile, Goto
<1>33. ASSUME NEW c \in Conns, Reply(c)
       PROVE  EverySocketAborted'
  BY <1>33 DEF Reply, Goto
<1>34. ASSUME UNCHANGED vars
       PROVE  EverySocketAborted'
  BY <1>34 DEF vars
<1>. QED
  BY <1>1, <1>2, <1>3, <1>4, <1>5, <1>6, <1>7, <1>8,
     <1>9, <1>10, <1>11, <1>12, <1>13, <1>14, <1>15, <1>16,
     <1>17, <1>18, <1>19, <1>20, <1>21, <1>22, <1>23, <1>24,
     <1>25, <1>26, <1>27, <1>28, <1>29, <1>30, <1>31, <1>32,
     <1>33, <1>34
     DEF Next, MainStep, ThreadStep, WaitingStep, RecvBroken, RecvTimesOut,
         StreamShutdown
---------------------------------------------------------------------------

\* The inductive invariant holds in every reachable state.
THEOREM SafetyInvariant == Spec => [](Types /\ SafetyInv)
<1>1. Init => Types /\ SafetyInv
  <2> SUFFICES ASSUME Init
               PROVE  Types /\ SafetyInv
    OBVIOUS
  <2>1. Types
    BY DEF Init, Types, MainPCs, ThreadPCs, Roles
  <2>2. TrackerInv
    BY FS_EmptySet DEF Init, TrackerInv, Live
  <2>3. MainInv /\ OwnerInv /\ SocketStaysOwn /\ EverySocketAborted /\ TempInv
    BY DEF Init, MainInv, OwnerInv, SocketStaysOwn, EverySocketAborted, TempInv
  <2>. QED  BY <2>1, <2>2, <2>3 DEF SafetyInv
<1>2. Types /\ SafetyInv /\ [Next]_vars => (Types /\ SafetyInv)'
  <2> SUFFICES ASSUME Types, SafetyInv, [Next]_vars
               PROVE  (Types /\ SafetyInv)'
    OBVIOUS
  <2>1. CurInv
    BY DEF SafetyInv, MainInv, CurInv
  <2>. QED
    BY <2>1, TypesStep, SocketsStep, MainStepInv, TrackerStep, AbortedStep
       DEF SafetyInv
<1>. QED  BY <1>1, <1>2, PTL DEF Spec

\* The type invariant: the count never exceeds the number of connections.
THEOREM TypeCorrect == Spec => []TypeOK
<1>1. Types /\ SafetyInv => TypeOK
  <2> SUFFICES ASSUME Types, SafetyInv
               PROVE  TypeOK
    OBVIOUS
  <2>1. Cardinality(entries) <= Cardinality(Conns)
    BY ProcessAssumption, FS_Subset DEF Types
  <2>2. Cardinality(Conns) \in Nat
    BY ProcessAssumption, FS_CardinalityType
  <2>3. active_count \in 0..Cardinality(Conns)
    BY <2>1, <2>2 DEF Types, SafetyInv, TrackerInv
  <2>. QED  BY <2>3 DEF Types, TypeOK
<1>. QED  BY <1>1, SafetyInvariant, PTL

\* The tracker and the message store are destroyed only when no connection
\* thread can call them any more.
THEOREM NoUseAfterCleanupHolds == Spec => []NoUseAfterCleanup
<1>1. SafetyInv => NoUseAfterCleanup
  BY DEF SafetyInv, MainInv, TrackerInv, NoUseAfterCleanup
<1>. QED  BY <1>1, SafetyInvariant, PTL

\* A thread's descriptor stays its own until it closes it.
THEOREM SocketStaysOwnHolds == Spec => []SocketStaysOwn
<1>1. SafetyInv => SocketStaysOwn
  BY DEF SafetyInv
<1>. QED  BY <1>1, SafetyInvariant, PTL

\* After shutdown_all every open connection is shut down.
THEOREM EverySocketAbortedHolds == Spec => []EverySocketAborted
<1>1. SafetyInv => EverySocketAborted
  BY DEF SafetyInv
<1>. QED  BY <1>1, SafetyInvariant, PTL

\* A process that returns from server_run_process leaves no open connection
\* and no temporary file.
THEOREM CleanExitHolds == Spec => []CleanExit
<1>1. Types /\ SafetyInv => CleanExit
  <2> SUFFICES ASSUME Types, SafetyInv, main = "exited"
               PROVE  temps = {} /\ \A f \in Fds : owner[f] = None
    BY DEF CleanExit
  <2>1. Live = {} /\ \A c \in Conns : pc[c] # "held"
    BY DEF SafetyInv, MainInv, TrackerInv
  <2>2. \A c \in Conns : pc[c] \in {"none", "ended"}
    BY <2>1 DEF Live
  <2>. QED  BY <2>2 DEF Types, SafetyInv, OwnerInv, TempInv
<1>. QED  BY <1>1, SafetyInvariant, PTL
=============================================================================
