--------------------------- MODULE TransferProofs ---------------------------
(***************************************************************************)
(* Proofs about the two modules of a transfer: FileTransfer, the session   *)
(* that moves the bytes, for files and response frames of any length; and  *)
(* ReceiveDir, where it leaves them, for any number of uploads, downloads, *)
(* names, attempts and crashes, with DirListing on top of it.              *)
(***************************************************************************)
EXTENDS FileTransfer, DirListing, TLAPS

(* The session. *)

\* The type invariant in two parts: where everything is ...
Labels ==
    /\ kind \in {"send", "get", "text"}
    /\ valid \in BOOLEAN
    /\ cpc \in {"start", "request", "ready", "body", "prefix", "recv", "final",
                "rename", "done"}
    /\ exit \in {0, 1}
    /\ spc \in {"detect", "request", "open", "recv", "final", "send", "done"}
    /\ req \in BOOLEAN
    /\ ceof \in BOOLEAN
    /\ ready \in {"none", "ok", "rejected"}
    /\ final \in {"none", "ok", "failed"}
    /\ seof \in BOOLEAN
    /\ out \in {"none", "temp", "published"}
    /\ fault \in BOOLEAN

\* ... and how much has been moved.
Counters ==
    /\ src \in 0..MaxSize
    /\ size \in 0..MaxSize
    /\ csent \in 0..size
    /\ cgot \in 0..size
    /\ sgot \in 0..csent
    /\ ssent \in 0..size
    /\ good \in 0..size

\* What each side has put on the wire so far, from where it is.
WireInv ==
    /\ seof <=> spc = "done"
    /\ final # "none" => spc = "done"
    /\ spc \in {"detect", "request"} => ready = "none" /\ ssent = 0 /\ sgot = 0
    /\ spc = "send" => kind = "get" /\ ready = "ok"
    /\ spc \in {"open", "recv", "final"} => kind # "get" /\ ready # "rejected"
    /\ ready = "rejected" => spc = "done" /\ final = "none"
    /\ ready = "ok" => kind # "text"
    /\ kind = "send" /\ spc \in {"open", "recv", "final"} => ready = "ok"
    /\ ~req => cpc \in {"start", "request", "done"}
    /\ ceof => cpc = "done" \/ (cpc = "final" /\ kind # "get")
    /\ spc = "open" => kind = "send"

\* Which of the counters a kind of session uses, and which of its bytes are
\* content: the bytes beyond ssent that the client of a get has read are bytes
\* of the FINAL frame.
CountInv ==
    /\ kind = "get" => /\ csent = 0
                       /\ cgot <= ssent => good = cgot
                       /\ cgot > ssent => good = ssent /\ final # "none"
                       /\ ready # "ok" => ssent = 0 /\ cgot = 0
    /\ kind # "get" => ssent = 0 /\ cgot = 0 /\ good = sgot

\* What the client knows, from where it is.
ClientInv ==
    /\ cpc = "ready" => kind # "text"
    /\ cpc = "body" => kind # "get"
    /\ cpc \in {"prefix", "recv", "rename"} => kind = "get" /\ ready = "ok"
    /\ cpc = "final" /\ kind = "get" => ready = "ok" /\ cgot = size
    /\ cpc = "final" /\ kind # "get" => csent = size
    /\ cpc = "rename" => final = "ok" /\ cgot = size
    /\ exit = 1 => cpc = "done"
    /\ cpc = "done" /\ exit = 0 => out = "published"

\* Where the destination file is, from where the side that writes it is.
OutInv ==
    /\ kind = "get" => /\ out = "temp" <=> cpc \in {"rename", "recv"} \/ cpc = "final"
                       /\ out = "published" => /\ cpc = "done"
                                               /\ cgot = size
                                               /\ final = "ok"
                                               /\ ready = "ok"
    /\ kind = "send" => (out = "temp" <=> spc = "recv")
    /\ kind = "text" => out # "temp"
    /\ kind # "get" => /\ spc = "final" => out = "published"
                       /\ out = "published" => /\ spc \in {"final", "done"}
                                               /\ sgot = size
                                               /\ final # "failed"
                                               /\ ready # "rejected"
    /\ final = "ok" => IF kind = "get" THEN ssent = size ELSE out = "published"
    /\ final = "ok" /\ kind # "text" => ready = "ok"

\* Why a session fails.  Before a get is answered the announced size is not
\* yet known, so only a fault can have ended the client.
Cause == fault \/ ~valid \/ src < size \/ (kind = "get" /\ size > MaxFile)

CauseInv ==
    /\ ready = "rejected" => ~valid \/ fault
    /\ spc = "done" => Cause \/ final = "ok"
    /\ kind = "get" /\ spc \in {"detect", "request"} /\ cpc = "done" => fault
    /\ FailureHasCause

\* The inductive invariant.
SessionInv ==
    Labels /\ Counters /\ WireInv /\ CountInv /\ ClientInv /\ OutInv /\ CauseInv

\* Every step stays within the steps of the code.
LEMMA LabelsStep ==
    ASSUME SessionInv, [SessionNext]_sessionVars
    PROVE  Labels'
<1>. USE FileTransferAssumption DEF SessionInv, Labels, Counters, WireInv, CountInv,
       ClientInv,
       OutInv, CauseInv, Cause, FailureHasCause, clientVars, serverVars, sourceVars
<1>1. ASSUME Connect
      PROVE  Labels'
  BY <1>1 DEF Connect
<1>2. ASSUME SendRequest
      PROVE  Labels'
  BY <1>2 DEF SendRequest
<1>3. ASSUME RecvReady
      PROVE  Labels'
  BY <1>3 DEF RecvReady, ClientFail, ClientExit
<1>4. ASSUME ClientSendBody
      PROVE  Labels'
  BY <1>4 DEF ClientSendBody, ClientFail, ClientExit
<1>5. ASSUME ShutdownWrite
      PROVE  Labels'
  BY <1>5 DEF ShutdownWrite
<1>6. ASSUME RecvPrefix
      PROVE  Labels'
  BY <1>6 DEF RecvPrefix, ClientFail, ClientExit
<1>7. ASSUME ClientRecvBody
      PROVE  Labels'
  BY <1>7 DEF ClientRecvBody, ClientFail, ClientExit, Available
<1>8. ASSUME BodyComplete
      PROVE  Labels'
  BY <1>8 DEF BodyComplete
<1>9. ASSUME RecvFinal
      PROVE  Labels'
  BY <1>9 DEF RecvFinal, ClientFail, ClientExit, FinalArrived
<1>10. ASSUME Rename
       PROVE  Labels'
  BY <1>10 DEF Rename
<1>11. ASSUME ClientFault
       PROVE  Labels'
  BY <1>11 DEF ClientFault, ClientExit
<1>12. ASSUME Detect
       PROVE  Labels'
  BY <1>12 DEF Detect, ServerEnd
<1>13. ASSUME RecvSend
       PROVE  Labels'
  BY <1>13 DEF RecvSend, ServerEnd
<1>14. ASSUME RecvGet
       PROVE  Labels'
  BY <1>14 DEF RecvGet, ServerEnd
<1>15. ASSUME RecvText
       PROVE  Labels'
  BY <1>15 DEF RecvText, ServerEnd
<1>16. ASSUME ServerOpenTemp
       PROVE  Labels'
  BY <1>16 DEF ServerOpenTemp
<1>17. ASSUME ServerRecvBody
       PROVE  Labels'
  BY <1>17 DEF ServerRecvBody, ServerEnd
<1>18. ASSUME ServerPublish
       PROVE  Labels'
  BY <1>18 DEF ServerPublish
<1>19. ASSUME SendFinal
       PROVE  Labels'
  BY <1>19 DEF SendFinal, ServerEnd
<1>20. ASSUME ServerSendBody
       PROVE  Labels'
  BY <1>20 DEF ServerSendBody, ServerEnd
<1>21. ASSUME ServerFault
       PROVE  Labels'
  <2>1. PICK f \in {"none", "ok", "failed"} : ServerEnd(f)
    BY <1>21 DEF ServerFault
  <2>2. fault' = TRUE /\ (ready' = ready \/ ready' = "rejected")
    BY <1>21 DEF ServerFault
  <2>. QED  BY <2>1, <2>2 DEF ServerEnd
<1>22. ASSUME Truncate
       PROVE  Labels'
  BY <1>22 DEF Truncate
<1>23. CASE UNCHANGED sessionVars
  BY <1>23 DEF sessionVars
<1>. QED
  BY <1>1, <1>2, <1>3, <1>4, <1>5, <1>6, <1>7, <1>8, <1>9, <1>10, <1>11, <1>12,
     <1>13, <1>14, <1>15, <1>16, <1>17, <1>18, <1>19, <1>20, <1>21, <1>22, <1>23
     DEF SessionNext, Client, Server, Ended

\* The counters stay within the announced size.
LEMMA CountersStep ==
    ASSUME SessionInv, [SessionNext]_sessionVars
    PROVE  Counters'
<1>. USE FileTransferAssumption DEF SessionInv, Labels, Counters, WireInv, CountInv,
       ClientInv,
       OutInv, CauseInv, Cause, FailureHasCause, clientVars, serverVars, sourceVars
<1>1. ASSUME Connect
      PROVE  Counters'
  BY <1>1 DEF Connect
<1>2. ASSUME SendRequest
      PROVE  Counters'
  BY <1>2 DEF SendRequest
<1>3. ASSUME RecvReady
      PROVE  Counters'
  BY <1>3 DEF RecvReady, ClientFail, ClientExit
<1>4. ASSUME ClientSendBody
      PROVE  Counters'
  BY <1>4 DEF ClientSendBody, ClientFail, ClientExit
<1>5. ASSUME ShutdownWrite
      PROVE  Counters'
  BY <1>5 DEF ShutdownWrite
<1>6. ASSUME RecvPrefix
      PROVE  Counters'
  BY <1>6 DEF RecvPrefix, ClientFail, ClientExit
<1>7. ASSUME ClientRecvBody
      PROVE  Counters'
  BY <1>7 DEF ClientRecvBody, ClientFail, ClientExit, Available
<1>8. ASSUME BodyComplete
      PROVE  Counters'
  BY <1>8 DEF BodyComplete
<1>9. ASSUME RecvFinal
      PROVE  Counters'
  BY <1>9 DEF RecvFinal, ClientFail, ClientExit, FinalArrived
<1>10. ASSUME Rename
       PROVE  Counters'
  BY <1>10 DEF Rename
<1>11. ASSUME ClientFault
       PROVE  Counters'
  BY <1>11 DEF ClientFault, ClientExit
<1>12. ASSUME Detect
       PROVE  Counters'
  BY <1>12 DEF Detect, ServerEnd
<1>13. ASSUME RecvSend
       PROVE  Counters'
  BY <1>13 DEF RecvSend, ServerEnd
<1>14. ASSUME RecvGet
       PROVE  Counters'
  BY <1>14 DEF RecvGet, ServerEnd
<1>15. ASSUME RecvText
       PROVE  Counters'
  BY <1>15 DEF RecvText, ServerEnd
<1>16. ASSUME ServerOpenTemp
       PROVE  Counters'
  BY <1>16 DEF ServerOpenTemp
<1>17. ASSUME ServerRecvBody
       PROVE  Counters'
  BY <1>17 DEF ServerRecvBody, ServerEnd
<1>18. ASSUME ServerPublish
       PROVE  Counters'
  BY <1>18 DEF ServerPublish
<1>19. ASSUME SendFinal
       PROVE  Counters'
  BY <1>19 DEF SendFinal, ServerEnd
<1>20. ASSUME ServerSendBody
       PROVE  Counters'
  BY <1>20 DEF ServerSendBody, ServerEnd
<1>21. ASSUME ServerFault
       PROVE  Counters'
  BY <1>21 DEF ServerFault, ServerEnd
<1>22. ASSUME Truncate
       PROVE  Counters'
  BY <1>22 DEF Truncate
<1>23. CASE UNCHANGED sessionVars
  BY <1>23 DEF sessionVars
<1>. QED
  BY <1>1, <1>2, <1>3, <1>4, <1>5, <1>6, <1>7, <1>8, <1>9, <1>10, <1>11, <1>12,
     <1>13, <1>14, <1>15, <1>16, <1>17, <1>18, <1>19, <1>20, <1>21, <1>22, <1>23
     DEF SessionNext, Client, Server, Ended

\* What is on the wire follows from where both sides are.
LEMMA WireInvStep ==
    ASSUME SessionInv, [SessionNext]_sessionVars
    PROVE  WireInv'
<1>. USE FileTransferAssumption DEF SessionInv, Labels, Counters, WireInv, CountInv,
       ClientInv,
       OutInv, CauseInv, Cause, FailureHasCause, clientVars, serverVars, sourceVars
<1>1. ASSUME Connect
      PROVE  WireInv'
  BY <1>1 DEF Connect
<1>2. ASSUME SendRequest
      PROVE  WireInv'
  BY <1>2 DEF SendRequest
<1>3. ASSUME RecvReady
      PROVE  WireInv'
  BY <1>3 DEF RecvReady, ClientFail, ClientExit
<1>4. ASSUME ClientSendBody
      PROVE  WireInv'
  BY <1>4 DEF ClientSendBody, ClientFail, ClientExit
<1>5. ASSUME ShutdownWrite
      PROVE  WireInv'
  BY <1>5 DEF ShutdownWrite
<1>6. ASSUME RecvPrefix
      PROVE  WireInv'
  BY <1>6 DEF RecvPrefix, ClientFail, ClientExit
<1>7. ASSUME ClientRecvBody
      PROVE  WireInv'
  BY <1>7 DEF ClientRecvBody, ClientFail, ClientExit, Available
<1>8. ASSUME BodyComplete
      PROVE  WireInv'
  BY <1>8 DEF BodyComplete
<1>9. ASSUME RecvFinal
      PROVE  WireInv'
  BY <1>9 DEF RecvFinal, ClientFail, ClientExit, FinalArrived
<1>10. ASSUME Rename
       PROVE  WireInv'
  BY <1>10 DEF Rename
<1>11. ASSUME ClientFault
       PROVE  WireInv'
  BY <1>11 DEF ClientFault, ClientExit
<1>12. ASSUME Detect
       PROVE  WireInv'
  BY <1>12 DEF Detect, ServerEnd
<1>13. ASSUME RecvSend
       PROVE  WireInv'
  BY <1>13 DEF RecvSend, ServerEnd
<1>14. ASSUME RecvGet
       PROVE  WireInv'
  BY <1>14 DEF RecvGet, ServerEnd
<1>15. ASSUME RecvText
       PROVE  WireInv'
  BY <1>15 DEF RecvText, ServerEnd
<1>16. ASSUME ServerOpenTemp
       PROVE  WireInv'
  BY <1>16 DEF ServerOpenTemp
<1>17. ASSUME ServerRecvBody
       PROVE  WireInv'
  BY <1>17 DEF ServerRecvBody, ServerEnd
<1>18. ASSUME ServerPublish
       PROVE  WireInv'
  BY <1>18 DEF ServerPublish
<1>19. ASSUME SendFinal
       PROVE  WireInv'
  BY <1>19 DEF SendFinal, ServerEnd
<1>20. ASSUME ServerSendBody
       PROVE  WireInv'
  BY <1>20 DEF ServerSendBody, ServerEnd
<1>21. ASSUME ServerFault
       PROVE  WireInv'
  BY <1>21 DEF ServerFault, ServerEnd
<1>22. ASSUME Truncate
       PROVE  WireInv'
  BY <1>22 DEF Truncate
<1>23. CASE UNCHANGED sessionVars
  BY <1>23 DEF sessionVars
<1>. QED
  BY <1>1, <1>2, <1>3, <1>4, <1>5, <1>6, <1>7, <1>8, <1>9, <1>10, <1>11, <1>12,
     <1>13, <1>14, <1>15, <1>16, <1>17, <1>18, <1>19, <1>20, <1>21, <1>22, <1>23
     DEF SessionNext, Client, Server, Ended

\* The bytes read beyond the body are those of the FINAL frame.
LEMMA CountInvStep ==
    ASSUME SessionInv, [SessionNext]_sessionVars
    PROVE  CountInv'
<1>. USE FileTransferAssumption DEF SessionInv, Labels, Counters, WireInv, CountInv,
       ClientInv,
       OutInv, CauseInv, Cause, FailureHasCause, clientVars, serverVars, sourceVars
<1>1. ASSUME Connect
      PROVE  CountInv'
  BY <1>1 DEF Connect
<1>2. ASSUME SendRequest
      PROVE  CountInv'
  BY <1>2 DEF SendRequest
<1>3. ASSUME RecvReady
      PROVE  CountInv'
  BY <1>3 DEF RecvReady, ClientFail, ClientExit
<1>4. ASSUME ClientSendBody
      PROVE  CountInv'
  BY <1>4 DEF ClientSendBody, ClientFail, ClientExit
<1>5. ASSUME ShutdownWrite
      PROVE  CountInv'
  BY <1>5 DEF ShutdownWrite
<1>6. ASSUME RecvPrefix
      PROVE  CountInv'
  BY <1>6 DEF RecvPrefix, ClientFail, ClientExit
<1>7. ASSUME ClientRecvBody
      PROVE  CountInv'
  BY <1>7 DEF ClientRecvBody, ClientFail, ClientExit, Available
<1>8. ASSUME BodyComplete
      PROVE  CountInv'
  BY <1>8 DEF BodyComplete
<1>9. ASSUME RecvFinal
      PROVE  CountInv'
  BY <1>9 DEF RecvFinal, ClientFail, ClientExit, FinalArrived
<1>10. ASSUME Rename
       PROVE  CountInv'
  BY <1>10 DEF Rename
<1>11. ASSUME ClientFault
       PROVE  CountInv'
  BY <1>11 DEF ClientFault, ClientExit
<1>12. ASSUME Detect
       PROVE  CountInv'
  BY <1>12 DEF Detect, ServerEnd
<1>13. ASSUME RecvSend
       PROVE  CountInv'
  BY <1>13 DEF RecvSend, ServerEnd
<1>14. ASSUME RecvGet
       PROVE  CountInv'
  BY <1>14 DEF RecvGet, ServerEnd
<1>15. ASSUME RecvText
       PROVE  CountInv'
  BY <1>15 DEF RecvText, ServerEnd
<1>16. ASSUME ServerOpenTemp
       PROVE  CountInv'
  BY <1>16 DEF ServerOpenTemp
<1>17. ASSUME ServerRecvBody
       PROVE  CountInv'
  BY <1>17 DEF ServerRecvBody, ServerEnd
<1>18. ASSUME ServerPublish
       PROVE  CountInv'
  BY <1>18 DEF ServerPublish
<1>19. ASSUME SendFinal
       PROVE  CountInv'
  BY <1>19 DEF SendFinal, ServerEnd
<1>20. ASSUME ServerSendBody
       PROVE  CountInv'
  BY <1>20 DEF ServerSendBody, ServerEnd
<1>21. ASSUME ServerFault
       PROVE  CountInv'
  BY <1>21 DEF ServerFault, ServerEnd
<1>22. ASSUME Truncate
       PROVE  CountInv'
  BY <1>22 DEF Truncate
<1>23. CASE UNCHANGED sessionVars
  BY <1>23 DEF sessionVars
<1>. QED
  BY <1>1, <1>2, <1>3, <1>4, <1>5, <1>6, <1>7, <1>8, <1>9, <1>10, <1>11, <1>12,
     <1>13, <1>14, <1>15, <1>16, <1>17, <1>18, <1>19, <1>20, <1>21, <1>22, <1>23
     DEF SessionNext, Client, Server, Ended

\* The client goes on only after the right frame.
LEMMA ClientInvStep ==
    ASSUME SessionInv, [SessionNext]_sessionVars
    PROVE  ClientInv'
<1>. USE FileTransferAssumption DEF SessionInv, Labels, Counters, WireInv, CountInv,
       ClientInv,
       OutInv, CauseInv, Cause, FailureHasCause, clientVars, serverVars, sourceVars
<1>1. ASSUME Connect
      PROVE  ClientInv'
  BY <1>1 DEF Connect
<1>2. ASSUME SendRequest
      PROVE  ClientInv'
  BY <1>2 DEF SendRequest
<1>3. ASSUME RecvReady
      PROVE  ClientInv'
  BY <1>3 DEF RecvReady, ClientFail, ClientExit
<1>4. ASSUME ClientSendBody
      PROVE  ClientInv'
  BY <1>4 DEF ClientSendBody, ClientFail, ClientExit
<1>5. ASSUME ShutdownWrite
      PROVE  ClientInv'
  BY <1>5 DEF ShutdownWrite
<1>6. ASSUME RecvPrefix
      PROVE  ClientInv'
  BY <1>6 DEF RecvPrefix, ClientFail, ClientExit
<1>7. ASSUME ClientRecvBody
      PROVE  ClientInv'
  BY <1>7 DEF ClientRecvBody, ClientFail, ClientExit, Available
<1>8. ASSUME BodyComplete
      PROVE  ClientInv'
  BY <1>8 DEF BodyComplete
<1>9. ASSUME RecvFinal
      PROVE  ClientInv'
  BY <1>9 DEF RecvFinal, ClientFail, ClientExit, FinalArrived
<1>10. ASSUME Rename
       PROVE  ClientInv'
  BY <1>10 DEF Rename
<1>11. ASSUME ClientFault
       PROVE  ClientInv'
  BY <1>11 DEF ClientFault, ClientExit
<1>12. ASSUME Detect
       PROVE  ClientInv'
  BY <1>12 DEF Detect, ServerEnd
<1>13. ASSUME RecvSend
       PROVE  ClientInv'
  BY <1>13 DEF RecvSend, ServerEnd
<1>14. ASSUME RecvGet
       PROVE  ClientInv'
  BY <1>14 DEF RecvGet, ServerEnd
<1>15. ASSUME RecvText
       PROVE  ClientInv'
  BY <1>15 DEF RecvText, ServerEnd
<1>16. ASSUME ServerOpenTemp
       PROVE  ClientInv'
  BY <1>16 DEF ServerOpenTemp
<1>17. ASSUME ServerRecvBody
       PROVE  ClientInv'
  BY <1>17 DEF ServerRecvBody, ServerEnd
<1>18. ASSUME ServerPublish
       PROVE  ClientInv'
  BY <1>18 DEF ServerPublish
<1>19. ASSUME SendFinal
       PROVE  ClientInv'
  BY <1>19 DEF SendFinal, ServerEnd
<1>20. ASSUME ServerSendBody
       PROVE  ClientInv'
  BY <1>20 DEF ServerSendBody, ServerEnd
<1>21. ASSUME ServerFault
       PROVE  ClientInv'
  BY <1>21 DEF ServerFault, ServerEnd
<1>22. ASSUME Truncate
       PROVE  ClientInv'
  BY <1>22 DEF Truncate
<1>23. CASE UNCHANGED sessionVars
  BY <1>23 DEF sessionVars
<1>. QED
  BY <1>1, <1>2, <1>3, <1>4, <1>5, <1>6, <1>7, <1>8, <1>9, <1>10, <1>11, <1>12,
     <1>13, <1>14, <1>15, <1>16, <1>17, <1>18, <1>19, <1>20, <1>21, <1>22, <1>23
     DEF SessionNext, Client, Server, Ended

\* The destination is renamed only after the right frame or the last byte.
LEMMA OutInvStep ==
    ASSUME SessionInv, [SessionNext]_sessionVars
    PROVE  OutInv'
<1>. USE FileTransferAssumption DEF SessionInv, Labels, Counters, WireInv, CountInv,
       ClientInv,
       OutInv, CauseInv, Cause, FailureHasCause, clientVars, serverVars, sourceVars
<1>1. ASSUME Connect
      PROVE  OutInv'
  BY <1>1 DEF Connect
<1>2. ASSUME SendRequest
      PROVE  OutInv'
  BY <1>2 DEF SendRequest
<1>3. ASSUME RecvReady
      PROVE  OutInv'
  BY <1>3 DEF RecvReady, ClientFail, ClientExit
<1>4. ASSUME ClientSendBody
      PROVE  OutInv'
  BY <1>4 DEF ClientSendBody, ClientFail, ClientExit
<1>5. ASSUME ShutdownWrite
      PROVE  OutInv'
  BY <1>5 DEF ShutdownWrite
<1>6. ASSUME RecvPrefix
      PROVE  OutInv'
  BY <1>6 DEF RecvPrefix, ClientFail, ClientExit
<1>7. ASSUME ClientRecvBody
      PROVE  OutInv'
  BY <1>7 DEF ClientRecvBody, ClientFail, ClientExit, Available
<1>8. ASSUME BodyComplete
      PROVE  OutInv'
  BY <1>8 DEF BodyComplete
<1>9. ASSUME RecvFinal
      PROVE  OutInv'
  BY <1>9 DEF RecvFinal, ClientFail, ClientExit, FinalArrived
<1>10. ASSUME Rename
       PROVE  OutInv'
  BY <1>10 DEF Rename
<1>11. ASSUME ClientFault
       PROVE  OutInv'
  BY <1>11 DEF ClientFault, ClientExit
<1>12. ASSUME Detect
       PROVE  OutInv'
  BY <1>12 DEF Detect, ServerEnd
<1>13. ASSUME RecvSend
       PROVE  OutInv'
  BY <1>13 DEF RecvSend, ServerEnd
<1>14. ASSUME RecvGet
       PROVE  OutInv'
  BY <1>14 DEF RecvGet, ServerEnd
<1>15. ASSUME RecvText
       PROVE  OutInv'
  BY <1>15 DEF RecvText, ServerEnd
<1>16. ASSUME ServerOpenTemp
       PROVE  OutInv'
  BY <1>16 DEF ServerOpenTemp
<1>17. ASSUME ServerRecvBody
       PROVE  OutInv'
  BY <1>17 DEF ServerRecvBody, ServerEnd
<1>18. ASSUME ServerPublish
       PROVE  OutInv'
  BY <1>18 DEF ServerPublish
<1>19. ASSUME SendFinal
       PROVE  OutInv'
  BY <1>19 DEF SendFinal, ServerEnd
<1>20. ASSUME ServerSendBody
       PROVE  OutInv'
  BY <1>20 DEF ServerSendBody, ServerEnd
<1>21. ASSUME ServerFault
       PROVE  OutInv'
  BY <1>21 DEF ServerFault, ServerEnd
<1>22. ASSUME Truncate
       PROVE  OutInv'
  BY <1>22 DEF Truncate
<1>23. CASE UNCHANGED sessionVars
  BY <1>23 DEF sessionVars
<1>. QED
  BY <1>1, <1>2, <1>3, <1>4, <1>5, <1>6, <1>7, <1>8, <1>9, <1>10, <1>11, <1>12,
     <1>13, <1>14, <1>15, <1>16, <1>17, <1>18, <1>19, <1>20, <1>21, <1>22, <1>23
     DEF SessionNext, Client, Server, Ended

\* Only a fault, a refusal or a truncated file makes a session fail.
LEMMA CauseInvStep ==
    ASSUME SessionInv, [SessionNext]_sessionVars
    PROVE  CauseInv'
<1>. USE FileTransferAssumption DEF SessionInv, Labels, Counters, WireInv, CountInv,
       ClientInv,
       OutInv, CauseInv, Cause, FailureHasCause, clientVars, serverVars, sourceVars
<1>1. ASSUME Connect
      PROVE  CauseInv'
  BY <1>1 DEF Connect
<1>2. ASSUME SendRequest
      PROVE  CauseInv'
  BY <1>2 DEF SendRequest
<1>3. ASSUME RecvReady
      PROVE  CauseInv'
  BY <1>3 DEF RecvReady, ClientFail, ClientExit
<1>4. ASSUME ClientSendBody
      PROVE  CauseInv'
  BY <1>4 DEF ClientSendBody, ClientFail, ClientExit
<1>5. ASSUME ShutdownWrite
      PROVE  CauseInv'
  BY <1>5 DEF ShutdownWrite
<1>6. ASSUME RecvPrefix
      PROVE  CauseInv'
  BY <1>6 DEF RecvPrefix, ClientFail, ClientExit
<1>7. ASSUME ClientRecvBody
      PROVE  CauseInv'
  BY <1>7 DEF ClientRecvBody, ClientFail, ClientExit, Available
<1>8. ASSUME BodyComplete
      PROVE  CauseInv'
  BY <1>8 DEF BodyComplete
<1>9. ASSUME RecvFinal
      PROVE  CauseInv'
  BY <1>9 DEF RecvFinal, ClientFail, ClientExit, FinalArrived
<1>10. ASSUME Rename
       PROVE  CauseInv'
  BY <1>10 DEF Rename
<1>11. ASSUME ClientFault
       PROVE  CauseInv'
  BY <1>11 DEF ClientFault, ClientExit
<1>12. ASSUME Detect
       PROVE  CauseInv'
  BY <1>12 DEF Detect, ServerEnd
<1>13. ASSUME RecvSend
       PROVE  CauseInv'
  BY <1>13 DEF RecvSend, ServerEnd
<1>14. ASSUME RecvGet
       PROVE  CauseInv'
  BY <1>14 DEF RecvGet, ServerEnd
<1>15. ASSUME RecvText
       PROVE  CauseInv'
  BY <1>15 DEF RecvText, ServerEnd
<1>16. ASSUME ServerOpenTemp
       PROVE  CauseInv'
  BY <1>16 DEF ServerOpenTemp
<1>17. ASSUME ServerRecvBody
       PROVE  CauseInv'
  BY <1>17 DEF ServerRecvBody, ServerEnd
<1>18. ASSUME ServerPublish
       PROVE  CauseInv'
  BY <1>18 DEF ServerPublish
<1>19. ASSUME SendFinal
       PROVE  CauseInv'
  BY <1>19 DEF SendFinal, ServerEnd
<1>20. ASSUME ServerSendBody
       PROVE  CauseInv'
  BY <1>20 DEF ServerSendBody, ServerEnd
<1>21. ASSUME ServerFault
       PROVE  CauseInv'
  BY <1>21 DEF ServerFault, ServerEnd
<1>22. ASSUME Truncate
       PROVE  CauseInv'
  BY <1>22 DEF Truncate
<1>23. CASE UNCHANGED sessionVars
  BY <1>23 DEF sessionVars
<1>. QED
  BY <1>1, <1>2, <1>3, <1>4, <1>5, <1>6, <1>7, <1>8, <1>9, <1>10, <1>11, <1>12,
     <1>13, <1>14, <1>15, <1>16, <1>17, <1>18, <1>19, <1>20, <1>21, <1>22, <1>23
     DEF SessionNext, Client, Server, Ended

\* The invariant holds in every state of every session.
THEOREM SessionInvariant == SessionSpec => []SessionInv
<1>1. SessionInit => SessionInv
  <2>. SUFFICES ASSUME SessionInit
                PROVE  SessionInv
    OBVIOUS
  <2>. USE DEF SessionInit
  <2>1. Labels
    BY DEF Labels
  <2>2. Counters
    BY FileTransferAssumption DEF Counters
  <2>3. WireInv
    BY DEF WireInv
  <2>4. CountInv
    BY DEF CountInv
  <2>5. ClientInv
    BY DEF ClientInv
  <2>6. OutInv
    BY DEF OutInv
  <2>7. CauseInv
    BY DEF CauseInv, FailureHasCause
  <2>. QED
    BY <2>1, <2>2, <2>3, <2>4, <2>5, <2>6, <2>7 DEF SessionInv
<1>2. SessionInv /\ [SessionNext]_sessionVars => SessionInv'
  <2>. SUFFICES ASSUME SessionInv, [SessionNext]_sessionVars
                PROVE  SessionInv'
    OBVIOUS
  <2>. QED
    BY LabelsStep, CountersStep, WireInvStep, CountInvStep, ClientInvStep,
       OutInvStep, CauseInvStep
       DEF SessionInv
<1>. QED  BY <1>1, <1>2, PTL DEF SessionSpec

\* Types, and no counter beyond the announced size.
THEOREM SessionTypeCorrect == SessionSpec => []SessionTypeOK
<1>1. SessionInv => SessionTypeOK
  BY DEF SessionInv, Labels, Counters, SessionTypeOK
<1>. QED  BY <1>1, SessionInvariant, PTL

\* Only whole content is published, however short a truncated file becomes and
\* however long a frame is.
THEOREM PublishedIsWholeHolds == SessionSpec => []PublishedIsWhole
<1>1. SessionInv => PublishedIsWhole
  BY DEF SessionInv, Labels, Counters, CountInv, OutInv, PublishedIsWhole
<1>. QED  BY <1>1, SessionInvariant, PTL

\* Exit code 0 means that everything has arrived.
THEOREM SuccessMeansDeliveredHolds == SessionSpec => []SuccessMeansDelivered
<1>1. SessionInv => SuccessMeansDelivered
  BY DEF SessionInv, Labels, Counters, CountInv, ClientInv, OutInv,
     SuccessMeansDelivered
<1>. QED  BY <1>1, SessionInvariant, PTL

\* A refused request publishes nothing.
THEOREM RefusedHasNoEffectHolds == SessionSpec => []RefusedHasNoEffect
<1>1. SessionInv => RefusedHasNoEffect
  BY DEF SessionInv, Labels, Counters, OutInv, RefusedHasNoEffect
<1>. QED  BY <1>1, SessionInvariant, PTL

\* A session that has ended leaves no temporary file.
THEOREM NoTempLeftHolds == SessionSpec => []NoTempLeft
<1>1. SessionInv => NoTempLeft
  BY DEF SessionInv, Labels, Counters, OutInv, NoTempLeft
<1>. QED  BY <1>1, SessionInvariant, PTL

\* The client never fails for want of agreement with the server.
THEOREM FailureHasCauseHolds == SessionSpec => []FailureHasCause
<1>1. SessionInv => FailureHasCause
  BY DEF SessionInv, CauseInv
<1>. QED  BY <1>1, SessionInvariant, PTL

-----------------------------------------------------------------------------
(* The receive directory. *)

\* A temporary name holds the inode of the upload that created it there, until
\* that upload renames or removes it or the server crashes.
OwnerInv ==
    /\ \A u \in Uploads :
          up[u] \in {"body", "cleanup"} => ino[u] = u /\ temp[target[u]] = u
    /\ \A t \in TempNames : temp[t] # NoFile =>
          \/ up[temp[t]] \in {"body", "cleanup"} /\ target[temp[t]] = t
          \/ up[temp[t]] = "lost" /\ crashes > 0

\* Uploads that will never write to their inode again.
Closed == {u \in Uploads : up[u] \in {"saved", "ok", "lost"}}

\* A final name holds a whole inode that nobody writes to.
DirInv ==
    /\ \A n \in Names : dir[n] # NoFile =>
          dir[n] \in Closed /\ written[dir[n]] = Size[dir[n]]
    /\ \A u \in Uploads : up[u] = "saved" => dir[target[u][1]] # NoFile

\* So does the descriptor of a download.
DownInv ==
    \A d \in Downloads :
        /\ down[d] = "new" => dino[d] = NoFile
        /\ down[d] = "new" => sent[d] = 0
        /\ down[d] = "open" => /\ dino[d] \in Closed
                               /\ written[dino[d]] = dsize[d]
                               /\ dsize[d] = Size[dino[d]]
                               /\ sent[d] <= dsize[d]

\* The inductive invariant.
FilesInv == TypeOK /\ OwnerInv /\ DirInv /\ DownInv

\* Types, among them that attempts stay below the limit.
LEMMA TypeOKStep ==
    ASSUME FilesInv, [Next]_vars
    PROVE  TypeOK'
<1>. USE ReceiveDirAssumption DEF FilesInv, TypeOK, OwnerInv, DirInv, DownInv, Closed,
       TempNames, UploadPCs, DownloadPCs, Inode, Finished, dirVars, procVars, upVars,
          downVars
<1>1. ASSUME NEW u \in Uploads, StartUpload(u)
      PROVE  TypeOK'
  BY <1>1 DEF StartUpload, UploadGoto
<1>2. ASSUME NEW u \in Uploads, OpenTemp(u)
      PROVE  TypeOK'
  <2>1. target[u] \in TempNames /\ u \in Inode
    OBVIOUS
  <2>2. CASE temp[target[u]] = NoFile
    <3>1. temp' \in [TempNames -> Inode]
      BY <1>2, <2>1, <2>2 DEF OpenTemp
    <3>2. ino' \in [Uploads -> Inode]
      <4>1. ino' = [ino EXCEPT ![u] = u] \/ ino' = ino
        BY <1>2, <2>2 DEF OpenTemp
      <4>. QED  BY <2>1, <4>1
    <3>3. up' \in [Uploads -> UploadPCs]
      BY <1>2, <2>2 DEF OpenTemp, UploadGoto
    <3>4. UNCHANGED <<dir, written, target, procVars, downVars>>
      BY <1>2, <2>2 DEF OpenTemp, UploadGoto
    <3>. QED  BY <3>1, <3>2, <3>3, <3>4
  <2>3. CASE temp[target[u]] # NoFile /\ target[u][3] + 1 < Attempts
    <3>1. <<target[u][1], target[u][2], target[u][3] + 1>> \in TempNames
      BY <2>1, <2>3
    <3>2. /\ target' = [target EXCEPT
                         ![u] = <<target[u][1], target[u][2], target[u][3] + 1>>]
          /\ up' = [up EXCEPT ![u] = "temp"]
          /\ UNCHANGED <<dir, temp, written, ino, procVars, downVars>>
      BY <1>2, <2>3 DEF OpenTemp, UploadGoto
    <3>. QED  BY <3>1, <3>2
  <2>4. CASE temp[target[u]] # NoFile /\ ~(target[u][3] + 1 < Attempts)
    BY <1>2, <2>4 DEF OpenTemp, UploadGoto
  <2>. QED  BY <2>2, <2>3, <2>4
<1>3. ASSUME NEW u \in Uploads, WriteBody(u)
      PROVE  TypeOK'
  BY <1>3 DEF WriteBody, UploadGoto
<1>4. ASSUME NEW u \in Uploads, BodyFails(u)
      PROVE  TypeOK'
  BY <1>4 DEF BodyFails, UploadGoto
<1>5. ASSUME NEW u \in Uploads, Publish(u)
      PROVE  TypeOK'
  BY <1>5 DEF Publish, UploadGoto
<1>6. ASSUME NEW u \in Uploads, Cleanup(u)
      PROVE  TypeOK'
  BY <1>6 DEF Cleanup, UploadGoto
<1>7. ASSUME NEW u \in Uploads, Answer(u)
      PROVE  TypeOK'
  BY <1>7 DEF Answer, UploadGoto
<1>8. ASSUME NEW u \in Uploads, AnswerHttp(u)
      PROVE  TypeOK'
  BY <1>8 DEF AnswerHttp, UploadGoto
<1>9. ASSUME NEW u \in Uploads, AnswerLost(u)
      PROVE  TypeOK'
  BY <1>9 DEF AnswerLost, UploadGoto
<1>10. ASSUME NEW d \in Downloads, OpenDownload(d)
       PROVE  TypeOK'
  <2>1. PICK n \in Names :
          IF dir[n] # NoFile
          THEN /\ dino' = [dino EXCEPT ![d] = dir[n]]
               /\ dsize' = [dsize EXCEPT ![d] = written[dir[n]]]
               /\ down' = [down EXCEPT ![d] = "open"]
          ELSE /\ down' = [down EXCEPT ![d] = "failed"]
               /\ UNCHANGED <<dino, dsize>>
    BY <1>10 DEF OpenDownload
  <2>2. UNCHANGED <<dirVars, procVars, upVars, sent>>
    BY <1>10 DEF OpenDownload
  <2>3. CASE dir[n] # NoFile
    <3>1. dir[n] \in Uploads /\ written[dir[n]] \in Nat
      BY <2>3
    <3>2. dino' \in [Downloads -> Inode]
      BY <2>1, <2>3, <3>1
    <3>3. dsize' \in [Downloads -> Nat]
      BY <2>1, <2>3, <3>1
    <3>4. down' \in [Downloads -> DownloadPCs]
      BY <2>1, <2>3
    <3>. QED  BY <2>2, <3>2, <3>3, <3>4
  <2>4. CASE dir[n] = NoFile
    BY <2>1, <2>2, <2>4
  <2>. QED  BY <2>3, <2>4
<1>11. ASSUME NEW d \in Downloads, SendFile(d)
       PROVE  TypeOK'
  <2>1. UNCHANGED <<dirVars, procVars, upVars, dino, dsize>>
    BY <1>11 DEF SendFile
  <2>2. sent' \in [Downloads -> Nat]
    BY <1>11 DEF SendFile
  <2>3. down' \in [Downloads -> DownloadPCs]
    BY <1>11 DEF SendFile
  <2>. QED  BY <2>1, <2>2, <2>3
<1>12. ASSUME NEW d \in Downloads, FinishDownload(d)
       PROVE  TypeOK'
  BY <1>12 DEF FinishDownload
<1>13. ASSUME NEW d \in Downloads, DownloadFails(d)
       PROVE  TypeOK'
  BY <1>13 DEF DownloadFails
<1>14. ASSUME Crash
       PROVE  TypeOK'
  <2>1. UNCHANGED <<dirVars, pid, target, ino, dino, dsize, sent>>
    BY <1>14 DEF Crash
  <2>2. alive' = FALSE
    BY <1>14 DEF Crash
  <2>3. crashes' \in 0..MaxCrashes
    <3>. HIDE DEF OwnerInv, DirInv, DownInv
    <3>. QED  BY <1>14 DEF Crash
  <2>4. up' \in [Uploads -> UploadPCs]
    BY <1>14 DEF Crash
  <2>5. down' \in [Downloads -> DownloadPCs]
    BY <1>14 DEF Crash
  <2>. QED  BY <2>1, <2>2, <2>3, <2>4, <2>5
<1>15. ASSUME Restart
       PROVE  TypeOK'
  BY <1>15 DEF Restart
<1>16. CASE UNCHANGED vars
  BY <1>16 DEF vars
<1>. QED
  BY <1>1, <1>2, <1>3, <1>4, <1>5, <1>6, <1>7, <1>8, <1>9, <1>10, <1>11, <1>12,
     <1>13, <1>14, <1>15, <1>16 DEF Next

\* O_EXCL gives every upload its own inode, and only its owner removes a name.
LEMMA OwnerInvStep ==
    ASSUME FilesInv, [Next]_vars
    PROVE  OwnerInv'
<1>. USE ReceiveDirAssumption DEF FilesInv, TypeOK, OwnerInv, DirInv, DownInv, Closed,
       TempNames, UploadPCs, DownloadPCs, Inode, Finished, dirVars, procVars, upVars,
          downVars
<1>1. ASSUME NEW u \in Uploads, StartUpload(u)
      PROVE  OwnerInv'
  BY <1>1 DEF StartUpload, UploadGoto
<1>2. ASSUME NEW u \in Uploads, OpenTemp(u)
      PROVE  OwnerInv'
  BY <1>2 DEF OpenTemp, UploadGoto
<1>3. ASSUME NEW u \in Uploads, WriteBody(u)
      PROVE  OwnerInv'
  BY <1>3 DEF WriteBody, UploadGoto
<1>4. ASSUME NEW u \in Uploads, BodyFails(u)
      PROVE  OwnerInv'
  BY <1>4 DEF BodyFails, UploadGoto
<1>5. ASSUME NEW u \in Uploads, Publish(u)
      PROVE  OwnerInv'
  BY <1>5 DEF Publish, UploadGoto
<1>6. ASSUME NEW u \in Uploads, Cleanup(u)
      PROVE  OwnerInv'
  BY <1>6 DEF Cleanup, UploadGoto
<1>7. ASSUME NEW u \in Uploads, Answer(u)
      PROVE  OwnerInv'
  BY <1>7 DEF Answer, UploadGoto
<1>8. ASSUME NEW u \in Uploads, AnswerHttp(u)
      PROVE  OwnerInv'
  BY <1>8 DEF AnswerHttp, UploadGoto
<1>9. ASSUME NEW u \in Uploads, AnswerLost(u)
      PROVE  OwnerInv'
  BY <1>9 DEF AnswerLost, UploadGoto
<1>10. ASSUME NEW d \in Downloads, OpenDownload(d)
       PROVE  OwnerInv'
  BY <1>10 DEF OpenDownload
<1>11. ASSUME NEW d \in Downloads, SendFile(d)
       PROVE  OwnerInv'
  BY <1>11 DEF SendFile
<1>12. ASSUME NEW d \in Downloads, FinishDownload(d)
       PROVE  OwnerInv'
  BY <1>12 DEF FinishDownload
<1>13. ASSUME NEW d \in Downloads, DownloadFails(d)
       PROVE  OwnerInv'
  BY <1>13 DEF DownloadFails
<1>14. ASSUME Crash
       PROVE  OwnerInv'
  BY <1>14 DEF Crash
<1>15. ASSUME Restart
       PROVE  OwnerInv'
  BY <1>15 DEF Restart
<1>16. CASE UNCHANGED vars
  BY <1>16 DEF vars
<1>. QED
  BY <1>1, <1>2, <1>3, <1>4, <1>5, <1>6, <1>7, <1>8, <1>9, <1>10, <1>11, <1>12,
     <1>13, <1>14, <1>15, <1>16 DEF Next

\* Only a rename changes a final name, and it brings a whole inode.
LEMMA DirInvStep ==
    ASSUME FilesInv, [Next]_vars
    PROVE  DirInv'
<1>. USE ReceiveDirAssumption DEF FilesInv, TypeOK, OwnerInv, DirInv, DownInv, Closed,
       TempNames, UploadPCs, DownloadPCs, Inode, Finished, dirVars, procVars, upVars,
          downVars
<1>1. ASSUME NEW u \in Uploads, StartUpload(u)
      PROVE  DirInv'
  BY <1>1 DEF StartUpload, UploadGoto
<1>2. ASSUME NEW u \in Uploads, OpenTemp(u)
      PROVE  DirInv'
  <2>1. \A v \in Uploads : v # u => up'[v] = up[v] /\ target'[v] = target[v]
    BY <1>2 DEF OpenTemp, UploadGoto
  <2>2. up[u] = "temp" /\ up'[u] # "saved"
    BY <1>2 DEF OpenTemp, UploadGoto
  <2>3. UNCHANGED <<dir, written>>
    BY <1>2 DEF OpenTemp
  <2>. QED  BY <2>1, <2>2, <2>3
<1>3. ASSUME NEW u \in Uploads, WriteBody(u)
      PROVE  DirInv'
  BY <1>3 DEF WriteBody, UploadGoto
<1>4. ASSUME NEW u \in Uploads, BodyFails(u)
      PROVE  DirInv'
  BY <1>4 DEF BodyFails, UploadGoto
<1>5. ASSUME NEW u \in Uploads, Publish(u)
      PROVE  DirInv'
  BY <1>5 DEF Publish, UploadGoto
<1>6. ASSUME NEW u \in Uploads, Cleanup(u)
      PROVE  DirInv'
  BY <1>6 DEF Cleanup, UploadGoto
<1>7. ASSUME NEW u \in Uploads, Answer(u)
      PROVE  DirInv'
  BY <1>7 DEF Answer, UploadGoto
<1>8. ASSUME NEW u \in Uploads, AnswerHttp(u)
      PROVE  DirInv'
  BY <1>8 DEF AnswerHttp, UploadGoto
<1>9. ASSUME NEW u \in Uploads, AnswerLost(u)
      PROVE  DirInv'
  BY <1>9 DEF AnswerLost, UploadGoto
<1>10. ASSUME NEW d \in Downloads, OpenDownload(d)
       PROVE  DirInv'
  BY <1>10 DEF OpenDownload
<1>11. ASSUME NEW d \in Downloads, SendFile(d)
       PROVE  DirInv'
  BY <1>11 DEF SendFile
<1>12. ASSUME NEW d \in Downloads, FinishDownload(d)
       PROVE  DirInv'
  BY <1>12 DEF FinishDownload
<1>13. ASSUME NEW d \in Downloads, DownloadFails(d)
       PROVE  DirInv'
  BY <1>13 DEF DownloadFails
<1>14. ASSUME Crash
       PROVE  DirInv'
  BY <1>14 DEF Crash
<1>15. ASSUME Restart
       PROVE  DirInv'
  BY <1>15 DEF Restart
<1>16. CASE UNCHANGED vars
  BY <1>16 DEF vars
<1>. QED
  BY <1>1, <1>2, <1>3, <1>4, <1>5, <1>6, <1>7, <1>8, <1>9, <1>10, <1>11, <1>12,
     <1>13, <1>14, <1>15, <1>16 DEF Next

\* The inode behind an open download is not written any more.
LEMMA DownInvStep ==
    ASSUME FilesInv, [Next]_vars
    PROVE  DownInv'
<1>. USE ReceiveDirAssumption DEF FilesInv, TypeOK, OwnerInv, DirInv, DownInv, Closed,
       TempNames, UploadPCs, DownloadPCs, Inode, Finished, dirVars, procVars, upVars,
          downVars
<1>1. ASSUME NEW u \in Uploads, StartUpload(u)
      PROVE  DownInv'
  BY <1>1 DEF StartUpload, UploadGoto
<1>2. ASSUME NEW u \in Uploads, OpenTemp(u)
      PROVE  DownInv'
  BY <1>2 DEF OpenTemp, UploadGoto
<1>3. ASSUME NEW u \in Uploads, WriteBody(u)
      PROVE  DownInv'
  BY <1>3 DEF WriteBody, UploadGoto
<1>4. ASSUME NEW u \in Uploads, BodyFails(u)
      PROVE  DownInv'
  BY <1>4 DEF BodyFails, UploadGoto
<1>5. ASSUME NEW u \in Uploads, Publish(u)
      PROVE  DownInv'
  BY <1>5 DEF Publish, UploadGoto
<1>6. ASSUME NEW u \in Uploads, Cleanup(u)
      PROVE  DownInv'
  BY <1>6 DEF Cleanup, UploadGoto
<1>7. ASSUME NEW u \in Uploads, Answer(u)
      PROVE  DownInv'
  BY <1>7 DEF Answer, UploadGoto
<1>8. ASSUME NEW u \in Uploads, AnswerHttp(u)
      PROVE  DownInv'
  BY <1>8 DEF AnswerHttp, UploadGoto
<1>9. ASSUME NEW u \in Uploads, AnswerLost(u)
      PROVE  DownInv'
  BY <1>9 DEF AnswerLost, UploadGoto
<1>10. ASSUME NEW d \in Downloads, OpenDownload(d)
       PROVE  DownInv'
  BY <1>10 DEF OpenDownload
<1>11. ASSUME NEW d \in Downloads, SendFile(d)
       PROVE  DownInv'
  BY <1>11 DEF SendFile
<1>12. ASSUME NEW d \in Downloads, FinishDownload(d)
       PROVE  DownInv'
  BY <1>12 DEF FinishDownload
<1>13. ASSUME NEW d \in Downloads, DownloadFails(d)
       PROVE  DownInv'
  BY <1>13 DEF DownloadFails
<1>14. ASSUME Crash
       PROVE  DownInv'
  BY <1>14 DEF Crash
<1>15. ASSUME Restart
       PROVE  DownInv'
  BY <1>15 DEF Restart
<1>16. CASE UNCHANGED vars
  BY <1>16 DEF vars
<1>. QED
  BY <1>1, <1>2, <1>3, <1>4, <1>5, <1>6, <1>7, <1>8, <1>9, <1>10, <1>11, <1>12,
     <1>13, <1>14, <1>15, <1>16 DEF Next

\* The invariant holds in every state.
THEOREM FilesInvariant == Spec => []FilesInv
<1>1. Init => FilesInv
  BY ReceiveDirAssumption DEF Init, FilesInv, TypeOK, OwnerInv, DirInv, DownInv,
     TempNames,
     UploadPCs, DownloadPCs, Inode
<1>2. FilesInv /\ [Next]_vars => FilesInv'
  <2>. SUFFICES ASSUME FilesInv, [Next]_vars
                PROVE  FilesInv'
    OBVIOUS
  <2>. QED  BY TypeOKStep, OwnerInvStep, DirInvStep, DownInvStep DEF FilesInv
<1>. QED  BY <1>1, <1>2, PTL DEF Spec

\* Types.
THEOREM TypeCorrect == Spec => []TypeOK
<1>1. FilesInv => TypeOK
  BY DEF FilesInv
<1>. QED  BY <1>1, FilesInvariant, PTL

\* No reader, and no crash, finds a partial file under a final name.
THEOREM PublishedIsCompleteHolds == Spec => []PublishedIsComplete
<1>1. FilesInv => PublishedIsComplete
  BY DEF FilesInv, DirInv, PublishedIsComplete
<1>. QED  BY <1>1, FilesInvariant, PTL

\* Two uploads never write to the same file.
THEOREM TempIsOwnHolds == Spec => []TempIsOwn
<1>1. FilesInv => TempIsOwn
  BY DEF FilesInv, OwnerInv, TempIsOwn
<1>. QED  BY <1>1, FilesInvariant, PTL

\* Only a crash leaves temporary files behind.
THEOREM TempHasOwnerHolds == Spec => []TempHasOwner
<1>1. FilesInv => TempHasOwner
  BY DEF FilesInv, OwnerInv, TempHasOwner
<1>. QED  BY <1>1, FilesInvariant, PTL

\* A file never changes under a download.
THEOREM DownloadIsStableHolds == Spec => []DownloadIsStable
<1>1. FilesInv => DownloadIsStable
  BY DEF FilesInv, DownInv, DownloadIsStable
<1>. QED  BY <1>1, FilesInvariant, PTL

\* An upload that moves on, as its client sees it.
LEMMA PutMoves ==
    ASSUME TypeOK, NEW u \in Uploads, NEW next, up' = [up EXCEPT ![u] = next]
    PROVE  [v \in Uploads |-> PutState(up[v])]'
             = [[v \in Uploads |-> PutState(up[v])] EXCEPT ![u] = PutState(next)]
BY DEF TypeOK

\* Every step of the directory is a step of AtomicFiles or invisible there.
LEMMA RefinementStep ==
    ASSUME FilesInv, [Next]_vars
    PROVE  [Abstract!Next]_(Abstract!vars)
<1> DEFINE P == [v \in Uploads |-> PutState(up[v])]
           A == [d \in Downloads |-> IF down[d] = "ok" THEN sent[d] ELSE 0]
<1>. USE DEF FilesInv
<1>1. ASSUME NEW u \in Uploads, NEW next,
             UploadGoto(u, next), PutState(next) = PutState(up[u]), dir' = dir
      PROVE  UNCHANGED Abstract!vars
  <2>1. P' = P
    BY <1>1, PutMoves DEF UploadGoto, TypeOK
  <2>2. A' = A
    BY <1>1 DEF UploadGoto, downVars
  <2>. QED  BY <1>1, <2>1, <2>2 DEF Abstract!vars, UploadGoto, downVars
<1>2. ASSUME NEW u \in Uploads, StartUpload(u) \/ WriteBody(u) \/ BodyFails(u)
      PROVE  UNCHANGED Abstract!vars
  <2>1. CASE StartUpload(u)
    BY <2>1, <1>1 DEF StartUpload, PutState, Finished, dirVars
  <2>2. CASE WriteBody(u)
    BY <2>2, <1>1 DEF WriteBody, PutState, Finished
  <2>3. CASE BodyFails(u)
    BY <2>3, <1>1 DEF BodyFails, PutState, Finished, dirVars
  <2>. QED  BY <1>2, <2>1, <2>2, <2>3
<1>3. ASSUME NEW u \in Uploads, OpenTemp(u) \/ Cleanup(u)
      PROVE  UNCHANGED Abstract!vars
  <2>1. CASE OpenTemp(u)
    <3>1. PICK next \in {"body", "temp", "failed"} : UploadGoto(u, next)
      BY <2>1 DEF OpenTemp
    <3>2. up[u] = "temp" /\ dir' = dir
      BY <2>1 DEF OpenTemp
    <3>3. PutState(next) = PutState(up[u])
      BY <3>1, <3>2 DEF PutState, Finished
    <3>. QED  BY <3>1, <3>2, <3>3, <1>1
  <2>2. CASE Cleanup(u)
    BY <2>2, <1>1 DEF Cleanup, PutState, Finished
  <2>. QED  BY <1>3, <2>1, <2>2
<1>4. ASSUME NEW u \in Uploads, Publish(u)
      PROVE  Abstract!Apply(u)
  <2>1. up' = [up EXCEPT ![u] = "saved"] /\ P[u] = "new"
    BY <1>4 DEF Publish, UploadGoto, PutState, Finished
  <2>2. P' = [P EXCEPT ![u] = "applied"]
    BY <2>1, PutMoves DEF PutState, Finished
  <2>3. temp[target[u]] = u /\ target[u][1] \in Names
    BY <1>4 DEF Publish, OwnerInv, TypeOK, TempNames
  <2>4. dir' = [dir EXCEPT ![target[u][1]] = u]
    BY <1>4, <2>3 DEF Publish
  <2>5. UNCHANGED downVars
    BY <1>4 DEF Publish, UploadGoto
  <2>. QED  BY <2>1, <2>2, <2>3, <2>4, <2>5 DEF Abstract!Apply, downVars
<1>5. ASSUME NEW u \in Uploads, Answer(u) \/ AnswerHttp(u)
      PROVE  Abstract!Acknowledge(u) \/ Abstract!Refuse(u)
  <2>1. UNCHANGED <<dirVars, downVars>>
    BY <1>5 DEF Answer, AnswerHttp, UploadGoto
  <2>2. CASE up[u] = "saved"
    <3>1. up' = [up EXCEPT ![u] = "ok"] /\ P[u] = "applied"
      BY <1>5, <2>2 DEF Answer, AnswerHttp, UploadGoto, DirInv, PutState, Finished
    <3>2. P' = [P EXCEPT ![u] = "ok"]
      BY <3>1, PutMoves DEF PutState, Finished
    <3>. QED  BY <2>1, <3>1, <3>2 DEF Abstract!Acknowledge, dirVars, downVars
  <2>3. CASE up[u] = "failed"
    <3>1. up' = [up EXCEPT ![u] = "refused"] /\ P[u] = "new"
      BY <1>5, <2>3 DEF Answer, AnswerHttp, UploadGoto, PutState, Finished
    <3>2. P' = [P EXCEPT ![u] = "refused"]
      BY <3>1, PutMoves DEF PutState, Finished
    <3>. QED  BY <2>1, <3>1, <3>2 DEF Abstract!Refuse, dirVars, downVars
  <2>. QED  BY <1>5, <2>2, <2>3 DEF Answer, AnswerHttp
<1>6. ASSUME NEW u \in Uploads, AnswerLost(u)
      PROVE  Abstract!Lose
  <2>1. up' = [up EXCEPT ![u] = "lost"] /\ P[u] \in {"new", "applied"}
    BY <1>6 DEF AnswerLost, UploadGoto, PutState, Finished
  <2>2. P' = [v \in Uploads |-> IF v \in {u} THEN "lost" ELSE P[v]]
    <3>1. P' = [P EXCEPT ![u] = "lost"]
      BY <2>1, PutMoves DEF PutState, Finished
    <3>. QED  BY <3>1
  <2>3. {u} \in SUBSET {v \in Uploads : P[v] \in {"new", "applied"}}
    BY <2>1
  <2>4. down' = [d \in Downloads |-> IF d \in {} THEN "failed" ELSE down[d]]
    BY <1>6 DEF AnswerLost, UploadGoto, downVars, TypeOK
  <2>5. UNCHANGED <<dirVars, downVars>>
    BY <1>6 DEF AnswerLost, UploadGoto
  <2>6. A' = A
    BY <2>5 DEF downVars
  <2>7. {} \in SUBSET {d \in Downloads : down[d] \in {"new", "open"}}
    OBVIOUS
  <2>. HIDE DEF P, A
  <2>8. \E L \in SUBSET {v \in Uploads : P[v] \in {"new", "applied"}} :
           P' = [v \in Uploads |-> IF v \in L THEN "lost" ELSE P[v]]
    BY <2>2, <2>3
  <2>9. \E G \in SUBSET {d \in Downloads : down[d] \in {"new", "open"}} :
           down' = [d \in Downloads |-> IF d \in G THEN "failed" ELSE down[d]]
    BY <2>4, <2>7
  <2>. QED  BY <2>5, <2>6, <2>8, <2>9 DEF P, A, Abstract!Lose, dirVars, downVars
<1>7. ASSUME NEW d \in Downloads, OpenDownload(d)
      PROVE  Abstract!Open(d) \/ Abstract!Fail(d)
  <2>1. UNCHANGED <<dir, up, sent>> /\ down[d] = "new"
    BY <1>7 DEF OpenDownload, dirVars, upVars
  <2>2. P' = P
    BY <2>1
  <2>3. A' = A
    BY <1>7, <2>1 DEF OpenDownload, TypeOK, DownloadPCs
  <2>4. PICK n \in Names :
          IF dir[n] # NoFile
          THEN /\ dino' = [dino EXCEPT ![d] = dir[n]]
               /\ down' = [down EXCEPT ![d] = "open"]
          ELSE /\ down' = [down EXCEPT ![d] = "failed"]
               /\ UNCHANGED dino
    BY <1>7 DEF OpenDownload
  <2>5. CASE dir[n] # NoFile
    BY <2>1, <2>2, <2>3, <2>4, <2>5 DEF Abstract!Open
  <2>6. CASE dir[n] = NoFile
    BY <2>1, <2>2, <2>3, <2>4, <2>6 DEF Abstract!Fail
  <2>. QED  BY <2>5, <2>6
<1>8. ASSUME NEW d \in Downloads, SendFile(d)
      PROVE  UNCHANGED Abstract!vars \/ Abstract!Fail(d)
  <2>1. UNCHANGED <<dir, up, dino>> /\ down[d] = "open"
    BY <1>8 DEF SendFile, dirVars, upVars
  <2>2. P' = P
    BY <2>1
  <2>3. A' = A
    BY <1>8 DEF SendFile, TypeOK, DownloadPCs
  <2>4. down' = down \/ down' = [down EXCEPT ![d] = "failed"]
    BY <1>8 DEF SendFile
  <2>. QED  BY <2>1, <2>2, <2>3, <2>4 DEF Abstract!vars, Abstract!Fail
<1>9. ASSUME NEW d \in Downloads, FinishDownload(d)
      PROVE  Abstract!Deliver(d)
  <2>1. UNCHANGED <<dir, up, dino, sent>> /\ down[d] = "open"
    BY <1>9 DEF FinishDownload, dirVars, upVars
  <2>2. down' = [down EXCEPT ![d] = "ok"]
    BY <1>9 DEF FinishDownload
  <2>3. P' = P
    BY <2>1
  <2>4. sent[d] = Size[dino[d]]
    BY <1>9 DEF FinishDownload, DownInv
  <2>5. A' = [A EXCEPT ![d] = Size[dino[d]]]
    BY <2>1, <2>2, <2>4 DEF TypeOK
  <2>. QED  BY <2>1, <2>2, <2>3, <2>5 DEF Abstract!Deliver
<1>10. ASSUME NEW d \in Downloads, DownloadFails(d)
       PROVE  Abstract!Fail(d)
  <2>1. UNCHANGED <<dir, up, dino, sent>> /\ down[d] = "open"
    BY <1>10 DEF DownloadFails, dirVars, upVars
  <2>2. down' = [down EXCEPT ![d] = "failed"]
    BY <1>10 DEF DownloadFails
  <2>3. P' = P
    BY <2>1
  <2>4. A' = A
    BY <2>1, <2>2 DEF TypeOK
  <2>. QED  BY <2>1, <2>2, <2>3, <2>4 DEF Abstract!Fail
<1>11. ASSUME Crash
       PROVE  Abstract!Lose
  <2> DEFINE U == {v \in Uploads : up[v] \notin {"new"} \cup Finished}
             D == {d \in Downloads : down[d] = "open"}
  <2>1. UNCHANGED <<dir, dino, sent>>
    BY <1>11 DEF Crash, dirVars
  <2>2. up' = [v \in Uploads |-> IF v \in U THEN "lost" ELSE up[v]]
    BY <1>11 DEF Crash, Finished
  <2>3. down' = [d \in Downloads |-> IF d \in D THEN "failed" ELSE down[d]]
    BY <1>11 DEF Crash
  <2>4. P' = [v \in Uploads |-> IF v \in U THEN "lost" ELSE P[v]]
    BY <2>2 DEF PutState, Finished
  <2>5. U \in SUBSET {v \in Uploads : P[v] \in {"new", "applied"}}
    BY DEF PutState, Finished
  <2>6. D \in SUBSET {d \in Downloads : down[d] \in {"new", "open"}}
    OBVIOUS
  <2>7. A' = A
    BY <2>1, <2>3
  <2>. HIDE DEF U, D
  <2>. QED  BY <2>1, <2>3, <2>4, <2>5, <2>6, <2>7 DEF Abstract!Lose
<1>12. ASSUME Restart
       PROVE  UNCHANGED Abstract!vars
  <2>1. UNCHANGED <<dir, up, down, dino, sent>>
    BY <1>12 DEF Restart, dirVars, upVars, downVars
  <2>2. P' = P /\ A' = A
    BY <2>1
  <2>. QED  BY <2>1, <2>2 DEF Abstract!vars
<1>13. ASSUME UNCHANGED vars
       PROVE  UNCHANGED Abstract!vars
  <2>1. UNCHANGED <<dir, up, down, dino, sent>>
    BY <1>13 DEF vars
  <2>2. P' = P /\ A' = A
    BY <2>1
  <2>. QED  BY <2>1, <2>2 DEF Abstract!vars
<1>. QED
  BY <1>2, <1>3, <1>4, <1>5, <1>6, <1>7, <1>8, <1>9, <1>10, <1>11, <1>12, <1>13
     DEF Next, Abstract!Next

\* The receive directory implements atomic files: uploads take effect whole and
\* at once, before they are acknowledged, and downloads deliver whole versions.
THEOREM Refinement == Spec => ImplementsAtomicFiles
<1>1. Init => Abstract!Init
  BY DEF Init, Abstract!Init, PutState, Finished
<1>2. FilesInv /\ [Next]_vars => [Abstract!Next]_(Abstract!vars)
  BY RefinementStep
<1>. QED
  BY <1>1, <1>2, FilesInvariant, PTL DEF Spec, ImplementsAtomicFiles, Abstract!Spec
---------------------------------------------------------------------------
(* Listings and answers next to the uploads: DirListing. *)

\* The listing thread has yet to return a steady entry, is about to stat it, or
\* has one row for it.
SteadyInv ==
    /\ steady \subseteq Present
    /\ list = "idle" => rows = <<>>
    /\ list \in {"read", "stat", "done"} => \A e \in steady :
          \/ e \in unread /\ RowsOf(e) = {} /\ ~(list = "stat" /\ entry = e)
          \/ e \notin unread /\ RowsOf(e) = {} /\ list = "stat" /\ entry = e
          \/ e \notin unread /\ ~(list = "stat" /\ entry = e)
                /\ \E i \in DOMAIN rows : RowsOf(e) = {i}
    /\ list = "done" => unread \cap steady = {}

\* What has been renamed to a name, in order: whole uploads, each of them once,
\* the last one is there now; a saved upload is among them.
PubsInv ==
    /\ \A n \in Names :
          /\ dir[n] # NoFile => pubs[n] # <<>> /\ pubs[n][Len(pubs[n])] = dir[n]
          /\ \A i \in DOMAIN pubs[n] : pubs[n][i] \in Closed
          /\ \A i, j \in DOMAIN pubs[n] : pubs[n][i] = pubs[n][j] => i = j
    /\ \A u \in Uploads : up[u] = "saved" =>
          \E i \in DOMAIN pubs[target[u][1]] : pubs[target[u][1]][i] = u

\* A size that was reported.
ToldInv ==
    \A u \in Uploads : told[u] # -1 =>
        /\ up[u] = "ok"
        /\ \E i, j \in DOMAIN pubs[target[u][1]] :
              i <= j /\ pubs[target[u][1]][i] = u /\ told[u] = Size[pubs[target[u][1]][j]]

\* The inductive invariant of the directory with its listing and its answers.
ListInv == FilesInv /\ ListTypeOK /\ SteadyInv /\ PubsInv /\ ToldInv
\* Only a rename changes a final name, and it brings the upload's own inode.  An
\* upload that has been renamed keeps its name and is not refused.
LEMMA UploadMoves ==
    ASSUME FilesInv, [Next]_vars
    PROVE  /\ \A v \in Uploads : v \in Closed =>
                 /\ up'[v] \in {"saved", "ok", "lost"} /\ target'[v] = target[v]
                 /\ up[v] = "ok" => up'[v] = "ok"
           /\ \/ dir' = dir /\ \A v \in Uploads : up'[v] = "saved" => up[v] = "saved"
              \/ \E u \in Uploads :
                    /\ up[u] = "body" /\ up' = [up EXCEPT ![u] = "saved"]
                    /\ dir' = [dir EXCEPT ![target[u][1]] = u] /\ target' = target
<1>. DEFINE Same == /\ \A v \in Uploads : v \in Closed =>
                          /\ up'[v] \in {"saved", "ok", "lost"} /\ target'[v] = target[v]
                          /\ up[v] = "ok" => up'[v] = "ok"
                    /\ dir' = dir /\ \A v \in Uploads : up'[v] = "saved" => up[v] = "saved"
<1>. USE DEF FilesInv, TypeOK, Closed, dirVars, upVars
<1>1. ASSUME NEW u \in Uploads, StartUpload(u) \/ WriteBody(u) \/ BodyFails(u) \/ Cleanup(u)
      PROVE  Same
  <2>1. dir' = dir /\ (up[u] # "new" => target' = target)
    BY <1>1 DEF StartUpload, WriteBody, BodyFails, Cleanup
  <2>2. /\ up[u] \in {"new", "body", "cleanup"}
        /\ \E next \in {"temp", "body", "cleanup", "failed"} : up' = [up EXCEPT ![u] = next]
    BY <1>1 DEF StartUpload, WriteBody, BodyFails, Cleanup, UploadGoto
  <2>3. \A v \in Uploads : v # u => target'[v] = target[v]
    BY <1>1 DEF StartUpload, WriteBody, BodyFails, Cleanup
  <2>. QED  BY <2>1, <2>2, <2>3
<1>2. ASSUME NEW u \in Uploads, OpenTemp(u) PROVE Same
  <2>1. up[u] = "temp" /\ dir' = dir
    BY <1>2 DEF OpenTemp
  <2>2. \E next \in {"temp", "body", "failed"} : up' = [up EXCEPT ![u] = next]
    BY <1>2 DEF OpenTemp, UploadGoto
  <2>3. \A v \in Uploads : v # u => target'[v] = target[v]
    BY <1>2 DEF OpenTemp
  <2>. QED  BY <2>1, <2>2, <2>3
<1>3. ASSUME NEW u \in Uploads, Publish(u)
      PROVE  /\ up[u] = "body" /\ up' = [up EXCEPT ![u] = "saved"]
             /\ dir' = [dir EXCEPT ![target[u][1]] = u] /\ target' = target
  BY <1>3 DEF Publish, UploadGoto, OwnerInv
<1>4. ASSUME NEW u \in Uploads, Answer(u) \/ AnswerHttp(u) \/ AnswerLost(u) PROVE Same
  <2>1. up[u] \in {"saved", "failed"} /\ UNCHANGED <<dir, target>>
    BY <1>4 DEF Answer, AnswerHttp, AnswerLost
  <2>2. \E next \in {"ok", "refused", "lost"} :
           up' = [up EXCEPT ![u] = next] /\ (up[u] = "saved" => next # "refused")
    BY <1>4 DEF Answer, AnswerHttp, AnswerLost, UploadGoto, DirInv
  <2>. QED  BY <2>1, <2>2
<1>5. ASSUME NEW d \in Downloads,
             OpenDownload(d) \/ SendFile(d) \/ FinishDownload(d) \/ DownloadFails(d)
      PROVE  Same
  BY <1>5 DEF OpenDownload, SendFile, FinishDownload, DownloadFails
<1>6. CASE Crash
  <2>1. Same
    BY <1>6 DEF Crash, Finished
  <2>. QED  BY <2>1
<1>7. CASE Restart \/ UNCHANGED vars
  <2>1. Same
    BY <1>7 DEF Restart, vars
  <2>. QED  BY <2>1
<1>8. ASSUME NEW u \in Uploads, Publish(u)
      PROVE  \A v \in Uploads : v \in Closed =>
                /\ up'[v] \in {"saved", "ok", "lost"} /\ target'[v] = target[v]
                /\ up[v] = "ok" => up'[v] = "ok"
  BY <1>3, <1>8
<1>. QED  BY <1>1, <1>2, <1>3, <1>4, <1>5, <1>6, <1>7, <1>8 DEF Next

\* A file that is appended to the history of its name.
LEMMA PubsGrow ==
    ASSUME ListInv, NEW u \in Uploads, up[u] = "body",
           pubs' = [n \in Names |-> IF dir'[n] = dir[n] THEN pubs[n]
                                    ELSE Append(pubs[n], dir'[n])],
           dir' = [dir EXCEPT ![target[u][1]] = u]
    PROVE  /\ target[u][1] \in Names
           /\ pubs'[target[u][1]] = Append(pubs[target[u][1]], u)
           /\ \A n \in Names : n # target[u][1] => pubs'[n] = pubs[n]
           /\ pubs' \in [Names -> Seq(Uploads)]
<1>1. target[u][1] \in Names
  BY DEF ListInv, FilesInv, TypeOK, TempNames
<1>2. dir[target[u][1]] # u
  BY <1>1, ReceiveDirAssumption DEF ListInv, FilesInv, DirInv, Closed
<1>3. dir'[target[u][1]] = u /\ \A n \in Names : n # target[u][1] => dir'[n] = dir[n]
  BY <1>1 DEF ListInv, FilesInv, TypeOK
<1>4. pubs'[target[u][1]] = Append(pubs[target[u][1]], u)
  BY <1>1, <1>2, <1>3
<1>5. \A n \in Names : n # target[u][1] => pubs'[n] = pubs[n]
  BY <1>3
<1>6. \A n \in Names : pubs[n] \in Seq(Uploads)
  BY DEF ListInv, ListTypeOK
<1>7. \A n \in Names : pubs'[n] \in Seq(Uploads)
  <2>1. Append(pubs[target[u][1]], u) \in Seq(Uploads)
    BY <1>1, <1>6
  <2>. QED  BY <1>4, <1>5, <1>6, <2>1
<1>8. pubs' \in [Names -> Seq(Uploads)]
  BY <1>7
<1>. QED  BY <1>1, <1>4, <1>5, <1>8

\* What is appended to a sequence without repetitions, if it was not in it.
LEMMA AppendFacts ==
    ASSUME NEW S, NEW s \in Seq(S), NEW x \in S
    PROVE  /\ Append(s, x) \in Seq(S) /\ Append(s, x) # <<>>
           /\ Len(Append(s, x)) = Len(s) + 1 /\ Append(s, x)[Len(s) + 1] = x
           /\ DOMAIN Append(s, x) = DOMAIN s \cup {Len(s) + 1}
           /\ \A i \in DOMAIN s : Append(s, x)[i] = s[i] /\ i # Len(s) + 1 /\ i <= Len(s)
           /\ DOMAIN s = 1 .. Len(s) /\ Len(s) \in Nat
  OBVIOUS
\* PubsInv and ToldInv when nothing is renamed.
LEMMA HistoryKept ==
    ASSUME ListInv, DirStep, dir' = dir,
           \A v \in Uploads : up'[v] = "saved" => up[v] = "saved",
           \A v \in Uploads : v \in Closed =>
                 /\ up'[v] \in {"saved", "ok", "lost"} /\ target'[v] = target[v]
                 /\ up[v] = "ok" => up'[v] = "ok"
    PROVE  pubs' = pubs /\ PubsInv' /\ ToldInv'
<1>. USE DEF ListInv
<1>1. pubs' = pubs
  <2>1. pubs' = [n \in Names |-> pubs[n]]
    BY DEF DirStep
  <2>. QED  BY <2>1 DEF ListTypeOK
<1>2. PubsInv'
  <2>1. Closed \subseteq Closed'
    BY DEF Closed
  <2>2. \A v \in Uploads : up'[v] = "saved" => up[v] = "saved" /\ target'[v] = target[v]
    BY DEF Closed
  <2>3. \A v \in Uploads : up'[v] = "saved" =>
           \E i \in DOMAIN pubs'[target'[v][1]] : pubs'[target'[v][1]][i] = v
    BY <1>1, <2>2 DEF PubsInv
  <2>4. \A n \in Names :
           /\ dir'[n] # NoFile => pubs'[n] # <<>> /\ pubs'[n][Len(pubs'[n])] = dir'[n]
           /\ \A i \in DOMAIN pubs'[n] : pubs'[n][i] \in Closed'
           /\ \A i, j \in DOMAIN pubs'[n] : pubs'[n][i] = pubs'[n][j] => i = j
    BY <1>1, <2>1 DEF PubsInv
  <2>. QED  BY <2>3, <2>4 DEF PubsInv
<1>3. ASSUME NEW u \in Uploads, told'[u] # -1
      PROVE  /\ up'[u] = "ok"
             /\ \E i, j \in DOMAIN pubs[target[u][1]] :
                   /\ i <= j /\ pubs[target[u][1]][i] = u
                   /\ told'[u] = Size[pubs[target[u][1]][j]]
             /\ target'[u] = target[u]
  <2>1. told'[u] = IF up[u] = "saved" /\ up'[u] = "ok" THEN StatSize(u) ELSE told[u]
    BY DEF DirStep
  <2>2. CASE ~(up[u] = "saved" /\ up'[u] = "ok")
    <3>1. told[u] # -1 /\ told'[u] = told[u]
      BY <1>3, <2>1, <2>2
    <3>. QED  BY <3>1 DEF ToldInv, Closed
  <2>3. CASE up[u] = "saved" /\ up'[u] = "ok"
    <3>. DEFINE n == target[u][1]
    <3>1. n \in Names /\ dir[n] # NoFile
      BY <2>3 DEF FilesInv, TypeOK, TempNames, DirInv
    <3>2. written[dir[n]] = Size[dir[n]]
      BY <3>1 DEF FilesInv, DirInv
    <3>3. pubs[n] \in Seq(Uploads) /\ pubs[n] # <<>> /\ pubs[n][Len(pubs[n])] = dir[n]
      BY <3>1 DEF ListTypeOK, PubsInv
    <3>4. PICK i \in DOMAIN pubs[n] : pubs[n][i] = u
      BY <2>3 DEF PubsInv
    <3>5. Len(pubs[n]) \in DOMAIN pubs[n] /\ i <= Len(pubs[n])
      BY <3>3, <3>4
    <3>6. told'[u] = Size[pubs[n][Len(pubs[n])]]
      BY <2>1, <2>3, <3>2, <3>3 DEF StatSize
    <3>. QED  BY <2>3, <3>4, <3>5, <3>6 DEF Closed
  <2>. QED  BY <2>2, <2>3
<1>4. ToldInv'
  BY <1>1, <1>3 DEF ToldInv
<1>. QED  BY <1>1, <1>2, <1>4

\* PubsInv and ToldInv when an upload is renamed.
LEMMA HistoryGrows ==
    ASSUME ListInv, DirStep, NEW u \in Uploads, up[u] = "body",
           up' = [up EXCEPT ![u] = "saved"], target' = target,
           dir' = [dir EXCEPT ![target[u][1]] = u]
    PROVE  pubs' \in [Names -> Seq(Uploads)] /\ PubsInv' /\ ToldInv'
<1>. DEFINE m == target[u][1]
<1>. USE DEF ListInv
<1>1. /\ m \in Names /\ pubs'[m] = Append(pubs[m], u)
      /\ \A n \in Names : n # m => pubs'[n] = pubs[n]
      /\ pubs' \in [Names -> Seq(Uploads)]
  BY PubsGrow DEF DirStep
<1>2. \A n \in Names : pubs[n] \in Seq(Uploads)
  BY DEF ListTypeOK
<1>3. /\ Len(pubs'[m]) = Len(pubs[m]) + 1 /\ pubs'[m][Len(pubs[m]) + 1] = u
      /\ DOMAIN pubs'[m] = DOMAIN pubs[m] \cup {Len(pubs[m]) + 1}
      /\ \A i \in DOMAIN pubs[m] : pubs'[m][i] = pubs[m][i]
      /\ pubs'[m] # <<>>
  BY <1>1, <1>2, AppendFacts
<1>4. /\ \A v \in Uploads : v # u => up'[v] = up[v]
      /\ up'[u] = "saved" /\ u \notin Closed
      /\ Closed \subseteq Closed' /\ u \in Closed'
      /\ \A n \in Names : dir'[n] = IF n = m THEN u ELSE dir[n]
  BY <1>1 DEF FilesInv, TypeOK, Closed
<1>5. \A i \in DOMAIN pubs[m] : pubs[m][i] # u
  BY <1>1, <1>4 DEF PubsInv
<1>6. \A v \in Uploads : target[v][1] \in Names
  BY DEF FilesInv, TypeOK, TempNames
<1>7. \A n \in Names : DOMAIN pubs[n] \subseteq DOMAIN pubs'[n]
                       /\ \A i \in DOMAIN pubs[n] : pubs'[n][i] = pubs[n][i]
  BY <1>1, <1>3
<1>. HIDE DEF m
<1>8. ASSUME NEW n \in Names
      PROVE  /\ dir'[n] # NoFile => pubs'[n] # <<>> /\ pubs'[n][Len(pubs'[n])] = dir'[n]
             /\ \A i \in DOMAIN pubs'[n] : pubs'[n][i] \in Closed'
             /\ \A i, j \in DOMAIN pubs'[n] : pubs'[n][i] = pubs'[n][j] => i = j
  <2>1. CASE n # m
    BY <1>1, <1>4, <2>1 DEF PubsInv
  <2>2. CASE n = m
    <3>1. \A i \in DOMAIN pubs'[m] : i \in DOMAIN pubs[m] \/ i = Len(pubs[m]) + 1
      BY <1>3
    <3>2. /\ \A i \in DOMAIN pubs[m] : pubs[m][i] \in Closed
          /\ \A i, j \in DOMAIN pubs[m] : pubs[m][i] = pubs[m][j] => i = j
      BY <1>1 DEF PubsInv
    <3>. QED  BY <1>3, <1>4, <1>5, <2>2, <3>1, <3>2
  <2>. QED  BY <2>1, <2>2
<1>9. ASSUME NEW v \in Uploads, up'[v] = "saved"
      PROVE  \E i \in DOMAIN pubs'[target[v][1]] : pubs'[target[v][1]][i] = v
  <2>1. CASE v = u
    BY <1>3, <2>1 DEF m
  <2>2. CASE v # u
    BY <1>4, <1>6, <1>7, <1>9, <2>2 DEF PubsInv
  <2>. QED  BY <2>1, <2>2
<1>10. PubsInv'
  BY <1>8, <1>9 DEF PubsInv
<1>11. told' = told
  <2>1. told' = [v \in Uploads |-> told[v]]
    BY <1>4 DEF DirStep
  <2>. QED  BY <2>1 DEF ListTypeOK
<1>12. ASSUME NEW v \in Uploads, told[v] # -1
       PROVE  /\ up'[v] = "ok"
              /\ \E i, j \in DOMAIN pubs'[target[v][1]] :
                    /\ i <= j /\ pubs'[target[v][1]][i] = v
                    /\ told[v] = Size[pubs'[target[v][1]][j]]
  <2>1. PICK i, j \in DOMAIN pubs[target[v][1]] :
           i <= j /\ pubs[target[v][1]][i] = v /\ told[v] = Size[pubs[target[v][1]][j]]
    BY <1>12 DEF ToldInv
  <2>2. up[v] = "ok" /\ v # u
    BY <1>12 DEF ToldInv
  <2>. QED  BY <1>4, <1>6, <1>7, <2>1, <2>2
<1>13. ToldInv'
  BY <1>11, <1>12 DEF ToldInv
<1>. QED  BY <1>1, <1>10, <1>13
\* The directory, the history of its names and the sizes that were reported, in
\* every step.
LEMMA HistoryStep ==
    ASSUME ListInv, [ListNext]_allVars
    PROVE  FilesInv' /\ pubs' \in [Names -> Seq(Uploads)] /\ PubsInv' /\ ToldInv'
<1>1. [Next]_vars
  BY DEF ListNext, DirStep, OpenDir, ReadEntry, StatEntry, Finish, ListFails, allVars
<1>2. FilesInv'
  BY <1>1, TypeOKStep, OwnerInvStep, DirInvStep, DownInvStep DEF FilesInv, ListInv
<1>3. CASE DirStep
  <2>1. CASE dir' = dir /\ \A v \in Uploads : up'[v] = "saved" => up[v] = "saved"
    BY <1>1, <1>2, <1>3, <2>1, UploadMoves, HistoryKept DEF ListInv, ListTypeOK
  <2>2. ASSUME NEW u \in Uploads, up[u] = "body", up' = [up EXCEPT ![u] = "saved"],
               dir' = [dir EXCEPT ![target[u][1]] = u], target' = target
        PROVE  pubs' \in [Names -> Seq(Uploads)] /\ PubsInv' /\ ToldInv'
    BY <1>3, <2>2, HistoryGrows
  <2>. QED  BY <1>1, <1>2, <2>1, <2>2, UploadMoves DEF ListInv
<1>4. CASE UNCHANGED <<vars, putVars>>
  <2>1. UNCHANGED <<dir, up, target, pubs, told>>
    BY <1>4 DEF vars, putVars
  <2>. QED  BY <1>2, <2>1 DEF ListInv, ListTypeOK, PubsInv, ToldInv, Closed
<1>. QED  BY <1>3, <1>4 DEF ListNext, OpenDir, ReadEntry, StatEntry, Finish, ListFails, allVars

\* Sorting keeps the rows of every entry: as many as before.
LEMMA SortedKeepsRows ==
    ASSUME NEW r, rows \in Seq(Row), r \in Sorted(rows)
    PROVE  /\ r \in Seq(Row)
           /\ \A e : (\E i \in DOMAIN rows : RowsOf(e) = {i}) =>
                 \E i \in DOMAIN r : \A j \in DOMAIN r : r[j].name = e <=> j = i
<1>. DEFINE N == 1 .. Len(rows)
<1>1. PICK p \in Bijection(N, N) : r = [i \in N |-> rows[p[i]]]
  BY DEF Sorted
<1>2. /\ p \in [N -> N]
      /\ \A i, j \in N : p[i] = p[j] => i = j
      /\ \A k \in N : \E i \in N : p[i] = k
  <2>1. p \in [N -> N]
    BY DEF Bijection, Injection
  <2>2. \A i, j \in N : p[i] = p[j] => i = j
    BY <2>1 DEF Bijection, Injection, IsInjective
  <2>3. \A k \in N : \E i \in N : p[i] = k
    BY DEF Bijection, Surjection
  <2>. QED  BY <2>1, <2>2, <2>3
<1>3. DOMAIN rows = N /\ Len(rows) \in Nat /\ \A i \in N : rows[i] \in Row
  OBVIOUS
<1>4. DOMAIN r = N /\ \A i \in N : r[i] = rows[p[i]] /\ r[i] \in Row
  BY <1>1, <1>2, <1>3
<1>5. r \in Seq(Row)
  <2>1. r \in [1 .. Len(rows) -> Row]
    BY <1>1, <1>2, <1>3
  <2>. QED  BY <1>3, <2>1
<1>6. ASSUME NEW e, NEW k \in DOMAIN rows, RowsOf(e) = {k}
      PROVE  \E i \in DOMAIN r : \A j \in DOMAIN r : r[j].name = e <=> j = i
  <2>. HIDE DEF N
  <2>1. PICK i \in N : p[i] = k
    BY <1>2, <1>3
  <2>2. \A j \in N : rows[p[j]].name = e <=> p[j] = k
    <3>1. \A j \in DOMAIN rows : rows[j].name = e <=> j = k
      BY ONLY <1>6 DEF RowsOf
    <3>2. \A j \in N : p[j] \in DOMAIN rows
      BY ONLY <1>2, <1>3
    <3>. QED  BY ONLY <3>1, <3>2
  <2>3. \A j \in DOMAIN r : r[j].name = e <=> j = i
    BY <1>2, <1>4, <2>1, <2>2
  <2>. QED  BY <1>4, <2>1, <2>3
<1>. QED  BY <1>5, <1>6
\* The rows of an entry when a row is appended.
LEMMA AppendedRows ==
    ASSUME rows \in Seq(Row), NEW r \in Row, NEW e, rows' = Append(rows, r)
    PROVE  /\ r.name # e => RowsOf(e)' = RowsOf(e)
           /\ r.name = e => RowsOf(e)' = RowsOf(e) \cup {Len(rows) + 1}
           /\ DOMAIN rows' = DOMAIN rows \cup {Len(rows) + 1}
<1>1. /\ DOMAIN rows' = DOMAIN rows \cup {Len(rows) + 1}
      /\ \A i \in DOMAIN rows : rows'[i] = rows[i] /\ i # Len(rows) + 1
      /\ rows'[Len(rows) + 1] = r
  BY AppendFacts
<1>. QED  BY <1>1 DEF RowsOf

\* The types of the listing.
LEMMA ListTypeStep ==
    ASSUME ListInv, [ListNext]_allVars
    PROVE  ListTypeOK'
<1>1. TypeOK' /\ pubs' \in [Names -> Seq(Uploads)]
  BY HistoryStep DEF FilesInv
<1>. SUFFICES /\ list' \in {"idle", "read", "stat", "done", "failed"}
              /\ unread' \subseteq Entries /\ entry' \in Entries
              /\ rows' \in Seq(Row) /\ steady' \subseteq Entries
              /\ told' \in [Uploads -> Nat \cup {-1}]
  BY <1>1 DEF ListTypeOK
<1>2. Present \subseteq Entries /\ <<>> \in Seq(Row)
  BY DEF Present
<1>3. ListTypeOK
  BY DEF ListInv
<1>4. CASE DirStep
  <2>1. /\ list' \in {list, "failed"} /\ rows' \in {rows, <<>>}
        /\ UNCHANGED <<unread, entry>> /\ steady' \subseteq steady
    BY <1>4 DEF DirStep
  <2>2. told' \in [Uploads -> Nat \cup {-1}]
    <3>1. told' = [u \in Uploads |->
                     IF up[u] = "saved" /\ up'[u] = "ok" THEN StatSize(u) ELSE told[u]]
      BY <1>4 DEF DirStep
    <3>2. ASSUME NEW u \in Uploads, up[u] = "saved" PROVE StatSize(u) \in Nat
      BY <3>2, ReceiveDirAssumption DEF ListInv, FilesInv, DirInv, TypeOK, TempNames,
         Closed, StatSize
    <3>. QED  BY <1>3, <3>1, <3>2 DEF ListTypeOK
  <2>. QED  BY <1>2, <1>3, <2>1, <2>2 DEF ListTypeOK
<1>5. CASE OpenDir
  BY <1>2, <1>3, <1>5 DEF ListTypeOK, OpenDir, putVars
<1>6. CASE ReadEntry
  BY <1>2, <1>3, <1>6 DEF ListTypeOK, ReadEntry, putVars
<1>7. CASE StatEntry
  <2>1. /\ list' = "read" /\ UNCHANGED <<unread, entry, steady, told>>
        /\ \/ rows' = rows
           \/ /\ entry \in Present
              /\ rows' = Append(rows, [name |-> entry, ino |-> At(entry),
                                       size |-> written[At(entry)]])
    BY <1>7 DEF StatEntry, putVars
  <2>2. entry \in Present => At(entry) \in Uploads /\ written[At(entry)] \in Nat
    BY DEF Present, At, Entries, ListInv, FilesInv, TypeOK, Inode
  <2>3. entry \in Present => [name |-> entry, ino |-> At(entry),
                              size |-> written[At(entry)]] \in Row
    BY <1>3, <2>2 DEF ListTypeOK, Row
  <2>4. rows' \in Seq(Row)
    BY <1>3, <2>1, <2>3 DEF ListTypeOK
  <2>. QED  BY <1>3, <2>1, <2>4 DEF ListTypeOK
<1>8. CASE Finish
  <2>1. rows' \in Seq(Row)
    BY <1>3, <1>8, SortedKeepsRows DEF Finish, ListTypeOK
  <2>. QED  BY <1>3, <1>8, <2>1 DEF ListTypeOK, Finish, putVars
<1>9. CASE ListFails
  BY <1>2, <1>3, <1>9 DEF ListTypeOK, ListFails, putVars
<1>10. CASE UNCHANGED allVars
  BY <1>3, <1>10 DEF ListTypeOK, allVars, listVars, putVars
<1>. QED  BY <1>4, <1>5, <1>6, <1>7, <1>8, <1>9, <1>10 DEF ListNext

\* Every steady entry gets its row, and no second one.
LEMMA SteadyStep ==
    ASSUME ListInv, [ListNext]_allVars
    PROVE  SteadyInv'
<1>1. ListTypeOK /\ SteadyInv
  BY DEF ListInv
<1>2. UNCHANGED vars => Present' = Present
  BY DEF vars, Present, At
<1>3. CASE DirStep
  <2>1. /\ UNCHANGED <<unread, entry>> /\ steady' = steady \cap Present'
        /\ \/ list' = "failed"
           \/ UNCHANGED <<list, rows>>
    BY <1>3 DEF DirStep
  <2>2. CASE list' = "failed"
    BY <2>1, <2>2 DEF SteadyInv
  <2>3. CASE UNCHANGED <<list, rows>>
    BY <1>1, <2>1, <2>3 DEF SteadyInv, RowsOf
  <2>. QED  BY <2>1, <2>2, <2>3
<1>4. CASE OpenDir
  <2>1. /\ list = "idle" /\ list' = "read" /\ unread' = Present /\ steady' = Present
        /\ UNCHANGED <<vars, rows>>
    BY <1>4 DEF OpenDir
  <2>2. rows' = <<>> /\ \A e : RowsOf(e)' = {}
    BY <1>1, <2>1 DEF SteadyInv, RowsOf
  <2>. QED  BY <1>2, <2>1, <2>2 DEF SteadyInv
<1>5. CASE ReadEntry
  <2>1. /\ list = "read" /\ list' = "stat" /\ UNCHANGED <<vars, rows, steady>>
        /\ entry' \in unread \cup (Present \ steady) /\ unread' = unread \ {entry'}
    BY <1>5 DEF ReadEntry
  <2>2. \A e : RowsOf(e)' = RowsOf(e)
    BY <2>1 DEF RowsOf
  <2>. QED  BY <1>1, <1>2, <2>1, <2>2 DEF SteadyInv
<1>6. CASE StatEntry
  <2>1. list = "stat" /\ list' = "read" /\ UNCHANGED <<vars, unread, entry, steady>>
    BY <1>6 DEF StatEntry
  <2>2. CASE entry \notin Present
    <3>1. rows' = rows /\ entry \notin steady
      BY <1>1, <1>6, <2>2 DEF StatEntry, SteadyInv
    <3>2. \A e : RowsOf(e)' = RowsOf(e)
      BY <3>1 DEF RowsOf
    <3>. QED  BY <1>1, <1>2, <2>1, <3>1, <3>2 DEF SteadyInv
  <2>3. CASE entry \in Present
    <3>. DEFINE r == [name |-> entry, ino |-> At(entry), size |-> written[At(entry)]]
    <3>1. rows' = Append(rows, r) /\ r.name = entry
      BY <1>6, <2>3 DEF StatEntry
    <3>2. r \in Row
      <4>1. At(entry) \in Uploads /\ written[At(entry)] \in Nat
        BY <2>3 DEF Present, At, Entries, ListInv, FilesInv, TypeOK, Inode
      <4>. QED  BY <1>1, <4>1 DEF ListTypeOK, Row
    <3>. HIDE DEF r
    <3>3. ASSUME NEW e \in steady
          PROVE  /\ entry # e => RowsOf(e)' = RowsOf(e)
                 /\ entry = e => RowsOf(e)' = RowsOf(e) \cup {Len(rows) + 1}
                 /\ DOMAIN rows' = DOMAIN rows \cup {Len(rows) + 1}
      BY <1>1, <3>1, <3>2, AppendedRows DEF ListTypeOK
    <3>4. ASSUME NEW e \in steady
          PROVE  \/ e \in unread' /\ RowsOf(e)' = {}
                 \/ e \notin unread' /\ \E i \in DOMAIN rows' : RowsOf(e)' = {i}
      BY <1>1, <2>1, <3>3 DEF SteadyInv
    <3>. QED  BY <1>1, <1>2, <2>1, <3>4 DEF SteadyInv
  <2>. QED  BY <2>2, <2>3
<1>7. CASE Finish
  <2>1. /\ list = "read" /\ list' = "done" /\ UNCHANGED <<vars, unread, entry, steady>>
        /\ unread \cap steady = {} /\ rows' \in Sorted(rows)
    BY <1>7 DEF Finish
  <2>2. ASSUME NEW e \in steady
        PROVE  e \notin unread /\ \E i \in DOMAIN rows : RowsOf(e) = {i}
    BY <1>1, <2>1 DEF SteadyInv
  <2>3. ASSUME NEW e \in steady PROVE \E i \in DOMAIN rows' : RowsOf(e)' = {i}
    <3>1. \E i \in DOMAIN rows' : \A j \in DOMAIN rows' : rows'[j].name = e <=> j = i
      BY <1>1, <2>1, <2>2, SortedKeepsRows DEF ListTypeOK
    <3>. QED  BY <3>1 DEF RowsOf
  <2>. QED  BY <1>1, <1>2, <2>1, <2>2, <2>3 DEF SteadyInv
<1>8. CASE ListFails
  <2>1. list' = "failed" /\ UNCHANGED <<vars, steady>>
    BY <1>8 DEF ListFails
  <2>. QED  BY <1>1, <1>2, <2>1 DEF SteadyInv
<1>9. CASE UNCHANGED allVars
  <2>1. UNCHANGED <<vars, list, unread, entry, rows, steady>>
    BY <1>9 DEF allVars, listVars
  <2>. QED  BY <1>1, <1>2, <2>1 DEF SteadyInv, RowsOf
<1>. QED  BY <1>3, <1>4, <1>5, <1>6, <1>7, <1>8, <1>9 DEF ListNext

\* The invariant of the directory with a listing next to its uploads.
THEOREM ListInvariant == ListSpec => []ListInv
<1>1. ListInit => ListInv
  <2>. SUFFICES ASSUME ListInit PROVE ListInv
    OBVIOUS
  <2>1. FilesInv
    BY ReceiveDirAssumption DEF ListInit, Init, FilesInv, TypeOK, OwnerInv, DirInv,
       DownInv, TempNames, UploadPCs, DownloadPCs, Inode
  <2>2. entry \in Entries
    <3>1. Entries # {}
      BY DEF ListInit, Init, Entries
    <3>. QED  BY <3>1 DEF ListInit
  <2>3. ListTypeOK
    BY <2>1, <2>2 DEF ListInit, FilesInv, ListTypeOK
  <2>4. SteadyInv /\ ToldInv
    BY DEF ListInit, SteadyInv, ToldInv
  <2>5. PubsInv
    BY DEF ListInit, Init, PubsInv
  <2>. QED  BY <2>1, <2>3, <2>4, <2>5 DEF ListInv
<1>2. ListInv /\ [ListNext]_allVars => ListInv'
  BY HistoryStep, ListTypeStep, SteadyStep DEF ListInv
<1>. QED  BY <1>1, <1>2, PTL DEF ListSpec

\* http_list_files shows every file that was there from opendir to the end, once,
\* whatever is uploaded, replaced or removed meanwhile.
THEOREM ListsEverythingSteadyHolds == ListSpec => []ListsEverythingSteady
<1>1. ListInv => ListsEverythingSteady
  BY DEF ListInv, SteadyInv, ListsEverythingSteady
<1>. QED  BY <1>1, ListInvariant, PTL

\* The size in the answer of http_handle_file_put, read without a lock after the
\* rename, is that of this upload or of a later whole one to the same name.
THEOREM PutReportsWholeFileHolds == ListSpec => []PutReportsWholeFile
<1>1. ASSUME ListInv, NEW u \in Uploads, told[u] # -1
      PROVE  /\ \E i \in DOMAIN pubs[target[u][1]] : pubs[target[u][1]][i] = u
             /\ \E j \in Index(pubs[target[u][1]], u) .. Len(pubs[target[u][1]]) :
                   told[u] = Size[pubs[target[u][1]][j]]
  <2>. DEFINE s == pubs[target[u][1]]
  <2>1. PICK i, j \in DOMAIN s : i <= j /\ s[i] = u /\ told[u] = Size[s[j]]
    BY <1>1 DEF ListInv, ToldInv
  <2>2. target[u][1] \in Names
    BY <1>1 DEF ListInv, FilesInv, TypeOK, TempNames
  <2>3. s \in Seq(Uploads) /\ \A k, l \in DOMAIN s : s[k] = s[l] => k = l
    BY <1>1, <2>2 DEF ListInv, ListTypeOK, PubsInv
  <2>. HIDE DEF s
  <2>4. Index(s, u) = i
    BY <2>1, <2>3 DEF Index
  <2>5. j \in Index(s, u) .. Len(s)
    BY <2>1, <2>3, <2>4
  <2>. QED  BY <2>1, <2>5 DEF s
<1>2. ListInv => PutReportsWholeFile
  BY <1>1 DEF PutReportsWholeFile
<1>. QED  BY <1>2, ListInvariant, PTL
=============================================================================
