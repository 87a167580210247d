---------------------------- MODULE WebMessages -----------------------------
(***************************************************************************)
(* The message part of the web page (webui_app_js in src/src/webui.c)      *)
(* against the message store of the server: the text box and its POST, the *)
(* panel "Latest Message", which is written by answers to                  *)
(* GET /api/messages/latest and by events of the message stream, and the   *)
(* EventSource that reconnects by itself.                                  *)
(*                                                                         *)
(* A message is its version in the store; 0 is "No messages yet.".  The    *)
(* page runs one callback at a time, so a callback is a step; requests,    *)
(* answers and events travel on connections of their own and arrive in any *)
(* order.  The server is not restarted.                                    *)
(***************************************************************************)
EXTENDS Naturals, Sequences

CONSTANTS
    Loads,       \* requests for the latest message that can be under way
    Posts,       \* POSTs of the page that can be under way: no button is disabled
    MaxPosts,    \* bound: messages posted by anybody
    MaxDrafts,   \* bound: texts the user of this page writes
    MaxDrops,    \* bound: how often the stream breaks
    Window       \* bound: events on their way to the page

VARIABLES
    board,     \* the version in the store
    load,      \* requests of loadLatestMessage
    post,      \* requests of postMessage
    input,     \* the text box: 0 when empty, or the number of the draft in it
    typed,     \* drafts typed so far
    saved,     \* drafts the server has stored
    hasty,     \* drafts typed while a POST was under way
    stream,    \* the EventSource: "down" or "up"
    version,   \* the version the server's stream thread has sent
    events,    \* events on their way
    drops,     \* how often the stream broke
    shown,     \* what the panel shows
    newest     \* the newest message it has shown

vars == <<board, load, post, input, typed, saved, hasty, stream, version, events,
          drops, shown, newest>>

draftVars == <<input, typed, saved, hasty>>
streamVars == <<stream, version, events, drops>>
panelVars == <<shown, newest>>

Versions == 0 .. MaxPosts
Idle == [at |-> "idle", value |-> 0]
Idles == [l \in Loads |-> Idle]
Drafts == 0 .. MaxDrafts
Request(values) == [at : {"idle", "sent", "answered", "failed"}, value : values]

TypeOK ==
    /\ board \in Versions
    /\ load \in [Loads -> Request(Versions)]
    /\ post \in [Posts -> Request(Drafts)]
    /\ input \in Drafts
    /\ typed \in Drafts
    /\ saved \subseteq 1 .. typed
    /\ hasty \subseteq 1 .. typed
    /\ stream \in {"down", "up"}
    /\ version \in Versions
    /\ events \in Seq(Versions) /\ Len(events) <= Window
    /\ drops \in 0 .. MaxDrops
    /\ shown \in Versions
    /\ newest \in Versions

\* The script has run: loadLatestMessage has sent its request and
\* connectLatestMessageStream has made the EventSource.
Init ==
    /\ board \in 0 .. 1
    /\ load = [Idles EXCEPT ![CHOOSE l \in Loads : TRUE].at = "sent"]
    /\ post = [p \in Posts |-> Idle]
    /\ input = 0 /\ typed = 0
    /\ saved = {} /\ hasty = {}
    /\ stream = "down" /\ version = 0 /\ events = <<>> /\ drops = 0
    /\ shown = 0 /\ newest = 0

---------------------------------------------------------------------------
(* The server. *)

\* Another client posts a message.
OthersPost ==
    /\ board < MaxPosts
    /\ board' = board + 1
    /\ UNCHANGED <<load, post, draftVars, streamVars, panelVars>>

\* http_handle_messages_latest_get reads the store; it can fail (500), and so
\* can the request itself.
AnswerLoad(l) ==
    /\ load[l].at = "sent"
    /\ load' \in {[load EXCEPT ![l] = [at |-> "answered", value |-> board]],
                  [load EXCEPT ![l] = [at |-> "failed", value |-> 0]]}
    /\ UNCHANGED <<board, post, draftVars, streamVars, panelVars>>

\* http_handle_messages_post stores the message, or refuses it.
AnswerPost(p) ==
    /\ post[p].at = "sent"
    /\ \/ /\ board < MaxPosts
          /\ board' = board + 1
          /\ saved' = saved \cup ({post[p].value} \ {0})
          /\ post' = [post EXCEPT ![p].at = "answered"]
       \/ /\ post' = [post EXCEPT ![p].at = "failed"]
          /\ UNCHANGED <<board, saved>>
    /\ UNCHANGED <<load, input, typed, hasty, streamVars, panelVars>>

\* The stream thread finds a version it has not sent: the newest one.
SendEvent ==
    /\ stream = "up"
    /\ version < board
    /\ Len(events) < Window
    /\ events' = Append(events, board)
    /\ version' = board
    /\ UNCHANGED <<board, load, post, draftVars, stream, drops, panelVars>>

---------------------------------------------------------------------------
(* The page. *)

\* renderLatestMessage writes whatever it is given into the panel.
RenderLatestMessage(v) ==
    /\ shown' = v
    /\ newest' = IF v > newest THEN v ELSE newest

\* The answer of loadLatestMessage arrives; after an error nothing is shown.
LoadLatestMessage(l) ==
    /\ load[l].at \in {"answered", "failed"}
    /\ load' = [load EXCEPT ![l] = Idle]
    /\ IF load[l].at = "answered" THEN RenderLatestMessage(load[l].value)
       ELSE UNCHANGED panelVars
    /\ UNCHANGED <<board, post, draftVars, streamVars>>

\* The message listener of the EventSource.
OnMessage ==
    /\ events # <<>>
    /\ RenderLatestMessage(Head(events))
    /\ events' = Tail(events)
    /\ UNCHANGED <<board, load, post, draftVars, stream, version, drops>>

Posting == \E p \in Posts : post[p] # Idle

\* The user writes something, also over a text that is being posted.
Type ==
    /\ typed < MaxDrafts
    /\ input = 0 \/ Posting
    /\ typed' = typed + 1
    /\ input' = typed'
    /\ hasty' = IF Posting THEN hasty \cup {typed'} ELSE hasty
    /\ UNCHANGED <<board, load, post, saved, streamVars, panelVars>>

\* Mutant: the text box is emptied when the button is pressed.
ClickPostClears(p) ==
    /\ post[p] = Idle
    /\ input # 0
    /\ post' = [post EXCEPT ![p] = [at |-> "sent", value |-> input]]
    /\ input' = 0
    /\ UNCHANGED <<board, load, typed, saved, hasty, streamVars, panelVars>>

\* postMessage up to its fetch; an empty text box is posted like any other.
ClickPost(p) ==
    /\ post[p] = Idle
    /\ post' = [post EXCEPT ![p] = [at |-> "sent", value |-> input]]
    /\ UNCHANGED <<board, load, draftVars, streamVars, panelVars>>

\* The answer to the POST: the text box is emptied, whatever is in it by now,
\* and the latest message is asked for; an error leaves everything alone.
PostMessage(p) ==
    /\ post[p].at \in {"answered", "failed"}
    /\ post' = [post EXCEPT ![p] = Idle]
    /\ IF post[p].at = "answered"
       THEN /\ input' = 0
            /\ \E l \in Loads :
                  /\ load[l] = Idle
                  /\ load' = [load EXCEPT ![l] = [at |-> "sent", value |-> 0]]
       ELSE UNCHANGED <<input, load>>
    /\ UNCHANGED <<board, typed, saved, hasty, streamVars, panelVars>>

\* Mutant: the new stream thread starts at the version of the store.
ConnectWithoutSnapshot ==
    /\ stream = "down"
    /\ stream' = "up"
    /\ version' = board
    /\ UNCHANGED <<board, load, post, draftVars, events, drops, panelVars>>

\* The EventSource connects, again after an error; the stream thread of the new
\* connection begins with a snapshot, so it has sent nothing yet.
Connect ==
    /\ stream = "down"
    /\ stream' = "up"
    /\ version' = 0
    /\ UNCHANGED <<board, load, post, draftVars, events, drops, panelVars>>

\* The connection breaks; events that were on their way are lost.
Drop ==
    /\ stream = "up"
    /\ drops < MaxDrops
    /\ drops' = drops + 1
    /\ stream' = "down"
    /\ events' = <<>>
    /\ UNCHANGED <<board, load, post, draftVars, version, panelVars>>

---------------------------------------------------------------------------

Next ==
    \/ OthersPost \/ SendEvent
    \/ OnMessage \/ Type \/ Connect \/ Drop
    \/ \E p \in Posts : ClickPost(p) \/ AnswerPost(p) \/ PostMessage(p)
    \/ \E l \in Loads : AnswerLoad(l) \/ LoadLatestMessage(l)

Spec == Init /\ [][Next]_vars

\* The server's thread runs, the browser reconnects and delivers.  Nothing is
\* assumed of users, of answers or of how long a request takes.
FairSpec ==
    Spec /\ WF_vars(Connect) /\ WF_vars(SendEvent) /\ WF_vars(OnMessage)

---------------------------------------------------------------------------
(* Properties. *)

\* An error of the server never costs the user a text: every draft has been
\* stored or is still in the text box, except one typed while an earlier one
\* was being posted, which the answer to that post wipes out, and one that the
\* user wrote over.
TextIsKept ==
    \A d \in 1 .. typed :
        d \in saved \/ d = input \/ d \in hasty \/ d + 1 \in hasty

\* Every message, or a newer one, reaches the page's panel, also when the
\* stream breaks in between and no request is ever answered.
MessageArrives == \A v \in 1 .. MaxPosts : board = v ~> newest >= v
=============================================================================
