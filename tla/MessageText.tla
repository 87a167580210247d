---------------------------- MODULE MessageText ----------------------------
(***************************************************************************)
(* The conversions a message goes through on its way from one browser to   *)
(* another: the JSON body of a POST, the parser of http.c, the trimming of *)
(* the message store, and then either the escaped JSON of /latest or the   *)
(* event of the stream, and the browser's decoding of each.                *)
(*                                                                         *)
(* A text is a sequence of characters. There is one for each way in which  *)
(* some conversion treats characters of its own; "a" stands for all others *)
(* and EMO for those outside the basic plane. In JSON, four hexadecimal    *)
(* digits are one token, and so are the constant parts of a body or an     *)
(* event. No client writes a NUL byte into a body.                         *)
(***************************************************************************)
EXTENDS Integers, Sequences, SequencesExt

CONSTANT MaxLen     \* bound: characters of a text

VARIABLES
  text,      \* what the user typed
  body,      \* the body of the POST request
  whole,     \* the body was sent to its end
  stored,    \* the message in the store, or Refused
  page,      \* what loadLatestMessage got
  live       \* the events the stream's reader got

vars == <<text, body, whole, stored, page, live>>

Quote == "QUOTE"
BSlash == "BACKSLASH"
LF == "LF"
CR == "CR"
Tab == "TAB"
Bs == "BS"          \* backspace
Ff == "FF"          \* form feed
VTab == "VT"        \* U+000B: white space in C, and no short escape
Ctl == "CTL"        \* U+0001: no short escape
Nul == "NUL"        \* U+0000: the end of a C string
Nbsp == "NBSP"      \* U+00A0: white space for the message store only
Emo == "EMO"        \* U+1F600: a surrogate pair in \u escapes
Lone == "LONE"      \* U+DE00: half of a pair without the other
Chars == {"a", "SPACE", "/", Quote, BSlash, LF, CR, Tab, Bs, Ff, VTab, Ctl, Nul, Nbsp, Emo, Lone}

\* isspace
Space == {"SPACE", LF, CR, Tab, Ff, VTab}

Nothing == <<"nothing">>
Refused == <<"refused">>

-----------------------------------------------------------------------------
(* The browser and other clients. *)

\* JSON.stringify of one character
Stringify(c) ==
  CASE c = LF -> <<BSlash, "n">>
    [] c = CR -> <<BSlash, "r">>
    [] c = Tab -> <<BSlash, "t">>
    [] c = Bs -> <<BSlash, "b">>
    [] c = Ff -> <<BSlash, "f">>
    [] c = VTab -> <<BSlash, "u", "000B">>
    [] c = Ctl -> <<BSlash, "u", "0001">>
    [] c = Nul -> <<BSlash, "u", "0000">>
    [] c = Lone -> <<BSlash, "u", "DE00">>
    [] c \in {Quote, BSlash} -> <<BSlash, c>>
    [] OTHER -> <<c>>

\* a client that writes only ASCII, as the tests do, and escapes what it may
Ascii(c) ==
  CASE c = Emo -> <<BSlash, "u", "D83D", BSlash, "u", "DE00">>
    [] c = Nbsp -> <<BSlash, "u", "00A0">>
    [] c = "/" -> <<BSlash, "/">>
    [] OTHER -> Stringify(c)

\* { message } as JSON, with or without a space after the colon
MessageBody(t, Enc(_), gap) ==
  <<"{", Quote, "message", Quote, ":">> \o gap \o <<Quote>>
    \o FlattenSeq([i \in 1 .. Len(t) |-> Enc(t[i])]) \o <<Quote, "}">>

-----------------------------------------------------------------------------
(* The server. *)

\* http_json_parse_hex4 and http_buf_append_utf8 for one code unit that is no
\* surrogate
CodePoint(hex) ==
  CASE hex = "0000" -> Nul
    [] hex = "0001" -> Ctl
    [] hex = "000B" -> VTab
    [] hex = "00A0" -> Nbsp
    [] hex = "0061" -> "a"

\* http_json_parse_string from position p, after the opening quote: the text
\* up to the closing quote and the position behind it
Failed == [ok |-> FALSE]

\* one escape, at the backslash; half of a surrogate pair is an error
Unescape(s, p) ==
  LET at(k) == IF p + k <= Len(s) THEN s[p + k] ELSE "END"
      One(c) == [ok |-> TRUE, char |-> c, next |-> p + 2]
  IN CASE at(1) \in {Quote, BSlash, "/"} -> One(at(1))
       [] at(1) = "n" -> One(LF)
       [] at(1) = "r" -> One(CR)
       [] at(1) = "t" -> One(Tab)
       [] at(1) = "b" -> One(Bs)
       [] at(1) = "f" -> One(Ff)
       [] at(1) = "u" /\ at(2) \in {"0000", "0001", "000B", "00A0", "0061"} ->
            [ok |-> TRUE, char |-> CodePoint(at(2)), next |-> p + 3]
       [] /\ at(1) = "u" /\ at(2) = "D83D"
          /\ at(3) = BSlash /\ at(4) = "u" /\ at(5) = "DE00" ->
            [ok |-> TRUE, char |-> Emo, next |-> p + 6]
       [] OTHER -> Failed

ParseString(s, start) ==
  LET from[p \in start .. Len(s) + 6] ==
        IF p > Len(s) THEN Failed
        ELSE IF s[p] = Quote THEN [ok |-> TRUE, val |-> <<>>, next |-> p + 1]
        ELSE LET e == IF s[p] = BSlash THEN Unescape(s, p)
                      ELSE [ok |-> TRUE, char |-> s[p], next |-> p + 1]
             IN IF ~e.ok \/ ~from[e.next].ok THEN Failed
                ELSE [ok |-> TRUE, val |-> <<e.char>> \o from[e.next].val,
                      next |-> from[e.next].next]
  IN from[start]

\* http_json_skip_ws
SkipWs(s, p) ==
  LET stop == {q \in p .. Len(s) : s[q] \notin Space}
  IN IF stop = {} THEN Len(s) + 1 ELSE CHOOSE q \in stop : \A r \in stop : q <= r

\* A C string: strcmp, strlen and copies see it up to its first NUL.
CString(t) ==
  LET nul == {i \in 1 .. Len(t) : t[i] = Nul}
  IN IF nul = {} THEN t
     ELSE SubSeq(t, 1, (CHOOSE i \in nul : \A j \in nul : i <= j) - 1)

\* http_parse_message_json: an object with the one key "message"
ParseMessageJson(s) ==
  LET At(p, c) == p <= Len(s) /\ s[p] = c
      p1 == SkipWs(s, 1)
      p2 == SkipWs(s, p1 + 1)
      key == ParseString(s, p2 + 1)
      p3 == SkipWs(s, key.next)
      p4 == SkipWs(s, p3 + 1)
      value == ParseString(s, p4 + 1)
      p5 == SkipWs(s, value.next)
  IN IF /\ At(p1, "{") /\ At(p2, Quote) /\ key.ok
        /\ At(p3, ":") /\ At(p4, Quote) /\ value.ok
        /\ At(p5, "}") /\ SkipWs(s, p5 + 1) > Len(s)
        /\ CString(key.val) = <<"message">>
     THEN CString(value.val) ELSE Refused

\* message_store_trailing_whitespace_bytes, in a loop
Trimmed(t) ==
  LET kept == {i \in 1 .. Len(t) : t[i] \notin Space \cup {Nbsp}}
  IN IF kept = {} THEN <<>>
     ELSE SubSeq(t, 1, CHOOSE i \in kept : \A j \in kept : i >= j)

\* Mutant: a carriage return is copied as it is.
JsonEscapeNoCR(t) ==
  FlattenSeq([i \in 1 .. Len(t) |-> IF t[i] = CR THEN <<CR>> ELSE Stringify(t[i])])

\* http_json_escape: short escapes where JSON has them, \u00XX for the other
\* control characters, everything else byte for byte
JsonEscape(t) ==
  LET Escaped(c) ==
        CASE c = BSlash -> <<BSlash, BSlash>>
          [] c = Quote -> <<BSlash, Quote>>
          [] c = LF -> <<BSlash, "n">>
          [] c = CR -> <<BSlash, "r">>
          [] c = Tab -> <<BSlash, "t">>
          [] c = Bs -> <<BSlash, "b">>
          [] c = Ff -> <<BSlash, "f">>
          [] c = VTab -> <<BSlash, "u", "000B">>
          [] c = Ctl -> <<BSlash, "u", "0001">>
          [] OTHER -> <<c>>
  IN FlattenSeq([i \in 1 .. Len(t) |-> Escaped(t[i])])

\* http_send_sse_message_event
SseEvent(t) ==
  <<"event: message", LF, "data: ">>
    \o FlattenSeq([i \in 1 .. Len(t) |-> IF t[i] = LF THEN <<LF, "data: ">> ELSE <<t[i]>>])
    \o <<LF, LF>>

-----------------------------------------------------------------------------
(* The browser that shows the message. *)

\* JSON.parse of the value: raw control characters are an error
JsonParse(s) ==
  IF \E i \in 1 .. Len(s) : s[i] \in {LF, CR, Tab, Bs, Ff, VTab, Ctl, Nul} THEN Refused
  ELSE LET v == ParseString(s \o <<Quote>>, 1) IN IF v.ok THEN v.val ELSE Refused

\* The lines of an event stream: CR LF, LF and CR all end a line
StreamLines(s) ==
  LET step(acc, i) ==
        IF s[i] = LF /\ i > 1 /\ s[i - 1] = CR THEN acc
        ELSE IF s[i] \in {LF, CR} THEN Append(acc, <<>>)
        ELSE [acc EXCEPT ![Len(acc)] = Append(@, s[i])]
  IN Front(FoldLeft(step, <<<<>>>>, [i \in 1 .. Len(s) |-> i]))

\* EventSource: the data fields up to a blank line make one event, joined by
\* line feeds; an event without data is dropped and unknown fields are skipped
EventSource(s) ==
  LET step(acc, line) ==
        IF line = <<>>
        THEN IF acc.data = <<>> THEN acc
             ELSE [events |-> Append(acc.events, Front(FlattenSeq(acc.data))), data |-> <<>>]
        ELSE IF line[1] = "data: "
        THEN [acc EXCEPT !.data = Append(@, Tail(line) \o <<LF>>)]
        ELSE acc
  IN FoldLeft(step, [events |-> <<>>, data |-> <<>>], StreamLines(s)).events

-----------------------------------------------------------------------------

Init ==
  /\ text = <<>> /\ body = Nothing /\ whole = FALSE
  /\ stored = Nothing /\ page = Nothing /\ live = Nothing

\* the user types
Type(c) ==
  /\ body = Nothing /\ Len(text) < MaxLen
  /\ text' = Append(text, c)
  /\ UNCHANGED <<body, whole, stored, page, live>>

\* postMessage, or another client; the body may be cut by a Content-Length
\* that is too small
Post ==
  /\ body = Nothing
  /\ \E sent \in {MessageBody(text, Stringify, <<>>), MessageBody(text, Ascii, <<"SPACE">>)} :
       \E n \in 0 .. Len(sent) :
         body' = SubSeq(sent, 1, n) /\ whole' = (n = Len(sent))
  /\ UNCHANGED <<text, stored, page, live>>

\* http_handle_messages_post and message_store_set
Store ==
  /\ body # Nothing /\ stored = Nothing
  /\ LET message == ParseMessageJson(body)
     IN stored' = IF message = Refused THEN Refused ELSE Trimmed(message)
  /\ UNCHANGED <<text, body, whole, page, live>>

HasMessage == stored \notin {Nothing, Refused}

\* http_handle_messages_latest_get, loadLatestMessage
LoadLatest ==
  /\ HasMessage /\ page = Nothing
  /\ page' = JsonParse(JsonEscape(stored))
  /\ UNCHANGED <<text, body, whole, stored, live>>

\* http_handle_messages_stream, connectLatestMessageStream
StreamEvent ==
  /\ HasMessage /\ live = Nothing
  /\ live' = EventSource(SseEvent(stored))
  /\ UNCHANGED <<text, body, whole, stored, page>>

Next ==
  \/ \E c \in Chars : Type(c)
  \/ Post \/ Store \/ LoadLatest \/ StreamEvent

Spec == Init /\ [][Next]_vars

-----------------------------------------------------------------------------

\* The message that is stored is the text that was typed up to its first U+0000,
\* without the white space at its end, whichever client wrote the JSON; a text
\* with half of a surrogate pair is refused as a whole, wherever the half is; and
\* a body that was cut anywhere is refused, so that no part of a text is ever
\* stored for it.
StoredIsTyped ==
  stored # Nothing =>
    stored = IF whole /\ ~(\E i \in 1 .. Len(text) : text[i] = Lone)
             THEN Trimmed(CString(text)) ELSE Refused

\* The page that loads /api/messages/latest shows exactly the stored message:
\* what http_json_escape writes is valid JSON for every text.
PageShowsStored == page # Nothing => page = stored

\* For a message without a carriage return the stream delivers one event whose
\* data is the stored message, line breaks, quotes and control characters
\* included.
StreamShowsStored ==
  live # Nothing /\ ~(\E i \in 1 .. Len(stored) : stored[i] = CR) => live = <<stored>>
=============================================================================
