----------------------------- MODULE StateText -----------------------------
(***************************************************************************)
(* The text of the daemon's state file: what daemon_state_write makes of a *)
(* record and what the loop of daemon_state_read, one fgets per step,      *)
(* makes of the text again (src/src/daemon_state.c).  hf status shows the  *)
(* result and hf stop signals the pid in it.                               *)
(*                                                                         *)
(* The receive directory is the user's and grows character by character;   *)
(* the names of the fields and the numbers are one character each.  Pid,   *)
(* port, address and log path come from the program.                       *)
(***************************************************************************)
EXTENDS Integers, Sequences, SequencesExt

CONSTANTS
    Chars,     \* characters of receive directories
    Pid, Port, Url, Log,
    Numbers,   \* the characters that strtol reads as a positive number
    TextCap,   \* sizeof(text) in daemon_state_write
    LineCap,   \* sizeof(line) in daemon_state_read
    DirCap     \* sizeof(receive_dir) in daemon_state_t

VARIABLES
    dir,     \* ser_opt->path
    file,    \* the state file, None if it was not written
    phase,   \* "typing", "written", "reading", "read", "failed"
    left,    \* what fgets has not returned yet
    state,   \* the record of daemon_state_read
    have     \* have_pid, have_receive_dir, have_port

vars == <<dir, file, phase, left, state, have>>

None == <<"none">>
Fields == {"pid", "receive_dir", "port", "web_url", "log_path"}
Cleared == [f \in Fields |-> <<>>]

Init ==
    /\ dir = <<>> /\ file = None /\ phase = "typing"
    /\ left = <<>> /\ state = Cleared /\ have = {}

Positions(s, cs) == {i \in 1 .. Len(s) : s[i] \in cs}
First(s, cs) == CHOOSE i \in Positions(s, cs) : \A j \in Positions(s, cs) : i <= j

\* The text up to the first of these characters: strchr, strcspn.
Until(s, cs) == IF Positions(s, cs) = {} THEN s ELSE SubSeq(s, 1, First(s, cs) - 1)

---------------------------------------------------------------------------

\* The user picks a directory; names up to one character too long.
Choose(c) ==
    /\ phase = "typing"
    /\ Len(dir) < DirCap
    /\ dir' = Append(dir, c)
    /\ UNCHANGED <<file, phase, left, state, have>>

LineOf(key, value) == <<key, "=">> \o value \o <<"LF">>

\* The format of daemon_state_write.
Format(d) ==
    LineOf("pid", <<Pid>>) \o LineOf("receive_dir", d) \o LineOf("port", <<Port>>)
        \o LineOf("web_url", <<Url>>) \o LineOf("log_path", <<Log>>)
        \o LineOf("daemon_mode", <<"1">>)

\* server_persist_daemon_state copies the path into the record with snprintf,
\* which cuts it.
Copied(d) == SubSeq(d, 1, IF Len(d) < DirCap THEN Len(d) ELSE DirCap - 1)

\* daemon_state_write: a record without a directory is refused, and a text that
\* does not fit its buffer is not written.
Write ==
    /\ phase = "typing"
    /\ IF Copied(dir) # <<>> /\ Len(Format(Copied(dir))) < TextCap
       THEN file' = Format(Copied(dir)) /\ phase' = "written"
       ELSE file' = file /\ phase' = "failed"
    /\ UNCHANGED <<dir, left, state, have>>

\* fopen and memset.
Open ==
    /\ phase = "written"
    /\ phase' = "reading"
    /\ left' = file
    /\ state' = Cleared /\ have' = {}
    /\ UNCHANGED <<dir, file>>

\* Mutant: the buffer of fgets is as long as the value and not as the line.
FgetsShort(s) ==
    SubSeq(s, 1, IF Positions(s, {"LF"}) # {} /\ First(s, {"LF"}) < DirCap
                 THEN First(s, {"LF"}) ELSE DirCap - 1)

\* fgets: up to and including the line feed, or as much as the buffer holds.
Fgets(s) ==
    IF Positions(s, {"LF"}) # {} /\ First(s, {"LF"}) < LineCap
    THEN SubSeq(s, 1, First(s, {"LF"}))
    ELSE SubSeq(s, 1, IF Len(s) < LineCap THEN Len(s) ELSE LineCap - 1)

IsNumber(v) == Len(v) = 1 /\ v[1] \in Numbers

\* One turn of the loop for a line with an equals sign: a later line replaces an
\* earlier one, and a number that cannot be parsed takes have_... back.
Assign(line) ==
    LET key == Until(line, {"="})
        value == Until(SubSeq(line, Len(key) + 2, Len(line)), {"LF", "CR"})
        Is(f) == key = <<f>>
        Taken == [state EXCEPT ![key[1]] = value]
    IN  \/ /\ \E f \in {"pid", "port"} : Is(f)
           /\ IF IsNumber(value) THEN state' = Taken /\ have' = have \cup {key[1]}
              ELSE state' = state /\ have' = have \ {key[1]}
        \/ /\ Is("receive_dir")
           /\ IF value # <<>> THEN state' = Taken /\ have' = have \cup {key[1]}
              ELSE state' = state /\ have' = have \ {key[1]}
        \/ /\ \E f \in {"web_url", "log_path"} : Is(f)
           /\ state' = Taken /\ have' = have
        \/ /\ \A f \in Fields : ~Is(f)
           /\ UNCHANGED <<state, have>>

ReadLine ==
    /\ phase = "reading" /\ left # <<>>
    /\ LET line == Fgets(left) IN
         /\ left' = SubSeq(left, Len(line) + 1, Len(left))
         /\ IF Positions(line, {"="}) = {} THEN UNCHANGED <<state, have>>
            ELSE Assign(line)
    /\ UNCHANGED <<dir, file, phase>>

\* The end of the file: three of the fields are required.
ReadEnd ==
    /\ phase = "reading" /\ left = <<>>
    /\ phase' = IF have = {"pid", "receive_dir", "port"} THEN "read" ELSE "failed"
    /\ UNCHANGED <<dir, file, left, state, have>>

Next == (\E c \in Chars : Choose(c)) \/ Write \/ Open \/ ReadLine \/ ReadEnd

Spec == Init /\ [][Next]_vars

---------------------------------------------------------------------------
(* Properties. *)

Plain(d) == Positions(d, {"LF", "CR"}) = {}

\* Every state file that was written can be read, and says what was written,
\* also for the longest directory that the record holds and for one with equals
\* signs or with the name of a field in it; only a line break in the directory's
\* name changes what is read.
ReadsBack ==
    Plain(dir) =>
        /\ phase = "failed" => file = None
        /\ phase = "read" =>
             state = [pid |-> <<Pid>>, receive_dir |-> Copied(dir), port |-> <<Port>>,
                      web_url |-> <<Url>>, log_path |-> <<Log>>]

\* Whatever the directory is called, the port, the address and the log path are
\* the daemon's own: they are written after it, and the last line counts.
LaterFieldsAreOwn ==
    phase = "read" => /\ state.port = <<Port>> /\ state.web_url = <<Url>>
                      /\ state.log_path = <<Log>>
=============================================================================
