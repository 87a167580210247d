---------------------------- MODULE CommandLine ----------------------------
(***************************************************************************)
(* parse_args of cli.c: one step per argument that the loop looks at, with *)
(* the locals and the option record of the code, against the forms that    *)
(* usage() prints.                                                         *)
(*                                                                         *)
(* The arguments are chosen as the loop reaches them, so that every        *)
(* command line up to the bound is parsed. A value may be any word, also   *)
(* one that looks like an option.                                          *)
(***************************************************************************)
EXTENDS Integers, Sequences, FiniteSets, FiniteSetsExt

CONSTANTS
  Words,      \* words that are neither options nor the name of a command
  Ports,      \* the words parse_port accepts
  MaxArgs     \* bound: arguments after the program's name

Options == {"-d", "-c", "-g", "-m", "-o", "-i", "-p", "-h"}
Actions == {"-c", "-g", "-m"}
Commands == {"status", "stop"}
Null == "null"

VARIABLES
  argv,       \* the arguments chosen so far
  awaits,     \* the option whose value is the next argument, Null, or "end"
  opt,        \* the option record
  seen,       \* the locals: server_selected, client_actions, client_action,
              \* output_seen, ip_seen, control_mode_selected
  result      \* "parsing", then PARSE_OK, PARSE_HELP or PARSE_ERR

vars == <<argv, awaits, opt, seen, result>>

Init ==
  /\ argv = <<>> /\ awaits = Null /\ result = "parsing"
  /\ opt = [mode |-> Null, path |-> Null, remote |-> Null, output |-> Null,
            message |-> Null, ip |-> "127.0.0.1", port |-> "8888", type |-> Null]
  /\ seen = [server |-> FALSE, actions |-> 0, action |-> Null,
             output |-> FALSE, ip |-> FALSE, control |-> FALSE]

Reads(a) ==
  /\ result = "parsing" /\ Len(argv) < MaxArgs
  /\ argv' = Append(argv, a)

\* argv[1] is status or stop
Control(a) ==
  /\ Reads(a) /\ argv = <<>> /\ a \in Commands
  /\ opt' = [opt EXCEPT !.mode = a]
  /\ seen' = [seen EXCEPT !.control = TRUE]
  /\ UNCHANGED <<awaits, result>>

\* the option was given before; -i and -p may be repeated
Duplicate(a) ==
  \/ a = "-d" /\ seen.server
  \/ a \in Actions /\ seen.action = a
  \/ a = "-o" /\ seen.output

\* the switch over the option's letter, up to take_value; control mode refuses
\* -i only at the end
Option(a) ==
  /\ Reads(a) /\ awaits = Null
  /\ ~(argv = <<>> /\ a \in Commands)
  /\ \/ a = "-h" /\ result' = "help" /\ UNCHANGED awaits
     \/ /\ a \in Options \ {"-h"}
        /\ IF (seen.control /\ a # "-i") \/ Duplicate(a)
           THEN result' = "error" /\ UNCHANGED awaits
           ELSE awaits' = a /\ UNCHANGED result
     \/ a \notin Options /\ result' = "error" /\ UNCHANGED awaits
  /\ UNCHANGED <<opt, seen>>

\* -c, -g and -m: one more client action; -c and -m clear what the other set
Acts(o, v) ==
  /\ seen' = [seen EXCEPT !.actions = @ + 1, !.action = o]
  /\ LET client == [opt EXCEPT !.mode = "client", !.type = o] IN
       opt' = CASE o = "-c" -> [client EXCEPT !.path = v, !.message = Null]
                [] o = "-g" -> [client EXCEPT !.remote = v]
                [] o = "-m" -> [client EXCEPT !.path = Null, !.message = v]
  /\ UNCHANGED result

\* take_value succeeded: what each case does with the value
Value(a) ==
  /\ Reads(a) /\ awaits # Null
  /\ awaits' = Null
  /\ \/ /\ awaits = "-d"
        /\ opt' = [opt EXCEPT !.path = a, !.mode = "server"]
        /\ seen' = [seen EXCEPT !.server = TRUE] /\ UNCHANGED result
     \/ awaits \in Actions /\ Acts(awaits, a)
     \/ /\ awaits = "-o"
        /\ opt' = [opt EXCEPT !.output = a]
        /\ seen' = [seen EXCEPT !.output = TRUE] /\ UNCHANGED result
     \/ /\ awaits = "-i"
        /\ opt' = [opt EXCEPT !.ip = a]
        /\ seen' = [seen EXCEPT !.ip = TRUE] /\ UNCHANGED result
     \/ /\ awaits = "-p"
        /\ UNCHANGED seen
        /\ IF a \in Ports THEN opt' = [opt EXCEPT !.port = a] /\ UNCHANGED result
           ELSE result' = "error" /\ UNCHANGED opt

\* the mode once the loop is over
Mode == IF seen.control THEN opt.mode ELSE IF seen.server THEN "server" ELSE "client"

\* Mutant: a second client action takes the place of the first.
ConsistentLast ==
  /\ seen.output => seen.action = "-g"
  /\ seen.server \/ seen.actions > 0 \/ seen.control
  /\ ~(seen.server /\ seen.actions > 0)
  /\ seen.ip => Mode = "client"

\* the checks after the loop
Consistent ==
  /\ seen.output => seen.action = "-g"
  /\ seen.server \/ seen.actions > 0 \/ seen.control
  /\ ~(seen.server /\ seen.actions > 0)
  /\ seen.actions <= 1
  /\ Mode = "server" => opt.path # Null
  /\ Mode = "client" /\ seen.action = "-c" => opt.path # Null
  /\ Mode = "client" /\ seen.action = "-g" => opt.remote # Null
  /\ Mode = "client" /\ seen.action = "-m" => opt.message # Null
  /\ seen.ip => Mode = "client"

\* argv is exhausted, inside the loop when an option still awaits its value
End ==
  /\ result = "parsing"
  /\ IF awaits = Null /\ Consistent
     THEN result' = "ok" /\ opt' = [opt EXCEPT !.mode = Mode]
     ELSE result' = "error" /\ UNCHANGED opt
  /\ awaits' = "end"
  /\ UNCHANGED <<argv, seen>>

\* parse_args has returned from inside the loop: it does not look at the rest.
\* (Options and values in turn: no other rest is in the usage text.)
Unread(a) ==
  /\ result \in {"error", "help"} /\ awaits # "end" /\ Len(argv) < MaxArgs
  /\ a \in IF Len(argv) % 2 = 0 THEN Options ELSE Words
  /\ argv' = Append(argv, a)
  /\ UNCHANGED <<awaits, opt, seen, result>>

Args == Options \cup Commands \cup Words

Next ==
  \/ \E a \in Args : Control(a) \/ Option(a) \/ Value(a) \/ Unread(a)
  \/ End

Spec == Init /\ [][Next]_vars

-----------------------------------------------------------------------------
(* The reference: a command line is the name of a control command, or a    *)
(* list of options each followed by its value.                             *)

Pairs == 1 .. Len(argv) \div 2
Opt(k) == argv[2 * k - 1]
Val(k) == argv[2 * k]
Given(o) == {k \in Pairs : Opt(k) = o}
Count(os) == Cardinality({k \in Pairs : Opt(k) \in os})

\* the forms of usage(), in any order, -i and -p any number of times
InUsage ==
  \/ Len(argv) = 1 /\ argv[1] \in Commands
  \/ /\ Len(argv) > 0 /\ Len(argv) % 2 = 0
     /\ \A k \in Pairs : Opt(k) \in Options \ {"-h"}
     /\ \A k \in Given("-p") : Val(k) \in Ports
     /\ \/ /\ Count({"-d"}) = 1
           /\ Count(Actions \cup {"-o", "-i"}) = 0
        \/ /\ Count({"-d"}) = 0
           /\ Count(Actions) = 1
           /\ Count({"-o"}) <= Count({"-g"})

\* the value that the last occurrence of an option gives
LastValue(o, default) ==
  IF Given(o) = {} THEN default ELSE Val(Max(Given(o)))

-----------------------------------------------------------------------------

\* parse_args accepts exactly the command lines that usage() describes: every
\* one of them, in any order of its options, and no other. What it refuses from
\* inside the loop no further argument could have completed.
AcceptsUsage ==
  /\ result = "ok" => InUsage
  /\ result \in {"error", "help"} => ~InUsage

\* What the commands get from an accepted command line is what the user wrote:
\* every field is the value of its own option, the last one where it may be
\* repeated, or the default; and no field is left over from an option that does
\* not belong to the selected command.
FieldsAsWritten ==
  result = "ok" =>
    /\ opt.mode = (IF argv[1] \in Commands THEN argv[1]
                   ELSE IF Given("-d") # {} THEN "server" ELSE "client")
    /\ opt.path = LastValue("-d", LastValue("-c", Null))
    /\ opt.remote = LastValue("-g", Null)
    /\ opt.output = LastValue("-o", Null)
    /\ opt.message = LastValue("-m", Null)
    /\ opt.ip = LastValue("-i", "127.0.0.1")
    /\ opt.port = LastValue("-p", "8888")
=============================================================================
