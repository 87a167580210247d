-------------------------- MODULE MCDaemonControl --------------------------
(* Instances of DaemonControl for TLC. *)
EXTENDS DaemonControl

\* Everybody uses the default port.
MCSamePort == [l \in Launchers |-> 1]

\* As in the test of a second instance: each launcher has a port of its own.
MCOwnPorts == [l \in Launchers |-> l]

First(S) == CHOOSE x \in S : TRUE

\* Launchers with ports of their own, control commands and addresses are
\* interchangeable: one of each comes first.
InOrder ==
    /\ changes = 0 => net = First(Urls)
    /\ lpc[First(Launchers)] = "idle" => \A l \in Launchers : lpc[l] = "idle"
    /\ cpc[First(Controls)] = "idle" => \A k \in Controls : cpc[k] = "idle"

\* Two control commands, or one and either a change of the network or a process
\* that gets the pid of a daemon.
Chosen ==
    /\ InOrder
    /\ \/ changes = 0 /\ taken = {}
       \/ (changes = 0 \/ taken = {}) /\ \E k \in Controls : cpc[k] = "idle"

ChosenInit == Init /\ Chosen

ChosenNext == Next /\ Chosen'

\* Fair processes on the chosen states.  The steps that are left out, of users, of
\* the network and of other programs, have no fairness.
ChosenSpec == ChosenInit /\ [][ChosenNext]_vars /\ Fairness
=============================================================================
