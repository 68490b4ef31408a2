---------------------------- MODULE MCHeartbeats ----------------------------
(* Values of the constants of Heartbeats for the run: one agent, in the    *)
(* config file and in nilcc-api, with one wallet, and a static wallet that *)
(* refuses every transfer.                                                 *)
EXTENDS Heartbeats

CONSTANTS a1, m1, m2

MCAgentOf == [m \in Monitors |-> a1]
MCKeys == [a \in Agents |-> {1}]
MCMinimum == [eth |-> 1, nil |-> 0]
MCTarget == [eth |-> 2, nil |-> 1]
=============================================================================
