------------------------------ MODULE MCLaunch ------------------------------
(* Seven ports, of which the caller names three, five with one twice, or    *)
(* all a server for two GPUs needs.                                         *)
EXTENDS Launch

MCPorts == 2 .. 8

MCServerArgs ==
  {[tp_size |-> 1, additional_ports |-> s] : s \in {<<3, 4, 5>>, <<3, 3, 4, 5, 6>>}}
    \cup {[tp_size |-> 2, additional_ports |-> <<3, 4, 5, 6, 7, 8>>]}
=============================================================================
