----------------------------- MODULE MCPings --------------------------------
(* Threads and devices are interchangeable in the safety run. *)
EXTENDS Pings, TLC

Symmetric == Permutations(Threads) \cup Permutations(Devices)
=============================================================================
