----------------------------- MODULE MCPortScan -----------------------------
(* Small instances of PortScan for TLC; sources, ports and switches are      *)
(* interchangeable.                                                          *)
EXTENDS PortScan, TLC

Symmetric == Permutations(Sources) \cup Permutations(DstPorts) \cup Permutations(Switches)

=============================================================================
