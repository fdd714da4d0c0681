----------------------------- MODULE GuestNetMC -----------------------------
(***************************************************************************)
(* Addresses of six bits: 64 of them, prefixes /0 to /6, up to 5 VMs, so   *)
(* that every VM count from refused to an exact fit to room to spare meets *)
(* every block, the one ending at the last address included.               *)
(***************************************************************************)
EXTENDS GuestNet

MCPrefixes  == 0 .. 6
MCBlockSize == [p \in MCPrefixes |-> 2 ^ (6 - p)]
MCCounts    == -1 .. 5

=============================================================================
