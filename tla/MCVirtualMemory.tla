--------------------------- MODULE MCVirtualMemory ----------------------------
(* VirtualMemory with fewer frames, and fewer slots, than pages.           *)
EXTENDS VirtualMemory
=============================================================================
