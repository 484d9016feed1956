--------------------------- MODULE MCSandboxSlots ---------------------------
(***************************************************************************)
(* A pool with one run more than it has slots.                             *)
(***************************************************************************)
EXTENDS SandboxSlots

CONSTANTS r1, r2, r3
=============================================================================
