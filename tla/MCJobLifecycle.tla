--------------------------- MODULE MCJobLifecycle ---------------------------
(***************************************************************************)
(* One job and two cancels of it: cancel typed twice, or by two people.    *)
(***************************************************************************)
EXTENDS JobLifecycle

CONSTANTS c1, c2
=============================================================================
