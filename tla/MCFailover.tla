----------------------------- MODULE MCFailover -----------------------------
(* A primary and two fallbacks.                                            *)
EXTENDS Failover

CONSTANTS p, f1, f2

MCFallbacks == <<f1, f2>>
=============================================================================
