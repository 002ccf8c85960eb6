---------------------------- MODULE MCTickOnce ----------------------------
EXTENDS TickOnce, TLC

CONSTANTS j1, j2, j3, wA, wT

\* A started worker and one that is driven by tick_once.  A batch of the latter may hold
\* two rows it decodes and one it does not.  Each job has one attempt.
MCMaxAttempts == [w \in Workers |-> 1]
MCPanicPolicy == [w \in Workers |-> "Dead"]
MCDecodes == (wA :> {j1}) @@ (wT :> {j1, j2})
=============================================================================
