---------------------------- MODULE MCJobEvents ----------------------------
EXTENDS JobEvents, TLC

CONSTANTS j1, wA, wB, wC

\* Three deployments; the codec of wC rejects the job.
MCMaxAttempts == (wA :> 2) @@ (wB :> 2) @@ (wC :> 1)
MCPanicPolicy == (wA :> "Retry") @@ (wB :> "Dead") @@ (wC :> "Dead")
MCDecodes == (wA :> Jobs) @@ (wB :> Jobs) @@ (wC :> {})
=============================================================================
