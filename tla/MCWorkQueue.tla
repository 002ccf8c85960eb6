---------------------------- MODULE MCWorkQueue ----------------------------
(***************************************************************************)
(* An instance of WorkQueue: a rolling deploy of two workers that disagree *)
(* on max_attempts and on the panic policy.                                *)
(***************************************************************************)
EXTENDS WorkQueue, TLC

CONSTANTS j1, wA, wB

MCMaxAttempts == (wA :> 1) @@ (wB :> 2)
MCPanicPolicy == (wA :> "Dead") @@ (wB :> "Retry")
AllDecode == [w \in {wA, wB} |-> Jobs]

=============================================================================
