---------------------------- MODULE MCKeyedClaim ----------------------------
EXTENDS KeyedClaim, TLC

CONSTANTS a1, a2, n1, A, B

\* Two jobs of a key with limit 1, one without a key; a configured key without jobs.
MCId == (a1 :> 1) @@ (a2 :> 2) @@ (n1 :> 3)
MCKeyOf == (a1 :> A) @@ (a2 :> A) @@ (n1 :> NoKey)
MCLimit == (A :> 1) @@ (B :> 2)
=============================================================================
