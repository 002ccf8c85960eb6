--------------------------- MODULE MCWorkerProcess ---------------------------
(* Small instances of WorkerProcess. *)
EXTENDS WorkerProcess, TLC

CONSTANTS r1, r2, r3, k1

\* Two jobs compete for the one slot of a key; a third has no key.
MCKeyOf == r1 :> k1 @@ r2 :> k1 @@ r3 :> NoKey
OneKey == r1 :> k1 @@ r2 :> k1
MCLimit == k1 :> 1

\* The two jobs of the key are interchangeable.
Symmetry == Permutations({r1, r2})

=============================================================================
