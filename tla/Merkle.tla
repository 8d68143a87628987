------------------------------- MODULE Merkle -------------------------------
(***************************************************************************)
(* The Merkle tree of the key transparency log (RFC 6962): the root of a   *)
(* sequence of leaf hashes, the inclusion proof of a leaf and its          *)
(* verification.  SHA-256 is free of collisions here: the hash of a node   *)
(* is the pair of its children.  Positions count from 1, the code's from 0.*)
(***************************************************************************)
EXTENDS Integers, Sequences

Node(left, right) == <<"node", left, right>>
EmptyRoot == <<"empty">>

(* The largest power of two below n: the size of the left subtree.         *)
Split(n) ==
  LET split[m \in 0..n] == IF m <= 2 THEN 1 ELSE 2 * split[(m + 1) \div 2]
  IN  split[n]

(* Roots(leaves)[n][lo] is the root of the n leaves after the first lo.    *)
Roots(leaves) ==
  LET root[n \in 0..Len(leaves)] ==
        [lo \in Nat |->
           IF n <= 1 THEN leaves[lo + 1]
           ELSE Node(root[Split(n)][lo], root[n - Split(n)][lo + Split(n)])]
  IN  root

Root(leaves) == IF leaves = <<>> THEN EmptyRoot ELSE Roots(leaves)[Len(leaves)][0]

(* The siblings on the way from leaf i up to the root: path[n][lo] is the  *)
(* way to the root of the n leaves after the first lo.                     *)
InclusionProof(leaves, i) ==
  LET path[n \in 0..Len(leaves)] ==
        [lo \in Nat |->
           IF n <= 1 THEN <<>>
           ELSE IF i <= lo + Split(n)
                THEN Append(path[Split(n)][lo], Roots(leaves)[n - Split(n)][lo + Split(n)])
                ELSE Append(path[n - Split(n)][lo + Split(n)], Roots(leaves)[Split(n)][lo])]
  IN  path[Len(leaves)][0]

NoRoot == <<"none">>

(* The root that `proof' leads to from the hash of leaf i of n, or none if *)
(* the proof has the wrong length.  The code walks down from the top and   *)
(* takes the siblings from the end of the proof; this one forgets to.      *)
ProofRootForward(hash, i, n, proof) ==
  LET climb[size \in 0..n] ==
        [at \in Nat |-> [used \in Nat |->
           IF size <= 1 THEN (IF used = Len(proof) THEN hash ELSE NoRoot)
           ELSE IF used >= Len(proof) THEN NoRoot
           ELSE IF at <= Split(size)
                THEN Node(climb[Split(size)][at][used + 1], proof[used + 1])
                ELSE Node(proof[used + 1], climb[size - Split(size)][at - Split(size)][used + 1])]]
  IN  climb[n][i][0]

ProofRoot(hash, i, n, proof) ==
  LET climb[size \in 0..n] ==
        [at \in Nat |-> [used \in Nat |->
           IF size <= 1 THEN (IF used = Len(proof) THEN hash ELSE NoRoot)
           ELSE IF used >= Len(proof) THEN NoRoot
           ELSE IF at <= Split(size)
                THEN Node(climb[Split(size)][at][used + 1], proof[Len(proof) - used])
                ELSE Node(proof[Len(proof) - used],
                          climb[size - Split(size)][at - Split(size)][used + 1])]]
  IN  climb[n][i][0]

Verifies(hash, i, n, proof, root) == i <= n /\ ProofRoot(hash, i, n, proof) = root

=============================================================================
