---------------------------- MODULE MCMerkleTree ----------------------------
(* Constants of the run of MerkleTree: a hash is the pair of its inputs. *)
EXTENDS MerkleTree

CONSTANTS empty, v

MCValues == {empty, v}
MCHash(a, b) == <<a, b>>
\* siblings, a cousin and a leaf of the other half, of both parities
MCWritten == {0, 1, 3, 6}
MCParallels == {1, 2}

=============================================================================
