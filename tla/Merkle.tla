------------------------------- MODULE Merkle -------------------------------
(***************************************************************************)
(* The Merkle tree of an epoch (merkle.py): leaves in order, the last node *)
(* of an odd level paired with itself.  A hash is the term it is computed  *)
(* from.                                                                   *)
(***************************************************************************)
EXTENDS Naturals, Sequences, SequencesExt, FiniteSets

Leaf(h) == [leaf |-> h]

Node(l, r) == [left |-> l, right |-> r]

\* Mutant: the last node of an odd level is left out.
PadDown(level) == IF Len(level) % 2 = 1 THEN Front(level) ELSE level

Pad(level) == IF Len(level) % 2 = 1 THEN Append(level, Last(level)) ELSE level

Up(level) ==
    LET even == Pad(level)
    IN  [i \in 1..(Len(even) \div 2) |-> Node(even[2 * i - 1], even[2 * i])]

\* One round of the loop of merkle_root; a single node is the root.
Round(level) == IF Len(level) = 1 THEN level ELSE Up(level)

\* A tree has fewer rounds than leaves.
Levels(leaves) ==
    LET level[h \in 0..Len(leaves)] ==
          IF h = 0 THEN leaves ELSE Round(level[h - 1])
    IN  level

\* merkle_root of a set of chain hashes, which are numbers in their order as
\* bytes; an epoch has at least one.
Root(hashes) ==
    LET nth(i) == CHOOSE h \in hashes : Cardinality({g \in hashes : g < h}) = i - 1
        leaves == [i \in 1..Cardinality(hashes) |-> Leaf(nth(i))]
    IN  Levels(leaves)[Len(leaves)][1]
=============================================================================
