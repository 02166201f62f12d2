-------------------------- MODULE MCAsecContainers --------------------------
(* AsecContainers on small instances.                                       *)
EXTENDS AsecContainers

\* The ids of ASECs, and the images, differ only in their names.
Symmetry == Permutations(AsecIds) \cup Permutations(Images)

\* A bound.  An overlap of the two threads ends what is looked at; a filesystem
\* that was detached with files open is followed until they are closed.
Undisturbed ==
  /\ "overlap" \notin disturbed
  /\ "open" \in disturbed => Cardinality(held) = 1
=============================================================================
