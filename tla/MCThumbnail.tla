----------------------------- MODULE MCThumbnail -----------------------------
(* Instances of ThumbnailService for TLC. *)
EXTENDS ThumbnailService, TLC

CONSTANTS b1, b2, m1, t1, t2, r1, r2

OneConnection == {Bambu} \ {{}}
TwoConnections == {{d} : d \in Bambu}

\* Tasks and requests are interchangeable; the properties name none of them.
Symmetry == Permutations(Tasks) \cup Permutations(Requests)
=============================================================================
