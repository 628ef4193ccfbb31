--------------------------- MODULE MCDigestClaim ----------------------------
(***************************************************************************)
(* Instances of DigestClaim for TLC.                                       *)
(***************************************************************************)
EXTENDS DigestClaim, TLC

\* The days are of one week, that began with the first.
OneWeek == [d \in 1 .. MaxDay |-> 1]

MCSymmetry == Permutations(Runs)
=============================================================================
