---------------------------- MODULE MCSubmission ----------------------------
(***************************************************************************)
(* Instances of Submission for TLC: two contents of one size and one that  *)
(* is too large.                                                           *)
(***************************************************************************)
EXTENDS Submission, TLC

CONSTANTS first, second, big

MCContents == {first, second, big}
MCSize == (first :> 1) @@ (second :> 1) @@ (big :> 2)

\* The contents of one size are interchangeable too.
Symmetry ==
    Permutations(Runs) \union Permutations(Handlers) \union Permutations({first, second})

=============================================================================
