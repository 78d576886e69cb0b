------------------------------ MODULE MCSliceJobs ------------------------------
(* SliceJobs for a few slices.                                             *)
EXTENDS SliceJobs, TLC

CONSTANTS s1, s2, p1, p2

\* Poll callbacks are interchangeable.
PollSymmetry == Permutations(Polls)
=============================================================================
