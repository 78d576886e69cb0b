-------------------------- MODULE MCQueueDispatch --------------------------
(* QueueDispatch on small fleets.                                          *)
EXTENDS QueueDispatch, TLC

CONSTANTS j1, j2, p1, p2

\* Jobs and printers are interchangeable: no property and no action names one.
JobSymmetry == Permutations(Jobs)
FleetSymmetry == JobSymmetry \cup Permutations(Printers)
=============================================================================
