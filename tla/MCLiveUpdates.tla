----------------------------- MODULE MCLiveUpdates -----------------------------
(* LiveUpdates for one tab.                                                *)
EXTENDS LiveUpdates
=============================================================================
