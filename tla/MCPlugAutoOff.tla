---------------------------- MODULE MCPlugAutoOff ----------------------------
(* PlugAutoOff for a few prints, drying cycles and timers.                 *)
EXTENDS PlugAutoOff
=============================================================================
