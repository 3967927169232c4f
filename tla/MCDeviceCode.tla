----------------------------- MODULE MCDeviceCode -----------------------------
(***************************************************************************)
(* DeviceCode for TLC.  Durations are scaled down, in the order the code   *)
(* has them: intervals below and above the budget, expiries that are       *)
(* omitted, negative, zero, short, long and past the last instant.         *)
(***************************************************************************)
EXTENDS DeviceCode

StatedExpiries  == {{}, {-1}, {0}, {3}, {6}, {30}}
StatedIntervals == {{}, {-1}, {1}, {4}}
=============================================================================
