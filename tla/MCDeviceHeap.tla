---------------------------- MODULE MCDeviceHeap ----------------------------
(* DeviceHeap for TLC: the variables of the program are alike. *)
EXTENDS DeviceHeap, TLC

VarsAlike == Permutations(Vars)
=============================================================================
