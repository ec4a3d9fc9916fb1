--------------------------- MODULE MCDeviceCalls ---------------------------
(* Instances of DeviceCalls for TLC. *)
EXTENDS DeviceCalls, TLC

CONSTANTS pc, phone, desktop

\* One identity with one device, and one with two.
ThreeDevices == {pc, phone, desktop}
TwoIdentities == [d \in Devices |-> IF d = pc THEN "a" ELSE "b"]
TwoOfOne == Permutations({phone, desktop})
=============================================================================
