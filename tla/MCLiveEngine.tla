---------------------------- MODULE MCLiveEngine ----------------------------
(* Finite instances of LiveEngine for TLC. *)
EXTENDS LiveEngine

CONSTANTS up, down, o1, o2

OneAsset  == [o \in Orders |-> up]
TwoAssets == [o \in Orders |-> IF o = o1 THEN up ELSE down]

=============================================================================
