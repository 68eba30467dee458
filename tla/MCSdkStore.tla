------------------------------ MODULE MCSdkStore ------------------------------
(* Instances of SdkStore for TLC. *)
EXTENDS SdkStore, TLC

CONSTANTS v1, v2, v3, g1, g2

\* The first 8 hex digits of two version ids agree.
TagClash == v1 :> g1 @@ v2 :> g1 @@ v3 :> g2
=============================================================================
