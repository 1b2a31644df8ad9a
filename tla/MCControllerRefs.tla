-------------------------- MODULE MCControllerRefs --------------------------
(* Instances of ControllerRefs for TLC.                                    *)
EXTENDS ControllerRefs

CONSTANTS a, b, object
=============================================================================
