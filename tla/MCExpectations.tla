--------------------------- MODULE MCExpectations ---------------------------
(* Instances of Expectations for TLC.                                      *)
EXTENDS Expectations

CONSTANTS head
=============================================================================
