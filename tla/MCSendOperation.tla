-------------------------- MODULE MCSendOperation --------------------------
(* The send operation for TLC; its constants are numbers and Booleans.     *)
EXTENDS SendOperation
=============================================================================
