-------------------------- MODULE MCOutboxRunner --------------------------
(***************************************************************************)
(* Small instances of OutboxRunner: two rows that share a lane, of which   *)
(* the second may be a send.                                               *)
(***************************************************************************)
EXTENDS OutboxRunner

Two == {1, 2}
OneLane == [r \in Rows |-> 1]
SecondIsSend == {2}
NoSend == {}
=============================================================================
