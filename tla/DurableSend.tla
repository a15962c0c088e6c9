---------------------------- MODULE DurableSend ----------------------------
(***************************************************************************)
(* What a durable send promises, without phases, checkpoints or retries:   *)
(* one message, delivered at most once, and a record of it that never      *)
(* claims more or less than is true.  A record that says "rejected" is     *)
(* final: the message can no longer go out.  One that says "unknown" is    *)
(* the only one a delivery may still follow.                               *)
(***************************************************************************)
EXTENDS Naturals

VARIABLES delivered, verdict

vars == <<delivered, verdict>>

TypeOK ==
  /\ delivered \in {0, 1}
  /\ verdict \in {"open", "accepted", "rejected", "unknown"}

Init == delivered = 0 /\ verdict = "open"

Deliver ==
  /\ delivered = 0 /\ verdict \in {"open", "unknown"}
  /\ delivered' = 1
  /\ UNCHANGED verdict

Accept ==
  /\ verdict = "open" /\ delivered = 1
  /\ verdict' = "accepted"
  /\ UNCHANGED delivered

Reject ==
  /\ verdict = "open" /\ delivered = 0
  /\ verdict' = "rejected"
  /\ UNCHANGED delivered

GiveUp ==
  /\ verdict = "open"
  /\ verdict' = "unknown"
  /\ UNCHANGED delivered

Next == Deliver \/ Accept \/ Reject \/ GiveUp

Spec == Init /\ [][Next]_vars
=============================================================================
