------------------------------ MODULE MCWebhook -------------------------------
(* Small instances of Webhook for TLC. *)
EXTENDS Webhook

CONSTANTS s1, s2, e1, e2, e3, e4, w1, w2

\* The last two events are for the second session.
MCSessionOf == [e \in Events |-> IF e \in {e1, e2} THEN s1 ELSE s2]
===============================================================================
