------------------------------ MODULE MCBulkSend ------------------------------
(* Small instances of BulkSend for TLC. *)
EXTENDS BulkSend, TLC

CONSTANTS s1

\* Every job sends from the one session.
MCSessionOf == [j \in Jobs |-> s1]
===============================================================================
