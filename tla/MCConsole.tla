------------------------------ MODULE MCConsole ------------------------------
(* Two flows of different threat classes for TLC. *)
EXTENDS Console

CONSTANTS f1, f2

Classes == (f1 :> "Botnet C2 Beaconing") @@ (f2 :> "DGA & DNS Tunneling")
=============================================================================
