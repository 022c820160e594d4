------------------------------ MODULE MCClient ------------------------------
(***************************************************************************)
(* Two dial rounds may be handled at one time, next to one conversation    *)
(* round.  The channels hold one entry, so that the second /dial or text   *)
(* may have to wait.                                                       *)
(***************************************************************************)
EXTENDS Client

MCSlots == [svc \in Service |-> IF svc = "dial" THEN 2 ELSE 1]
=============================================================================
