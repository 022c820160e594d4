--------------------------- MODULE MCConversation ---------------------------
(***************************************************************************)
(* Alice types two texts, so that their queue (of capacity 1) fills up;    *)
(* the first just fits into a message and the second does not.  Both users *)
(* switch once, from themselves to the other or to themselves again, at    *)
(* any time.                                                               *)
(***************************************************************************)
EXTENDS Conversation

MCTexts    == [u \in User |-> IF u = "alice" THEN 2 ELSE 0]
MCLengths  == <<1, 2>>
MCSwitches == [u \in User |-> 1]
=============================================================================
