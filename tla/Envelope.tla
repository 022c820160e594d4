------------------------------ MODULE Envelope ------------------------------
(***************************************************************************)
(* The envelope of the messages between the entry server and its clients.  *)
(* Envelop tags a message with its type and Open makes a message of the    *)
(* tagged type; JSON does the rest and is not modelled.                    *)
(***************************************************************************)

MsgType == {"ConvoRequest", "DialRequest", "BadRequestError", "ConvoError",
            "ConvoResponse", "DialError", "DialBucket", "AnnounceConvoRound",
            "AnnounceDialRound"}

\* The types Envelop has a case for.
Envelops == MsgType

\* The types Open has a case for; any other is an "unknown message type".
Opens == {"ConvoRequest", "DialRequest", "BadRequestError", "ConvoError",
          "ConvoResponse", "DialBucket", "AnnounceConvoRound",
          "AnnounceDialRound"}
=============================================================================
