------------------------ MODULE MC_MessageSendQueue ------------------------
(* Three entries, a buffer of two frames per direction, one injected loss *)
(* and one disconnect: enough for an entry to be retransmitted while an   *)
(* earlier copy or its ACK is still on the wire, for a disconnect to       *)
(* requeue several waiting entries ahead of queued ones, and for an ACK to *)
(* overtake the completion of the write it answers.                        *)
EXTENDS MessageSendQueue, TLC
=============================================================================
