--------------------------- MODULE MCE1000Queues ---------------------------
(* The sizes of the runs keep what matters of the real ones: the send ring  *)
(* that the card walks is longer than NB_SND_DESC, the receive ring is not. *)
EXTENDS E1000Queues
=============================================================================
