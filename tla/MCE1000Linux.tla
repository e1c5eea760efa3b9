---------------------------- MODULE MCE1000Linux ----------------------------
(* A send ring of two descriptors that the card, whose descriptors are the  *)
(* smaller ones, walks as one of three, as the real sizes make it walk past *)
(* the driver's end; three frames go round it.  One interrupt cause is      *)
(* enough for a cause to be recorded while the tasklet forgets the ones it  *)
(* has tested for; the proofs have any number.                              *)
EXTENDS E1000Linux
=============================================================================
