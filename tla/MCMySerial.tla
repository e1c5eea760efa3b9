----------------------------- MODULE MCMySerial -----------------------------
(* The two data paths of MySerial.  They share no state but the port, which *)
(* has a register for each, so a behaviour is one of a single path.         *)
EXTENDS MySerialRead, MySerialWrite

VARIABLE path

pathVars == <<path, vars, writeVars>>

PathInit == path \in {"receive", "transmit"} /\ Init /\ WriteInit

Receiving == path = "receive" /\ UNCHANGED <<path, writeVars>>
Transmitting == path = "transmit" /\ UNCHANGED <<path, vars>>

PathNext == (Receiving /\ Next) \/ (Transmitting /\ WriteNext)

\* Fairness and WriteFairness, each on its own path.
PathFairness ==
  /\ WF_pathVars(Receiving /\ Thread)
  /\ SF_pathVars(Receiving /\ ThreadLock)
  /\ \A r \in Readers :
       WF_pathVars(Receiving /\ Read(r)) /\ SF_pathVars(Receiving /\ ReadLock(r))
  /\ WF_pathVars(Transmitting /\ LineSend)
  /\ \A w \in Writers : WF_pathVars(Transmitting /\ EvtIoWrite(w))

PathSpec == PathInit /\ [][PathNext]_pathVars /\ PathFairness
=============================================================================
