------------------------------ MODULE MCAttach ------------------------------
(* How a device of three drivers comes up and goes: MySerial, rtx_ac97 and  *)
(* rl8029.  They share nothing, so a behaviour is one of a single driver.   *)
EXTENDS MySerialPnp, Ac97, Rl8029, TLC

VARIABLE driver

AttachVars == <<driver, vars, ac97Vars, rlnVars>>

AttachInit ==
  /\ driver \in {"MySerial", "rtx_ac97", "rln"}
  /\ Init /\ Ac97Init /\ RlnInit

AttachNext ==
  \/ driver = "MySerial" /\ Next /\ UNCHANGED <<driver, ac97Vars, rlnVars>>
  \/ driver = "rtx_ac97" /\ Ac97Next /\ UNCHANGED <<driver, vars, rlnVars>>
  \/ driver = "rln" /\ RlnNext /\ UNCHANGED <<driver, vars, ac97Vars>>

AttachSpec == AttachInit /\ [][AttachNext]_AttachVars

DeviceSymmetry == Permutations(Devices) \cup Permutations(PciDevs)
=============================================================================
