-------------------------------- MODULE Ac97 --------------------------------
(***************************************************************************)
(* The Linux sound driver doc/systems/linux/ac97/rtx_ac97.c: probe with    *)
(* each of its failures, remove, and the module's load and unload.         *)
(*                                                                         *)
(* The PCI core (external) probes and removes one device at a time for each*)
(* slot of the bus, but the probes of two devices may overlap: one plugged *)
(* in while the driver is being registered for another.  They share the    *)
(* static dev_idx, which the probe reads several times and increments in   *)
(* two accesses.                                                           *)
(***************************************************************************)
EXTENDS Integers

CONSTANTS
  PciDevs,
  SNDRV_CARDS,     \* the length of the module's parameter tables
  Disabled         \* the entries for which rtx_ac97_enable is zero

ASSUME CardsAssumption == SNDRV_CARDS \in Nat /\ Disabled \subseteq 0..SNDRV_CARDS - 1

VARIABLES
  registered,      \* pci_register_driver was called
  dev_idx,
  ppc, idx,        \* of each probe: the next step, dev_idx as last loaded
  enabled,         \* of each device: calls of pci_enable_device not undone
  chip,            \* "none", "kzalloc" when allocated, "device" once ALSA has it
  card, drvdata,   \* does its card exist? is it the driver data of the device?
  slot,            \* the table entry the card was created with
  taken,           \* history: table entries the probes have used up
  overlapped       \* history: have two probes run at once since the load?

pciVars == <<enabled, chip, card, drvdata, slot>>
ac97Vars == <<registered, dev_idx, ppc, idx, pciVars, taken, overlapped>>

Ac97Init ==
  /\ registered = FALSE /\ dev_idx = 0
  /\ ppc = [d \in PciDevs |-> "out"] /\ idx = [d \in PciDevs |-> 0]
  /\ enabled = [d \in PciDevs |-> 0] /\ chip = [d \in PciDevs |-> "none"]
  /\ card = [d \in PciDevs |-> FALSE] /\ drvdata = [d \in PciDevs |-> FALSE]
  /\ slot = [d \in PciDevs |-> 0]
  /\ taken = 0 /\ overlapped = FALSE

Probing == {d \in PciDevs : ppc[d] # "out"}
ProbeGoto(d, label) == ppc' = [ppc EXCEPT ![d] = label]
-----------------------------------------------------------------------------
\* rtx_ac97_init: a fresh module has its statics as they are written.
Ac97Load ==
  /\ ~ registered /\ registered' = TRUE
  /\ dev_idx' = 0 /\ taken' = 0 /\ overlapped' = FALSE
  /\ UNCHANGED <<ppc, idx, pciVars>>

\* rtx_ac97_exit: the core has removed the devices.
Ac97Unload ==
  /\ registered /\ registered' = FALSE
  /\ Probing = {} /\ \A d \in PciDevs : ~ drvdata[d]
  /\ UNCHANGED <<dev_idx, ppc, idx, pciVars, taken, overlapped>>

\* The core calls probe for a device without a driver.
ProbeCall(d) ==
  /\ registered /\ ppc[d] = "out" /\ ~ drvdata[d]
  /\ overlapped' = (overlapped \/ Probing # {})
  /\ ProbeGoto(d, "limit")
  /\ UNCHANGED <<registered, dev_idx, idx, pciVars, taken>>

ProbeLimit(d) ==
  /\ ppc[d] = "limit"
  /\ ProbeGoto(d, IF dev_idx >= SNDRV_CARDS THEN "out" ELSE "enable")
  /\ UNCHANGED <<registered, dev_idx, idx, pciVars, taken, overlapped>>

\* rtx_ac97_enable[dev_idx]: past the end of the table it may be anything.
ProbeEnable(d) ==
  /\ ppc[d] = "enable"
  /\ \/ dev_idx \notin Disabled /\ ProbeGoto(d, "card") /\ UNCHANGED idx
     \/ /\ dev_idx \in Disabled \/ dev_idx >= SNDRV_CARDS
        /\ idx' = [idx EXCEPT ![d] = dev_idx] /\ ProbeGoto(d, "store")
  /\ UNCHANGED <<registered, dev_idx, pciVars, taken, overlapped>>

\* dev_idx++, of a probe that succeeded or met a disabled entry.
ProbeStore(d) ==
  /\ ppc[d] = "store"
  /\ dev_idx' = idx[d] + 1 /\ taken' = taken + 1
  /\ ProbeGoto(d, "out")
  /\ UNCHANGED <<registered, idx, pciVars, overlapped>>
-----------------------------------------------------------------------------
\* snd_card_create with the entries of dev_idx, as it is now.
CardCreate(d) ==
  /\ ppc[d] = "card"
  /\ \/ /\ card' = [card EXCEPT ![d] = TRUE] /\ slot' = [slot EXCEPT ![d] = dev_idx]
        /\ ProbeGoto(d, "pci_enable")
     \/ ProbeGoto(d, "out") /\ UNCHANGED <<card, slot>>
  /\ UNCHANGED <<registered, dev_idx, idx, enabled, chip, drvdata, taken, overlapped>>

\* rtx_ac97_create.
PciEnable(d) ==
  /\ ppc[d] = "pci_enable"
  /\ \/ enabled' = [enabled EXCEPT ![d] = @ + 1] /\ ProbeGoto(d, "kzalloc")
     \/ ProbeGoto(d, "fail") /\ UNCHANGED enabled
  /\ UNCHANGED <<registered, dev_idx, idx, chip, card, drvdata, slot, taken, overlapped>>

\* Without memory, create disables the device itself.
ChipAlloc(d) ==
  /\ ppc[d] = "kzalloc"
  /\ \/ chip' = [chip EXCEPT ![d] = "kzalloc"] /\ ProbeGoto(d, "device") /\ UNCHANGED enabled
     \/ /\ enabled' = [enabled EXCEPT ![d] = @ - 1] /\ ProbeGoto(d, "fail")
        /\ UNCHANGED chip
  /\ UNCHANGED <<registered, dev_idx, idx, card, drvdata, slot, taken, overlapped>>

\* rtx_ac97_free.
Ac97Free(d) ==
  enabled' = [enabled EXCEPT ![d] = @ - 1] /\ chip' = [chip EXCEPT ![d] = "none"]

\* Mutant: a refused chip is left to the destructor of the card.
DeviceNew_NoFree(d) ==
  /\ ppc[d] = "device"
  /\ \/ chip' = [chip EXCEPT ![d] = "device"] /\ ProbeGoto(d, "register") /\ UNCHANGED enabled
     \/ ProbeGoto(d, "fail") /\ UNCHANGED <<enabled, chip>>
  /\ UNCHANGED <<registered, dev_idx, idx, card, drvdata, slot, taken, overlapped>>

\* snd_device_new makes ALSA the owner of the chip; refused, create frees it.
DeviceNew(d) ==
  /\ ppc[d] = "device"
  /\ \/ chip' = [chip EXCEPT ![d] = "device"] /\ ProbeGoto(d, "register") /\ UNCHANGED enabled
     \/ Ac97Free(d) /\ ProbeGoto(d, "fail")
  /\ UNCHANGED <<registered, dev_idx, idx, card, drvdata, slot, taken, overlapped>>

\* Mutant: a card that is registered is not counted.
CardRegister_NoCount(d) ==
  /\ ppc[d] = "register"
  /\ \/ drvdata' = [drvdata EXCEPT ![d] = TRUE] /\ ProbeGoto(d, "out") /\ UNCHANGED idx
     \/ ProbeGoto(d, "fail") /\ UNCHANGED <<drvdata, idx>>
  /\ UNCHANGED <<registered, dev_idx, enabled, chip, card, slot, taken, overlapped>>

\* snd_card_register, pci_set_drvdata and the load of dev_idx++.
CardRegister(d) ==
  /\ ppc[d] = "register"
  /\ \/ /\ drvdata' = [drvdata EXCEPT ![d] = TRUE]
        /\ idx' = [idx EXCEPT ![d] = dev_idx] /\ ProbeGoto(d, "store")
     \/ ProbeGoto(d, "fail") /\ UNCHANGED <<drvdata, idx>>
  /\ UNCHANGED <<registered, dev_idx, enabled, chip, card, slot, taken, overlapped>>

\* snd_card_free calls rtx_ac97_dev_free for the chip that ALSA owns.
SndCardFree(d) ==
  /\ card' = [card EXCEPT ![d] = FALSE]
  /\ IF chip[d] = "device" THEN Ac97Free(d) ELSE UNCHANGED <<enabled, chip>>

ProbeFail(d) ==
  /\ ppc[d] = "fail"
  /\ SndCardFree(d) /\ ProbeGoto(d, "out")
  /\ UNCHANGED <<registered, dev_idx, idx, drvdata, slot, taken, overlapped>>

\* rtx_ac97_remove.
Ac97Remove(d) ==
  /\ registered /\ ppc[d] = "out" /\ drvdata[d]
  /\ SndCardFree(d) /\ drvdata' = [drvdata EXCEPT ![d] = FALSE]
  /\ UNCHANGED <<registered, dev_idx, ppc, idx, slot, taken, overlapped>>

Ac97Probe(d) ==
  \/ ProbeCall(d) \/ ProbeLimit(d) \/ ProbeEnable(d) \/ ProbeStore(d)
  \/ CardCreate(d) \/ PciEnable(d) \/ ChipAlloc(d) \/ DeviceNew(d)
  \/ CardRegister(d) \/ ProbeFail(d)

Ac97Next ==
  \/ Ac97Load \/ Ac97Unload
  \/ \E d \in PciDevs : Ac97Probe(d) \/ Ac97Remove(d)

Ac97Spec == Ac97Init /\ [][Ac97Next]_ac97Vars
-----------------------------------------------------------------------------
\* Whichever step of probe fails, and whatever the probes of other devices do in
\* between, what probe has taken is given back once: outside of probe a device is
\* enabled, has its chip and its card exactly if it is bound to the driver
\* (rtx_ac97.c:66-103, 129-165 and 168-173).
TakenIsGivenBack ==
  \A d \in PciDevs : ppc[d] = "out" =>
    IF drvdata[d] THEN enabled[d] = 1 /\ chip[d] = "device" /\ card[d]
    ELSE enabled[d] = 0 /\ chip[d] = "none" /\ ~ card[d]

\* As long as no two probes overlap, dev_idx counts the entries used up, no card
\* is created with an entry past the tables, and cards that exist at the same
\* time have entries of their own (rtx_ac97.c:121-129 and 155).
SlotPerCard ==
  ~ overlapped =>
    /\ dev_idx = taken /\ dev_idx <= SNDRV_CARDS
    /\ \A d \in PciDevs : card[d] => slot[d] \in (0..SNDRV_CARDS - 1) \ Disabled
    /\ \A d, e \in PciDevs : card[d] /\ card[e] /\ slot[d] = slot[e] => d = e
=============================================================================
