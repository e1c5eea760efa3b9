SPECIFICATION AttachSpec
CONSTANTS
  Devices = {d1, d2, d3}
  MaxOthers = 3
  Nobody = Nobody
  Other = Other
  PciDevs = {pci1, pci2}
  SNDRV_CARDS = 4
  Disabled = {1}
  ETHERMIN = 46
  ETHERMTU = 1500
  Mtus = {45, 46, 1500, 1501}
SYMMETRY DeviceSymmetry
INVARIANTS CountRight NamesInOrder TakenIsGivenBack SlotPerCard AttachOutcome
CHECK_DEADLOCK FALSE
