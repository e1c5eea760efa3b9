CONSTANTS
  NB_SND_DESC = 256
  NB_RCV_DESC = 256
  BUF_SIZE_BY_DESC = 2048
  SizeofSend = 20
  SizeofRecv = 16
  OffsetofCommand = 12
  CardDesc = 16
  CardCommand = 11
  Page = 4096
  MaxCalls = 2
SPECIFICATION Spec
INVARIANT SentInOrder
