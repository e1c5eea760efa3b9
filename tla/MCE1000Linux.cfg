CONSTANTS
  NB_SND_DESC = 2
  NB_RCV_DESC = 2
  BUF_SIZE_BY_DESC = 8
  SizeofSend = 5
  SizeofRecv = 4
  OffsetofCommand = 4
  CardDesc = 4
  CardCommand = 3
  Page = 12
  MaxCalls = 3
  Causes = {rxt0}
SPECIFICATION DriverSpec
INVARIANTS DmaSafe TaskletWhileOpen CrashNeedsCause NoCauseForgotten XmitOnLiveRing EmptyWhenPassed
PROPERTIES CausesServed HandedOverPassed
