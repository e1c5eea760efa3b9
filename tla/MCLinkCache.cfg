SPECIFICATION FairSpec
CONSTANTS
  Targets = {hello, lkm, user}
  Scripts <- MCScripts
  Jobs = 1
  MaxKills = 1
  hello = hello  lkm = lkm  user = user
  rti1 = rti1  rti2 = rti2  log1 = log1  log2 = log2
  lkmLinux = lkmLinux  lkmWin = lkmWin  generic = generic  types = types
  Log = Log  Lkm = Lkm  write = write  load = load  device = device
  noValues = noValues  linux = linux  windows = windows
  INCLUDE = INCLUDE  CODE = CODE
  SourceFiles <- MCSourceFiles
  Itfs <- MCItfs
  Protos <- MCProtos
  Withs <- MCWiths
  Pointcuts <- MCPointcuts
  FileItfs <- MCFileItfs
  FileItems <- MCFileItems
INVARIANTS
  RtxBuiltOnItsFiles
  SavedIdsRefer
  SavedNoDuplicates
PROPERTIES
  BuildCompletes
