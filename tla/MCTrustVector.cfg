CONSTANTS
  NoSerial = NoSerial
  NoIfs = NoIfs
  Model <- MCModel
  Serial <- MCSerial
  Interface <- MCInterface
  HidInterface <- MCHid
  HubInterface <- MCHub
  Listed <- MCListed
  FileEntry <- MCFileEntry
  MaxFileLen = 2
  MaxConnected = 2
SPECIFICATION Spec
INVARIANTS SetVouches SameVerdicts MigrationIsExact MergedAreTrusted
