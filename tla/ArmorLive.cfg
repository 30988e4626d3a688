CONSTANTS
  s1 = s1
  s2 = s2
  t1 = t1
  NoSerial = NoSerial
  NoIfs = NoIfs
  NoDevice = NoDevice
  Nobody = Nobody
  Model <- MCModel
  Serial = {}
  Interface <- MCInterface
  HidInterface <- MCHid
  HubInterface <- MCHub
  Scanner <- MCScanner
  Truster <- MCTruster
  Port <- MCPort
  RootPort <- MCRootPort
  Device <- MCDevice
  Retry = 1
  Setting <- LiveSettings
SPECIFICATION FairSpec
PROPERTIES ExposureEnds
