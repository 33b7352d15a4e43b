CONSTANTS
  Tools = {t1}
  Sources <- MCSources
  OthersCreate = TRUE
  OthersOpen = TRUE
  MaxFiles = 5
  MaxRecords = 2
  MaxFaults = 1
  MaxDeaths = 1
SPECIFICATION Spec
CHECK_DEADLOCK FALSE
INVARIANTS TypeOK DestinationWhole InexpressibleLeavesDst
PROPERTY Delivers
