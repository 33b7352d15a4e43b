CONSTANTS
  maxKeySize = 2
  maxValueSize = 3
  maxAttributesSize = 8
  maxAttributeCount = 2
  maxExtensionsSize = 6
  Inputs <- MCInputs
  mapSlack = 9
  TruncateFirst = TRUE
  MaxAppends = 2
  MaxFaults = 1
SPECIFICATION Spec
INVARIANTS TypeOK Reopens PlacesRead
PROPERTY LogImplements
