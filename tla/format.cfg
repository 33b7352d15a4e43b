CONSTANTS
  maxKeySize = 3
  maxValueSize = 4
  maxAttributesSize = 16
  maxAttributeCount = 3
  maxExtensionsSize = 6
  maxField = 2
  maxInt = 99
  MaxBlock = 7
  MaxCell = 3
SPECIFICATION Spec
INVARIANTS ReadsBack PartsAreIncomplete  DecodesExactly ExtensionsExactly 
