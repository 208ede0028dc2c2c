\* Every file of up to three stanzas.
CONSTANTS
  Prefixes = {"gen"}
  Images = {}
  Files <- MCFiles
  Categories <- MCCategories
  EventNames <- MCEventNames
SPECIFICATION Spec
CHECK_DEADLOCK FALSE
INVARIANTS
  OrderIrrelevant
  OneStanza
