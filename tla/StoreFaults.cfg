CONSTANTS
  LegacyCards <- AnyCard
  MaxStamp = 5
  Env = {"NewerBuild", "Reset", "WriteFault", "ImportFault", "ReadFault",
         "OtherEntry", "PowerLoss"}
  None = None
SPECIFICATION Spec
INVARIANTS
  TypeOK
  NoTornTotals
  SavesSurvive
PROPERTIES
  NewerSurvives
