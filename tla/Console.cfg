SPECIFICATION ConsoleSpec
CONSTANTS
  Ids = {x1}
  MaxCalls = 2
  None = None
INVARIANTS
  ConsoleTypeOK
  
  OneCreation
  WizardOrder
  BusyIsReal
PROPERTIES
  KeyIsShown
