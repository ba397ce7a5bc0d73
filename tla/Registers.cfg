CONSTANTS
  Base = 4
  NoValue = NoValue
  Configs <- SmallConfigs
  Found <- FoundRegisters
  Sample <- SmallArrays
SPECIFICATION Spec
INVARIANTS
  TypeOK
  LayoutsAgree
  FieldsAreWhereNamed
  SendsIfMapFits
  InputSetsWhatFits
