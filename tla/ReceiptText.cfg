\* Every text of up to four lines out of thirteen.
SPECIFICATION Spec
CONSTANTS
  Nothing = Nothing
  Names <- MCNames
  Lines <- MCLines
  MaxLines = 4
INVARIANTS
  TypeOK
  LoopReadsMeaning
  CleaningKeepsMeaning
