\* Two jobs; a text too short to hold items, one that parses in part and one
\* that parses in full; every cache backend and every choice of services.
SPECIFICATION Spec
CONSTANTS
  Jobs = {j1, j2}
  short = short
  partial = partial
  good = good
  none = none
  part = part
  full = full
  Nothing = Nothing
  Texts <- MCTexts
  Extracts <- MCExtracts
  ParseOf <- MCParseOf
  ShortTexts = {short}
  NoItems = none
  CompleteExtracts = {full}
  Strict = TRUE
  Tokens <- MCTokens
  Charges = {0, 1}
SYMMETRY JobSymmetry
INVARIANTS
  TypeOK
  JudgmentIsOfInvoice
  ItemsAreSourced
  ChargesAreShown
  CacheIsConsistent
