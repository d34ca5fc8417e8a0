\* The documented fate of a repeat: the code files the entry under the text
\* OpenRouter read, and looks it up under the one read locally.
SPECIFICATION Spec
CONSTANTS
  Jobs = {j1, j2}
  short = short
  partial = partial
  good = good
  none = none
  part = part
  full = full
  Nothing = Nothing
  Texts <- MCTexts
  Extracts <- MCExtracts
  ParseOf <- MCParseOf
  ShortTexts = {short}
  NoItems = none
  CompleteExtracts = {full}
  Strict = TRUE
  Tokens <- MCTokens
  Charges = {0, 1}
INVARIANTS
  RepeatHits
