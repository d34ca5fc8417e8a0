\* Three uploads, one worker per stage, channels of one slot: a stage function
\* that hangs in the OCR worker blocks the prep worker at its send.
SPECIFICATION FairSpec
CONSTANTS
  Jobs = {j1, j2, j3}
  NoJob = NoJob
  Stoppers = {d1}
  PrepN = 1
  OCRN = 1
  JevN = 1
  IngestBuffer = 1
  OCRBuffer = 1
  JevBuffer = 1
PROPERTIES
  AcceptedSettles
  CallsReturn
