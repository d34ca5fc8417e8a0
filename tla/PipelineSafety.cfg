\* Three uploads, two prep workers, an OCR worker and a Jev worker, channels of
\* one slot; IngestBuffer 0 exercises applyDefaults.  Two calls of Shutdown.
SPECIFICATION Spec
CONSTANTS
  Jobs = {j1, j2, j3}
  NoJob = NoJob
  Stoppers = {d1, d2}
  PrepN = 2
  OCRN = 1
  JevN = 1
  IngestBuffer = 0
  OCRBuffer = 1
  JevBuffer = 1
SYMMETRY JobSymmetry
INVARIANTS
  TypeOK
  OnePlace
  StageOrder
  ContextLifetime
  ShutdownKeeps
  CloseCascade
PROPERTIES
  NoSendOnClosed
  ImplementsService
