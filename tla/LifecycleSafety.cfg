\* Two uploads, every stop of the process, clients that leave, deadlines.
SPECIFICATION Spec
CONSTANTS Invoices = {i1, i2}
SYMMETRY InvoiceSymmetry
INVARIANTS
  TypeOK
  UploadIsWhole
  OneWriter
  ResultsReachRow
PROPERTIES
  StatusForward
  KeepsPromises
