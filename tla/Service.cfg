\* One upload; sources that say three things at most.
SPECIFICATION SFairSpec
CONSTANTS
  Invoices = {i1}
  Sources <- MCSources
INVARIANTS
  STypeOK
  LoadIsSound
  PartsOutliveJobs
PROPERTIES
  AcceptedSettles
  StopEnds
