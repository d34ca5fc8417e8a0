SPECIFICATION Spec
CONSTANTS Invoices = {i1}
INVARIANTS
  TimeoutIsFailed
