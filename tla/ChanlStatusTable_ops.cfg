CONSTANTS
  Targets = {0, 2}
  Pkts = {0, 1}
  MaxPuts = 2
SPECIFICATION Spec
INVARIANTS
  TransmissionsCounted
  AckedWasAcknowledged
  FactorMatchesDefinition
