SPECIFICATION FairSpec
CONSTANTS
  Slots = 1
  MaxInstances = 4
  MaxFaults = 1
  MaxCrashes = 1
  Procs = {p1, p2}
  None = None
  p1 = p1
  p2 = p2
INVARIANTS
  TypeOK
  NoResultLost
  PassedEvidenceIsOwn
  LeftoversContained
PROPERTIES
  NeverRerun
  ImplementsLedger
  CampaignEnds
