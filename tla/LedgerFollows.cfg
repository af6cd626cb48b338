SPECIFICATION Spec
CONSTANTS
  Chains <- MCChains
  Others <- MCOthers
  Us = "us"
  Invokers = {"b"}
  States = {"s0", "s1", "s2"}
  FirstState = "s0"
  OurKeys = {"ku"}
  MaxCrashes = 2
  None = None
INVARIANTS
  TypeOK
  UpToDateIsCertified
  SubjectIsReplay
  
  OwnerHasKeys
PROPERTY
  HistoryKept
