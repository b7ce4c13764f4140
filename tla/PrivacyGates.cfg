SPECIFICATION GatesSpec
CONSTANTS
  InputQuestions <- AllInputs
  InputDecisions <- SomeDecisions
  InputRequests <- SomeRequests
  MaxServed = 2
INVARIANTS
  GatesTypeOK
  OwnPoliciesHold
  DecisionKeepsItsScope
  LayersAgree
  MatrixConflictFree
  StricterNeverLoosens
