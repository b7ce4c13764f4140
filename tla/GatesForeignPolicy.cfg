SPECIFICATION GatesSpec
CONSTANTS
  InputQuestions <- SomeNetwork
  InputDecisions <- SomeDecisions
  InputRequests <- SomeRequests
  MaxServed = 2
INVARIANT RequestsKeepRules
