CONSTANTS
  Requests = {r1, r2}
  NumUploads = 2
  Required = {1}
  Templated = {2}
  Names = {n1}
  Outputs = {1, 2}
  WaitForPipes = FALSE
SPECIFICATION Spec
INVARIANTS
  TypeOK
  InputsIntact
  UploadsHaveOwner
  FailedRunsLeaveNoOutput
  AnsweredMeansReaped
  HandlesClosed
PROPERTIES
  KeptOutputsStay
  NamedLossesHaveRival
  ImplementsLiveContract
