CONSTANTS
  Requests = {r1, r2}
  NumUploads = 2
  Required = {1}
  Templated = {2}
  Names = {n1}
  Outputs = {1}
  WaitForPipes = FALSE
SPECIFICATION Spec
INVARIANT
  TimeoutIs504
