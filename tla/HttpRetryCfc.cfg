\* CfcClient.send_request with the default policy.
SPECIFICATION Spec
CONSTANTS
  MaxErrorRetry = 3
  MaxDelay = 20000
  BaseInterval = 300
  CountsRetries = FALSE
  FileBody = FALSE
  MaxAttempts = 6
INVARIANT AttemptsBounded
