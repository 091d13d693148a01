\* bce_http_client.send_request with the default policy and a file body.
SPECIFICATION FairSpec
CONSTANTS
  MaxErrorRetry = 3
  MaxDelay = 1000
  BaseInterval = 300
  CountsRetries = TRUE
  FileBody = TRUE
  MaxAttempts = 6
INVARIANTS WholeBody
PROPERTIES BackoffDoubles RepeatsOnlyInDoubt ImplementsBoundedRetry
