SPECIFICATION Spec
CONSTANTS
  ServerOrder <- MCOrder
  Clients = 2
  NumBuckets = 2
  SpanSize = 2
  MaxNoise = 1
  Calls <- MCCalls
  MaxOnions = 3
INVARIANTS IntroductionsDelivered BucketsFilled
