CONSTANTS
  Pods = {a, b}
  Trails = {{2}, {3}}
  Buffer = 1
  FeedLength = 2
  MaxEvents = 3
  MaxRequests = 2
  MaxFaults = 1
SPECIFICATION FairSpec
INVARIANTS TypeOK FeedInOrder FeedComplete SendsMeetOpenChannels
PROPERTIES CatchesUp SubscriptionsEnd
