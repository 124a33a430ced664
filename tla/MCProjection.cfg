CONSTANTS
  p1 = p1
  p2 = p2
  w1 = w1
  w2 = w2
  w3 = w3
  m1 = m1
  m2 = m2
  m3 = m3
  e1 = e1
  e2 = e2
  Pods = {p1, p2}
  Workers = {w1, w2, w3}
  PodOf <- MCPodOf
  Messages = {m1, m2, m3}
  Events = {e1, e2}
  EventOf <- MCEventOf
  Malformed = {}
  Unprojectable = {e2}
  NoMessage = NoMessage
  Prefetch = 1
  MaxStops = 1
  MaxDbFaults = 1
  MaxFailovers = 1
SPECIFICATION FairSpec
INVARIANTS TypeOK EffectOnce AckedIsApplied EachMessageOnce OneLiveHandler StopsNeverDeadLetter
PROPERTIES ImplementsLedger EveryMessageSettles
