SPECIFICATION FairSpec
CONSTANTS
  m1 = m1
  m2 = m2
  m3 = m3
  m4 = m4
  m5 = m5
  good = good
  bad = bad
  anonymous = anonymous
  c1 = c1
  c2 = c2
  NoMessage = NoMessage
  Message = {m1, m2, m3, m4, m5}
  Event = {good, bad, anonymous}
  EventOf <- Events
  Quality <- Qualities
  Known = {good, bad}
  Consumer = {c1, c2}
  MaxAttempts = 4
  DeliveryLimit = 4
  MaxPublished = 2
INVARIANTS DeadIsAccountedFor UnreadableIsKept PoisonedAfterBudget
PROPERTIES ImplementsOnceEffect QueueDrains
CHECK_DEADLOCK FALSE
