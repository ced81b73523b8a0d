SPECIFICATION FairSpec
CONSTANTS
  p = p
  q = q
  member = member
  stranger = stranger
  None = None
  Events <- MCEvents
  Messages <- MCMessages
  AuthEnabled = TRUE
  Grants <- MCGrants
  CollisionsEnabled = FALSE
  Accepted <- MCAccepted
  OutboundBuffer = 1
  DispatchBatch = 2
  MaxEvents = 2
  MaxMessages = 2
INVARIANTS LossAccounted DeliveredAsAsked
PROPERTIES DeliverySpec FanOutUnblocked PendingFlushed Reaped
CHECK_DEADLOCK FALSE
