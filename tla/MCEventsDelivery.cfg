\* Two processes, two events of one channel, one callback: the loop that stands still
\* after the first event.
CONSTANTS
  Node = {n1, n2}
  None = None
  c1 = c1
  e1 = e1
  e2 = e2
  Channel <- MCChannel
  Event <- MCTwoEvents
  channel <- MCchannel
  MaxSubs = 1
SPECIFICATION FairBusSpec
PROPERTY QueuedIsDelivered
