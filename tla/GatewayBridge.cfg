\* One node and a daemon that may take longer than the board waits for it.  A tick
\* stands for 50 ms, rounded against the code: a packet is on the air for 165 ms, a
\* downlink for 110, the windows are 250 and 400 ms.
SPECIFICATION FairSpec
CONSTANTS
  n1 = n1
  None = None
  Nodes = {n1}
  MaxPackets = 6
  UpAir = 4
  DownAir = 3
  NodeWindow = 5
  ReplyWindow = 8
  DaemonMax = 11
  Budget = 1
  SleepMin = 12
INVARIANTS
  NeverDeaf
  RepliesInOrder
  AnsweredInTime
PROPERTIES
  PollNeverWedges
  RepliesLeave
