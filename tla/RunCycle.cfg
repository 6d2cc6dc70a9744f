SPECIFICATION FairSpec
CONSTANTS
  Bindings <- MCBindings
  Sizable <- MCSizable
  SeqMod = 4
  TxRetries = 2
  TxWindow = 2
  RxWindow = 1
  RxEvery = 3
  Interval = 4
  Jitter = 6
  Word = 16
  Entropy <- MCEntropy
  SampleMax = 1
  SendMax = 2
  HandlerMax = 1
  None = None
INVARIANTS
  WakeBounded
  GapsAreLosses
  ListenCadence
  DeclaredOrFaulted
PROPERTIES
  AlwaysSleepsAgain
  LedgerSpec
