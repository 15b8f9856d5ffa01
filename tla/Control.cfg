SPECIFICATION ControlSpec
CONSTANTS
  Callers = {a, b}
  Lines <- MCLines
  Rates = {44, 48}
  OpusHz = 48
  IntRange = 256
  NoNumber = NoNumber
  MaxCommands = 2
  Threads = {j, n}
  JavaThreads = {j}
  Clients = {c1, c2}
  MaxServices = 2
  MaxStreamers = 2
  Dumpers = {d1, d2}
  MaxPipelines = 2
  MaxRefs = 9
INVARIANTS
  ControlTypeOK
  EffectIsWhatWasAsked
  RefsAccounted
  CallsUseLiveRefs
  ThreadLeftAsFound
  RefsAreHeld
  StreamsAreReachable
  LiveServiceIsServed
PROPERTIES
  KeepsPromise
CHECK_DEADLOCK FALSE
