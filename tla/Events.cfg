CONSTANTS
  s1 = s1
  s2 = s2
  Subs = {s1, s2}
  MaxEvents = 2
  Wants <- MCWants
  NoEvent = NoEvent
  NoSub = NoSub
  Handlers = {s1}
  Items <- MCItems
SPECIFICATION GLiveSpec
CHECK_DEADLOCK FALSE
INVARIANTS
  TypeOK
  NoLostWakeup
  SubscriberMissesNothing
  CounterMatchesMap
  NoDoubleClose
  StreamIsExact
PROPERTIES
  SignalReturnsAlways
  CancelledLoopsEnd
  LeftClientsAreReleased
  StreamsDelivered
