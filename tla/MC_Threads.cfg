SPECIFICATION SpecAll
CONSTANTS
  f1 = f1
  f2 = f2
  f3 = f3
  Functor <- Functors
  Guarded <- WithContext
  AttachBound = 2
  WlEventBound = 2
  XEventBound = 2
  ReplyBound = 2
  OfferBound = 3
INVARIANTS
  ReadsMatched
  XOrder
PROPERTIES
  IsFunctorQueue
  EventuallyServed
  EventsDispatched
  RemovalEnds
  XEventsProcessed
  XRemovalEnds
  OnlyCurrentText
  NoTaskLeft
  ReaderEnds
CHECK_DEADLOCK FALSE
