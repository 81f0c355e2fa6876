SPECIFICATION SpecAll
CONSTANTS
  composing = composing
  empty = empty
  x = x
  y = y
  z = z
  ic1 = ic1
  ic2 = ic2
  ic3 = ic3
  g1 = g1
  g2 = g2
  None = None
  InputContext <- ThreeContexts
  FocusGroup <- TwoDisplays
  ExitWhenMainDisplayDisconnected = TRUE
  Preedit <- OnePreedit
  Empty = empty
  MaxText = 4
  MaxPending = 4
  Table <- ThreeAddons
  Catalogs <- AllCatalogs
  MaxWords = 4
  PageSizes = {2, 3}
  Watchers = {w1, w2}
  Owners = {o1, o2}
  NoOwner = none
  Untold = untold
  MaxSignals = 3
  Preferences <- SomePreferences
  MaxNews = 3
  Characters <- AllCharacters
  Letters = {"a", "b"}
  DeadKeys = {"grave", "acute"}
  OtherChars = {"A1", "A2", "A3", "w"}
  Relatives <- SomeRelatives
  ComposeTable <- ComposeInThree
  Offers <- FewOffers
  BufferLimit = 3
  Width <- TwoWidths
  MaxBuffer = 4
  Applications = {app}
  SomeFlags = {"base", "password"}
  BaseFlags = "base"
  Nobody = nobody
  GrabbedKeys = {"letter", "enter"}
  RepeatingKeys = {"letter", "enter"}
  TextKeys = {"letter"}
PROPERTY
  DeadKeysKept
CHECK_DEADLOCK FALSE
