SPECIFICATION SpecInScope
CONSTANTS
  ic1 = ic1
  dummy = dummy
  program = program
  us = us
  pinyin = pinyin
  rime = rime
  ctrl = ctrl
  space = space
  f1 = f1
  None = None
  Dummy = dummy
  KeyboardUs = us
  InputContext <- OneContext
  FocusGroup <- NoDisplay
  Program <- AProgram
  Lists <- NoLists
  Policies <- OnlyNo
  PasswordAllowed <- Never
  ActiveByDefault = FALSE
  EnumerateSkipFirst = FALSE
  ResetStateWhenFocusIn = "No"
  Modifier <- Control
  EnumerateWithTriggerKeys = TRUE
  ConsumeRedundantActivateKeys = FALSE
  InputMethod <- AllMethods
  InitialGroups <- ThreeGroups
  PlainKey <- TwoKeys
  HotKeyConfigs <- Separate
  SelectorKeys <- SelectorFirst
  TourBound = 4
  LosesKeys <- Lossy
INVARIANTS
  HeldTriggerVisitsAll
PROPERTIES
  ModifierAloneActs
  TipIsKept
