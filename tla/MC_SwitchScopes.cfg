SPECIFICATION SpecInScope
CONSTANTS
  ic1 = ic1
  ic2 = ic2
  g1 = g1
  g2 = g2
  dummy = dummy
  program = program
  us = us
  pinyin = pinyin
  rime = rime
  None = None
  Dummy = dummy
  KeyboardUs = us
  InputContext <- Contexts
  Program <- SameProgram2
  FocusGroup <- OneDisplay
  InputMethod <- AllMethods
  Lists <- NoLists
  InitialGroups <- TwoSmallGroups
  Policies <- OnlyProgram
  PasswordAllowed <- Never
  ActiveByDefault = FALSE
  EnumerateSkipFirst = FALSE
  ResetStateWhenFocusIn = "Program"
SYMMETRY Symmetric
INVARIANTS
  EnginesFollow
  PasswordsStayWithKeyboard
  ToggleHasEffect
  ChoiceIsUsed
PROPERTIES
  StateStaysShared
