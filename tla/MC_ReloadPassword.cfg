SPECIFICATION Spec
CONSTANTS
  ic1 = ic1
  ic2 = ic2
  g1 = g1
  g2 = g2
  dummy = dummy
  program = program
  us = us
  pinyin = pinyin
  rime = rime
  None = None
  Dummy = dummy
  KeyboardUs = us
  InputContext <- Contexts
  Program <- SameProgram2
  FocusGroup <- OneDisplay
  InputMethod <- TwoMethods
  Lists <- NoLists
  InitialGroups <- OneGroup
  Policies <- OnlyNo
  PasswordAllowed <- Sometimes
  ActiveByDefault = TRUE
  EnumerateSkipFirst = FALSE
  ResetStateWhenFocusIn = "No"
SYMMETRY Symmetric
INVARIANTS
  DeactivationAsserted
