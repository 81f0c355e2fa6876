SPECIFICATION Spec
CONSTANTS
  default = default
  group1 = group1
  group2 = group2
  us = us
  de = de
  pinyin = pinyin
  None = None
  KeyboardUs = us
  DefaultName = default
  GroupName <- AllNames
  NumberedName <- Numbers
  InputMethod <- AllMethods
  Keyboard <- AllKeyboards
  Preferred <- Pinyin
  Lists <- NoLists
  Layouts <- TwoLayouts
  HandWritten <- NoFile
  MaxGroups = 3
INVARIANTS
  CurrentGroupFound
