SPECIFICATION SpecInScope
CONSTANTS
  default = default
  group1 = group1
  group2 = group2
  us = us
  de = de
  pinyin = pinyin
  None = None
  KeyboardUs = us
  DefaultName = default
  GroupName <- AllNames
  NumberedName <- Numbers
  InputMethod <- AllMethods
  Keyboard <- OnlyUs
  Preferred <- Pinyin
  Lists <- FewLists
  Layouts <- OneLayout
  HandWritten <- Edited
  MaxGroups = 3
INVARIANTS
  OrderMatchesGroups
  OffersUsable
  ProfileRoundTrip
PROPERTIES
  ChangesBracketed
  RingKept
