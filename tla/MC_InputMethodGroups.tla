------------------------- MODULE MC_InputMethodGroups -------------------------
(***************************************************************************)
(* Instances of InputMethodGroups: three input methods, of which two may   *)
(* be missing, and the names that buildDefaultGroup and a user give.       *)
(***************************************************************************)
EXTENDS InputMethodGroups

CONSTANTS default, group1, group2, us, de, pinyin

AllNames == {default, group1, group2}
TwoNames == {default, group1}
Numbers == <<group1, group2>>
OneNumber == <<group1>>

AllMethods == {us, de, pinyin}
OnlyUs == {us}
AllKeyboards == {us, de}

FewLists == {<<>>, <<us, pinyin>>, <<pinyin, de>>, <<us, us, de>>}
NoLists == {}
Pinyin == <<pinyin>>
Nothing == <<>>

OneLayout == {<<us>>}
TwoLayouts == {<<us, de>>}

Section(name, list, im, layout) ==
  [name |-> name, list |-> list, default |-> im, layout |-> layout]

\* Profiles edited by hand or written by another version: an order that names a
\* group without items; an order that misses one group, which stands in two
\* sections; no order, and a section without a layout.
Edited ==
  { [order |-> <<group1, default>>,
     sections |-> <<Section(default, <<us, pinyin>>, us, us),
                    Section(group1, <<>>, None, us)>>],
    [order |-> <<group1>>,
     sections |-> <<Section(default, <<us, de>>, de, us),
                    Section(group1, <<us>>, None, us),
                    Section(default, <<pinyin>>, pinyin, us)>>],
    [order |-> <<>>,
     sections |-> <<Section(group1, <<us, pinyin>>, None, None),
                    Section(default, <<pinyin, us>>, None, us)>>] }

NoFile == {}
=============================================================================
