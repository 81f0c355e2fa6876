------------------------- MODULE MC_InputMethodSwitch -------------------------
(***************************************************************************)
(* Two contexts of one program on two displays, so that both can have      *)
(* focus, and two groups, of which one starts with the other's default.    *)
(***************************************************************************)
EXTENDS InputMethodSwitch, TLC

CONSTANTS ic1, ic2, g1, g2, dummy, program, us, pinyin, rime

Contexts == {ic1, ic2}
OneContext == {ic1}
TwoDisplays == {g1, g2}
OneDisplay == {g1}
NoDisplay == {}
SameProgram2 == [c \in {ic1, ic2, dummy} |-> IF c = dummy THEN None ELSE program]

AllMethods == {us, pinyin, rime}
TwoMethods == {us, pinyin}

Group(list, layout) ==
  [list |-> list, default |-> Normalized(list, None), layout |-> layout]

TwoGroups == <<Group(<<us, pinyin, rime>>, us), Group(<<pinyin, us>>, None)>>
TwoSmallGroups == <<Group(<<us, pinyin>>, us), Group(<<pinyin, us>>, None)>>
OneGroup == <<Group(<<us, pinyin>>, us)>>
SomeLists == {<<>>, <<pinyin, us>>, <<pinyin, rime>>}
NoLists == {}

Symmetric == Permutations(Contexts)

EveryPolicy == {"No", "All", "Program"}
OnlyAll == {"All"}
OnlyNo == {"No"}
OnlyProgram == {"Program"}
Never == {FALSE}
Sometimes == {FALSE, TRUE}
=============================================================================
