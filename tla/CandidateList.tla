----------------------------- MODULE CandidateList -----------------------------
(***************************************************************************)
(* CommonCandidateList: the candidates of an engine, cut into pages, with a *)
(* cursor that may be on another page than the one that is shown.  Indexes  *)
(* count from 0, as in the code.  A word is "plain", a "holder" (the cursor *)
(* passes over it) or "hidden" (a filter leaves it out).                    *)
(***************************************************************************)
EXTENDS Integers, Sequences, SequencesExt, Filter

CONSTANTS
  MaxWords,     \* bound on the length of the list
  PageSizes     \* the page sizes that are set

ASSUME CandidateAssumption ==
  MaxWords \in Nat /\ PageSizes \subseteq Nat \ {0} /\ PageSizes # {}

Words == {"plain", "holder", "hidden"}
AfterPaging == {"DonotChange", "ResetToFirst", "SameAsLast"}

VARIABLES
  words,          \* candidateWord_
  filtered,       \* filteredCandidateWord_ has a value
  pageSize,
  currentPage,
  cursorIndex,    \* cursorIndex_, -1 when nothing is selected
  paging          \* cursorIncludeUnselected_, cursorKeepInSamePage_, ...

listVars == <<words, filtered, pageSize, currentPage, cursorIndex, paging>>

ListInit ==
  /\ words = <<>> /\ filtered = FALSE
  /\ pageSize \in PageSizes
  /\ currentPage = 0 /\ cursorIndex = -1
  /\ paging \in [includeUnselected : BOOLEAN, keepInSamePage : BOOLEAN,
                 after : AfterPaging]

-----------------------------------------------------------------------------
\* What is seen of the list.

Unhidden == Kept(words, Words \ {"hidden"})
Shown == IF filtered THEN Unhidden ELSE words
TotalSize == Len(Shown)
TotalPages == (TotalSize + pageSize - 1) \div pageSize

PageBegin(page) == page * pageSize

\* size(): the candidates on a page, none if it is beyond the last.
PageLength(page) ==
  LET remain == TotalSize - PageBegin(page)
  IN  IF remain > pageSize THEN pageSize ELSE IF remain < 0 THEN 0 ELSE remain

\* cursorIndex() is not -1.
OnPage(cursor, page) == cursor >= 0 /\ cursor \div pageSize = page

\* setPage, from a page and a cursor to those it leaves; fixCursorAfterPaging
\* carries the cursor over if it was shown.
Turned(cursor, page, to) ==
  [page |-> to,
   cursor |->
     IF to = page \/ ~OnPage(cursor, page) \/ paging.after = "DonotChange" THEN cursor
     ELSE IF paging.after = "ResetToFirst" THEN PageBegin(to)
     ELSE PageBegin(to) + (IF cursor % pageSize >= PageLength(to)
                           THEN PageLength(to) - 1 ELSE cursor % pageSize)]

\* fixAfterUpdate, for a list of so many words.
FixAfterUpdate(total) ==
  LET pages == (total + pageSize - 1) \div pageSize
  IN  /\ currentPage' = IF currentPage >= pages /\ currentPage > 0
                        THEN IF pages > 0 THEN pages - 1 ELSE 0
                        ELSE currentPage
      /\ cursorIndex' = IF cursorIndex >= total THEN 0 ELSE cursorIndex

\* Every change of the words clears the filter first, which looks at the cursor
\* while the words are still the old ones.
ClearFilter ==
  IF filtered THEN FixAfterUpdate(Len(words)) ELSE UNCHANGED <<currentPage, cursorIndex>>

-----------------------------------------------------------------------------
\* The walk of the cursor.

\* The first index of the rotation and how many it has.
RotationBase(page) == IF paging.keepInSamePage THEN PageBegin(page) ELSE 0
RotationEnd(page) ==
  IF paging.keepInSamePage THEN PageBegin(page) + PageLength(page) - 1 ELSE TotalSize - 1

\* Mutant of Stride: the wrap lands one before the end.
Stride_ShortWrap(at, prev) ==
  IF ~OnPage(at.cursor, at.page)
  THEN [at EXCEPT !.cursor = PageBegin(at.page)
                               + (IF prev THEN PageLength(at.page) - 1 ELSE 0)]
  ELSE LET next == at.cursor + (IF prev THEN -1 ELSE 1)
           base == RotationBase(at.page)
           end == RotationEnd(at.page)
           cursor == IF next \in base..end THEN next
                     ELSE IF paging.includeUnselected THEN -1
                     ELSE IF prev THEN (IF end > 0 THEN end - 1 ELSE end) ELSE base
       IN  IF paging.keepInSamePage \/ cursor < 0 THEN [at EXCEPT !.cursor = cursor]
           ELSE Turned(cursor, at.page, cursor \div pageSize)

\* The body of the loop in moveCursor.
Stride(at, prev) ==
  IF ~OnPage(at.cursor, at.page)
  THEN [at EXCEPT !.cursor = PageBegin(at.page)
                               + (IF prev THEN PageLength(at.page) - 1 ELSE 0)]
  ELSE LET next == at.cursor + (IF prev THEN -1 ELSE 1)
           base == RotationBase(at.page)
           end == RotationEnd(at.page)
           cursor == IF next \in base..end THEN next
                     ELSE IF paging.includeUnselected THEN -1
                     ELSE IF prev THEN end ELSE base
       IN  IF paging.keepInSamePage \/ cursor < 0 THEN [at EXCEPT !.cursor = cursor]
           ELSE Turned(cursor, at.page, cursor \div pageSize)

Here == [cursor |-> cursorIndex, page |-> currentPage]

(***************************************************************************)
(* moveCursor: strides until the cursor is on a word that is no placeholder *)
(* or nowhere; if it comes back to where it was before, everything stays.   *)
(***************************************************************************)
MoveCursor(start, prev) ==
  LET walk[n \in 0..(TotalSize + 2)] ==
        IF n = 0 THEN [at |-> start, seen |-> {}, ends |-> PageLength(start.page) = 0]
        ELSE LET was == walk[n - 1]
                 to == Stride(was.at, prev)
                 seen == was.seen \cup {was.at.cursor}
             IN  IF was.ends THEN was
                 ELSE IF to.cursor \in seen
                 THEN [at |-> start, seen |-> seen, ends |-> TRUE]
                 ELSE [at |-> to, seen |-> seen,
                       ends |-> to.cursor < 0 \/ Shown[to.cursor + 1] # "holder"]
  IN  walk[TotalSize + 2].at

-----------------------------------------------------------------------------

\* prevCandidate and nextCandidate.
WalkCandidates ==
  \E prev \in BOOLEAN :
    /\ currentPage' = MoveCursor(Here, prev).page
    /\ cursorIndex' = MoveCursor(Here, prev).cursor
    /\ UNCHANGED <<words, filtered, pageSize, paging>>

\* prev, next and setPage.
SetPage ==
  \E page \in 0..(TotalPages - 1) :
    /\ currentPage' = page
    /\ cursorIndex' = Turned(cursorIndex, currentPage, page).cursor
    /\ UNCHANGED <<words, filtered, pageSize, paging>>

SetPageSize ==
  /\ pageSize' \in PageSizes
  /\ currentPage' = 0
  /\ UNCHANGED <<words, filtered, cursorIndex, paging>>

\* setGlobalCursorIndex
SetCursor ==
  /\ cursorIndex' \in {-1} \cup 0..(TotalSize - 1)
  /\ UNCHANGED <<words, filtered, pageSize, currentPage, paging>>

\* insert and append do not look at the page or the cursor.
InsertWord ==
  /\ Len(words) < MaxWords
  /\ \E w \in Words, i \in 1..(Len(words) + 1) : words' = InsertAt(words, i, w)
  /\ filtered' = FALSE
  /\ ClearFilter
  /\ UNCHANGED <<pageSize, paging>>

RemoveWord ==
  /\ \E i \in DOMAIN words : words' = RemoveAt(words, i)
  /\ filtered' = FALSE
  /\ FixAfterUpdate(Len(words) - 1)
  /\ UNCHANGED <<pageSize, paging>>

\* replace; move, which is a rotation, is a number of these.
ReplaceWord ==
  /\ \E w \in Words, i \in DOMAIN words : words' = [words EXCEPT ![i] = w]
  /\ filtered' = FALSE
  /\ ClearFilter
  /\ UNCHANGED <<pageSize, paging>>

\* clear() leaves the page and the cursor to whoever fills the list again.
ClearWords ==
  /\ words' = <<>>
  /\ filtered' = FALSE
  /\ ClearFilter
  /\ UNCHANGED <<pageSize, paging>>

SetFilter ==
  /\ filtered' = TRUE
  /\ FixAfterUpdate(Len(Unhidden))
  /\ UNCHANGED <<words, pageSize, paging>>

UnsetFilter ==
  /\ filtered' = FALSE
  /\ ClearFilter
  /\ UNCHANGED <<words, pageSize, paging>>

\* Engines and modules that show the list set these once, before they fill it.
ListNext ==
  \/ WalkCandidates \/ SetPage \/ SetPageSize \/ SetCursor
  \/ InsertWord \/ RemoveWord \/ ReplaceWord \/ ClearWords \/ SetFilter \/ UnsetFilter

ListSpec == ListInit /\ [][ListNext]_listVars

-----------------------------------------------------------------------------

Selectable(cursor) == cursor \in 0..(TotalSize - 1) /\ Shown[cursor + 1] # "holder"

\* What repeating the walk in one direction comes to.
Reached(prev) ==
  LET after[n \in 0..(TotalSize + 2)] ==
        IF n = 0 THEN Here ELSE MoveCursor(after[n - 1], prev)
  IN  {after[n].cursor : n \in 1..(TotalSize + 2)}

\* All there is to walk to: the words of the list, or of the page that is shown.
Targets ==
  {c \in IF paging.keepInSamePage
         THEN PageBegin(currentPage)..(PageBegin(currentPage) + pageSize - 1)
         ELSE 0..(TotalSize - 1) : Selectable(c)}

\* Whatever is inserted, removed, filtered and paged before: from a cursor that is
\* shown, or from none, either direction comes to all words that can be selected
\* and to nothing else, and a step is taken back by one in the other direction.
\* Not all words are claimed when the end of many pages means that nothing is
\* selected, from where the walk goes on with the page that is shown.
CursorWalks ==
  PageLength(currentPage) > 0 /\ (cursorIndex < 0 \/ OnPage(cursorIndex, currentPage)) =>
    \A prev \in BOOLEAN :
      /\ Reached(prev) \ {-1, cursorIndex} \subseteq Targets
      /\ paging.keepInSamePage \/ ~paging.includeUnselected => Targets \subseteq Reached(prev)
      /\ Selectable(cursorIndex) => MoveCursor(MoveCursor(Here, prev), ~prev) = Here

=============================================================================
