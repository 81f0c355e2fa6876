------------------------------ MODULE InputBuffer ------------------------------
(***************************************************************************)
(* A buffer of typed text.  The text is kept as bytes, the cursor and all   *)
(* positions in the interface count characters, and what leads from one to  *)
(* the other is a table of the sizes of the characters and a cache of their *)
(* sums, which queries fill as far as they need and changes cut off.        *)
(*                                                                         *)
(* A byte is a character and a number, so that a cut through a character    *)
(* shows.                                                                  *)
(***************************************************************************)
EXTENDS Integers, SequencesExt

CONSTANTS
  Width,     \* the size of each character in bytes
  MaxBuffer  \* maxSize_

ASSUME WidthAssumption == \A char \in DOMAIN Width : Width[char] \in 1..4
ASSUME MaxBufferAssumption == MaxBuffer \in Nat \ {0}

VARIABLES
  options,  \* what the buffer was created with
  buf,      \* input_, sz_, cursor_, acc_ and accDirty_
  before,   \* history: the text in front of the cursor
  after     \* history: the text behind it

bufferVars == <<options, buf, before, after>>

BytesOf(text) ==
  LET bytes[n \in 0..Len(text)] ==
        IF n = 0 THEN <<>>
        ELSE bytes[n - 1] \o [k \in 1..Width[text[n]] |-> <<text[n], k>>]
  IN  bytes[Len(text)]

AsciiOnly == "AsciiOnly" \in options
FixedCursor == "FixedCursor" \in options

Size(b) == IF AsciiOnly THEN Len(b.input) ELSE Len(b.sz)

\* The sums up to acc_[i] are filled in behind those that are valid.
EnsureAccTill(b, i) ==
  LET sum[k \in 0..i] ==
        IF k < b.accDirty \/ k = 0 THEN b.acc[k] ELSE sum[k - 1] + b.sz[k]
  IN  IF b.accDirty > i THEN b
      ELSE [b EXCEPT !.accDirty = i + 1,
                     !.acc = [k \in DOMAIN @ |-> IF k <= i THEN sum[k] ELSE @[k]]]

\* acc_.resize(sz_.size() + 1)
Resized(b) ==
  [b EXCEPT !.acc = [k \in 0..Len(b.sz) |-> IF k \in DOMAIN @ THEN @[k] ELSE 0]]

\* The cache as a query for the cursor in bytes leaves it, and its answer.
AtCursor(b) ==
  IF AsciiOnly \/ b.cursor = Size(b) THEN b ELSE EnsureAccTill(b, b.cursor)
CursorByChar(b) ==
  IF AsciiOnly THEN b.cursor
  ELSE IF b.cursor = Size(b) THEN Len(b.input)
  ELSE AtCursor(b).acc[b.cursor]

RangeAt(b, i) ==
  IF AsciiOnly THEN <<i, i + 1>>
  ELSE LET sum == EnsureAccTill(b, i).acc[i] IN <<sum, sum + b.sz[i + 1]>>

BufferInit ==
  /\ options \in SUBSET {"AsciiOnly", "FixedCursor"}
  /\ buf = [input |-> <<>>, sz |-> <<>>, cursor |-> 0, acc |-> [k \in {0} |-> 0], accDirty |-> 0]
  /\ before = <<>> /\ after = <<>>

Inserted(s, at, what) == SubSeq(s, 1, at) \o what \o SubSeq(s, at + 1, Len(s))
Without(s, from, to) == SubSeq(s, 1, from) \o SubSeq(s, to + 1, Len(s))

\* typeImpl, for a text that is neither refused nor too long
TypedInto(b, text) ==
  LET widths == [i \in DOMAIN text |-> Width[text[i]]]
      dirty  == IF b.cursor > 0 THEN b.cursor - 1 ELSE 0
      new    == [AtCursor(b) EXCEPT !.input = Inserted(@, CursorByChar(b), BytesOf(text)),
                                    !.cursor = @ + Len(text)]
  IN  IF AsciiOnly THEN new
      ELSE Resized([new EXCEPT !.sz = Inserted(@, b.cursor, widths),
                               !.accDirty = IF @ > dirty THEN dirty ELSE @])

TypeText(text) ==
  /\ AsciiOnly => \A i \in DOMAIN text : Width[text[i]] = 1
  /\ Len(text) + Size(buf) <= MaxBuffer
  /\ buf' = TypedInto(buf, text)
  /\ before' = before \o text
  /\ UNCHANGED <<options, after>>

CursorAfter(c, from, to) ==
  IF c <= from THEN c ELSE IF c <= to THEN from ELSE c - (to - from)

Cut(b, from, to) ==
  LET known == IF AsciiOnly THEN b ELSE EnsureAccTill(b, to)
      first == IF AsciiOnly THEN from ELSE known.acc[from]
      last  == IF AsciiOnly THEN to ELSE known.acc[to]
  IN  [known EXCEPT !.input = Without(@, first, last), !.cursor = CursorAfter(@, from, to)]

\* Mutant of Erased: the sums behind the gap are taken for valid.
Erased_KeepsSums(b, from, to) ==
  IF AsciiOnly THEN Cut(b, from, to)
  ELSE Resized([Cut(b, from, to) EXCEPT !.sz = Without(@, from, to)])

Erased(b, from, to) ==
  IF AsciiOnly THEN Cut(b, from, to)
  ELSE Resized([Cut(b, from, to) EXCEPT !.sz = Without(@, from, to), !.accDirty = from])

\* The part of from..to that is behind the first n characters, counted from there.
Behind(n, c) == IF c > n THEN c - n ELSE 0
Ahead(n, c) == IF c < n THEN c ELSE n

\* erase; backspace, del and clear are cases of it
Erase(from, to) ==
  /\ from < to /\ to <= Size(buf)
  /\ FixedCursor => to = Size(buf)
  /\ buf' = Erased(buf, from, to)
  /\ LET n == Len(before)
     IN  /\ before' = Without(before, Ahead(n, from), Ahead(n, to))
         /\ after' = Without(after, Behind(n, from), Behind(n, to))
  /\ UNCHANGED options

\* Callers stay inside of the text.
PlaceCursor(c) ==
  /\ c <= Size(buf)
  /\ ~FixedCursor
  /\ buf' = [buf EXCEPT !.cursor = c]
  /\ before' = SubSeq(before \o after, 1, c)
  /\ after' = SubSeq(before \o after, c + 1, Len(before \o after))
  /\ UNCHANGED options

\* rangeAt, viewAt, charAt
Look(i) ==
  /\ i < Size(buf) /\ ~AsciiOnly
  /\ buf' = EnsureAccTill(buf, i)
  /\ UNCHANGED <<options, before, after>>

BufferNext ==
  \/ \E text \in BoundedSeq(DOMAIN Width, 2) : TypeText(text)
  \/ \E from, to \in 0..MaxBuffer : Erase(from, to)
  \/ \E c \in 0..MaxBuffer : PlaceCursor(c) \/ Look(c)

BufferSpec == BufferInit /\ [][BufferNext]_bufferVars
-----------------------------------------------------------------------------

(***************************************************************************)
(* "Byte range for character at position i", "Cursor position by char      *)
(* (byte)": whatever is typed, erased and looked at, in any order, the      *)
(* bytes are those of the text, the cursor stands between the same two      *)
(* characters in either unit, and the ranges that the cache yields cut the  *)
(* bytes into the characters of the text.                                   *)
(***************************************************************************)
RangesFit ==
  LET text == before \o after
  IN  /\ buf.input = BytesOf(text)
      /\ buf.cursor = Len(before)
      /\ CursorByChar(buf) = Len(BytesOf(before))
      /\ \A i \in 1..Len(text) :
           LET range == RangeAt(buf, i - 1)
           IN  /\ range[2] <= Len(buf.input)
               /\ SubSeq(buf.input, range[1] + 1, range[2]) = BytesOf(<<text[i]>>)
=============================================================================
