-------------------------- MODULE ClientEventsProofs --------------------------
(***************************************************************************)
(* TextKept, PreeditSettles and KeyMeetsPreedit, for any amount of text, any *)
(* preedits and any number of events on their way.                         *)
(*                                                                         *)
(* A client is how much text it has and the preedit that it shows, and each *)
(* message leads it from one to another.  The invariant follows it to where *)
(* it will be when it has read all that is sent; what is blocked counts for *)
(* its text alone, because a preedit is read at the moment of delivery.     *)
(* From the same invariant follows that the way to the client implements   *)
(* TextQueue: what is unread is the rest of what was produced.             *)
(*                                                                         *)
(* And TypedTextKept, for what happens to the text before that: any layout, *)
(* any words that are offered and any size of the buffer.  Each call is     *)
(* followed by what it makes of the text that is sent and that waits.       *)
(***************************************************************************)
EXTENDS ClientEvents, KeyboardEngine, FilterProofs, SequenceTheorems, TLAPS

Preedits == Preedit \cup {Empty}

Commits == [type : {"CommitString", "CommitStringWithCursor"}, text : Seq(Nat)]
Keys == [type : {"ForwardKey"}, text : Seq(Nat), at : Preedits]

\* What can be blocked, and what can be on its way.
Events == Commits \cup Keys \cup {Update}
Messages == Commits \cup Keys \cup [type : {"UpdatePreedit"}, preedit : Preedits]

\* text is what is produced after the first from pieces up to the first to.
Numbered(text, from, to) ==
  /\ text \in Seq(Nat)
  /\ Len(text) = to - from
  /\ \A k \in 1..Len(text) : text[k] = from + k

\* The text of events, in a row.
Runs(events, from, to) ==
  \E b \in [0..Len(events) -> Nat] :
    /\ b[0] = from /\ b[Len(events)] = to
    /\ \A i \in 1..Len(events) : Numbered(TextOf(events[i]), b[i - 1], b[i])

Clients == [length : Nat, shown : Preedits]

\* The client c takes m and is d; a key finds the preedit that it was typed to.
Takes(c, m, d) ==
  /\ Numbered(TextOf(m), c.length, d.length)
  /\ d.shown = IF m.type = "UpdatePreedit" THEN m.preedit ELSE c.shown
  /\ m.type = "ForwardKey" /\ m.at # Empty => m.at = c.shown

Reads(msgs, c, d) ==
  \E b \in [0..Len(msgs) -> Clients] :
    /\ b[0] = c /\ b[Len(msgs)] = d
    /\ \A i \in 1..Len(msgs) : Takes(b[i - 1], msgs[i], b[i])

-----------------------------------------------------------------------------

LEMMA NumberedNothing ==
  ASSUME NEW n \in Nat
  PROVE  Numbered(<<>>, n, n)
<1>1. <<>> \in Seq(Nat) /\ Len(<<>>) = 0 /\ 1..0 = {}
  OBVIOUS
<1> QED BY <1>1 DEF Numbered

LEMMA NumberedEmpty ==
  ASSUME NEW m \in Nat, NEW n \in Nat, Numbered(<<>>, m, n)
  PROVE  m = n
<1>1. Len(<<>>) = 0 /\ Len(<<>>) = n - m
  BY DEF Numbered
<1> QED BY <1>1

LEMMA NumberedNext ==
  ASSUME NEW n \in Nat
  PROVE  Numbered(<<n + 1>>, n, n + 1)
<1>1. <<n + 1>> \in Seq(Nat) /\ Len(<<n + 1>>) = 1 /\ <<n + 1>>[1] = n + 1
  OBVIOUS
<1>2. \A k \in 1..1 : k = 1
  OBVIOUS
<1> QED BY <1>1, <1>2 DEF Numbered

LEMMA NumberedMore ==
  ASSUME NEW s, NEW t, NEW l \in Nat, NEW m \in Nat, NEW n \in Nat,
         Numbered(s, l, m), Numbered(t, m, n)
  PROVE  Numbered(s \o t, l, n)
<1> DEFINE st == s \o t
<1>1. /\ s \in Seq(Nat) /\ t \in Seq(Nat)
      /\ Len(s) \in Nat /\ Len(t) \in Nat /\ Len(s) = m - l /\ Len(t) = n - m
  BY DEF Numbered
<1>2. /\ st \in Seq(Nat) /\ Len(st) = Len(s) + Len(t)
      /\ \A k \in 1..(Len(s) + Len(t)) :
           st[k] = IF k <= Len(s) THEN s[k] ELSE t[k - Len(s)]
  BY <1>1, ConcatProperties
<1> HIDE DEF st
<1>3. ASSUME NEW k \in 1..Len(st) PROVE st[k] = l + k
  <2>1. CASE k <= Len(s)
    <3>1. k \in 1..Len(s) /\ k \in 1..(Len(s) + Len(t))
      BY <1>1, <1>2, <2>1
    <3>2. st[k] = s[k]
      BY <1>2, <2>1, <3>1
    <3> QED BY <3>1, <3>2 DEF Numbered
  <2>2. CASE ~(k <= Len(s))
    <3>1. k - Len(s) \in 1..Len(t) /\ st[k] = t[k - Len(s)]
      BY <1>1, <1>2, <2>2
    <3>2. t[k - Len(s)] = m + (k - Len(s))
      BY <3>1 DEF Numbered
    <3> QED BY <1>1, <3>1, <3>2
  <2> QED BY <2>1, <2>2
<1>4. Len(st) = n - l
  BY <1>1, <1>2
<1> QED BY <1>2, <1>3, <1>4 DEF Numbered, st

-----------------------------------------------------------------------------

LEMMA RunsNothing ==
  ASSUME NEW n \in Nat
  PROVE  Runs(<<>>, n, n)
<1> DEFINE b == [i \in 0..0 |-> n]
<1>1. b \in [0..0 -> Nat] /\ b[0] = n /\ Len(<<>>) = 0 /\ 1..0 = {}
  OBVIOUS
<1> HIDE DEF b
<1> QED BY <1>1 DEF Runs

LEMMA RunsEmpty ==
  ASSUME NEW m, NEW n, Runs(<<>>, m, n)
  PROVE  m = n
<1>1. Len(<<>>) = 0
  OBVIOUS
<1> QED BY <1>1 DEF Runs

LEMMA RunsOn ==
  ASSUME NEW S, NEW events \in Seq(S), NEW e \in S, NEW l \in Nat, NEW m \in Nat, NEW n \in Nat,
         Runs(events, l, m), Numbered(TextOf(e), m, n)
  PROVE  Runs(Append(events, e), l, n)
<1> DEFINE more == Append(events, e)
           k == Len(events)
<1>1. PICK b \in [0..k -> Nat] :
        /\ b[0] = l /\ b[k] = m
        /\ \A i \in 1..k : Numbered(TextOf(events[i]), b[i - 1], b[i])
  BY DEF Runs
<1>2. /\ k \in Nat /\ Len(more) = k + 1 /\ more[k + 1] = e
      /\ \A i \in 1..k : more[i] = events[i]
  OBVIOUS
<1> HIDE DEF more, k
<1> DEFINE a == [i \in 0..(k + 1) |-> IF i = k + 1 THEN n ELSE b[i]]
<1>3. /\ a \in [0..(k + 1) -> Nat] /\ a[k + 1] = n
      /\ \A i \in 0..k : a[i] = b[i]
  BY <1>1, <1>2
<1> HIDE DEF a
<1>4. ASSUME NEW i \in 1..(k + 1) PROVE Numbered(TextOf(more[i]), a[i - 1], a[i])
  <2>1. CASE i = k + 1
    <3>1. i - 1 = k /\ k \in 0..k
      BY <1>2, <2>1
    <3> QED BY <1>1, <1>2, <1>3, <2>1, <3>1
  <2>2. CASE i # k + 1
    <3>1. i \in 1..k /\ i \in 0..k /\ i - 1 \in 0..k
      BY <1>2, <2>2
    <3> QED BY <1>1, <1>2, <1>3, <3>1
  <2> QED BY <2>1, <2>2
<1>5. a[0] = l
  BY <1>1, <1>2, <1>3
<1> QED BY <1>2, <1>3, <1>4, <1>5 DEF Runs, more

\* Updates of the preedit are no text.
LEMMA RunsOfUpdates ==
  ASSUME NEW events \in Seq({Update}), NEW m \in Nat, NEW n \in Nat, Runs(events, m, n)
  PROVE  m = n /\ \A l \in Nat : Runs(events, l, l)
<1> DEFINE k == Len(events)
<1>1. PICK b \in [0..k -> Nat] :
        /\ b[0] = m /\ b[k] = n
        /\ \A i \in 1..k : Numbered(TextOf(events[i]), b[i - 1], b[i])
  BY DEF Runs
<1>2. k \in Nat /\ \A i \in 1..k : TextOf(events[i]) = <<>>
  BY DEF TextOf, Update
<1> HIDE DEF k
<1> DEFINE right == [i \in 0..k |-> b[i] = m]
<1>3. right \in [0..k -> BOOLEAN] /\ \A i \in 0..k : right[i] <=> b[i] = m
  OBVIOUS
<1> HIDE DEF right
<1>4. right[0]
  BY <1>1, <1>2, <1>3
<1>5. ASSUME NEW i \in 1..k, right[i - 1] PROVE right[i]
  <2>1. i - 1 \in 0..k /\ i \in 0..k
    BY <1>2
  <2>2. Numbered(<<>>, b[i - 1], b[i])
    BY <1>1, <1>2
  <2>3. b[i - 1] = b[i]
    BY <1>1, <2>1, <2>2, NumberedEmpty
  <2> QED BY <1>3, <1>5, <2>1, <2>3
<1>6. right[k]
  <2>1. \A i \in 0..k : right[i]
    BY <1>2, <1>3, <1>4, <1>5, LeastWrong
  <2> QED BY <1>2, <2>1
<1>7. m = n
  BY <1>1, <1>2, <1>3, <1>6
<1>8. ASSUME NEW l \in Nat PROVE Runs(events, l, l)
  <2> DEFINE a == [i \in 0..k |-> l]
  <2>1. a \in [0..k -> Nat] /\ a[0] = l /\ a[k] = l
    BY <1>2
  <2>2. ASSUME NEW i \in 1..k PROVE Numbered(TextOf(events[i]), a[i - 1], a[i])
    <3>1. i - 1 \in 0..k /\ i \in 0..k
      BY <1>2
    <3>2. a[i - 1] = l /\ a[i] = l
      BY <3>1
    <3> HIDE DEF a
    <3> QED BY <1>2, <3>2, NumberedNothing
  <2> HIDE DEF a
  <2> QED BY <2>1, <2>2 DEF Runs, k
<1> QED BY <1>7, <1>8

-----------------------------------------------------------------------------

LEMMA ReadsNothing ==
  ASSUME NEW c \in Clients
  PROVE  Reads(<<>>, c, c)
<1> DEFINE b == [i \in 0..0 |-> c]
<1>1. b \in [0..0 -> Clients] /\ b[0] = c /\ Len(<<>>) = 0 /\ 1..0 = {}
  OBVIOUS
<1> HIDE DEF b
<1> QED BY <1>1 DEF Reads

LEMMA ReadsEmpty ==
  ASSUME NEW c, NEW d, Reads(<<>>, c, d)
  PROVE  c = d
<1>1. Len(<<>>) = 0
  OBVIOUS
<1> QED BY <1>1 DEF Reads

LEMMA ReadsOn ==
  ASSUME NEW S, NEW msgs \in Seq(S), NEW m \in S,
         NEW c \in Clients, NEW d \in Clients, NEW e \in Clients,
         Reads(msgs, c, d), Takes(d, m, e)
  PROVE  Reads(Append(msgs, m), c, e)
<1> DEFINE more == Append(msgs, m)
           k == Len(msgs)
<1>1. PICK b \in [0..k -> Clients] :
        /\ b[0] = c /\ b[k] = d
        /\ \A i \in 1..k : Takes(b[i - 1], msgs[i], b[i])
  BY DEF Reads
<1>2. /\ k \in Nat /\ Len(more) = k + 1 /\ more[k + 1] = m
      /\ \A i \in 1..k : more[i] = msgs[i]
  OBVIOUS
<1> HIDE DEF more, k
<1> DEFINE a == [i \in 0..(k + 1) |-> IF i = k + 1 THEN e ELSE b[i]]
<1>3. /\ a \in [0..(k + 1) -> Clients] /\ a[k + 1] = e
      /\ \A i \in 0..k : a[i] = b[i]
  BY <1>1, <1>2
<1> HIDE DEF a
<1>4. ASSUME NEW i \in 1..(k + 1) PROVE Takes(a[i - 1], more[i], a[i])
  <2>1. CASE i = k + 1
    <3>1. i - 1 = k /\ k \in 0..k
      BY <1>2, <2>1
    <3> QED BY <1>1, <1>2, <1>3, <2>1, <3>1
  <2>2. CASE i # k + 1
    <3>1. i \in 1..k /\ i \in 0..k /\ i - 1 \in 0..k
      BY <1>2, <2>2
    <3> QED BY <1>1, <1>2, <1>3, <3>1
  <2> QED BY <2>1, <2>2
<1>5. a[0] = c
  BY <1>1, <1>2, <1>3
<1> QED BY <1>2, <1>3, <1>4, <1>5 DEF Reads, more

LEMMA ReadsMore ==
  ASSUME NEW S, NEW s \in Seq(S), NEW t \in Seq(S),
         NEW c \in Clients, NEW d \in Clients, NEW e \in Clients,
         Reads(s, c, d), Reads(t, d, e)
  PROVE  Reads(s \o t, c, e)
<1> DEFINE st == s \o t
           m == Len(s)
           n == Len(t)
<1>1. PICK f \in [0..m -> Clients] :
        /\ f[0] = c /\ f[m] = d
        /\ \A i \in 1..m : Takes(f[i - 1], s[i], f[i])
  BY DEF Reads
<1>2. PICK g \in [0..n -> Clients] :
        /\ g[0] = d /\ g[n] = e
        /\ \A i \in 1..n : Takes(g[i - 1], t[i], g[i])
  BY DEF Reads
<1>3. /\ m \in Nat /\ n \in Nat /\ Len(st) = m + n
      /\ \A k \in 1..(m + n) : st[k] = IF k <= m THEN s[k] ELSE t[k - m]
  BY ConcatProperties
<1> HIDE DEF st, m, n
<1> DEFINE a == [i \in 0..(m + n) |-> IF i <= m THEN f[i] ELSE g[i - m]]
<1>4. a \in [0..(m + n) -> Clients]
  <2>1. ASSUME NEW i \in 0..(m + n), ~(i <= m) PROVE i - m \in 0..n
    BY <1>3, <2>1
  <2>2. ASSUME NEW i \in 0..(m + n), i <= m PROVE i \in 0..m
    BY <1>3, <2>2
  <2> QED BY <1>1, <1>2, <2>1, <2>2
<1>5. \A i \in 0..(m + n) : a[i] = IF i <= m THEN f[i] ELSE g[i - m]
  OBVIOUS
<1> HIDE DEF a
<1>6. ASSUME NEW i \in 0..n PROVE m + i \in 0..(m + n) /\ a[m + i] = g[i]
  <2>1. m + i \in 0..(m + n) /\ (m + i) - m = i
    BY <1>3
  <2>2. CASE i = 0
    <3>1. m + i = m /\ m <= m
      BY <1>3, <2>2
    <3> QED BY <1>1, <1>2, <1>5, <2>1, <2>2, <3>1
  <2>3. CASE i # 0
    <3>1. ~(m + i <= m)
      BY <1>3, <2>3
    <3> QED BY <1>5, <2>1, <3>1
  <2> QED BY <2>2, <2>3
<1>7. ASSUME NEW i \in 1..(m + n) PROVE Takes(a[i - 1], st[i], a[i])
  <2>1. CASE i <= m
    <3>1. i \in 1..m /\ i - 1 <= m /\ i - 1 \in 0..(m + n) /\ i \in 0..(m + n)
      BY <1>3, <2>1
    <3>2. a[i - 1] = f[i - 1] /\ a[i] = f[i] /\ st[i] = s[i]
      BY <1>3, <1>5, <2>1, <3>1
    <3> QED BY <1>1, <3>1, <3>2
  <2>2. CASE ~(i <= m)
    <3> DEFINE j == i - m
    <3>1. j \in 1..n /\ j \in 0..n /\ j - 1 \in 0..n /\ m + j = i /\ m + (j - 1) = i - 1
      BY <1>3, <2>2
    <3>2. st[i] = t[j]
      BY <1>3, <2>2
    <3> HIDE DEF j
    <3>3. a[i] = g[j] /\ a[i - 1] = g[j - 1]
      BY <1>6, <3>1
    <3> QED BY <1>2, <3>1, <3>2, <3>3
  <2> QED BY <2>1, <2>2
<1>8. a[0] = c
  <2> 0 \in 0..(m + n) /\ 0 <= m
    BY <1>3
  <2> QED BY <1>1, <1>5
<1>9. a[m + n] = e
  <2> n \in 0..n
    BY <1>3
  <2> QED BY <1>2, <1>6
<1> QED BY <1>3, <1>4, <1>7, <1>8, <1>9 DEF Reads, st

LEMMA ReadsOne ==
  ASSUME NEW m, NEW c \in Clients, NEW d \in Clients, Takes(c, m, d)
  PROVE  Reads(<<m>>, c, d)
<1>1. <<>> \in Seq({m}) /\ m \in {m} /\ Append(<<>>, m) = <<m>>
  OBVIOUS
<1>2. Reads(Append(<<>>, m), c, d)
  BY <1>1, ReadsNothing, ReadsOn
<1> QED BY <1>1, <1>2

\* The first message, and the rest.
LEMMA ReadsFirst ==
  ASSUME NEW S, NEW msgs \in Seq(S), msgs # <<>>, NEW c, NEW e, Reads(msgs, c, e)
  PROVE  \E d \in Clients : Takes(c, Head(msgs), d) /\ Reads(Tail(msgs), d, e)
<1> DEFINE n == Len(msgs)
           rest == Tail(msgs)
<1>1. PICK b \in [0..n -> Clients] :
        /\ b[0] = c /\ b[n] = e
        /\ \A i \in 1..n : Takes(b[i - 1], msgs[i], b[i])
  BY DEF Reads
<1>2. /\ n \in Nat /\ n # 0 /\ Len(rest) = n - 1 /\ Head(msgs) = msgs[1]
      /\ \A i \in 1..(n - 1) : rest[i] = msgs[i + 1]
  OBVIOUS
<1> HIDE DEF n, rest
<1> DEFINE a == [i \in 0..(n - 1) |-> b[i + 1]]
<1>3. a \in [0..(n - 1) -> Clients]
  <2> \A i \in 0..(n - 1) : i + 1 \in 0..n
    BY <1>2
  <2> QED BY <1>1
<1>4. \A i \in 0..(n - 1) : a[i] = b[i + 1]
  OBVIOUS
<1> HIDE DEF a
<1>5. ASSUME NEW i \in 1..(n - 1) PROVE Takes(a[i - 1], rest[i], a[i])
  <2>1. i \in 0..(n - 1) /\ i - 1 \in 0..(n - 1) /\ (i - 1) + 1 = i /\ i + 1 \in 1..n
        /\ (i + 1) - 1 = i
    BY <1>2
  <2>2. a[i] = b[i + 1] /\ a[i - 1] = b[i] /\ rest[i] = msgs[i + 1]
    BY <1>2, <1>4, <2>1
  <2>3. Takes(b[(i + 1) - 1], msgs[i + 1], b[i + 1])
    BY <1>1, <2>1
  <2> QED BY <2>1, <2>2, <2>3
<1>6. a[0] = b[1] /\ a[n - 1] = e /\ b[1] \in Clients /\ Takes(c, Head(msgs), b[1])
  <2>1. 0 \in 0..(n - 1) /\ n - 1 \in 0..(n - 1) /\ (n - 1) + 1 = n /\ 0 + 1 = 1
        /\ 1 \in 1..n /\ 1 - 1 = 0 /\ 1 \in 0..n
    BY <1>2
  <2>2. Takes(b[1 - 1], msgs[1], b[1])
    BY <1>1, <2>1
  <2> QED BY <1>1, <1>2, <1>4, <2>1, <2>2
<1>7. Reads(rest, b[1], e)
  BY <1>2, <1>3, <1>5, <1>6 DEF Reads
<1> QED BY <1>6, <1>7 DEF rest

-----------------------------------------------------------------------------

Done == [sent : Seq(Messages), buffer : Seq(Nat)]
NothingDone == [sent |-> <<>>, buffer |-> <<>>]

\* An event as it is sent.
AsSent(e) == IF e = Update THEN Shows(clientPreedit) ELSE e

LEMMA EventTypes ==
  ASSUME NEW e \in Events
  PROVE  /\ e = Update <=> e.type = "UpdatePreedit"
         /\ TextOf(e) \in Seq(Nat)
         /\ e.type = "CommitString" => e.text \in Seq(Nat)
         /\ clientPreedit \in Preedits => AsSent(e) \in Messages
<1>1. CASE e \in Commits
  BY <1>1 DEF Commits, Update, TextOf, AsSent, Messages
<1>2. CASE e \in Keys
  BY <1>2 DEF Keys, Update, TextOf, AsSent, Messages
<1>3. CASE e = Update
  <2>1. /\ Update.type = "UpdatePreedit" /\ <<>> \in Seq(Nat)
        /\ clientPreedit \in Preedits => Shows(clientPreedit) \in Messages
    BY DEF Update, Shows, Messages
  <2> QED BY <1>3, <2>1 DEF TextOf, AsSent
<1> QED BY <1>1, <1>2, <1>3 DEF Events

LEMMA FlushedType ==
  ASSUME NEW done \in Done
  PROVE  Flushed(done) \in Done
<1>1. CommitOf(done.buffer) \in Messages
  BY DEF Done, CommitOf, Messages, Commits
<1>2. Append(done.sent, CommitOf(done.buffer)) \in Seq(Messages)
  BY <1>1, AppendProperties DEF Done
<1>3. <<>> \in Seq(Nat)
  OBVIOUS
<1> QED BY <1>2, <1>3 DEF Flushed, Done

LEMMA HandedType ==
  ASSUME NEW done \in Done, NEW e \in Events, clientPreedit \in Preedits
  PROVE  Handed(done, e) \in Done
<1>1. CASE e.type = "CommitString"
  <2>1. done.buffer \in Seq(Nat) /\ e.text \in Seq(Nat)
    BY <1>1, EventTypes DEF Done
  <2>2. done.buffer \o e.text \in Seq(Nat)
    BY <2>1, ConcatProperties
  <2> QED BY <1>1, <2>2 DEF Handed, Done
<1>2. CASE e.type # "CommitString"
  <2>1. Flushed(done).sent \in Seq(Messages)
    BY FlushedType DEF Done
  <2>2. AsSent(e) \in Messages
    BY EventTypes
  <2>3. Append(Flushed(done).sent, AsSent(e)) \in Seq(Messages)
    BY <2>1, <2>2, AppendProperties
  <2>4. <<>> \in Seq(Nat)
    OBVIOUS
  <2> QED BY <1>2, <2>3, <2>4 DEF Handed, Done, AsSent
<1> QED BY <1>1, <1>2

\* g says for each n what is done of the first n events.
Hands(g, events) ==
  /\ g[0] = NothingDone
  /\ \A k \in 1..Len(events) : g[k] = Handed(g[k - 1], events[k])

LEMMA DeliveredSteps ==
  ASSUME NEW events \in Seq(Events), clientPreedit \in Preedits
  PROVE  \E g \in [0..Len(events) -> Done] :
           Hands(g, events) /\ Delivered(events) = Flushed(g[Len(events)]).sent
<1> DEFINE n == Len(events)
           Steps(f) == [k \in 0..n |->
                          IF k = 0 THEN [sent |-> <<>>, buffer |-> <<>>]
                          ELSE Handed(f[k - 1], events[k])]
           step == [a \in (1..n) \X Done |-> Handed(a[2], events[a[1]])]
           f == CHOOSE h : h = Steps(h)
<1>0. n \in Nat /\ \A k \in 1..n : events[k] \in Events
  OBVIOUS
<1>1. step \in [(1..n) \X Done -> Done]
  <2> HIDE DEF n
  <2>1. \A a \in (1..n) \X Done : a[1] \in 1..n /\ a[2] \in Done
    OBVIOUS
  <2>2. \A a \in (1..n) \X Done : Handed(a[2], events[a[1]]) \in Done
    BY <1>0, <2>1, HandedType
  <2> QED BY <2>2
<1>2. NothingDone \in Done
  BY DEF NothingDone, Done
<1>3. PICK g \in [0..n -> Done] : Iterates(g, NothingDone, step, n)
  <2> HIDE DEF step, n
  <2> QED BY <1>0, <1>1, <1>2, RecursionExists
<1>4. ASSUME NEW k \in 1..n
      PROVE  g[k] = Handed(g[k - 1], events[k])
  <2>1. k - 1 \in 0..n
    BY <1>0
  <2>2. g[k - 1] \in Done
    BY <2>1
  <2>3. g[k] = step[<<k, g[k - 1]>>]
    BY <1>3 DEF Iterates
  <2> QED BY <2>2, <2>3
<1>5. g = Steps(g)
  <2>1. ASSUME NEW k \in 0..n
        PROVE  g[k] = Steps(g)[k]
    <3>1. CASE k = 0
      BY <1>3, <3>1 DEF Iterates, NothingDone
    <3>2. CASE k # 0
      <4>1. k \in 1..n
        BY <3>2
      <4> QED BY <1>4, <3>2, <4>1
    <3> QED BY <3>1, <3>2
  <2>2. DOMAIN g = 0..n /\ g = [k \in 0..n |-> g[k]]
    OBVIOUS
  <2> QED BY <2>1, <2>2
<1>6. f = Steps(f)
  <2> HIDE DEF Steps
  <2> QED BY <1>5
<1>7. Delivered(events) = Flushed(f[n]).sent
  BY DEF Delivered
<1> HIDE DEF f
<1>8. DOMAIN f = 0..n /\ \A k \in 0..n : f[k] = Steps(f)[k]
  <2> DOMAIN Steps(f) = 0..n
    OBVIOUS
  <2> HIDE DEF Steps
  <2> QED BY <1>6
<1>9. Hands(f, events)
  <2>1. f[0] = NothingDone
    BY <1>0, <1>8 DEF NothingDone
  <2>2. ASSUME NEW k \in 1..n
        PROVE  f[k] = Handed(f[k - 1], events[k])
    <3>1. k \in 0..n /\ k # 0
      BY <1>0
    <3> QED BY <1>8, <3>1
  <2> QED BY <2>1, <2>2 DEF Hands
<1>10. f \in [0..n -> Done]
  <2> DEFINE right == [k \in 0..n |-> f[k] \in Done]
  <2>1. right \in [0..n -> BOOLEAN] /\ \A k \in 0..n : right[k] <=> f[k] \in Done
    <3>1. right \in [0..n -> BOOLEAN]
      OBVIOUS
    <3>2. \A k \in 0..n : right[k] <=> f[k] \in Done
      OBVIOUS
    <3> QED BY <3>1, <3>2
  <2> HIDE DEF right
  <2>2. right[0]
    BY <1>0, <1>2, <1>9, <2>1 DEF Hands
  <2>3. ASSUME NEW k \in 1..n, right[k - 1]
        PROVE  right[k]
    <3>1. k - 1 \in 0..n /\ k \in 0..n
      BY <1>0
    <3>2. f[k - 1] \in Done
      BY <2>1, <2>3, <3>1
    <3>3. f[k] = Handed(f[k - 1], events[k])
      BY <1>9 DEF Hands
    <3>4. f[k] \in Done
      BY <1>0, <3>2, <3>3, HandedType
    <3> QED BY <2>1, <3>1, <3>4
  <2>4. \A k \in 0..n : right[k]
    <3> HIDE DEF n
    <3> QED BY <1>0, <2>1, <2>2, <2>3, LeastWrong
  <2>5. f = [k \in 0..n |-> f[k]]
    <3>1. Steps(f) = [k \in 0..n |-> Steps(f)[k]]
      OBVIOUS
    <3> HIDE DEF Steps
    <3> QED BY <3>1, <1>6
  <2> QED BY <2>1, <2>4, <2>5
<1> QED BY <1>7, <1>9, <1>10

-----------------------------------------------------------------------------

\* A client that has read what is sent, and would have the text up to n with what
\* is buffered.
ReadsDone(done, c, d, n) ==
  Reads(done.sent, c, d) /\ Numbered(done.buffer, d.length, n)

\* A commit of what is buffered leads the client up to n.
LEMMA FlushedReads ==
  ASSUME NEW done \in Done, NEW c \in Clients, NEW d \in Clients, NEW n \in Nat,
         ReadsDone(done, c, d, n)
  PROVE  \E x \in Clients : /\ Reads(Flushed(done).sent, c, x)
                            /\ x.length = n /\ x.shown = d.shown
<1>1. CASE done.buffer = <<>>
  <2>1. d.length \in Nat
    BY DEF Clients
  <2>2. d.length = n
    BY <1>1, <2>1, NumberedEmpty DEF ReadsDone
  <2> QED BY <1>1, <2>2 DEF Flushed, ReadsDone
<1>2. CASE done.buffer # <<>>
  <2> DEFINE x == [length |-> n, shown |-> d.shown]
             m == CommitOf(done.buffer)
  <2>1. x \in Clients /\ x.length = n /\ x.shown = d.shown
    BY DEF Clients
  <2>2. m \in Messages /\ done.sent \in Seq(Messages)
    BY DEF Done, CommitOf, Messages, Commits
  <2>3. m.type = "CommitString" /\ TextOf(m) = done.buffer
    BY DEF CommitOf, TextOf
  <2>4. Flushed(done).sent = Append(done.sent, m)
    BY <1>2 DEF Flushed
  <2> HIDE DEF x, m
  <2>5. Takes(d, m, x)
    BY <2>1, <2>3 DEF Takes, ReadsDone
  <2>6. Reads(Append(done.sent, m), c, x)
    BY <2>1, <2>2, <2>5, ReadsOn DEF ReadsDone
  <2> QED BY <2>1, <2>4, <2>6
<1> QED BY <1>1, <1>2

\* One event more.
LEMMA HandedReads ==
  ASSUME NEW done \in Done, NEW e \in Events, clientPreedit \in Preedits,
         NEW c \in Clients, NEW d \in Clients, NEW m \in Nat, NEW n \in Nat,
         ReadsDone(done, c, d, m), Numbered(TextOf(e), m, n),
         e.type = "ForwardKey" /\ e.at # Empty => e.at = d.shown
  PROVE  \E x \in Clients : /\ ReadsDone(Handed(done, e), c, x, n)
                            /\ x.shown = IF e = Update THEN clientPreedit ELSE d.shown
<1>1. CASE e.type = "CommitString"
  <2>1. d.length \in Nat
    BY DEF Clients
  <2>2. TextOf(e) = e.text /\ e # Update
    BY <1>1, EventTypes DEF TextOf
  <2>3. Numbered(done.buffer \o e.text, d.length, n)
    BY <2>1, <2>2, NumberedMore DEF ReadsDone
  <2>4. Handed(done, e).sent = done.sent /\ Handed(done, e).buffer = done.buffer \o e.text
    BY <1>1 DEF Handed, Done
  <2> QED BY <2>2, <2>3, <2>4 DEF ReadsDone
<1>2. CASE e.type # "CommitString"
  <2>1. PICK y \in Clients : /\ Reads(Flushed(done).sent, c, y)
                             /\ y.length = m /\ y.shown = d.shown
    BY FlushedReads
  <2> DEFINE x == [length |-> n, shown |-> IF e = Update THEN clientPreedit ELSE d.shown]
             sent == Flushed(done).sent
  <2>2. /\ x \in Clients /\ x.length = n
        /\ x.shown = IF e = Update THEN clientPreedit ELSE d.shown
    BY DEF Clients
  <2>3. sent \in Seq(Messages)
    BY FlushedType DEF Done
  <2>4. Handed(done, e).sent = Append(sent, AsSent(e)) /\ Handed(done, e).buffer = <<>>
    BY <1>2 DEF Handed, AsSent
  <2> HIDE DEF x, sent
  <2>5. AsSent(e) \in Messages /\ (e = Update <=> e.type = "UpdatePreedit")
    BY EventTypes
  <2>6. Takes(y, AsSent(e), x)
    <3>1. CASE e = Update
      <4>1. TextOf(AsSent(e)) = <<>> /\ TextOf(e) = <<>> /\ AsSent(e).type = "UpdatePreedit"
            /\ AsSent(e).preedit = clientPreedit
        BY <3>1 DEF AsSent, TextOf, Shows, Update
      <4> QED BY <2>1, <2>2, <3>1, <4>1 DEF Takes
    <3>2. CASE e # Update
      <4>1. AsSent(e) = e /\ e.type # "UpdatePreedit"
        BY <2>5, <3>2 DEF AsSent
      <4> QED BY <2>1, <2>2, <3>2, <4>1 DEF Takes
    <3> QED BY <3>1, <3>2
  <2>7. Reads(Append(sent, AsSent(e)), c, x)
    BY <2>1, <2>2, <2>3, <2>5, <2>6, ReadsOn DEF sent
  <2>8. Numbered(<<>>, x.length, n)
    BY <2>2, NumberedNothing
  <2> QED BY <2>2, <2>4, <2>7, <2>8 DEF ReadsDone
<1> QED BY <1>1, <1>2

\* There is an update among the first k events.
Updated(events, k) == \E i \in 1..k : events[i] = Update

\* A client that shows preedit meets every key with the preedit that it was typed
\* to, when the updates before it are read with the preedit of now.
KeysFit(events, preedit) ==
  \A i \in 1..Len(events) :
    events[i].type = "ForwardKey" /\ events[i].at # Empty
      => events[i].at = IF Updated(events, i - 1) THEN clientPreedit ELSE preedit

\* What is delivered has the text of the events, and shows the preedit of now if
\* one of them is an update.
LEMMA DeliveredReads ==
  ASSUME NEW events \in Seq(Events), clientPreedit \in Preedits,
         NEW c \in Clients, NEW n \in Nat,
         Runs(events, c.length, n), KeysFit(events, c.shown)
  PROVE  /\ Delivered(events) \in Seq(Messages)
         /\ \E d \in Clients :
              /\ Reads(Delivered(events), c, d)
              /\ d.length = n
              /\ d.shown = IF Updated(events, Len(events)) THEN clientPreedit ELSE c.shown
<1> DEFINE k == Len(events)
           ShownBy(i) == IF Updated(events, i) THEN clientPreedit ELSE c.shown
<1>0. k \in Nat /\ \A i \in 1..k : events[i] \in Events
  OBVIOUS
<1>1. PICK g \in [0..k -> Done] :
        Hands(g, events) /\ Delivered(events) = Flushed(g[k]).sent
  BY DeliveredSteps
<1>2. PICK b \in [0..k -> Nat] :
        /\ b[0] = c.length /\ b[k] = n
        /\ \A i \in 1..k : Numbered(TextOf(events[i]), b[i - 1], b[i])
  BY DEF Runs
<1> DEFINE Good(i) == \E d \in Clients : ReadsDone(g[i], c, d, b[i]) /\ d.shown = ShownBy(i)
           right == [i \in 0..k |-> Good(i)]
<1>3. Good(0)
  <2>1. g[0] = NothingDone
    BY <1>1 DEF Hands
  <2>2. c.length \in Nat
    BY DEF Clients
  <2>3. ReadsDone(NothingDone, c, c, c.length)
    BY <2>2, ReadsNothing, NumberedNothing DEF ReadsDone, NothingDone
  <2>4. ~Updated(events, 0)
    BY DEF Updated
  <2> QED BY <1>2, <2>1, <2>3, <2>4
<1>4. ASSUME NEW i \in 1..k, Good(i - 1) PROVE Good(i)
  <2>1. i - 1 \in 0..k /\ i \in 0..k /\ events[i] \in Events
    BY <1>0
  <2>2. g[i] = Handed(g[i - 1], events[i]) /\ g[i - 1] \in Done
    BY <1>1, <2>1 DEF Hands
  <2>3. b[i - 1] \in Nat /\ b[i] \in Nat /\ Numbered(TextOf(events[i]), b[i - 1], b[i])
    BY <1>2, <2>1
  <2>4. PICK d \in Clients : ReadsDone(g[i - 1], c, d, b[i - 1]) /\ d.shown = ShownBy(i - 1)
    BY <1>4
  <2>5. events[i].type = "ForwardKey" /\ events[i].at # Empty => events[i].at = d.shown
    BY <2>4 DEF KeysFit
  <2>6. PICK x \in Clients :
          /\ ReadsDone(g[i], c, x, b[i])
          /\ x.shown = IF events[i] = Update THEN clientPreedit ELSE d.shown
    <3> DEFINE e == events[i]
               done == g[i - 1]
               m == b[i - 1]
               l == b[i]
    <3>1. e \in Events /\ done \in Done /\ m \in Nat /\ l \in Nat
          /\ ReadsDone(done, c, d, m) /\ Numbered(TextOf(e), m, l)
          /\ (e.type = "ForwardKey" /\ e.at # Empty => e.at = d.shown)
      BY <2>1, <2>2, <2>3, <2>4, <2>5
    <3>2. g[i] = Handed(done, e)
      BY <2>2
    <3> HIDE DEF e, done, m, l
    <3>3. \E x \in Clients : /\ ReadsDone(Handed(done, e), c, x, l)
                             /\ x.shown = IF e = Update THEN clientPreedit ELSE d.shown
      BY <3>1, HandedReads
    <3> QED BY <3>2, <3>3 DEF e, l
  <2>7. Updated(events, i) <=> Updated(events, i - 1) \/ events[i] = Update
    <3>1. \A j \in 1..i : j = i \/ j \in 1..(i - 1)
      BY <1>0
    <3>2. i \in 1..i /\ 1..(i - 1) \subseteq 1..i
      BY <1>0
    <3> QED BY <3>1, <3>2 DEF Updated
  <2>8. x.shown = ShownBy(i)
    BY <2>4, <2>6, <2>7
  <2> QED BY <2>6, <2>8
<1>5. right \in [0..k -> BOOLEAN] /\ \A i \in 0..k : right[i] <=> Good(i)
  <2>1. \A i \in 0..k : Good(i) \in BOOLEAN
    OBVIOUS
  <2> HIDE DEF Good
  <2> QED BY <2>1
<1> HIDE DEF right, Good
<1>6. right[0]
  BY <1>0, <1>3, <1>5
<1>7. ASSUME NEW i \in 1..k, right[i - 1] PROVE right[i]
  <2>1. i - 1 \in 0..k /\ i \in 0..k
    BY <1>0
  <2> QED BY <1>4, <1>5, <1>7, <2>1
<1>8. right[k]
  <2>1. \A i \in 0..k : right[i]
    <3> HIDE DEF k
    <3> QED BY <1>0, <1>5, <1>6, <1>7, LeastWrong
  <2> QED BY <1>0, <2>1
<1>9. PICK d \in Clients : ReadsDone(g[k], c, d, n) /\ d.shown = ShownBy(k)
  BY <1>0, <1>2, <1>5, <1>8 DEF Good
<1>10. g[k] \in Done
  BY <1>0
<1>11. \E x \in Clients : /\ Reads(Flushed(g[k]).sent, c, x)
                          /\ x.length = n /\ x.shown = d.shown
  <2> DEFINE done == g[k]
  <2>1. done \in Done /\ ReadsDone(done, c, d, n)
    BY <1>9, <1>10
  <2> HIDE DEF done
  <2> SUFFICES \E x \in Clients : /\ Reads(Flushed(done).sent, c, x)
                                  /\ x.length = n /\ x.shown = d.shown
    BY DEF done
  <2> QED BY <2>1, FlushedReads
<1>12. Flushed(g[k]).sent \in Seq(Messages)
  BY <1>10, FlushedType DEF Done
<1> QED BY <1>1, <1>9, <1>11, <1>12

-----------------------------------------------------------------------------

ClientTypes ==
  /\ capability \subseteq {"Preedit", "KeyEventOrderFix"}
  /\ call \in Calls \cup {"None"}
  /\ blocking \in BOOLEAN
  /\ blockedEvents \in Seq(Events)
  /\ clientPreedit \in Preedits
  /\ lastEmpty \in BOOLEAN
  /\ batch \in Seq(Messages)
  /\ channel \in Seq(Messages)
  /\ produced \in Nat
  /\ Numbered(document, 0, Len(document)) /\ Len(document) \in Nat
  /\ shown \in Preedits
  /\ told \in BOOLEAN

\* Keys that an engine forwards are not typed to a preedit of the client.
Forwarded(events) ==
  \A i \in 1..Len(events) : events[i].type = "ForwardKey" => events[i].at = Empty

\* Where what is not sent yet waits depends on the call that is handled.
Waiting ==
  /\ ~blocking => blockedEvents = <<>>
  /\ call # "ProcessKeyEventBatch" => batch = <<>>
  /\ blocking => call \in {"ProcessKeyEvent", "XIM"}
  /\ blocking /\ call = "ProcessKeyEvent" => "KeyEventOrderFix" \in capability
  /\ Forwarded(blockedEvents)

Client == [length |-> Len(document), shown |-> shown]

\* c is the client when it has read all that is sent.
Reaches(c) ==
  \E d \in Clients : Reads(channel, Client, d) /\ Reads(batch, d, c)

\* It shows what it was told of, unless an update is blocked that will tell it.
PreeditFollows(c) ==
  IF Updated(blockedEvents, Len(blockedEvents))
  THEN told /\ "Preedit" \in capability
  ELSE (told => c.shown = clientPreedit) /\ (lastEmpty => c.shown = Empty)

ClientFollows ==
  \E c \in Clients : /\ Reaches(c)
                     /\ Runs(blockedEvents, c.length, produced)
                     /\ PreeditFollows(c)

ClientInv ==
  /\ ClientTypes
  /\ Waiting
  /\ told => (lastEmpty <=> clientPreedit = Empty)
  /\ ClientFollows

-----------------------------------------------------------------------------

LEMMA ClientIsClient ==
  ASSUME ClientTypes
  PROVE  Client \in Clients /\ Client.length = Len(document) /\ Client.shown = shown
BY DEF ClientTypes, Client, Clients

\* What is appended to the channel is read after all else.
LEMMA ReachesOn ==
  ASSUME ClientTypes, NEW c \in Clients, NEW d \in Clients, Reaches(c),
         NEW msgs \in Seq(Messages), Reads(msgs, c, d)
  PROVE  /\ batch = <<>> => Reads(channel \o msgs, Client, d)
         /\ Reads(channel \o (batch \o msgs), Client, d)
         /\ \E x \in Clients : Reads(channel, Client, x) /\ Reads(batch \o msgs, x, d)
<1>1. PICK x \in Clients : Reads(channel, Client, x) /\ Reads(batch, x, c)
  BY DEF Reaches
<1>2. channel \in Seq(Messages) /\ batch \in Seq(Messages) /\ Client \in Clients
      /\ batch \o msgs \in Seq(Messages)
  BY ClientIsClient, ConcatProperties DEF ClientTypes
<1>3. Reads(batch \o msgs, x, d)
  BY <1>1, <1>2, ReadsMore
<1>4. Reads(channel \o (batch \o msgs), Client, d)
  BY <1>1, <1>2, <1>3, ReadsMore
<1>5. ASSUME batch = <<>> PROVE Reads(channel \o msgs, Client, d)
  <2>1. x = c
    BY <1>1, <1>5, ReadsEmpty
  <2> QED BY <1>1, <1>2, <2>1, ReadsMore
<1> QED BY <1>1, <1>3, <1>4, <1>5

\* Events with the keys of engines only fit every client.
LEMMA ForwardedFit ==
  ASSUME NEW events, Forwarded(events), NEW preedit
  PROVE  KeysFit(events, preedit)
BY DEF Forwarded, KeysFit

LEMMA NothingBlocked ==
  /\ Len(<<>>) = 0 /\ ~Updated(<<>>, 0) /\ Forwarded(<<>>) /\ <<>> \in Seq(Events)
  /\ <<>> \in Seq(Messages)
BY DEF Updated, Forwarded

\* The text of one event more.
LEMMA NextTextFits ==
  ASSUME produced \in Nat
  PROVE  Numbered(NextText, produced, produced + 1) /\ NextText \in Seq(Nat)
BY NumberedNext DEF NextText, Numbered

LEMMA TypedFacts ==
  ASSUME ClientTypes
  PROVE  /\ Typed \in Events /\ Typed \in Messages
         /\ Typed.type = "ForwardKey" /\ TextOf(Typed) = NextText
         /\ Typed.at = IF told THEN clientPreedit ELSE Empty
         /\ Typed # Update
<1>1. NextText \in Seq(Nat) /\ clientPreedit \in Preedits /\ Empty \in Preedits
  BY NextTextFits DEF ClientTypes, Preedits
<1>2. Typed \in Keys
  BY <1>1 DEF Typed, Key, Keys
<1>3. /\ Typed.type = "ForwardKey" /\ TextOf(Typed) = NextText
      /\ Typed.at = IF told THEN clientPreedit ELSE Empty
  BY DEF Typed, Key, TextOf
<1>4. Update.type = "UpdatePreedit"
  BY DEF Update
<1> QED BY <1>2, <1>3, <1>4 DEF Events, Messages

\* A client that shows what it was told of takes the key that is typed now.
LEMMA TypedIsTaken ==
  ASSUME ClientTypes, NEW d \in Clients, d.length = produced,
         (told => d.shown = clientPreedit) \/ clientPreedit = Empty
  PROVE  \E x \in Clients : /\ Takes(d, Typed, x) /\ Reads(<<Typed>>, d, x)
                            /\ x.length = produced + 1 /\ x.shown = d.shown
<1> DEFINE x == [length |-> produced + 1, shown |-> d.shown]
<1>1. x \in Clients /\ x.length = produced + 1 /\ x.shown = d.shown
  BY DEF Clients, ClientTypes
<1> HIDE DEF x
<1>2. Typed.at # Empty => Typed.at = d.shown
  BY TypedFacts
<1>3. Numbered(TextOf(Typed), d.length, x.length)
  BY <1>1, TypedFacts, NextTextFits DEF ClientTypes
<1>4. Takes(d, Typed, x)
  BY <1>1, <1>2, <1>3, TypedFacts DEF Takes
<1>5. Reads(<<Typed>>, d, x)
  BY <1>1, <1>4, ReadsOne
<1> QED BY <1>1, <1>4, <1>5

\* What is blocked is delivered, and the client shows what it was told of.
LEMMA BlockedAreDelivered ==
  ASSUME ClientInv, NEW c \in Clients,
         Runs(blockedEvents, c.length, produced), PreeditFollows(c)
  PROVE  /\ Delivered(blockedEvents) \in Seq(Messages)
         /\ \E d \in Clients :
              /\ Reads(Delivered(blockedEvents), c, d)
              /\ d.length = produced
              /\ told => d.shown = clientPreedit
              /\ lastEmpty => d.shown = Empty
<1>1. blockedEvents \in Seq(Events) /\ clientPreedit \in Preedits /\ produced \in Nat
  BY DEF ClientInv, ClientTypes
<1>2. KeysFit(blockedEvents, c.shown)
  BY ForwardedFit DEF ClientInv, Waiting
<1>3. /\ Delivered(blockedEvents) \in Seq(Messages)
      /\ \E d \in Clients :
           /\ Reads(Delivered(blockedEvents), c, d)
           /\ d.length = produced
           /\ d.shown = IF Updated(blockedEvents, Len(blockedEvents))
                        THEN clientPreedit ELSE c.shown
  BY <1>1, <1>2, DeliveredReads
<1>4. PICK d \in Clients :
        /\ Reads(Delivered(blockedEvents), c, d)
        /\ d.length = produced
        /\ d.shown = IF Updated(blockedEvents, Len(blockedEvents))
                     THEN clientPreedit ELSE c.shown
  BY <1>3
<1>5. (told => d.shown = clientPreedit) /\ (lastEmpty => d.shown = Empty)
  <2>1. CASE Updated(blockedEvents, Len(blockedEvents))
    BY <1>4, <2>1 DEF PreeditFollows, ClientInv
  <2>2. CASE ~Updated(blockedEvents, Len(blockedEvents))
    BY <1>4, <2>2 DEF PreeditFollows
  <2> QED BY <2>1, <2>2
<1> QED BY <1>3, <1>4, <1>5

\* So it is when the key that is typed now goes behind them.
LEMMA BlockedAndTyped ==
  ASSUME ClientInv, NEW c \in Clients,
         Runs(blockedEvents, c.length, produced), PreeditFollows(c)
  PROVE  /\ Delivered(Append(blockedEvents, Typed)) \in Seq(Messages)
         /\ \E d \in Clients :
              /\ Reads(Delivered(Append(blockedEvents, Typed)), c, d)
              /\ d.length = produced + 1
              /\ told => d.shown = clientPreedit
              /\ lastEmpty => d.shown = Empty
<1> DEFINE events == blockedEvents
           more == Append(events, Typed)
           k == Len(events)
<1>1. events \in Seq(Events) /\ clientPreedit \in Preedits /\ produced \in Nat
      /\ c.length \in Nat /\ ClientTypes
  BY DEF ClientInv, ClientTypes, Clients
<1>2. Typed \in Events /\ Typed # Update /\ Typed.type = "ForwardKey"
      /\ Typed.at = (IF told THEN clientPreedit ELSE Empty)
      /\ Numbered(TextOf(Typed), produced, produced + 1)
  BY <1>1, TypedFacts, NextTextFits
<1>3. /\ more \in Seq(Events) /\ k \in Nat /\ Len(more) = k + 1 /\ more[k + 1] = Typed
      /\ \A i \in 1..k : more[i] = events[i]
  BY <1>1, <1>2, AppendProperties
<1>4. Runs(more, c.length, produced + 1)
  <2> HIDE DEF k
  <2>1. produced + 1 \in Nat
    BY <1>1
  <2> QED BY <1>1, <1>2, <2>1, RunsOn
<1> HIDE DEF more
<1>5. Updated(more, k + 1) <=> Updated(events, k)
  <2>1. \A i \in 1..(k + 1) : i = k + 1 \/ i \in 1..k
    BY <1>3
  <2>2. 1..k \subseteq 1..(k + 1)
    BY <1>3
  <2> HIDE DEF k
  <2> QED BY <1>2, <1>3, <2>1, <2>2 DEF Updated
<1>6. Updated(more, k) <=> Updated(events, k)
  BY <1>3 DEF Updated
<1>7. KeysFit(more, c.shown)
  <2> SUFFICES ASSUME NEW i \in 1..Len(more),
                      more[i].type = "ForwardKey", more[i].at # Empty
               PROVE  more[i].at = IF Updated(more, i - 1) THEN clientPreedit ELSE c.shown
    BY DEF KeysFit
  <2>1. CASE i \in 1..k
    <3>1. more[i] = events[i]
      BY <1>3, <2>1
    <3> QED BY <2>1, <3>1 DEF Forwarded, ClientInv, Waiting
  <2>2. CASE i = k + 1
    <3>1. i - 1 = k /\ more[i] = Typed
      BY <1>3, <2>2
    <3>2. told
      BY <1>2, <3>1
    <3>3. ~Updated(events, k) => c.shown = clientPreedit
      BY <3>2 DEF PreeditFollows
    <3>4. Updated(more, i - 1) <=> Updated(events, k)
      BY <1>6, <3>1
    <3> HIDE DEF k
    <3> QED BY <1>2, <3>1, <3>2, <3>3, <3>4
  <2> QED BY <1>3, <2>1, <2>2
<1>8. /\ Delivered(more) \in Seq(Messages)
      /\ \E d \in Clients :
           /\ Reads(Delivered(more), c, d)
           /\ d.length = produced + 1
           /\ d.shown = IF Updated(more, Len(more)) THEN clientPreedit ELSE c.shown
  <2>1. produced + 1 \in Nat
    BY <1>1
  <2> QED BY <1>1, <1>3, <1>4, <1>7, <2>1, DeliveredReads
<1>9. PICK d \in Clients :
        /\ Reads(Delivered(more), c, d)
        /\ d.length = produced + 1
        /\ d.shown = IF Updated(more, Len(more)) THEN clientPreedit ELSE c.shown
  BY <1>8
<1>10. (told => d.shown = clientPreedit) /\ (lastEmpty => d.shown = Empty)
  <2>0. Updated(more, Len(more)) <=> Updated(events, k)
    BY <1>3, <1>5
  <2>1. CASE Updated(events, k)
    BY <1>9, <2>0, <2>1 DEF PreeditFollows, ClientInv
  <2>2. CASE ~Updated(events, k)
    BY <1>9, <2>0, <2>2 DEF PreeditFollows
  <2> QED BY <2>1, <2>2
<1> QED BY <1>8, <1>9, <1>10 DEF more

-----------------------------------------------------------------------------

\* The invariant of the next state, when nothing is blocked or in a batch.
LEMMA AllIsSent ==
  ASSUME blockedEvents' = <<>>, batch' = <<>>, produced' \in Nat, NEW d \in Clients,
         Reads(channel', Client', d), d.length = produced',
         told' => d.shown = clientPreedit', lastEmpty' => d.shown = Empty
  PROVE  ClientFollows'
<1>1. Reads(<<>>, d, d) /\ Runs(<<>>, d.length, produced')
  BY ReadsNothing, RunsNothing
<1>2. Reaches(d)'
  BY <1>1 DEF Reaches
<1>3. PreeditFollows(d)'
  BY NothingBlocked DEF PreeditFollows
<1> QED BY <1>1, <1>2, <1>3 DEF ClientFollows

LEMMA InitFollows ==
  ASSUME ClientInit
  PROVE  ClientInv
<1> USE DEF ClientInit
<1>1. Numbered(<<>>, 0, 0) /\ Len(<<>>) = 0
  BY NumberedNothing
<1>2. Empty \in Preedits
  BY DEF Preedits
<1>3. ClientTypes
  BY <1>1, <1>2, NothingBlocked DEF ClientTypes
<1>4. Waiting
  BY NothingBlocked DEF Waiting
<1>5. ClientFollows
  <2>1. Client \in Clients /\ Client.length = 0 /\ Client.shown = Empty
    BY <1>1, <1>3, ClientIsClient
  <2>2. Reads(<<>>, Client, Client) /\ Runs(<<>>, 0, 0)
    BY <2>1, ReadsNothing, RunsNothing
  <2>3. Reaches(Client)
    BY <2>1, <2>2 DEF Reaches
  <2>4. PreeditFollows(Client)
    BY <2>1, NothingBlocked DEF PreeditFollows
  <2> QED BY <2>1, <2>2, <2>3, <2>4 DEF ClientFollows
<1> QED BY <1>3, <1>4, <1>5 DEF ClientInv

\* The call and the blocking change, and what is sent does not.
LEMMA StartFollows ==
  ASSUME ClientInv, NEW how \in Calls, StartKey(how)
  PROVE  ClientInv'
<1> USE DEF StartKey, ClientInv
<1>1. call = "None" /\ call' = how /\ blocking' \in BOOLEAN
  OBVIOUS
<1>2. blockedEvents = <<>> /\ batch = <<>>
  BY <1>1 DEF Waiting, Calls
<1>3. ClientTypes'
  BY <1>1 DEF ClientTypes, clientSide
<1>4. Waiting'
  BY <1>1, <1>2, NothingBlocked DEF Waiting, Calls
<1>5. ClientFollows'
  BY DEF ClientFollows, Reaches, PreeditFollows, Client, clientSide
<1> QED BY <1>3, <1>4, <1>5

LEMMA CapabilityFollows ==
  ASSUME ClientInv, NEW flags \in SUBSET {"Preedit", "KeyEventOrderFix"}, SetCapability(flags)
  PROVE  ClientInv'
<1> USE DEF SetCapability, ClientInv
<1>1. call = "None" /\ blockedEvents = <<>> /\ batch = <<>> /\ blocking = FALSE
  <2>1. blocking \in BOOLEAN
    BY DEF ClientTypes
  <2> QED BY <2>1 DEF Waiting
<1>2. (told' => told) /\ told' \in BOOLEAN
  BY DEF ClientTypes
<1>3. ClientTypes'
  BY <1>2 DEF ClientTypes, clientSide
<1>4. Waiting'
  BY <1>1, NothingBlocked DEF Waiting
<1>5. ClientFollows'
  <2>1. ~Updated(blockedEvents, Len(blockedEvents))
    BY <1>1, NothingBlocked
  <2>2. PICK c \in Clients : /\ Reaches(c)
                             /\ Runs(blockedEvents, c.length, produced)
                             /\ PreeditFollows(c)
    BY DEF ClientFollows
  <2>3. PreeditFollows(c)'
    BY <1>2, <2>1, <2>2 DEF PreeditFollows
  <2>4. Reaches(c)'
    BY <2>2 DEF Reaches, Client, clientSide
  <2> QED BY <2>2, <2>3, <2>4 DEF ClientFollows
<1> QED BY <1>2, <1>3, <1>4, <1>5

\* The client takes the first message: it is as far as it was, by one message less.
LEMMA ReceiveFacts ==
  ASSUME ClientInv, Receive
  PROVE  \E d \in Clients : /\ Takes(Client, Head(channel), d)
                            /\ Client' = d
                            /\ Numbered(document', 0, Len(document')) /\ Len(document') \in Nat
                            /\ shown' \in Preedits
                            /\ ClientFollows'
<1> DEFINE m == Head(channel)
<1>1. PICK c \in Clients : /\ Reaches(c)
                           /\ Runs(blockedEvents, c.length, produced)
                           /\ PreeditFollows(c)
  BY DEF ClientInv, ClientFollows
<1>2. PICK x \in Clients : Reads(channel, Client, x) /\ Reads(batch, x, c)
  BY <1>1 DEF Reaches
<1>3. channel \in Seq(Messages) /\ channel # <<>>
  BY DEF ClientInv, ClientTypes, Receive
<1>4. PICK d \in Clients : Takes(Client, m, d) /\ Reads(Tail(channel), d, x)
  BY <1>2, <1>3, ReadsFirst
<1>5. m \in Messages
  BY <1>3
<1>6. /\ m.type = "UpdatePreedit" => shown' = m.preedit /\ document' = document
      /\ m.type # "UpdatePreedit" => shown' = shown /\ document' = document \o m.text
  BY DEF Receive, clientSide
<1> HIDE DEF m
<1>7. Client \in Clients /\ Client.length = Len(document) /\ Client.shown = shown
      /\ Len(document) \in Nat /\ Numbered(document, 0, Len(document))
  BY ClientIsClient DEF ClientInv, ClientTypes
<1>8. d.length \in Nat /\ d.shown \in Preedits /\ d = [length |-> d.length, shown |-> d.shown]
  BY DEF Clients
<1>9. shown' = d.shown
  BY <1>4, <1>6, <1>7 DEF Takes
<1>10. Numbered(document', 0, d.length)
  <2>1. CASE m.type = "UpdatePreedit"
    <3>1. Numbered(<<>>, Len(document), d.length)
      BY <1>4, <1>7, <2>1 DEF Takes, TextOf
    <3>2. Len(document) = d.length
      BY <1>7, <1>8, <3>1, NumberedEmpty
    <3> QED BY <1>6, <1>7, <2>1, <3>2
  <2>2. CASE m.type # "UpdatePreedit"
    <3>1. Numbered(m.text, Len(document), d.length)
      BY <1>4, <1>7, <2>2 DEF Takes, TextOf
    <3>2. Numbered(document \o m.text, 0, d.length)
      BY <1>7, <1>8, <3>1, NumberedMore
    <3> QED BY <1>6, <2>2, <3>2
  <2> QED BY <2>1, <2>2
<1>11. Len(document') = d.length
  <2>1. Len(document') = d.length - 0
    BY <1>10 DEF Numbered
  <2> QED BY <1>8, <2>1
<1>12. Client' = d
  BY <1>8, <1>9, <1>11 DEF Client
<1>13. Reaches(c)'
  <2>1. channel' = Tail(channel) /\ batch' = batch
    BY DEF Receive
  <2>2. Reads(channel', Client', x)
    BY <1>4, <1>12, <2>1
  <2> QED BY <1>2, <2>1, <2>2 DEF Reaches
<1>14. PreeditFollows(c)'
  BY <1>1 DEF PreeditFollows, Receive
<1>15. ClientFollows'
  <2>1. Runs(blockedEvents', c.length, produced')
    BY <1>1 DEF Receive
  <2> QED BY <1>13, <1>14, <2>1 DEF ClientFollows
<1> QED BY <1>4, <1>8, <1>9, <1>10, <1>11, <1>12, <1>15 DEF m

LEMMA ReceiveFollows ==
  ASSUME ClientInv, Receive
  PROVE  ClientInv'
<1>1. /\ ClientFollows'
      /\ Numbered(document', 0, Len(document')) /\ Len(document') \in Nat
      /\ shown' \in Preedits
  BY ReceiveFacts
<1>2. channel' \in Seq(Messages)
  <2>1. channel \in Seq(Messages) /\ channel # <<>> /\ channel' = Tail(channel)
    BY DEF ClientInv, ClientTypes, Receive
  <2> QED BY <2>1
<1>3. ClientTypes'
  BY <1>1, <1>2 DEF ClientInv, ClientTypes, Receive
<1>4. Waiting'
  BY DEF ClientInv, Waiting, Receive, Forwarded
<1> QED BY <1>1, <1>3, <1>4 DEF ClientInv, Receive

-----------------------------------------------------------------------------

\* An event of an engine is sent or blocked: what the client comes to be changes
\* by it, or what is blocked does.
LEMMA PushFollows ==
  ASSUME ClientInv, ClientTypes', NEW e \in Events, Push(e),
         e.type = "ForwardKey" => e.at = Empty,
         Numbered(TextOf(e), produced, produced'),
         UNCHANGED <<call, blocking, clientSide, capability>>,
         e # Update => UNCHANGED <<clientPreedit, lastEmpty, told>>,
         e = Update => "Preedit" \in capability /\ told' /\ (lastEmpty' <=> clientPreedit' = Empty)
  PROVE  Waiting' /\ ClientFollows'
<1>1. PICK c \in Clients : /\ Reaches(c)
                           /\ Runs(blockedEvents, c.length, produced)
                           /\ PreeditFollows(c)
  BY DEF ClientInv, ClientFollows
<1>2. /\ ClientTypes /\ Waiting /\ produced \in Nat /\ produced' \in Nat /\ c.length \in Nat
      /\ clientPreedit' \in Preedits /\ c.shown \in Preedits
  BY DEF ClientInv, ClientTypes, Clients
<1>3. Client' = Client
  BY DEF Client, clientSide
<1>4. CASE blocking
  <2>1. blockedEvents' = Append(blockedEvents, e) /\ batch' = batch /\ channel' = channel
    BY <1>4 DEF Push
  <2> DEFINE k == Len(blockedEvents)
             more == Append(blockedEvents, e)
  <2>2. blockedEvents \in Seq(Events)
    BY <1>2 DEF ClientTypes
  <2>3. /\ k \in Nat /\ Len(more) = k + 1 /\ more[k + 1] = e
        /\ \A i \in 1..k : more[i] = blockedEvents[i]
        /\ \A i \in 1..(k + 1) : i = k + 1 \/ i \in 1..k
        /\ k + 1 \in 1..(k + 1) /\ 1..k \subseteq 1..(k + 1)
    BY <2>2, AppendProperties
  <2>4. Runs(more, c.length, produced')
    <3> HIDE DEF more, k
    <3> QED BY <1>1, <1>2, <2>2, RunsOn DEF more
  <2> HIDE DEF more
  <2>5. Forwarded(more)
    <3>1. Forwarded(blockedEvents)
      BY <1>2 DEF Waiting
    <3>2. ASSUME NEW i \in 1..(k + 1), more[i].type = "ForwardKey" PROVE more[i].at = Empty
      <4>1. CASE i = k + 1
        BY <2>3, <3>2, <4>1
      <4>2. CASE i \in 1..k
        BY <2>3, <3>1, <3>2, <4>2 DEF Forwarded
      <4> QED BY <2>3, <4>1, <4>2
    <3> QED BY <2>3, <3>2 DEF Forwarded
  <2>6. Updated(more, k + 1) <=> Updated(blockedEvents, k) \/ e = Update
    <3> HIDE DEF k
    <3> QED BY <2>3 DEF Updated
  <2>7. Waiting'
    BY <1>2, <1>4, <2>1, <2>5 DEF Waiting, more
  <2>8. PreeditFollows(c)'
    <3>1. CASE e = Update
      <4>1. Updated(blockedEvents, Len(blockedEvents))'
        BY <2>1, <2>3, <2>6, <3>1 DEF more
      <4> QED BY <3>1, <4>1 DEF PreeditFollows
    <3>2. CASE e # Update
      <4>1. Updated(blockedEvents, Len(blockedEvents))' <=> Updated(blockedEvents, k)
        BY <2>1, <2>3, <2>6, <3>2 DEF more
      <4>2. PreeditFollows(c) /\ UNCHANGED <<clientPreedit, lastEmpty, told, capability>>
        BY <1>1, <3>2
      <4> QED BY <4>1, <4>2 DEF PreeditFollows
    <3> QED BY <3>1, <3>2
  <2>9. Reaches(c)'
    BY <1>1, <1>3, <2>1 DEF Reaches
  <2>10. Runs(blockedEvents', c.length, produced')
    BY <2>1, <2>4 DEF more
  <2> QED BY <2>7, <2>8, <2>9, <2>10 DEF ClientFollows
<1>5. CASE ~blocking
  <2> DEFINE m == IF e = Update THEN Shows(clientPreedit') ELSE e
             msgs == <<m>>
  <2>1. Send(msgs) /\ blockedEvents' = blockedEvents
    BY <1>5 DEF Push
  <2>2. blockedEvents = <<>>
    BY <1>2, <1>5 DEF Waiting
  <2>3. c.length = produced
    BY <1>1, <2>2, RunsEmpty
  <2>4. PICK d \in Clients :
          /\ d.length = produced'
          /\ d.shown = IF e = Update THEN clientPreedit' ELSE c.shown
    <3> DEFINE x == [length |-> produced',
                     shown |-> IF e = Update THEN clientPreedit' ELSE c.shown]
    <3>1. /\ x \in Clients /\ x.length = produced'
          /\ x.shown = IF e = Update THEN clientPreedit' ELSE c.shown
      BY <1>2 DEF Clients
    <3> QED BY <3>1
  <2>5. m \in Messages
    <3>1. CASE e = Update
      BY <1>2, <3>1 DEF Messages, Shows
    <3>2. CASE e # Update
      BY <3>2 DEF Messages, Events
    <3> QED BY <3>1, <3>2
  <2>6. Takes(c, m, d)
    <3>1. CASE e = Update
      <4>1. m.type = "UpdatePreedit" /\ m.preedit = clientPreedit' /\ TextOf(m) = <<>>
            /\ TextOf(e) = <<>>
        BY <3>1 DEF Shows, TextOf, Update
      <4> HIDE DEF m
      <4> QED BY <2>3, <2>4, <3>1, <4>1 DEF Takes
    <3>2. CASE e # Update
      <4>1. m = e /\ e.type # "UpdatePreedit"
        BY <3>2, EventTypes
      <4> HIDE DEF m
      <4> QED BY <2>3, <2>4, <3>2, <4>1 DEF Takes
    <3> QED BY <3>1, <3>2
  <2> HIDE DEF m
  <2>7. msgs \in Seq(Messages) /\ Reads(msgs, c, d)
    BY <2>4, <2>5, <2>6, ReadsOne
  <2> HIDE DEF msgs
  <2>8. /\ batch = <<>> => Reads(channel \o msgs, Client, d)
        /\ \E x \in Clients : Reads(channel, Client, x) /\ Reads(batch \o msgs, x, d)
    BY <1>1, <1>2, <2>4, <2>7, ReachesOn
  <2>9. Reaches(d)'
    <3>1. CASE call = "ProcessKeyEventBatch"
      BY <1>3, <2>1, <2>8, <3>1 DEF Send, Reaches
    <3>2. CASE call # "ProcessKeyEventBatch"
      <4>1. batch = <<>> /\ batch' = batch /\ channel' = channel \o msgs
        BY <1>2, <2>1, <3>2 DEF Send, Waiting
      <4>2. Reads(channel', Client', d) /\ Reads(batch', d, d)
        BY <1>3, <2>4, <2>8, <4>1, ReadsNothing
      <4> QED BY <2>4, <4>2 DEF Reaches
    <3> QED BY <3>1, <3>2
  <2>10. Waiting'
    <3>1. call # "ProcessKeyEventBatch" => batch' = <<>>
      BY <1>2, <2>1 DEF Send, Waiting
    <3> QED BY <1>2, <1>5, <2>1, <2>2, <3>1, NothingBlocked DEF Waiting
  <2>11. PreeditFollows(d)'
    <3>1. ~Updated(blockedEvents', Len(blockedEvents'))
      BY <2>1, <2>2, NothingBlocked
    <3>2. ~Updated(blockedEvents, Len(blockedEvents))
      BY <2>2, NothingBlocked
    <3>3. CASE e = Update
      BY <2>4, <3>1, <3>3 DEF PreeditFollows
    <3>4. CASE e # Update
      BY <1>1, <2>4, <3>1, <3>2, <3>4 DEF PreeditFollows
    <3> QED BY <3>3, <3>4
  <2>12. Runs(blockedEvents', d.length, produced')
    BY <1>2, <2>1, <2>2, <2>4, RunsNothing
  <2> QED BY <2>4, <2>9, <2>10, <2>11, <2>12 DEF ClientFollows
<1> QED BY <1>4, <1>5

LEMMA PushTypes ==
  ASSUME ClientTypes, NEW e \in Events, Push(e),
         (IF e = Update THEN Shows(clientPreedit') ELSE e) \in Messages
  PROVE  blockedEvents' \in Seq(Events) /\ batch' \in Seq(Messages) /\ channel' \in Seq(Messages)
<1> DEFINE m == IF e = Update THEN Shows(clientPreedit') ELSE e
<1>1. blockedEvents \in Seq(Events) /\ batch \in Seq(Messages) /\ channel \in Seq(Messages)
  BY DEF ClientTypes
<1>2. CASE blocking
  <2>1. blockedEvents' = Append(blockedEvents, e) /\ batch' = batch /\ channel' = channel
    BY <1>2 DEF Push
  <2>2. Append(blockedEvents, e) \in Seq(Events)
    BY <1>1, AppendProperties
  <2> QED BY <1>1, <2>1, <2>2
<1>3. CASE ~blocking
  <2>1. Send(<<m>>) /\ blockedEvents' = blockedEvents /\ <<m>> \in Seq(Messages)
    BY <1>3 DEF Push
  <2> HIDE DEF m
  <2>2. batch \o <<m>> \in Seq(Messages) /\ channel \o <<m>> \in Seq(Messages)
    BY <1>1, <2>1, ConcatProperties
  <2> QED BY <1>1, <2>1, <2>2 DEF Send
<1> QED BY <1>2, <1>3

LEMMA CommitFollows ==
  ASSUME ClientInv, CommitString
  PROVE  ClientInv'
<1>1. produced \in Nat /\ produced' = produced + 1
  BY DEF ClientInv, ClientTypes, CommitString
<1>2. NextText \in Seq(Nat) /\ Numbered(NextText, produced, produced') /\ Empty \in Preedits
  BY <1>1, NextTextFits DEF Preedits
<1>3. PICK e \in {CommitOf(NextText), CommitWithCursor(NextText), Key(NextText, Empty)} :
        Push(e)
  BY DEF CommitString
<1>4. e \in Events /\ e # Update /\ TextOf(e) = NextText
      /\ (e.type = "ForwardKey" => e.at = Empty)
      /\ (e \in Messages)
  <2>1. CASE e = CommitOf(NextText)
    BY <1>2, <2>1 DEF CommitOf, Events, Messages, Commits, Update, TextOf
  <2>2. CASE e = CommitWithCursor(NextText)
    BY <1>2, <2>2 DEF CommitWithCursor, Events, Messages, Commits, Update, TextOf
  <2>3. CASE e = Key(NextText, Empty)
    BY <1>2, <2>3 DEF Key, Events, Messages, Keys, Update, TextOf
  <2> QED BY <1>3, <2>1, <2>2, <2>3
<1>5. UNCHANGED <<capability, call, blocking, clientPreedit, lastEmpty, clientSide, told>>
  BY DEF CommitString
<1>6. blockedEvents' \in Seq(Events) /\ batch' \in Seq(Messages) /\ channel' \in Seq(Messages)
  BY <1>3, <1>4, PushTypes DEF ClientInv
<1>7. ClientTypes'
  BY <1>1, <1>5, <1>6 DEF ClientInv, ClientTypes, clientSide
<1>8. Waiting' /\ ClientFollows'
  BY <1>2, <1>3, <1>4, <1>5, <1>7, PushFollows
<1> QED BY <1>5, <1>7, <1>8 DEF ClientInv

LEMMA ShowFollows ==
  ASSUME ClientInv, NEW preedit \in Preedits, ShowPreedit(preedit)
  PROVE  ClientInv'
<1>1. /\ clientPreedit' = preedit /\ UpdatePreedit /\ told' = ("Preedit" \in capability)
      /\ UNCHANGED <<capability, call, blocking, produced, clientSide>>
  BY DEF ShowPreedit
<1>2. told' \in BOOLEAN /\ (told' <=> "Preedit" \in capability)
  <2>1. CASE "Preedit" \in capability
    <3>1. told' = TRUE
      BY <1>1, <2>1
    <3> QED BY <2>1, <3>1
  <2>2. CASE "Preedit" \notin capability
    <3>1. ("Preedit" \in capability) = FALSE
      BY <2>2
    <3>2. told' = FALSE
      BY <1>1, <3>1
    <3> QED BY <2>2, <3>2
  <2> QED BY <2>1, <2>2
<1>3. CASE "Preedit" \in capability /\ ~(clientPreedit' = Empty /\ lastEmpty)
  <2>1. lastEmpty' = (clientPreedit' = Empty) /\ Push(Update)
    BY <1>1, <1>3 DEF UpdatePreedit
  <2>2. lastEmpty' \in BOOLEAN /\ (lastEmpty' <=> clientPreedit' = Empty)
    BY <2>1
  <2>3. /\ Update \in Events /\ Update.type = "UpdatePreedit" /\ TextOf(Update) = <<>>
        /\ Shows(clientPreedit') \in Messages
    BY <1>1 DEF Events, Update, TextOf, Messages, Shows
  <2>4. blockedEvents' \in Seq(Events) /\ batch' \in Seq(Messages) /\ channel' \in Seq(Messages)
    BY <2>1, <2>3, PushTypes DEF ClientInv
  <2>5. ClientTypes'
    BY <1>1, <1>2, <2>2, <2>4 DEF ClientInv, ClientTypes, clientSide
  <2>6. Numbered(TextOf(Update), produced, produced')
    BY <1>1, <2>3, NumberedNothing DEF ClientInv, ClientTypes
  <2>7. Waiting' /\ ClientFollows'
    <3>1. Update.type = "ForwardKey" => Update.at = Empty
      BY <2>3
    <3> DEFINE e == Update
    <3>2. /\ e \in Events /\ Push(e) /\ (e.type = "ForwardKey" => e.at = Empty)
          /\ Numbered(TextOf(e), produced, produced') /\ e = Update
      BY <2>1, <2>3, <2>6, <3>1
    <3> HIDE DEF e
    <3> QED BY <1>1, <1>2, <1>3, <2>2, <2>5, <3>2, PushFollows
  <2> QED BY <2>2, <2>5, <2>7 DEF ClientInv
<1>4. CASE ~("Preedit" \in capability /\ ~(clientPreedit' = Empty /\ lastEmpty))
  <2>1. UNCHANGED <<lastEmpty, blockedEvents, batch, channel>>
    BY <1>1, <1>4 DEF UpdatePreedit
  <2>2. ClientTypes'
    BY <1>1, <1>2, <2>1 DEF ClientInv, ClientTypes, clientSide
  <2>3. Waiting'
    BY <1>1, <2>1 DEF ClientInv, Waiting, Forwarded
  <2>4. told' => (lastEmpty' <=> clientPreedit' = Empty)
    <3>1. lastEmpty \in BOOLEAN
      BY DEF ClientInv, ClientTypes
    <3> QED BY <1>2, <1>4, <2>1, <3>1
  <2>5. PICK c \in Clients : /\ Reaches(c)
                             /\ Runs(blockedEvents, c.length, produced)
                             /\ PreeditFollows(c)
    BY DEF ClientInv, ClientFollows
  <2>6. PreeditFollows(c)'
    <3>1. CASE Updated(blockedEvents, Len(blockedEvents))
      <4>1. "Preedit" \in capability
        BY <2>5, <3>1 DEF PreeditFollows
      <4> QED BY <1>1, <1>2, <2>1, <3>1, <4>1 DEF PreeditFollows
    <3>2. CASE ~Updated(blockedEvents, Len(blockedEvents))
      <4>1. lastEmpty => c.shown = Empty
        BY <2>5, <3>2 DEF PreeditFollows
      <4>2. told' => lastEmpty /\ clientPreedit' = Empty
        BY <1>2, <1>4
      <4> QED BY <2>1, <3>2, <4>1, <4>2 DEF PreeditFollows
    <3> QED BY <3>1, <3>2
  <2>7. Reaches(c)'
    BY <1>1, <2>1, <2>5 DEF Reaches, Client, clientSide
  <2>8. ClientFollows'
    BY <1>1, <2>1, <2>5, <2>6, <2>7 DEF ClientFollows
  <2> QED BY <2>2, <2>3, <2>4, <2>8 DEF ClientInv
<1> QED BY <1>3, <1>4

-----------------------------------------------------------------------------

\* A key that is answered, and not forwarded, is typed when nothing is blocked but
\* updates of an empty preedit.
LEMMA AnsweredInOrder ==
  ASSUME ClientInv, call = "ProcessKeyEvent", ~ForwardsKey(FALSE), NEW c \in Clients,
         Runs(blockedEvents, c.length, produced), PreeditFollows(c)
  PROVE  /\ c.length = produced
         /\ (told => c.shown = clientPreedit) \/ clientPreedit = Empty
         /\ \A x \in Clients : Runs(blockedEvents, x.length, x.length)
<1>1. c.length \in Nat /\ produced \in Nat /\ \A x \in Clients : x.length \in Nat
  BY DEF Clients, ClientInv, ClientTypes
<1>2. CASE blockedEvents = <<>>
  <2>1. c.length = produced
    BY <1>2, RunsEmpty
  <2>2. told => c.shown = clientPreedit
    BY <1>2, NothingBlocked DEF PreeditFollows
  <2> QED BY <1>1, <1>2, <2>1, <2>2, RunsNothing
<1>3. CASE blockedEvents # <<>>
  <2>1. "KeyEventOrderFix" \in capability
    BY <1>3 DEF ClientInv, Waiting, ClientTypes
  <2>2. /\ \A i \in DOMAIN blockedEvents : blockedEvents[i] = Update
        /\ clientPreedit = Empty
    BY <1>3, <2>1 DEF ForwardsKey, HasPendingEventsStrictOrder
  <2>3. blockedEvents \in Seq({Update})
    <3>1. blockedEvents \in Seq(Events)
      BY DEF ClientInv, ClientTypes
    <3> QED BY <2>2, <3>1
  <2> QED BY <1>1, <2>2, <2>3, RunsOfUpdates
<1> QED BY <1>2, <1>3

\* What answers the key, with what was blocked or in a batch, leads the client to
\* all that is produced.
LEMMA FinishReads ==
  ASSUME ClientInv, NEW accepted \in BOOLEAN, FinishKey(accepted)
  PROVE  /\ channel' \in Seq(Messages)
         /\ \E d \in Clients : /\ Reads(channel', Client, d)
                               /\ d.length = produced'
                               /\ told => d.shown = clientPreedit
                               /\ lastEmpty => d.shown = Empty
<1> DEFINE forwards == ForwardsKey(accepted)
           answer == IF accepted \/ forwards THEN <<>> ELSE <<Typed>>
           events == Delivered(IF forwards THEN Append(blockedEvents, Typed)
                               ELSE blockedEvents)
           Settled(d, n) == /\ d.length = n
                            /\ told => d.shown = clientPreedit
                            /\ lastEmpty => d.shown = Empty
<1>1. /\ call \in Calls
      /\ produced' = IF accepted THEN produced ELSE produced + 1
      /\ channel' = channel \o (CASE call = "ProcessKeyEvent" -> answer \o events
                                  [] call = "ProcessKeyEventBatch" -> batch \o answer
                                  [] call = "XIM" -> events \o answer)
  BY DEF FinishKey, ClientInv, ClientTypes
<1>2. PICK c \in Clients : /\ Reaches(c)
                           /\ Runs(blockedEvents, c.length, produced)
                           /\ PreeditFollows(c)
  BY DEF ClientInv, ClientFollows
<1>3. /\ ClientTypes /\ produced \in Nat /\ c.length \in Nat /\ channel \in Seq(Messages)
      /\ batch \in Seq(Messages) /\ blockedEvents \in Seq(Events)
      /\ Typed \in Messages
  BY TypedFacts DEF ClientInv, ClientTypes, Clients
<1>4. forwards => ~accepted
  BY DEF ForwardsKey
<1>5. answer \in Seq(Messages) /\ <<>> \in Seq(Messages)
  BY <1>3
<1>6. /\ events \in Seq(Messages)
      /\ \E d \in Clients : Reads(events, c, d)
                            /\ Settled(d, IF forwards THEN produced + 1 ELSE produced)
  <2>1. CASE forwards
    <3>1. events = Delivered(Append(blockedEvents, Typed))
      BY <2>1
    <3> QED BY <1>2, <2>1, <3>1, BlockedAndTyped
  <2>2. CASE ~forwards
    <3>1. events = Delivered(blockedEvents)
      BY <2>2
    <3> QED BY <1>2, <2>2, <3>1, BlockedAreDelivered
  <2> QED BY <2>1, <2>2
<1>7. PICK d \in Clients : Reads(events, c, d)
                           /\ Settled(d, IF forwards THEN produced + 1 ELSE produced)
  BY <1>6
\* What goes behind the channel, and leads the client from c on.
<1> SUFFICES \E msgs \in Seq(Messages), x \in Clients :
               /\ channel' = channel \o msgs /\ Reads(channel \o msgs, Client, x)
               /\ Settled(x, produced')
  <2>1. PICK msgs \in Seq(Messages), x \in Clients :
               /\ channel' = channel \o msgs /\ Reads(channel \o msgs, Client, x)
               /\ Settled(x, produced')
    OBVIOUS
  <2>2. channel' \in Seq(Messages)
    BY <1>3, <2>1, ConcatProperties
  <2> QED BY <2>1, <2>2
<1>8. CASE call = "ProcessKeyEvent"
  <2>1. batch = <<>> /\ channel' = channel \o (answer \o events)
    BY <1>1, <1>8 DEF ClientInv, Waiting
  <2>2. answer \o events \in Seq(Messages)
    BY <1>5, <1>6, ConcatProperties
  <2>3. \E x \in Clients : Reads(answer \o events, c, x) /\ Settled(x, produced')
    <3>1. CASE accepted \/ forwards
      <4>1. answer \o events = events
        BY <1>6, <3>1
      <4> HIDE DEF events, answer
      <4> QED BY <1>1, <1>4, <1>7, <3>1, <4>1
    <3>2. CASE ~accepted /\ ~forwards
      <4>1. answer = <<Typed>> /\ events = Delivered(blockedEvents) /\ ~ForwardsKey(FALSE)
            /\ produced' = produced + 1
        BY <1>1, <3>2
      <4>2. /\ c.length = produced
            /\ (told => c.shown = clientPreedit) \/ clientPreedit = Empty
            /\ \A x \in Clients : Runs(blockedEvents, x.length, x.length)
        BY <1>2, <1>8, <4>1, AnsweredInOrder
      <4>3. PICK y \in Clients : Reads(<<Typed>>, c, y)
                                 /\ y.length = produced + 1 /\ y.shown = c.shown
        BY <1>3, <4>2, TypedIsTaken
      <4>4. KeysFit(blockedEvents, y.shown)
        BY ForwardedFit DEF ClientInv, Waiting
      <4>5. y.length \in Nat /\ clientPreedit \in Preedits /\ Runs(blockedEvents, y.length, y.length)
        BY <4>2 DEF Clients, ClientInv, ClientTypes
      <4>6. \E x \in Clients :
              /\ Reads(Delivered(blockedEvents), y, x)
              /\ x.length = y.length
              /\ x.shown = IF Updated(blockedEvents, Len(blockedEvents))
                           THEN clientPreedit ELSE y.shown
        BY <1>3, <4>4, <4>5, DeliveredReads
      <4>7. PICK x \in Clients :
              /\ Reads(Delivered(blockedEvents), y, x)
              /\ x.length = y.length
              /\ x.shown = IF Updated(blockedEvents, Len(blockedEvents))
                           THEN clientPreedit ELSE y.shown
        BY <4>6
      <4>8. (told => x.shown = clientPreedit) /\ (lastEmpty => x.shown = Empty)
        <5>1. CASE Updated(blockedEvents, Len(blockedEvents))
          BY <1>2, <4>7, <5>1 DEF PreeditFollows, ClientInv
        <5>2. CASE ~Updated(blockedEvents, Len(blockedEvents))
          BY <1>2, <4>3, <4>7, <5>2 DEF PreeditFollows
        <5> QED BY <5>1, <5>2
      <4>9. Reads(<<Typed>> \o Delivered(blockedEvents), c, x)
        <5>1. <<Typed>> \in Seq(Messages) /\ Delivered(blockedEvents) \in Seq(Messages)
          BY <1>3, <1>6, <4>1
        <5> QED BY <4>3, <4>7, <5>1, ReadsMore
      <4> QED BY <4>1, <4>3, <4>7, <4>8, <4>9
    <3> QED BY <3>1, <3>2
  <2> HIDE DEF answer, events
  <2> QED BY <1>2, <1>3, <2>1, <2>2, <2>3, ReachesOn
<1>9. CASE call = "ProcessKeyEventBatch"
  <2>1. channel' = channel \o (batch \o answer) /\ blockedEvents = <<>> /\ ~forwards
    <3>1. blockedEvents = <<>>
      BY <1>9 DEF ClientInv, Waiting
    <3>2. ~forwards
      BY <3>1 DEF ForwardsKey, HasPendingEventsStrictOrder
    <3> QED BY <1>1, <1>9, <3>1, <3>2
  <2>2. c.length = produced /\ (told => c.shown = clientPreedit) /\ (lastEmpty => c.shown = Empty)
    <3>1. c.length = produced
      BY <1>2, <2>1, RunsEmpty
    <3> QED BY <1>2, <2>1, <3>1, NothingBlocked DEF PreeditFollows
  <2>3. \E x \in Clients : Reads(answer, c, x) /\ Settled(x, produced')
    <3>1. CASE accepted
      BY <1>1, <2>2, <3>1, ReadsNothing
    <3>2. CASE ~accepted
      <4>1. answer = <<Typed>> /\ produced' = produced + 1
        BY <1>1, <2>1, <3>2
      <4>2. PICK x \in Clients : Reads(<<Typed>>, c, x)
                                 /\ x.length = produced + 1 /\ x.shown = c.shown
        BY <1>3, <2>2, TypedIsTaken
      <4> QED BY <2>2, <4>1, <4>2
    <3> QED BY <3>1, <3>2
  <2>4. batch \o answer \in Seq(Messages)
    BY <1>3, <1>5, ConcatProperties
  <2> HIDE DEF answer
  <2> QED BY <1>2, <1>3, <1>5, <2>1, <2>3, <2>4, ReachesOn
<1>10. CASE call = "XIM"
  <2>1. batch = <<>> /\ channel' = channel \o (events \o answer)
    BY <1>1, <1>10 DEF ClientInv, Waiting
  <2>2. events \o answer \in Seq(Messages)
    BY <1>5, <1>6, ConcatProperties
  <2>3. \E x \in Clients : Reads(events \o answer, c, x) /\ Settled(x, produced')
    <3>1. CASE accepted \/ forwards
      <4>1. events \o answer = events
        BY <1>6, <3>1
      <4> HIDE DEF events, answer
      <4> QED BY <1>1, <1>4, <1>7, <3>1, <4>1
    <3>2. CASE ~accepted /\ ~forwards
      <4>1. answer = <<Typed>> /\ produced' = produced + 1 /\ d.length = produced
            /\ (told => d.shown = clientPreedit)
        BY <1>1, <1>7, <3>2
      <4>2. PICK x \in Clients : Reads(<<Typed>>, d, x)
                                 /\ x.length = produced + 1 /\ x.shown = d.shown
        BY <1>3, <4>1, TypedIsTaken
      <4>3. Reads(events \o <<Typed>>, c, x)
        <5>1. <<Typed>> \in Seq(Messages)
          BY <1>3
        <5> HIDE DEF events
        <5> QED BY <1>6, <1>7, <4>2, <5>1, ReadsMore
      <4> QED BY <1>7, <4>1, <4>2, <4>3
    <3> QED BY <3>1, <3>2
  <2> HIDE DEF answer, events
  <2> QED BY <1>2, <1>3, <2>1, <2>2, <2>3, ReachesOn
<1> QED BY <1>1, <1>8, <1>9, <1>10 DEF Calls

LEMMA FinishFollows ==
  ASSUME ClientInv, NEW accepted \in BOOLEAN, FinishKey(accepted)
  PROVE  ClientInv'
<1>1. /\ call' = "None" /\ blocking' = FALSE /\ blockedEvents' = <<>> /\ batch' = <<>>
      /\ UNCHANGED <<capability, clientPreedit, lastEmpty, clientSide, told>>
      /\ produced' = IF accepted THEN produced ELSE produced + 1
  BY DEF FinishKey
<1>2. channel' \in Seq(Messages)
  BY FinishReads
<1>3. PICK d \in Clients : /\ Reads(channel', Client, d)
                           /\ d.length = produced'
                           /\ told => d.shown = clientPreedit
                           /\ lastEmpty => d.shown = Empty
  BY FinishReads
<1>4. ClientTypes'
  <2>1. ClientTypes
    BY DEF ClientInv
  <2>2. produced' \in Nat
    BY <1>1, <2>1 DEF ClientTypes
  <2>3. document' = document /\ shown' = shown
    BY <1>1 DEF clientSide
  <2> QED BY <1>1, <1>2, <2>1, <2>2, <2>3, NothingBlocked DEF ClientTypes
<1>5. Waiting'
  BY <1>1, NothingBlocked DEF Waiting
<1>6. ClientFollows'
  <2>1. Client' = Client /\ produced' \in Nat
    BY <1>1, <1>4 DEF Client, clientSide, ClientTypes
  <2> QED BY <1>1, <1>3, <2>1, AllIsSent
<1> QED BY <1>1, <1>4, <1>5, <1>6 DEF ClientInv

-----------------------------------------------------------------------------

LEMMA ClientInvKept ==
  ASSUME ClientInv, [ClientNext]_clientVars
  PROVE  ClientInv'
<1>1. CASE CommitString
  BY <1>1, CommitFollows
<1>2. CASE Receive
  BY <1>2, ReceiveFollows
<1>3. ASSUME NEW how \in Calls, StartKey(how) PROVE ClientInv'
  BY <1>3, StartFollows
<1>4. ASSUME NEW accepted \in BOOLEAN, FinishKey(accepted) PROVE ClientInv'
  BY <1>4, FinishFollows
<1>5. ASSUME NEW preedit \in Preedits, ShowPreedit(preedit) PROVE ClientInv'
  BY <1>5, ShowFollows
<1>6. ASSUME NEW flags \in SUBSET {"Preedit", "KeyEventOrderFix"}, SetCapability(flags)
      PROVE  ClientInv'
  BY <1>6, CapabilityFollows
<1>7. CASE UNCHANGED clientVars
  BY <1>7 DEF ClientInv, ClientTypes, Waiting, Forwarded, ClientFollows, Reaches,
     PreeditFollows, Client, clientVars, clientSide
<1> QED BY <1>1, <1>2, <1>3, <1>4, <1>5, <1>6, <1>7 DEF ClientNext, Preedits

LEMMA ClientInvAlways == ClientSpec => []ClientInv
<1>1. ClientInit => ClientInv
  BY InitFollows
<1>2. ClientInv /\ [ClientNext]_clientVars => ClientInv'
  BY ClientInvKept
<1> QED BY <1>1, <1>2, PTL DEF ClientSpec

(***************************************************************************)
(* TextKept: whatever mixture of events is blocked, delivered in a row,    *)
(* forwarded behind an answer or returned with it, the client's text is in *)
(* the order in which it was produced, and complete when nothing is on its *)
(* way (deliverBlockedEvents, Instance::postEvent).                        *)
(***************************************************************************)
THEOREM TextKeptAlways == ClientSpec => []TextKept
<1>1. ClientInv => TextKept
  <2> SUFFICES ASSUME ClientInv PROVE TextKept
    OBVIOUS
  <2>1. ClientTypes /\ Waiting
    BY DEF ClientInv
  <2>2. \A i \in DOMAIN document : document[i] = i
    <3>1. document \in Seq(Nat) /\ \A i \in 1..Len(document) : document[i] = 0 + i
      BY <2>1 DEF ClientTypes, Numbered
    <3>2. DOMAIN document = 1..Len(document)
      BY <3>1
    <3>3. \A i \in 1..Len(document) : 0 + i = i
      OBVIOUS
    <3> QED BY <3>1, <3>2, <3>3
  <2>3. ASSUME call = "None", channel = <<>> PROVE Len(document) = produced
    <3>1. batch = <<>> /\ blockedEvents = <<>>
      BY <2>1, <2>3 DEF Waiting, ClientTypes
    <3>2. PICK c \in Clients : /\ Reaches(c)
                               /\ Runs(blockedEvents, c.length, produced)
      BY DEF ClientInv, ClientFollows
    <3>3. c = Client
      BY <2>3, <3>1, <3>2, ReadsEmpty DEF Reaches
    <3>4. c.length = produced
      BY <3>1, <3>2, RunsEmpty
    <3> QED BY <2>1, <3>3, <3>4, ClientIsClient
  <2> QED BY <2>2, <2>3 DEF TextKept
<1> QED BY <1>1, ClientInvAlways, PTL

(***************************************************************************)
(* PreeditSettles: the client's preedit is the engine's when nothing is on *)
(* its way, although an update of an empty preedit is sent only once and a *)
(* blocked update is sent with the preedit of later (updatePreedit,        *)
(* updatePreeditImpl).                                                     *)
(***************************************************************************)
THEOREM PreeditSettlesAlways == ClientSpec => []PreeditSettles
<1>1. ClientInv => PreeditSettles
  <2> SUFFICES ASSUME ClientInv, told, channel = <<>>, blockedEvents = <<>>, batch = <<>>
               PROVE  shown = clientPreedit
    BY DEF PreeditSettles
  <2>1. PICK c \in Clients : Reaches(c) /\ PreeditFollows(c)
    BY DEF ClientInv, ClientFollows
  <2>2. c = Client
    BY <2>1, ReadsEmpty DEF Reaches
  <2>3. c.shown = clientPreedit
    BY <2>1, NothingBlocked DEF PreeditFollows
  <2> QED BY <2>2, <2>3, ClientIsClient DEF ClientInv
<1> QED BY <1>1, ClientInvAlways, PTL

(***************************************************************************)
(* KeyMeetsPreedit: a key that comes back to the client after or before    *)
(* what was blocked finds the preedit that the engine had for the client.  *)
(***************************************************************************)
THEOREM KeyMeetsPreeditAlways == ClientSpec => KeyMeetsPreedit
<1> DEFINE Meets == Receive /\ Head(channel).type = "ForwardKey" /\ Head(channel).at # Empty
                      => shown = Head(channel).at
<1>1. ClientInv => Meets
  <2> SUFFICES ASSUME ClientInv, Receive, Head(channel).type = "ForwardKey",
                      Head(channel).at # Empty
               PROVE  shown = Head(channel).at
    OBVIOUS
  <2>1. PICK d \in Clients : Takes(Client, Head(channel), d)
    BY ReceiveFacts
  <2>2. Client.shown = shown
    BY ClientIsClient DEF ClientInv
  <2> QED BY <2>1, <2>2 DEF Takes
<1>2. [][Meets]_clientVars <=> KeyMeetsPreedit
  BY DEF KeyMeetsPreedit, Meets
<1> HIDE DEF Meets
<1> QED BY <1>1, <1>2, ClientInvAlways, PTL

-----------------------------------------------------------------------------
\* The texts as one queue.

\* What it is follows from where it begins and ends.
LEMMA NumberedSame ==
  ASSUME NEW s, NEW t, NEW m, NEW n, Numbered(s, m, n), Numbered(t, m, n)
  PROVE  s = t
<1>1. s \in Seq(Nat) /\ t \in Seq(Nat) /\ Len(s) = Len(t)
  BY DEF Numbered
<1>2. \A k \in 1..Len(s) : s[k] = t[k]
  BY <1>1 DEF Numbered
<1> QED BY <1>1, <1>2, SeqEqual

\* Both ends of a queue.
LEMMA NumberedAppend ==
  ASSUME NEW s, NEW m \in Nat, NEW n \in Nat, Numbered(s, m, n)
  PROVE  Numbered(Append(s, n + 1), m, n + 1) /\ Len(s) \in Nat /\ m + Len(s) = n
<1>1. s \in Seq(Nat) /\ Len(s) \in Nat /\ m + Len(s) = n
  BY DEF Numbered
<1>2. Append(s, n + 1) = s \o <<n + 1>>
  BY <1>1
<1>3. Numbered(s \o <<n + 1>>, m, n + 1)
  BY NumberedNext, NumberedMore
<1> QED BY <1>1, <1>2, <1>3

LEMMA RestOf ==
  ASSUME NEW s \in Seq(Nat), NEW m \in Nat, NEW n \in Nat, Len(s) = m + n
  PROVE  /\ SubSeq(s, m + 1, m + n) \in Seq(Nat) /\ Len(SubSeq(s, m + 1, m + n)) = n
         /\ \A k \in 1..n : SubSeq(s, m + 1, m + n)[k] = s[m + k]
<1> DEFINE a == m + 1
           b == m + n
<1>1. /\ a \in Int /\ b \in Int /\ b - a + 1 = n
      /\ a <= b => b - a + 1 = n
      /\ ~(a <= b) => n = 0
      /\ \A k \in 1..n : a + k - 1 = m + k
  OBVIOUS
<1>2. \A i \in a..b : s[i] \in Nat
  <2> \A i \in a..b : i \in 1..Len(s)
    OBVIOUS
  <2> QED OBVIOUS
<1> HIDE DEF a, b
<1>3. /\ SubSeq(s, a, b) \in Seq(Nat)
      /\ Len(SubSeq(s, a, b)) = IF a <= b THEN b - a + 1 ELSE 0
      /\ \A i \in 1..(b - a + 1) : SubSeq(s, a, b)[i] = s[a + i - 1]
  BY <1>1, <1>2, SubSeqProperties
<1>4. Len(SubSeq(s, a, b)) = n /\ \A k \in 1..n : SubSeq(s, a, b)[k] = s[m + k]
  BY <1>1, <1>3
<1> QED BY <1>3, <1>4 DEF a, b

LEMMA NumberedFront ==
  ASSUME NEW s, NEW t, NEW l \in Nat, NEW m \in Nat, NEW n \in Nat,
         Numbered(s, l, m), Numbered(t, m, n)
  PROVE  /\ Len(s) \in Nat /\ Len(s \o t) \in Nat /\ Len(s) <= Len(s \o t)
         /\ SubSeq(s \o t, 1, Len(s)) = s
         /\ SubSeq(s \o t, Len(s) + 1, Len(s \o t)) = t
<1>1. s \in Seq(Nat) /\ t \in Seq(Nat) /\ Len(s) \in Nat /\ Len(t) \in Nat
  BY DEF Numbered
<1>2. /\ s \o t \in Seq(Nat) /\ Len(s \o t) = Len(s) + Len(t)
      /\ \A k \in 1..(Len(s) + Len(t)) :
           (s \o t)[k] = IF k <= Len(s) THEN s[k] ELSE t[k - Len(s)]
  BY <1>1, ConcatProperties
<1> DEFINE st == s \o t
<1>3. /\ st \in Seq(Nat) /\ Len(st) = Len(s) + Len(t)
      /\ \A k \in 1..Len(s) : st[k] = s[k]
      /\ \A k \in 1..Len(t) : st[Len(s) + k] = t[k]
  <2>1. \A k \in 1..Len(s) : k \in 1..(Len(s) + Len(t)) /\ k <= Len(s)
    BY <1>1
  <2>2. \A k \in 1..Len(t) : /\ Len(s) + k \in 1..(Len(s) + Len(t)) /\ ~(Len(s) + k <= Len(s))
                             /\ (Len(s) + k) - Len(s) = k
    BY <1>1
  <2> QED BY <1>2, <2>1, <2>2
<1> HIDE DEF st
<1>4. SubSeq(st, 1, Len(s)) = s
  <2>1. /\ SubSeq(st, 1, Len(s)) \in Seq(Nat) /\ Len(SubSeq(st, 1, Len(s))) = Len(s)
        /\ \A k \in 1..Len(s) : SubSeq(st, 1, Len(s))[k] = st[k]
    BY <1>1, <1>3
  <2> QED BY <1>1, <1>3, <2>1, SeqEqual
<1>5. SubSeq(st, Len(s) + 1, Len(st)) = t
  <2> DEFINE u == SubSeq(st, Len(s) + 1, Len(st))
  <2>1. u = SubSeq(st, Len(s) + 1, Len(s) + Len(t))
    BY <1>3
  <2> HIDE DEF u
  <2>2. /\ u \in Seq(Nat) /\ Len(u) = Len(t)
        /\ \A k \in 1..Len(t) : u[k] = st[Len(s) + k]
    BY <1>1, <1>3, <2>1, RestOf
  <2>3. u = t
    BY <1>1, <1>3, <2>2, SeqEqual
  <2> QED BY <2>3 DEF u
<1> QED BY <1>1, <1>3, <1>4, <1>5 DEF st

\* TextsOf is what its equation says.
LEMMA TextsOfSteps ==
  ASSUME NEW S, NEW events \in Seq(S), \A e \in S : TextOf(e) \in Seq(Nat)
  PROVE  \E g \in [0..Len(events) -> Seq(Nat)] :
           /\ g[0] = <<>> /\ TextsOf(events) = g[Len(events)]
           /\ \A k \in 1..Len(events) : g[k] = g[k - 1] \o TextOf(events[k])
<1> DEFINE n == Len(events)
           Steps(f) == [k \in 0..n |-> IF k = 0 THEN <<>> ELSE f[k - 1] \o TextOf(events[k])]
           step == [a \in (1..n) \X Seq(Nat) |-> a[2] \o TextOf(events[a[1]])]
           f == CHOOSE h : h = Steps(h)
<1>0. n \in Nat /\ \A k \in 1..n : TextOf(events[k]) \in Seq(Nat)
  OBVIOUS
<1>1. step \in [(1..n) \X Seq(Nat) -> Seq(Nat)]
  <2> HIDE DEF n
  <2>1. \A a \in (1..n) \X Seq(Nat) : a[1] \in 1..n /\ a[2] \in Seq(Nat)
    OBVIOUS
  <2>2. \A a \in (1..n) \X Seq(Nat) : a[2] \o TextOf(events[a[1]]) \in Seq(Nat)
    BY <1>0, <2>1, ConcatProperties
  <2> QED BY <2>2
<1>2. <<>> \in Seq(Nat)
  OBVIOUS
<1>3. PICK g \in [0..n -> Seq(Nat)] : Iterates(g, <<>>, step, n)
  <2> HIDE DEF step, n
  <2> QED BY <1>0, <1>1, <1>2, RecursionExists
<1>4. ASSUME NEW k \in 1..n
      PROVE  g[k] = g[k - 1] \o TextOf(events[k])
  <2>1. k - 1 \in 0..n
    BY <1>0
  <2>2. g[k - 1] \in Seq(Nat)
    BY <2>1
  <2>3. g[k] = step[<<k, g[k - 1]>>]
    BY <1>3 DEF Iterates
  <2> QED BY <2>2, <2>3
<1>5. g = Steps(g)
  <2>1. ASSUME NEW k \in 0..n
        PROVE  g[k] = Steps(g)[k]
    <3>1. CASE k = 0
      BY <1>3, <3>1 DEF Iterates
    <3>2. CASE k # 0
      <4>1. k \in 1..n
        BY <3>2
      <4> QED BY <1>4, <3>2, <4>1
    <3> QED BY <3>1, <3>2
  <2>2. DOMAIN g = 0..n /\ g = [k \in 0..n |-> g[k]]
    OBVIOUS
  <2> QED BY <2>1, <2>2
<1>6. f = Steps(f)
  <2> HIDE DEF Steps
  <2> QED BY <1>5
<1>7. TextsOf(events) = f[n]
  BY DEF TextsOf
<1>8. \A k \in 0..n : f[k] = IF k = 0 THEN <<>> ELSE f[k - 1] \o TextOf(events[k])
  BY <1>6
<1>9. g[0] = <<>>
  BY <1>3 DEF Iterates
<1> HIDE DEF f, step, n
<1>10. f[n] = g[n]
  <2> DEFINE same == [k \in 0..n |-> f[k] = g[k]]
  <2>1. same \in [0..n -> BOOLEAN] /\ \A k \in 0..n : same[k] <=> f[k] = g[k]
    OBVIOUS
  <2>2. 0 \in 0..n /\ n \in 0..n /\ \A k \in 1..n : k # 0 /\ k \in 0..n /\ k - 1 \in 0..n
    BY <1>0
  <2> HIDE DEF same
  <2>3. same[0]
    BY <1>8, <1>9, <2>1, <2>2
  <2>4. ASSUME NEW k \in 1..n, same[k - 1] PROVE same[k]
    <3>1. f[k - 1] = g[k - 1] /\ f[k] = f[k - 1] \o TextOf(events[k])
      BY <1>8, <2>1, <2>2, <2>4
    <3> QED BY <1>4, <2>1, <2>2, <3>1
  <2>5. \A k \in 0..n : same[k]
    BY <1>0, <2>1, <2>3, <2>4, LeastWrong
  <2> QED BY <2>1, <2>2, <2>5
<1> QED BY <1>4, <1>7, <1>9, <1>10 DEF n

\* The texts of events in a row are numbered in a row.
LEMMA RunsTexts ==
  ASSUME NEW S, NEW events \in Seq(S), \A e \in S : TextOf(e) \in Seq(Nat),
         NEW m \in Nat, NEW n \in Nat, Runs(events, m, n)
  PROVE  Numbered(TextsOf(events), m, n)
<1> DEFINE k == Len(events)
<1>1. PICK b \in [0..k -> Nat] :
        /\ b[0] = m /\ b[k] = n
        /\ \A i \in 1..k : Numbered(TextOf(events[i]), b[i - 1], b[i])
  BY DEF Runs
<1>2. PICK g \in [0..k -> Seq(Nat)] :
        /\ g[0] = <<>> /\ TextsOf(events) = g[k]
        /\ \A i \in 1..k : g[i] = g[i - 1] \o TextOf(events[i])
  BY TextsOfSteps
<1>3. k \in Nat
  OBVIOUS
<1> HIDE DEF k
<1> DEFINE right == [i \in 0..k |-> Numbered(g[i], m, b[i])]
<1>4. right \in [0..k -> BOOLEAN] /\ \A i \in 0..k : right[i] <=> Numbered(g[i], m, b[i])
  BY DEF Numbered
<1> HIDE DEF right
<1>5. right[0]
  BY <1>1, <1>2, <1>3, <1>4, NumberedNothing
<1>6. ASSUME NEW i \in 1..k, right[i - 1] PROVE right[i]
  <2>1. i - 1 \in 0..k /\ i \in 0..k
    BY <1>3
  <2>2. b[i - 1] \in Nat /\ b[i] \in Nat /\ Numbered(g[i - 1], m, b[i - 1])
    BY <1>1, <1>4, <1>6, <2>1
  <2>3. Numbered(g[i - 1] \o TextOf(events[i]), m, b[i])
    BY <1>1, <2>2, NumberedMore
  <2> QED BY <1>2, <1>4, <2>1, <2>3
<1>7. \A i \in 0..k : right[i]
  BY <1>3, <1>4, <1>5, <1>6, LeastWrong
<1> QED BY <1>1, <1>2, <1>3, <1>4, <1>7

LEMMA ReadsRuns ==
  ASSUME NEW msgs \in Seq(Messages), NEW c, NEW d, Reads(msgs, c, d)
  PROVE  Runs(msgs, c.length, d.length)
<1> DEFINE k == Len(msgs)
<1>1. PICK b \in [0..k -> Clients] :
        /\ b[0] = c /\ b[k] = d
        /\ \A i \in 1..k : Takes(b[i - 1], msgs[i], b[i])
  BY DEF Reads
<1>2. k \in Nat
  OBVIOUS
<1> HIDE DEF k
<1> DEFINE a == [i \in 0..k |-> b[i].length]
<1>3. a \in [0..k -> Nat] /\ \A i \in 0..k : a[i] = b[i].length
  BY <1>1 DEF Clients
<1> HIDE DEF a
<1>4. ASSUME NEW i \in 1..k PROVE Numbered(TextOf(msgs[i]), a[i - 1], a[i])
  <2>1. i - 1 \in 0..k /\ i \in 0..k
    BY <1>2
  <2> QED BY <1>1, <1>3, <2>1 DEF Takes
<1>5. a[0] = c.length /\ a[k] = d.length
  BY <1>1, <1>2, <1>3
<1> QED BY <1>3, <1>4, <1>5 DEF Runs, k

LEMMA TextsTyped == \A e \in Events \cup Messages : TextOf(e) \in Seq(Nat)
BY DEF Events, Messages, Commits, Keys, Update, TextOf

\* What is unread goes on where the client's text ends, up to what was produced last.
UnreadFits ==
  /\ Numbered(Unread, Len(document), produced) /\ Len(document) \in Nat /\ produced \in Nat
  /\ Numbered(document, 0, Len(document))

LEMMA UnreadIsTheRest ==
  ASSUME ClientInv
  PROVE  UnreadFits
<1>1. PICK c \in Clients : Reaches(c) /\ Runs(blockedEvents, c.length, produced)
  BY DEF ClientInv, ClientFollows
<1>2. PICK d \in Clients : Reads(channel, Client, d) /\ Reads(batch, d, c)
  BY <1>1 DEF Reaches
<1>3. /\ channel \in Seq(Messages) /\ batch \in Seq(Messages) /\ blockedEvents \in Seq(Events)
      /\ produced \in Nat /\ Client.length = Len(document) /\ Len(document) \in Nat
      /\ Numbered(document, 0, Len(document))
      /\ c.length \in Nat /\ d.length \in Nat
  BY ClientIsClient DEF ClientInv, ClientTypes, Clients
<1>4. Numbered(TextsOf(channel), Len(document), d.length)
  <2>1. Runs(channel, Len(document), d.length)
    BY <1>2, <1>3, ReadsRuns
  <2> QED BY <1>3, <2>1, RunsTexts, TextsTyped
<1>5. Numbered(TextsOf(batch), d.length, c.length)
  <2>1. Runs(batch, d.length, c.length)
    BY <1>2, <1>3, ReadsRuns
  <2> QED BY <1>3, <2>1, RunsTexts, TextsTyped
<1>6. Numbered(TextsOf(blockedEvents), c.length, produced)
  BY <1>1, <1>3, RunsTexts, TextsTyped
<1>7. Numbered(TextsOf(channel) \o TextsOf(batch), Len(document), c.length)
  BY <1>3, <1>4, <1>5, NumberedMore
<1>8. Numbered(Unread, Len(document), produced)
  BY <1>3, <1>6, <1>7, NumberedMore DEF Unread
<1> QED BY <1>3, <1>8 DEF UnreadFits

-----------------------------------------------------------------------------
\* A step of the contexts is one of the queue, or none.

LEMMA NothingNew ==
  ASSUME UnreadFits, UnreadFits', document' = document, produced' = produced
  PROVE  UNCHANGED TextPromise!textVars
<1>1. Numbered(Unread, Len(document), produced) /\ Numbered(Unread', Len(document), produced)
  BY DEF UnreadFits
<1> QED BY <1>1, NumberedSame DEF TextPromise!textVars

LEMMA OneMore ==
  ASSUME UnreadFits, UnreadFits', document' = document, produced' = produced + 1
  PROVE  TextPromise!Produce
<1>1. /\ Numbered(Unread, Len(document), produced) /\ Numbered(Unread', Len(document), produced + 1)
      /\ Len(document) \in Nat /\ produced \in Nat
  BY DEF UnreadFits
<1>2. /\ Numbered(Append(Unread, produced + 1), Len(document), produced + 1)
      /\ Len(document) + Len(Unread) = produced
  BY <1>1, NumberedAppend
<1>3. Unread' = Append(Unread, produced + 1)
  BY <1>1, <1>2, NumberedSame
<1> QED BY <1>2, <1>3 DEF TextPromise!Produce

LEMMA SomeTaken ==
  ASSUME UnreadFits, UnreadFits', produced' = produced,
         NEW text, NEW n \in Nat, document' = document \o text, Numbered(text, Len(document), n)
  PROVE  TextPromise!Take \/ UNCHANGED TextPromise!textVars
<1>1. /\ Numbered(Unread, Len(document), produced) /\ Numbered(Unread', Len(document'), produced)
      /\ Len(document) \in Nat /\ Len(document') \in Nat /\ produced \in Nat
      /\ Numbered(document, 0, Len(document)) /\ Numbered(document', 0, Len(document'))
  BY DEF UnreadFits
<1>2. Len(document') = n
  <2>1. 0 \in Nat /\ Numbered(document', 0, n)
    BY <1>1, NumberedMore
  <2>2. Len(document') = n - 0
    BY <2>1 DEF Numbered
  <2> QED BY <2>2
<1>3. Numbered(text \o Unread', Len(document), produced)
  BY <1>1, <1>2, NumberedMore
<1>4. Unread = text \o Unread'
  BY <1>1, <1>3, NumberedSame
<1>5. /\ Len(text) \in Nat /\ Len(Unread) \in Nat /\ Len(text) <= Len(Unread)
      /\ SubSeq(Unread, 1, Len(text)) = text
      /\ SubSeq(Unread, Len(text) + 1, Len(Unread)) = Unread'
  <2> DEFINE rest == Unread'
  <2>1. Numbered(rest, n, produced)
    BY <1>1, <1>2
  <2> HIDE DEF rest
  <2>2. /\ Len(text) \in Nat /\ Len(text \o rest) \in Nat /\ Len(text) <= Len(text \o rest)
        /\ SubSeq(text \o rest, 1, Len(text)) = text
        /\ SubSeq(text \o rest, Len(text) + 1, Len(text \o rest)) = rest
    BY <1>1, <2>1, NumberedFront
  <2>3. Unread = text \o rest
    BY <1>4 DEF rest
  <2> QED BY <2>2, <2>3 DEF rest
<1>6. CASE Len(text) = 0
  <2>1. text = <<>> /\ document \in Seq(Nat)
    BY <1>1, <1>6 DEF Numbered
  <2>2. document' = document
    BY <2>1
  <2> QED BY <2>2, NothingNew
<1>7. CASE Len(text) # 0
  <2>1. Len(text) \in 1..Len(Unread)
    BY <1>5, <1>7
  <2> QED BY <1>5, <2>1 DEF TextPromise!Take
<1> QED BY <1>6, <1>7

LEMMA StepIsOfQueue ==
  ASSUME ClientInv, UnreadFits, UnreadFits', [ClientNext]_clientVars
  PROVE  [TextPromise!TextNext]_(TextPromise!textVars)
<1>1. CASE CommitString
  <2>1. document' = document /\ produced' = produced + 1
    BY <1>1 DEF CommitString, clientSide
  <2> QED BY <2>1, OneMore DEF TextPromise!TextNext
<1>2. CASE Receive
  <2>1. PICK d \in Clients : Takes(Client, Head(channel), d)
    BY <1>2, ReceiveFacts
  <2>2. Client.length = Len(document) /\ d.length \in Nat
    BY ClientIsClient DEF ClientInv, Clients
  <2>3. Numbered(TextOf(Head(channel)), Len(document), d.length) /\ produced' = produced
    BY <1>2, <2>1, <2>2 DEF Takes, Receive
  <2>4. document' = document \o TextOf(Head(channel))
    <3>1. document \in Seq(Nat)
      BY DEF ClientInv, ClientTypes, Numbered
    <3>2. CASE Head(channel).type = "UpdatePreedit"
      <4>1. document' = document /\ TextOf(Head(channel)) = <<>>
        BY <1>2, <3>2 DEF Receive, TextOf
      <4> QED BY <3>1, <4>1
    <3>3. CASE Head(channel).type # "UpdatePreedit"
      BY <1>2, <3>3 DEF Receive, TextOf
    <3> QED BY <3>2, <3>3
  <2> QED BY <2>2, <2>3, <2>4, SomeTaken DEF TextPromise!TextNext
<1>3. ASSUME NEW how \in Calls, StartKey(how)
      PROVE  [TextPromise!TextNext]_(TextPromise!textVars)
  BY <1>3, NothingNew DEF StartKey, clientSide
<1>4. ASSUME NEW accepted \in BOOLEAN, FinishKey(accepted)
      PROVE  [TextPromise!TextNext]_(TextPromise!textVars)
  <2>1. document' = document /\ (produced' = produced \/ produced' = produced + 1)
    BY <1>4 DEF FinishKey, clientSide
  <2> QED BY <2>1, NothingNew, OneMore DEF TextPromise!TextNext
<1>5. ASSUME NEW preedit \in Preedits, ShowPreedit(preedit)
      PROVE  [TextPromise!TextNext]_(TextPromise!textVars)
  BY <1>5, NothingNew DEF ShowPreedit, clientSide
<1>6. ASSUME NEW flags \in SUBSET {"Preedit", "KeyEventOrderFix"}, SetCapability(flags)
      PROVE  [TextPromise!TextNext]_(TextPromise!textVars)
  BY <1>6, NothingNew DEF SetCapability, clientSide
<1>7. CASE UNCHANGED clientVars
  BY <1>7, NothingNew DEF clientVars, clientSide
<1> QED BY <1>1, <1>2, <1>3, <1>4, <1>5, <1>6, <1>7 DEF ClientNext, Preedits

LEMMA InitIsOfQueue ==
  ASSUME ClientInit
  PROVE  TextPromise!TextInit
<1>1. ClientInv /\ document = <<>> /\ produced = 0
  BY InitFollows DEF ClientInit
<1>2. Len(<<>>) = 0
  OBVIOUS
<1>3. Numbered(Unread, 0, 0)
  BY <1>1, <1>2, UnreadIsTheRest DEF UnreadFits
<1>4. Unread = <<>>
  BY <1>3, NumberedNothing, NumberedSame
<1> QED BY <1>1, <1>4 DEF TextPromise!TextInit

(***************************************************************************)
(* IsTextQueue: the way to the client is one queue of text.  In it nothing *)
(* is lost, repeated or overtaken, at any moment: not by merging commits   *)
(* (deliverBlockedEvents), not by the answer to a key that comes before    *)
(* the events that were blocked, and not by a key forwarded behind them    *)
(* (Instance::postEvent).                                                  *)
(***************************************************************************)
THEOREM ClientIsTextQueue == ClientSpec => IsTextQueue
<1>1. ClientInit => TextPromise!TextInit
  BY InitIsOfQueue
<1>2. ClientInv => UnreadFits
  BY UnreadIsTheRest
<1>3. ClientInv /\ UnreadFits /\ UnreadFits' /\ [ClientNext]_clientVars
        => [TextPromise!TextNext]_(TextPromise!textVars)
  BY StepIsOfQueue
<1> QED BY <1>1, <1>2, <1>3, ClientInvAlways, PTL DEF ClientSpec, IsTextQueue, TextPromise!TextSpec

-----------------------------------------------------------------------------
\* The keyboard engine.

\* The compose table has nothing but a dead key and the key that it belongs to.  Of a
\* longer sequence that is broken off the keys before the last one are lost: when they
\* are dead keys this is what the run dead_keys finds, and when one of them is none
\* typeImpl swallows the sequence (compose.cpp:168-171).
PairsOnly == \A keys \in DOMAIN ComposeTable : Len(keys) = 2 /\ keys[1] \in DeadKeys

Lists == [kind : {"None", "Hint", "LongPress"}, words : Seq(OfferedWords), cursor : Nat]
States ==
  [wordHint : BOOLEAN, oneTime : BOOLEAN, buffer : Texts, mode : {"Hint", "LongPress"},
   orig : Texts, repeated : BOOLEAN, composing : Seq(Syms), fed : Seq(Syms),
   list : Lists, shown : Texts, sent : Texts, removed : {0, 1}]

OneDead(keys) == Len(keys) = 1 /\ keys[1] \in DeadKeys

\* At most one dead key waits, and libxkbcommon was fed with it unless another engine
\* has reset the compose state.
Sound(s) ==
  /\ s \in States
  /\ s.composing = <<>> \/ OneDead(s.composing)
  /\ s.fed = s.composing \/ s.fed = <<>>

\* A long press offers for something that was typed, with no dead key behind it, and
\* words are offered for a buffer that is not empty.
Fits(s) ==
  /\ s \in States
  /\ s.list.cursor <= Len(s.list.words)
  /\ s.mode = "LongPress" => s.composing = <<>> /\ s.orig # <<>> /\ s.list.kind = "LongPress"
  /\ s.list.kind = "Hint" /\ s.list.words # <<>> => s.buffer # <<>>
  /\ s.composing = <<>> \/ OneDead(s.composing)
  /\ s.fed = s.composing \/ s.fed = <<>>

\* The cursor is on a candidate of the mode; what a key finds that has just been typed.
Chosen(s) == s.list.kind = s.mode /\ s.list.cursor > 0
Plain(s) == s.mode = "Hint" /\ ~Chosen(s)

\* A key that is held was typed last, so a long press can take it back; and the panel
\* shows what there is unless the last call was no key.
KbInv ==
  /\ predict \in BOOLEAN
  /\ Fits(kb)
  /\ held \in Letters \cup {NoKey}
  /\ held # NoKey => kb.composing = <<>> /\ (kb.repeated \/ Plain(kb))
  /\ did[1] = "Repeat" => kb.repeated
  /\ did[1] \notin {"Click", "Invoke", "Switch"} => kb.shown = PreeditString(kb)

-----------------------------------------------------------------------------
\* What a state shows.

LEMMA NoText ==
  ASSUME NEW a \in Texts
  PROVE  <<>> \in Texts /\ <<>> \o a = a /\ a \o <<>> = a
BY DEF Texts

LEMMA Joined ==
  ASSUME NEW a \in Texts, NEW b \in Texts, NEW c \in Texts
  PROVE  /\ a \o b \in Texts /\ (a \o b) \o c = a \o (b \o c)
         /\ Len(a \o b) = Len(a) + Len(b) /\ Len(a) \in Nat
BY ConcatAssociative DEF Texts

LEMMA OneText ==
  ASSUME NEW c \in Characters
  PROVE  <<c>> \in Texts /\ Len(<<c>>) = 1 /\ <<c>> # <<>>
BY DEF Texts

\* Syms are characters.
LEMMA SymsAreText ==
  ASSUME NEW keys \in Seq(Syms)
  PROVE  keys \in Texts
BY LettersAssumption DEF Texts

LEMMA ChosenWord ==
  ASSUME NEW s, Fits(s), Chosen(s)
  PROVE  s.list.words[s.list.cursor] \in OfferedWords
<1>1. s.list \in Lists /\ s.list.cursor <= Len(s.list.words) /\ s.list.cursor > 0
  BY DEF Fits, States, Chosen
<1>2. s.list.words \in Seq(OfferedWords) /\ s.list.cursor \in 1..Len(s.list.words)
  BY <1>1 DEF Lists
<1> QED BY <1>2

LEMMA SelectionFacts ==
  ASSUME NEW s, Fits(s)
  PROVE  /\ CurrentSelection(s) \in Texts /\ PreeditString(s) \in Texts
         /\ s.mode = "Hint" => /\ CurrentSelection(s) =
                                    IF Chosen(s) THEN s.list.words[s.list.cursor] ELSE s.buffer
                               /\ PreeditString(s) = CurrentSelection(s) \o s.composing
         /\ s.mode = "LongPress" =>
              /\ CurrentSelection(s) =
                   s.buffer \o IF Chosen(s) THEN s.list.words[s.list.cursor] ELSE s.orig
              /\ PreeditString(s) = CurrentSelection(s)
              /\ CurrentSelection(s) # <<>> /\ s.composing = <<>>
         /\ s.mode = "Hint" /\ CurrentSelection(s) = <<>> => s.buffer = <<>> /\ ~Chosen(s)
<1> DEFINE word == s.list.words[s.list.cursor]
<1>1. /\ s.buffer \in Texts /\ s.orig \in Texts /\ s.composing \in Texts
      /\ s.mode \in {"Hint", "LongPress"}
      /\ s.mode = "LongPress" => s.composing = <<>> /\ s.orig # <<>>
  BY SymsAreText DEF Fits, States
<1>2. Chosen(s) => word \in Texts /\ word # <<>>
  BY ChosenWord DEF OfferedWords
<1>3. CASE s.mode = "Hint"
  <2>1. CurrentSelection(s) = IF Chosen(s) THEN word ELSE s.buffer
    BY <1>3 DEF CurrentSelection, Chosen
  <2>2. PreeditString(s) = CurrentSelection(s) \o s.composing
    BY <1>3 DEF PreeditString
  <2>3. CurrentSelection(s) \in Texts
    BY <1>1, <1>2, <2>1
  <2>4. PreeditString(s) \in Texts
    BY <1>1, <2>2, <2>3, Joined
  <2> QED BY <1>2, <1>3, <2>1, <2>2, <2>3, <2>4
<1>4. CASE s.mode = "LongPress"
  <2> DEFINE what == IF Chosen(s) THEN word ELSE s.orig
  <2>1. CurrentSelection(s) = s.buffer \o what
    BY <1>4 DEF CurrentSelection, Chosen
  <2>2. PreeditString(s) = CurrentSelection(s) \o <<>>
    BY <1>4 DEF PreeditString
  <2>3. what \in Texts /\ what # <<>>
    BY <1>1, <1>2, <1>4
  <2> HIDE DEF what
  <2>4. s.buffer \o what \in Texts /\ s.buffer \o what # <<>>
    BY <1>1, <2>3 DEF Texts
  <2>5. PreeditString(s) = CurrentSelection(s)
    BY <2>1, <2>2, <2>4, NoText
  <2> QED BY <1>1, <1>4, <2>1, <2>4, <2>5 DEF what
<1> QED BY <1>1, <1>3, <1>4

\* Nothing but the shown preedit changes.
LEMMA SetPreeditFacts ==
  ASSUME NEW s, Fits(s)
  PROVE  /\ Fits(SetPreedit(s)) /\ SetPreedit(s).shown = PreeditString(s)
         /\ PreeditString(SetPreedit(s)) = PreeditString(s)
         /\ \A f \in {"sent", "removed", "repeated", "buffer", "mode", "list", "composing"} :
              SetPreedit(s)[f] = s[f]
<1> DEFINE visible == PreeditString(s)
<1>1. visible \in Texts
  BY SelectionFacts
<1>2. SetPreedit(s) = [s EXCEPT !.shown = visible]
  BY DEF SetPreedit
<1> HIDE DEF visible
<1>3. Fits(SetPreedit(s)) /\ SetPreedit(s).shown = visible
  BY <1>1, <1>2 DEF Fits, States
<1>4. /\ \A f \in {"sent", "removed", "repeated", "buffer", "mode", "list", "composing", "orig"} :
           SetPreedit(s)[f] = s[f]
  BY <1>2 DEF Fits, States
<1>5. CurrentSelection(SetPreedit(s)) = CurrentSelection(s)
  BY <1>4 DEF CurrentSelection
<1>6. PreeditString(SetPreedit(s)) = PreeditString(s)
  BY <1>4, <1>5 DEF PreeditString
<1> QED BY <1>3, <1>4, <1>6 DEF visible

LEMMA ResetPanelFacts ==
  ASSUME NEW s, Fits(s), s.mode = "Hint"
  PROVE  /\ Fits(ResetPanel(s)) /\ Plain(ResetPanel(s))
         /\ ResetPanel(s).list = NoList
         /\ \A f \in {"sent", "removed", "repeated", "buffer", "mode", "composing", "fed", "orig"} :
              ResetPanel(s)[f] = s[f]
<1>1. NoList \in Lists /\ NoList.cursor = 0 /\ NoList.words = <<>> /\ NoList.kind = "None"
  BY DEF NoList, Lists
<1>2. <<>> \in Texts
  BY DEF Texts
<1>3. ResetPanel(s) = [s EXCEPT !.list = NoList, !.shown = <<>>]
  BY DEF ResetPanel
<1> HIDE DEF NoList
<1>4. s \in States
  BY DEF Fits
<1> DEFINE t == ResetPanel(s)
<1>5. t \in States
  BY <1>1, <1>2, <1>3, <1>4 DEF States
<1>6. /\ t.list = NoList /\ t.sent = s.sent /\ t.removed = s.removed
      /\ t.repeated = s.repeated /\ t.buffer = s.buffer /\ t.mode = s.mode
      /\ t.composing = s.composing /\ t.fed = s.fed /\ t.orig = s.orig
  BY <1>3, <1>4 DEF States
<1> HIDE DEF t
<1>7. Fits(t) /\ Plain(t)
  BY <1>1, <1>5, <1>6 DEF Fits, Plain, Chosen
<1> QED BY <1>6, <1>7 DEF t

LEMMA CommitTextFacts ==
  ASSUME NEW s, Fits(s), NEW text \in Texts
  PROVE  /\ Fits(CommitText(s, text)) /\ CommitText(s, text).sent = s.sent \o text
         /\ PreeditString(CommitText(s, text)) = PreeditString(s)
         /\ CurrentSelection(CommitText(s, text)) = CurrentSelection(s)
         /\ Chosen(CommitText(s, text)) <=> Chosen(s)
         /\ \A f \in {"removed", "repeated", "buffer", "mode", "list", "composing", "fed"} :
              CommitText(s, text)[f] = s[f]
<1> DEFINE t == CommitText(s, text)
           sent == s.sent \o text
<1>1. sent \in Texts
  BY Joined DEF Fits, States
<1>2. t = [s EXCEPT !.sent = sent]
  BY DEF CommitText
<1> HIDE DEF sent, t
<1>3. Fits(t) /\ t.sent = sent
  BY <1>1, <1>2 DEF Fits, States
<1>4. \A f \in {"removed", "repeated", "buffer", "mode", "list", "composing", "fed", "orig"} :
        t[f] = s[f]
  BY <1>2 DEF Fits, States
<1>5. CurrentSelection(t) = CurrentSelection(s)
  BY <1>4 DEF CurrentSelection
<1>6. PreeditString(t) = PreeditString(s)
  BY <1>4, <1>5 DEF PreeditString
<1> QED BY <1>3, <1>4, <1>5, <1>6 DEF t, sent, Chosen

LEMMA ResetStateFacts ==
  ASSUME NEW s, Sound(s), NEW compose \in BOOLEAN
  PROVE  LET t == ResetState(s, compose)
         IN  /\ Fits(t) /\ Plain(t) /\ t.buffer = <<>> /\ ~t.repeated /\ t.shown = <<>>
             /\ t.sent = s.sent /\ t.removed = s.removed
             /\ t.composing = (IF compose THEN <<>> ELSE s.composing)
             /\ CurrentSelection(t) = <<>> /\ PreeditString(t) = t.composing
<1> DEFINE panel == [s EXCEPT !.list = NoList, !.shown = <<>>]
           cleared == [panel EXCEPT !.orig = <<>>, !.buffer = <<>>, !.mode = "Hint",
                         !.repeated = FALSE, !.oneTime = FALSE]
           t == ResetState(s, compose)
<1>1. NoList \in Lists /\ NoList.cursor = 0 /\ NoList.words = <<>> /\ NoList.kind = "None"
  BY DEF NoList, Lists
<1>2. <<>> \in Texts /\ <<>> \in Seq(Syms)
  BY DEF Texts
<1>3. t = IF compose THEN [cleared EXCEPT !.composing = <<>>, !.fed = <<>>] ELSE cleared
  BY DEF ResetState, ResetPanel
<1> HIDE DEF NoList, t
<1>4. /\ Fits(cleared) /\ cleared.buffer = <<>> /\ ~cleared.repeated /\ cleared.shown = <<>>
      /\ cleared.sent = s.sent /\ cleared.removed = s.removed /\ cleared.mode = "Hint"
      /\ cleared.composing = s.composing /\ cleared.list = NoList
  <2>1. s \in States
    BY DEF Sound
  <2>2. cleared \in States
    BY <1>1, <1>2, <2>1 DEF States
  <2>3. /\ cleared.buffer = <<>> /\ ~cleared.repeated /\ cleared.shown = <<>>
        /\ cleared.sent = s.sent /\ cleared.removed = s.removed /\ cleared.mode = "Hint"
        /\ cleared.composing = s.composing /\ cleared.list = NoList /\ cleared.fed = s.fed
    BY <2>1 DEF States
  <2> HIDE DEF cleared
  <2>4. Fits(cleared)
    BY <1>1, <2>2, <2>3 DEF Fits, Sound
  <2> QED BY <2>3, <2>4
<1> HIDE DEF cleared
<1>5. /\ Fits(t) /\ t.buffer = <<>> /\ ~t.repeated /\ t.shown = <<>>
      /\ t.sent = s.sent /\ t.removed = s.removed /\ t.mode = "Hint" /\ t.list = NoList
      /\ t.composing = (IF compose THEN <<>> ELSE s.composing)
  <2>1. CASE compose
    BY <1>2, <1>3, <1>4, <2>1 DEF Fits, States
  <2>2. CASE ~compose
    BY <1>3, <1>4, <2>2
  <2> QED BY <2>1, <2>2
<1>6. Plain(t)
  BY <1>1, <1>5 DEF Plain, Chosen
<1>7. CurrentSelection(t) = <<>> /\ PreeditString(t) = t.composing
  <2>1. CurrentSelection(t) = <<>> /\ PreeditString(t) = <<>> \o t.composing
    BY <1>5, <1>6, SelectionFacts DEF Plain
  <2>2. t.composing \in Texts
    BY <1>5, SymsAreText DEF Fits, States
  <2> QED BY <2>1, <2>2, NoText
<1> QED BY <1>5, <1>6, <1>7 DEF t

\* What was selected is sent, and the text stays the same.
LEMMA CommitBufferFacts ==
  ASSUME NEW s, Fits(s)
  PROVE  LET t == CommitBuffer(s)
         IN  /\ Fits(t) /\ Plain(t) /\ t.buffer = <<>>
             /\ t.sent = s.sent \o CurrentSelection(s)
             /\ t.removed = s.removed /\ t.composing = s.composing
             /\ t.repeated => s.repeated
             /\ CurrentSelection(t) = <<>> /\ PreeditString(t) = t.composing
             /\ t.sent \o PreeditString(t) = s.sent \o PreeditString(s)
<1> DEFINE t == CommitBuffer(s)
           selected == CurrentSelection(s)
<1>1. /\ s.sent \in Texts /\ selected \in Texts /\ s.composing \in Texts
      /\ s.mode \in {"Hint", "LongPress"}
  BY SelectionFacts, SymsAreText DEF Fits, States
<1>2. PreeditString(s) = selected \o s.composing
  BY <1>1, SelectionFacts, NoText
<1>3. /\ Fits(t) /\ Plain(t) /\ t.buffer = <<>> /\ t.sent = s.sent \o selected
      /\ t.removed = s.removed /\ t.composing = s.composing /\ (t.repeated => s.repeated)
      /\ CurrentSelection(t) = <<>> /\ PreeditString(t) = t.composing
  <2>1. CASE selected = <<>>
    <3>1. t = s
      BY <2>1 DEF CommitBuffer
    <3>2. s.mode = "Hint" /\ s.buffer = <<>> /\ ~Chosen(s)
      BY <1>1, <2>1, SelectionFacts
    <3>3. PreeditString(s) = s.composing /\ s.sent \o selected = s.sent
      BY <1>1, <1>2, <2>1, NoText
    <3> QED BY <2>1, <3>1, <3>2, <3>3 DEF Plain
  <2>2. CASE selected # <<>>
    <3> DEFINE u == CommitText(s, selected)
    <3>1. t = ResetState(u, FALSE)
      BY <2>2 DEF CommitBuffer
    <3>2. /\ Fits(u) /\ u.sent = s.sent \o selected /\ u.removed = s.removed
          /\ u.composing = s.composing
      BY <1>1, CommitTextFacts
    <3> HIDE DEF u, t, selected
    <3>3. /\ Fits(t) /\ Plain(t) /\ t.buffer = <<>> /\ ~t.repeated
          /\ t.sent = u.sent /\ t.removed = u.removed /\ t.composing = u.composing
          /\ CurrentSelection(t) = <<>> /\ PreeditString(t) = t.composing
      <4>1. Sound(u)
        BY <3>2 DEF Fits, Sound
      <4> QED BY <3>1, <4>1, ResetStateFacts
    <3> QED BY <3>2, <3>3
  <2> QED BY <2>1, <2>2
<1>4. t.sent \o PreeditString(t) = s.sent \o PreeditString(s)
  <2>1. (s.sent \o selected) \o s.composing = s.sent \o (selected \o s.composing)
    BY <1>1, Joined
  <2> HIDE DEF t, selected
  <2> QED BY <1>2, <1>3, <2>1
<1> QED BY <1>3, <1>4

\* New words are offered, and none of them is chosen.
LEMMA UpdateCandidateFacts ==
  ASSUME NEW s, Fits(s), s.mode = "Hint", NEW words \in Seq(OfferedWords)
  PROVE  LET t == UpdateCandidate(s, words)
         IN  /\ Fits(t) /\ Plain(t) /\ CurrentSelection(t) = s.buffer
             /\ t.sent = s.sent /\ t.removed = s.removed /\ t.composing = s.composing
             /\ t.repeated = s.repeated
<1> DEFINE list == [kind |-> "Hint", cursor |-> 0,
                    words |-> IF s.buffer = <<>> THEN <<>> ELSE words]
           t == UpdateCandidate(s, words)
           u == ResetPanel(s)
<1>1. list \in Lists /\ list.cursor = 0 /\ (list.words # <<>> => s.buffer # <<>>)
  BY DEF Lists
<1>2. list.kind = "Hint" /\ list.cursor <= Len(list.words)
  BY <1>1 DEF Lists
<1>3. t = [u EXCEPT !.mode = "Hint", !.list = list]
  BY DEF UpdateCandidate
<1>4. /\ Fits(u) /\ u.mode = "Hint" /\ u.sent = s.sent /\ u.removed = s.removed
      /\ u.repeated = s.repeated /\ u.buffer = s.buffer /\ u.composing = s.composing
  BY ResetPanelFacts
<1> HIDE DEF list, t, u
<1>5. u \in States
  BY <1>4 DEF Fits
<1>6. t \in States
  BY <1>1, <1>3, <1>5 DEF States
<1>7. /\ t.list = list /\ t.mode = "Hint" /\ t.sent = u.sent /\ t.removed = u.removed
      /\ t.repeated = u.repeated /\ t.buffer = u.buffer
      /\ t.composing = u.composing /\ t.fed = u.fed
  BY <1>3, <1>5 DEF States
<1>8. Fits(t)
  BY <1>1, <1>2, <1>4, <1>6, <1>7 DEF Fits
<1>9. Plain(t)
  BY <1>1, <1>7 DEF Plain, Chosen
<1>10. CurrentSelection(t) = s.buffer
  BY <1>4, <1>7, <1>8, <1>9, SelectionFacts DEF Plain
<1> QED BY <1>4, <1>7, <1>8, <1>9, <1>10 DEF t

\* A text goes into the buffer, or is sent together with it.
\* What the buffer holds, and has room for.
HasRoom(s, n) == Chosen(s) => s.buffer = CurrentSelection(s) /\ Len(s.buffer) + n < BufferLimit

LEMMA UpdateBufferFacts ==
  ASSUME NEW s, Fits(s), s.mode = "Hint", NEW text \in Texts, NEW words \in Seq(OfferedWords)
  PROVE  LET t == UpdateBuffer(s, text, words)
         IN  /\ Fits(t) /\ Plain(t) /\ t.removed = s.removed /\ t.composing = s.composing
             /\ t.repeated => s.repeated
             /\ HasRoom(s, Len(text)) =>
                  t.sent \o CurrentSelection(t) = (s.sent \o CurrentSelection(s)) \o text
<1> DEFINE typed == [s EXCEPT !.buffer = s.buffer \o text]
           t == UpdateBuffer(s, text, words)
           room == HasRoom(s, Len(text))
<1>0. room => CurrentSelection(s) = s.buffer
  BY SelectionFacts DEF HasRoom
<1>1. s.sent \in Texts /\ s.buffer \in Texts
  BY DEF Fits, States
<1>2. s.buffer \o text \in Texts /\ (s.buffer # <<>> => s.buffer \o text # <<>>)
  BY <1>1, Joined DEF Texts
<1>3. /\ Fits(typed) /\ typed.buffer = s.buffer \o text
      /\ \A f \in {"sent", "removed", "repeated", "mode", "composing", "fed", "list"} :
           typed[f] = s[f]
  BY <1>2 DEF Fits, States
<1>4. t = IF Len(typed.buffer) >= BufferLimit THEN CommitBuffer(typed)
          ELSE UpdateCandidate(typed, words)
  BY DEF UpdateBuffer
<1>5. room => (s.sent \o CurrentSelection(s)) \o text = s.sent \o typed.buffer
  <2>1. (s.sent \o s.buffer) \o text = s.sent \o (s.buffer \o text)
    BY <1>1, Joined
  <2> HIDE DEF typed
  <2> QED BY <1>0, <1>3, <2>1
<1>6. Len(typed.buffer) = Len(s.buffer) + Len(text)
  BY <1>1, <1>3, Joined
<1> HIDE DEF typed, t, room
<1>7. CASE Len(typed.buffer) >= BufferLimit
  <2>1. room => ~Chosen(typed)
    <3>1. room => ~Chosen(s)
      BY <1>6, <1>7, LimitAssumption DEF room, HasRoom
    <3> QED BY <1>3, <3>1 DEF Chosen
  <2>2. room => CurrentSelection(typed) = typed.buffer
    BY <1>3, <2>1, SelectionFacts
  <2>3. t = CommitBuffer(typed)
    BY <1>4, <1>7
  <2>4. /\ Fits(t) /\ Plain(t) /\ (room => t.sent = s.sent \o typed.buffer)
        /\ t.removed = s.removed /\ t.composing = s.composing /\ (t.repeated => s.repeated)
        /\ CurrentSelection(t) = <<>>
    <3> DEFINE u == CommitBuffer(typed)
    <3>1. /\ Fits(u) /\ Plain(u) /\ u.sent = typed.sent \o CurrentSelection(typed)
          /\ u.removed = typed.removed /\ u.composing = typed.composing
          /\ (u.repeated => typed.repeated) /\ CurrentSelection(u) = <<>>
      BY <1>3, CommitBufferFacts
    <3>2. /\ typed.sent = s.sent /\ typed.removed = s.removed /\ typed.composing = s.composing
          /\ typed.repeated = s.repeated
      BY <1>3
    <3> HIDE DEF u
    <3>3. t = u
      BY <2>3 DEF u
    <3> QED BY <2>2, <3>1, <3>2, <3>3
  <2>5. t.sent \in Texts
    BY <2>4 DEF Fits, States
  <2>6. t.sent \o CurrentSelection(t) = t.sent
    BY <2>4, <2>5, NoText
  <2> QED BY <1>5, <2>4, <2>6 DEF t, room
<1>8. CASE ~(Len(typed.buffer) >= BufferLimit)
  <2> DEFINE u == UpdateCandidate(typed, words)
  <2>1. t = u
    BY <1>4, <1>8
  <2>2. typed.mode = "Hint" /\ typed.sent = s.sent /\ typed.removed = s.removed
        /\ typed.composing = s.composing /\ typed.repeated = s.repeated
    BY <1>3
  <2>3. /\ Fits(u) /\ Plain(u) /\ CurrentSelection(u) = typed.buffer
        /\ u.sent = typed.sent /\ u.removed = typed.removed /\ u.composing = typed.composing
        /\ u.repeated = typed.repeated
    BY <1>3, <2>2, UpdateCandidateFacts
  <2> HIDE DEF u
  <2> QED BY <1>5, <2>1, <2>2, <2>3 DEF t, room
<1> QED BY <1>7, <1>8

-----------------------------------------------------------------------------
\* Typing behind dead keys.

LEMMA FirstOnly ==
  ASSUME NEW S, NEW q \in Seq(S), Len(q) >= 1
  PROVE  SubSeq(q, 1, 1) = <<q[1]>>
<1>1. SubSeq(q, 1, 1) \in Seq(S) /\ Len(SubSeq(q, 1, 1)) = 1 /\ SubSeq(q, 1, 1)[1] = q[1]
  OBVIOUS
<1> DEFINE p == SubSeq(q, 1, 1)
<1> HIDE DEF p
<1>2. p \in Seq(S) /\ Len(p) = 1 /\ p[1] = q[1]
  BY <1>1 DEF p
<1>3. p = <<p[1]>>
  BY <1>2
<1> QED BY <1>2, <1>3 DEF p

LEMMA TwoKeys ==
  ASSUME NEW S, NEW a \in S, NEW b \in S
  PROVE  Append(<<a>>, b) = <<a, b>> /\ <<a>> \o <<b>> = <<a, b>>
<1>1. /\ <<a>> \in Seq(S) /\ <<b>> \in Seq(S) /\ <<a, b>> \in Seq(S)
      /\ Len(<<a>>) = 1 /\ Len(<<b>>) = 1 /\ Len(<<a, b>>) = 2
      /\ <<a>>[1] = a /\ <<b>>[1] = b /\ <<a, b>>[1] = a /\ <<a, b>>[2] = b
  OBVIOUS
<1>2. /\ Append(<<a>>, b) \in Seq(S) /\ Len(Append(<<a>>, b)) = 2
      /\ Append(<<a>>, b)[1] = a /\ Append(<<a>>, b)[2] = b
  BY <1>1
<1>3. /\ <<a>> \o <<b>> \in Seq(S) /\ Len(<<a>> \o <<b>>) = 2
      /\ (<<a>> \o <<b>>)[1] = a /\ (<<a>> \o <<b>>)[2] = b
  BY <1>1, ConcatProperties
<1>4. ASSUME NEW p \in Seq(S), Len(p) = 2, p[1] = a, p[2] = b
      PROVE  p = <<a, b>>
  <2>1. \A i \in 1..Len(p) : p[i] = <<a, b>>[i]
    BY <1>1, <1>4
  <2> QED BY <1>1, <1>4, <2>1, SeqEqual
<1> QED BY <1>2, <1>3, <1>4

LEMMA BeginsFacts ==
  ASSUME PairsOnly, NEW sym \in Syms
  PROVE  /\ ~Composes(<<sym>>)
         /\ Begins(<<sym>>) <=> sym \in DeadKeys
         /\ \A d \in Syms : ~Begins(<<d, sym>>)
<1>1. ~Composes(<<sym>>)
  BY DEF PairsOnly, Composes
<1>2. ASSUME NEW all \in DOMAIN ComposeTable, IsPrefix(<<sym>>, all)
      PROVE  sym \in DeadKeys
  <2>1. all \in Seq(Syms) /\ Len(all) = 2 /\ all[1] \in DeadKeys
    BY ComposeAssumption DEF PairsOnly
  <2>2. SubSeq(<<sym>>, 1, 1) = SubSeq(all, 1, 1)
    BY <1>2 DEF IsPrefix
  <2>3. SubSeq(<<sym>>, 1, 1)[1] = sym /\ SubSeq(all, 1, 1)[1] = all[1]
    BY <2>1
  <2> QED BY <2>1, <2>2, <2>3
<1>3. ASSUME sym \in DeadKeys
      PROVE  Begins(<<sym>>)
  <2>1. PICK all \in DOMAIN ComposeTable : all[1] = sym
    BY <1>3, ComposeAssumption
  <2>2. all \in Seq(Syms) /\ Len(all) = 2
    BY ComposeAssumption DEF PairsOnly
  <2>3. SubSeq(<<sym>>, 1, 1) = SubSeq(all, 1, 1)
    <3>1. <<sym>> \in Seq(Syms) /\ Len(<<sym>>) >= 1 /\ <<sym>>[1] = sym
      OBVIOUS
    <3>2. Len(all) >= 1
      BY <2>2
    <3> QED BY <2>1, <2>2, <3>1, <3>2, FirstOnly
  <2>4. Len(<<sym>>) = 1
    OBVIOUS
  <2>5. Len(<<sym>>) < Len(all) /\ IsPrefix(<<sym>>, all)
    BY <2>2, <2>3, <2>4 DEF IsPrefix
  <2> QED BY <2>5 DEF Begins
<1>4. ASSUME NEW d \in Syms
      PROVE  ~Begins(<<d, sym>>)
  <2>1. Len(<<d, sym>>) = 2
    OBVIOUS
  <2>2. ASSUME NEW all \in DOMAIN ComposeTable
        PROVE  ~(Len(<<d, sym>>) < Len(all))
    BY <2>1 DEF PairsOnly
  <2> QED BY <2>2 DEF Begins
<1> QED BY <1>1, <1>2, <1>3, <1>4 DEF Begins

\* The dead keys that wait.
Waits(s, keys) == [s EXCEPT !.composing = keys, !.fed = keys]

LEMMA WaitsFacts ==
  ASSUME NEW s, Fits(s), NEW keys \in Seq(Syms), keys = <<>> \/ OneDead(keys),
         s.mode = "LongPress" => keys = <<>>
  PROVE  LET t == Waits(s, keys)
         IN  /\ Fits(t) /\ t.composing = keys /\ t.fed = keys
             /\ t.sent = s.sent /\ t.removed = s.removed /\ t.repeated = s.repeated
             /\ t.buffer = s.buffer /\ t.mode = s.mode /\ t.list = s.list /\ t.orig = s.orig
             /\ CurrentSelection(t) = CurrentSelection(s) /\ (Chosen(t) <=> Chosen(s))
             /\ \A more : Waits(t, more) = Waits(s, more)
<1> DEFINE t == Waits(s, keys)
<1>1. s \in States
  BY DEF Fits
<1>2. t \in States
  BY <1>1 DEF States, Waits
<1>3. /\ t.composing = keys /\ t.fed = keys
      /\ t.sent = s.sent /\ t.removed = s.removed /\ t.repeated = s.repeated
      /\ t.buffer = s.buffer /\ t.mode = s.mode /\ t.list = s.list /\ t.orig = s.orig
  BY <1>1 DEF States, Waits
<1>4. ASSUME NEW more
      PROVE  Waits(t, more) = Waits(s, more)
  BY <1>1 DEF States, Waits
<1> HIDE DEF t
<1>5. Fits(t)
  BY <1>2, <1>3 DEF Fits
<1>6. CurrentSelection(t) = CurrentSelection(s) /\ (Chosen(t) <=> Chosen(s))
  BY <1>3 DEF CurrentSelection, Chosen
<1> QED BY <1>3, <1>4, <1>5, <1>6 DEF t

LEMMA ResetComposeWaits ==
  ASSUME NEW s
  PROVE  ResetCompose(s) = Waits(s, <<>>)
BY DEF ResetCompose, Waits

\* A key where nothing waits.
LEMMA TypeAfresh ==
  ASSUME PairsOnly, NEW s, Fits(s), s.composing = <<>>, s.fed = <<>>, NEW sym \in Syms, NEW again
  PROVE  TypeImpl(Nothing(s), sym, again) =
           IF sym \in DeadKeys
           THEN [s |-> Waits(s, <<sym>>), text |-> <<>>, consumed |-> TRUE]
           ELSE [s |-> Waits(s, <<>>), text |-> <<>>, consumed |-> FALSE]
<1>1. Nothing(s).s = s /\ Nothing(s).text = <<>>
  BY DEF Nothing
<1>2. Append(<<>>, sym) = <<sym>> /\ <<>> \o <<>> = <<>>
  OBVIOUS
<1>3. CASE sym \in DeadKeys
  BY <1>1, <1>2, <1>3, BeginsFacts DEF TypeImpl, Waits
<1>4. CASE sym \notin DeadKeys
  BY <1>1, <1>2, <1>4, BeginsFacts, ResetComposeWaits DEF TypeImpl
<1> QED BY <1>3, <1>4

\* The answers where no engine got hold of the compose state.
LEMMA TypeImplCases ==
  ASSUME NEW s, s.fed = s.composing, NEW sym, NEW again
  PROVE  LET t == TypeImpl(Nothing(s), sym, again)
             keys == Append(s.composing, sym)
             rest == again[Len(s.composing)]
         IN  /\ Composes(keys) =>
                  t = [s |-> Waits(s, <<>>), text |-> <<>> \o <<ComposeTable[keys]>>,
                       consumed |-> TRUE]
             /\ ~Composes(keys) /\ ~Begins(keys) /\ s.composing # <<>>
                  /\ ToSet(s.composing) \subseteq DeadKeys =>
                  t = IF sym \in DeadKeys
                      THEN [s |-> rest.s, text |-> <<>> \o (<<keys[1]>> \o rest.text),
                            consumed |-> rest.consumed]
                      ELSE [s |-> Waits(s, <<>>), text |-> <<>> \o s.composing,
                            consumed |-> FALSE]
<1>1. Nothing(s).s = s /\ Nothing(s).text = <<>>
  BY DEF Nothing
<1> DEFINE none == Nothing(s)
           keys == Append(s.composing, sym)
<1> HIDE DEF none
<1>2. none.s = s /\ none.text = <<>>
  BY <1>1 DEF none
<1>3. CASE Composes(keys)
  <2>1. TypeImpl(none, sym, again) =
          [s |-> ResetCompose(s), text |-> <<>> \o <<ComposeTable[keys]>>, consumed |-> TRUE]
    BY <1>2, <1>3 DEF TypeImpl
  <2> QED BY <1>3, <2>1, ResetComposeWaits DEF none
<1>4. CASE /\ ~Composes(keys) /\ ~Begins(keys) /\ s.composing # <<>>
           /\ ToSet(s.composing) \subseteq DeadKeys
  <2>1. CASE sym \in DeadKeys
    BY <1>2, <1>4, <2>1 DEF TypeImpl, none
  <2>2. CASE sym \notin DeadKeys
    <3>1. TypeImpl(none, sym, again) =
            [s |-> ResetCompose(s), text |-> <<>> \o s.composing, consumed |-> FALSE]
      BY <1>2, <1>4, <2>2 DEF TypeImpl
    <3> QED BY <1>4, <2>2, <3>1, ResetComposeWaits DEF none
  <2> QED BY <2>1, <2>2
<1> QED BY <1>3, <1>4

\* A key where one dead key waits.
LEMMA TypeBehind ==
  ASSUME PairsOnly, NEW s, Fits(s), OneDead(s.composing), s.fed = s.composing,
         NEW sym \in Syms, NEW again,
         again[1] = TypeImpl(Nothing(ResetCompose(s)), sym, again)
  PROVE  LET keys == Append(s.composing, sym)
         IN  TypeImpl(Nothing(s), sym, again) =
           IF Composes(keys)
           THEN [s |-> Waits(s, <<>>), text |-> <<ComposeTable[keys]>>, consumed |-> TRUE]
           ELSE IF sym \in DeadKeys
           THEN [s |-> Waits(s, <<sym>>), text |-> s.composing, consumed |-> TRUE]
           ELSE [s |-> Waits(s, <<>>), text |-> s.composing, consumed |-> FALSE]
<1> DEFINE d == s.composing[1]
           t == Waits(s, <<>>)
           keys == Append(s.composing, sym)
           r == TypeImpl(Nothing(s), sym, again)
           rest == again[Len(s.composing)]
<1>0. /\ Composes(keys) =>
           r = [s |-> Waits(s, <<>>), text |-> <<>> \o <<ComposeTable[keys]>>, consumed |-> TRUE]
      /\ ~Composes(keys) /\ ~Begins(keys) /\ s.composing # <<>>
           /\ ToSet(s.composing) \subseteq DeadKeys =>
           r = IF sym \in DeadKeys
               THEN [s |-> rest.s, text |-> <<>> \o (<<keys[1]>> \o rest.text),
                     consumed |-> rest.consumed]
               ELSE [s |-> Waits(s, <<>>), text |-> <<>> \o s.composing, consumed |-> FALSE]
  BY TypeImplCases
<1>1. s.composing \in Seq(Syms) /\ Len(s.composing) = 1 /\ d \in DeadKeys
  BY DEF OneDead, Fits, States
<1>2. s.composing = <<d>> /\ d \in Syms /\ s.composing # <<>>
  BY <1>1
<1>3. <<>> \in Seq(Syms)
  OBVIOUS
<1>4. /\ Fits(t) /\ t.composing = <<>> /\ t.fed = <<>>
      /\ Waits(t, <<sym>>) = Waits(s, <<sym>>)
  BY <1>3, WaitsFacts
<1>5. again[1] = TypeImpl(Nothing(t), sym, again)
  BY ResetComposeWaits
<1>6. ToSet(s.composing) \subseteq DeadKeys
  BY <1>1, <1>2 DEF ToSet
<1> HIDE DEF d, t
<1>7. keys = <<d, sym>> /\ keys[1] = d
  <2>1. keys = Append(<<d>>, sym)
    BY <1>2
  <2> HIDE DEF keys
  <2>2. keys = <<d, sym>>
    BY <1>2, <2>1, TwoKeys
  <2> QED BY <2>2
<1> HIDE DEF keys, r
<1>8. ~Begins(keys)
  BY <1>2, <1>7, BeginsFacts
<1>9. /\ <<>> \o <<ComposeTable[keys]>> = <<ComposeTable[keys]>>
      /\ <<>> \o s.composing = s.composing /\ <<>> \o (<<d>> \o <<>>) = s.composing
  BY <1>1, <1>2
<1>10. CASE Composes(keys)
  BY <1>0, <1>9, <1>10 DEF keys, r
<1>11. CASE ~Composes(keys) /\ sym \in DeadKeys
  <2>1. again[1] = [s |-> Waits(s, <<sym>>), text |-> <<>>, consumed |-> TRUE]
    BY <1>4, <1>5, <1>11, TypeAfresh
  <2>2. rest.s = Waits(s, <<sym>>) /\ rest.text = <<>> /\ rest.consumed = TRUE
    BY <1>1, <2>1
  <2> HIDE DEF rest
  <2>3. r = [s |-> rest.s, text |-> <<>> \o (<<keys[1]>> \o rest.text),
             consumed |-> rest.consumed]
    BY <1>0, <1>2, <1>6, <1>8, <1>11
  <2>4. r = [s |-> Waits(s, <<sym>>), text |-> s.composing, consumed |-> TRUE]
    BY <1>7, <1>9, <2>2, <2>3
  <2> QED BY <1>11, <2>4 DEF keys, r
<1>12. CASE ~Composes(keys) /\ sym \notin DeadKeys
  <2>1. r = [s |-> Waits(s, <<>>), text |-> s.composing, consumed |-> FALSE]
    BY <1>0, <1>2, <1>6, <1>8, <1>9, <1>12
  <2> QED BY <1>12, <2>1 DEF keys, r
<1> QED BY <1>10, <1>11, <1>12 DEF keys

\* An engine that resets the compose state leaves dead keys that are not typed on.
LEMMA TypeForgets ==
  ASSUME NEW s, Fits(s), s.fed # s.composing, NEW sym, NEW again
  PROVE  TypeImpl(Nothing(s), sym, again) = TypeImpl(Nothing(ResetCompose(s)), sym, again)
<1> DEFINE a == Nothing(s)
           t == ResetCompose(s)
           b == Nothing(t)
<1>1. a.s = s /\ a.text = <<>> /\ b.s = t /\ b.text = <<>>
  BY DEF Nothing
<1>2. ~((s.fed = <<>>) = (s.composing = <<>>))
  BY DEF Fits
<1>3. t.fed = <<>> /\ t.composing = <<>>
  BY DEF Fits, States, ResetCompose
<1> HIDE DEF a, b
<1>4. TypeImpl(a, sym, again) = TypeImpl(b, sym, again)
  BY <1>1, <1>2, <1>3 DEF TypeImpl
<1> QED BY <1>4 DEF a, b

Yields(keys) == IF Composes(keys) THEN <<ComposeTable[keys]>> ELSE keys

\* What typing a key means for the dead keys, whatever comes next.
Answers(s, sym, r) ==
  /\ r.s = Waits(s, r.s.composing) /\ r.s.composing \in Seq(Syms)
  /\ r.s.composing = <<>> \/ OneDead(r.s.composing)
  /\ r.text \in Texts /\ Len(r.text) \in {0, 1} /\ r.consumed \in BOOLEAN
  /\ sym \notin DeadKeys => r.s.composing = <<>> /\ (r.text = <<>> => ~r.consumed)
  /\ ~r.consumed => r.s.composing = <<>> /\ sym \notin DeadKeys
  /\ s.fed = s.composing =>
       r.text \o (IF r.consumed THEN r.s.composing ELSE <<sym>>) =
         Yields(Append(s.composing, sym))

LEMMA WaitingKeys ==
  ASSUME NEW s, Fits(s), s.mode = "Hint", NEW keys \in Seq(Syms), keys = <<>> \/ OneDead(keys)
  PROVE  Waits(s, keys).composing = keys
BY WaitsFacts

LEMMA TypedAfresh ==
  ASSUME PairsOnly, NEW s, Fits(s), s.mode = "Hint", s.composing = <<>>, s.fed = <<>>,
         NEW sym \in Syms, NEW again
  PROVE  Answers(s, sym, TypeImpl(Nothing(s), sym, again))
<1> DEFINE r == TypeImpl(Nothing(s), sym, again)
<1>1. r = IF sym \in DeadKeys
          THEN [s |-> Waits(s, <<sym>>), text |-> <<>>, consumed |-> TRUE]
          ELSE [s |-> Waits(s, <<>>), text |-> <<>>, consumed |-> FALSE]
  BY TypeAfresh
<1>2. Append(s.composing, sym) = <<sym>> /\ ~Composes(<<sym>>)
  BY BeginsFacts
<1>3. <<>> \in Texts /\ Len(<<>>) \in {0, 1} /\ <<>> \in Seq(Syms)
  BY DEF Texts
<1>4. <<>> \o <<sym>> = <<sym>> /\ <<sym>> \in Seq(Syms)
  OBVIOUS
<1> HIDE DEF r
<1>5. CASE sym \in DeadKeys
  <2>1. r.s = Waits(s, <<sym>>) /\ r.text = <<>> /\ r.consumed = TRUE
    BY <1>1, <1>5
  <2>2. OneDead(<<sym>>)
    BY <1>5 DEF OneDead
  <2>3. r.s.composing = <<sym>>
    BY <1>4, <2>1, <2>2, WaitingKeys
  <2> QED BY <1>2, <1>3, <1>4, <1>5, <2>1, <2>2, <2>3 DEF Answers, Yields, r
<1>6. CASE sym \notin DeadKeys
  <2>1. r.s = Waits(s, <<>>) /\ r.text = <<>> /\ r.consumed = FALSE
    BY <1>1, <1>6
  <2>2. r.s.composing = <<>>
    BY <1>3, <2>1, WaitingKeys
  <2> QED BY <1>2, <1>3, <1>4, <1>6, <2>1, <2>2 DEF Answers, Yields, r
<1> QED BY <1>5, <1>6

LEMMA TypedBehind ==
  ASSUME PairsOnly, NEW s, Fits(s), s.mode = "Hint", OneDead(s.composing), s.fed = s.composing,
         NEW sym \in Syms, NEW again,
         again[1] = TypeImpl(Nothing(ResetCompose(s)), sym, again)
  PROVE  Answers(s, sym, TypeImpl(Nothing(s), sym, again))
<1> DEFINE r == TypeImpl(Nothing(s), sym, again)
           keys == Append(s.composing, sym)
<1>1. r = IF Composes(keys)
          THEN [s |-> Waits(s, <<>>), text |-> <<ComposeTable[keys]>>, consumed |-> TRUE]
          ELSE IF sym \in DeadKeys
          THEN [s |-> Waits(s, <<sym>>), text |-> s.composing, consumed |-> TRUE]
          ELSE [s |-> Waits(s, <<>>), text |-> s.composing, consumed |-> FALSE]
  BY TypeBehind
<1>2. /\ s.composing \in Seq(Syms) /\ s.composing \in Texts /\ Len(s.composing) = 1
      /\ s.composing # <<>>
  BY SymsAreText DEF OneDead, Fits, States
<1>3. <<>> \in Seq(Syms) /\ <<sym>> \in Seq(Syms)
  OBVIOUS
<1>4. s.composing \o <<sym>> = keys
  BY <1>2
<1> HIDE DEF r, keys
<1>5. ASSUME Composes(keys)
      PROVE  Answers(s, sym, r)
  <2>1. r.s = Waits(s, <<>>) /\ r.text = <<ComposeTable[keys]>> /\ r.consumed = TRUE
    BY <1>1, <1>5
  <2>2. r.s.composing = <<>>
    BY <1>3, <2>1, WaitingKeys
  <2>3. ComposeTable[keys] \in Characters
    BY <1>5, ComposeAssumption DEF Composes
  <2>4. /\ r.text \in Texts /\ Len(r.text) = 1 /\ r.text # <<>>
        /\ r.text \o <<>> = r.text
    BY <2>1, <2>3, OneText, NoText
  <2>5. r.text \o (IF r.consumed THEN r.s.composing ELSE <<sym>>) = Yields(keys)
    BY <1>5, <2>1, <2>2, <2>4 DEF Yields
  <2>6. r.text \in Texts /\ Len(r.text) \in {0, 1} /\ r.consumed \in BOOLEAN
    BY <2>1, <2>4
  <2>7. r.s = Waits(s, r.s.composing) /\ r.s.composing \in Seq(Syms) /\ r.s.composing = <<>>
    BY <1>3, <2>1, <2>2
  <2> QED BY ONLY <2>1, <2>4, <2>5, <2>6, <2>7 DEF Answers, keys
<1>6. ASSUME ~Composes(keys) /\ sym \in DeadKeys
      PROVE  Answers(s, sym, r)
  <2>1. r.s = Waits(s, <<sym>>) /\ r.text = s.composing /\ r.consumed = TRUE
    BY <1>1, <1>6
  <2>2. OneDead(<<sym>>)
    BY <1>6 DEF OneDead
  <2>3. r.s.composing = <<sym>>
    BY <1>3, <2>1, <2>2, WaitingKeys
  <2>4. r.text \o (IF r.consumed THEN r.s.composing ELSE <<sym>>) = Yields(keys)
    BY <1>4, <1>6, <2>1, <2>3 DEF Yields
  <2>5. r.text \in Texts /\ Len(r.text) \in {0, 1} /\ r.consumed \in BOOLEAN
    BY <1>2, <2>1
  <2>6. /\ r.s = Waits(s, r.s.composing) /\ r.s.composing \in Seq(Syms)
        /\ OneDead(r.s.composing)
    BY <1>3, <2>1, <2>2, <2>3
  <2> QED BY ONLY <1>6, <2>1, <2>4, <2>5, <2>6 DEF Answers, keys
<1>7. ASSUME ~Composes(keys) /\ sym \notin DeadKeys
      PROVE  Answers(s, sym, r)
  <2>1. r.s = Waits(s, <<>>) /\ r.text = s.composing /\ r.consumed = FALSE
    BY <1>1, <1>7
  <2>2. r.s.composing = <<>>
    BY <1>3, <2>1, WaitingKeys
  <2>3. r.text \o (IF r.consumed THEN r.s.composing ELSE <<sym>>) = Yields(keys)
    BY <1>4, <1>7, <2>1 DEF Yields
  <2>4. r.text \in Texts /\ Len(r.text) \in {0, 1} /\ r.consumed \in BOOLEAN
    BY <1>2, <2>1
  <2>5. r.s = Waits(s, r.s.composing) /\ r.s.composing \in Seq(Syms) /\ r.s.composing = <<>>
    BY <1>3, <2>1, <2>2
  <2> QED BY ONLY <1>7, <2>1, <2>3, <2>4, <2>5 DEF Answers, keys
<1>8. Answers(s, sym, r)
  BY <1>5, <1>6, <1>7
<1> QED BY <1>8 DEF r

LEMMA TypeFacts ==
  ASSUME PairsOnly, NEW s, Fits(s), s.mode = "Hint", NEW sym \in Syms
  PROVE  Answers(s, sym, Type(s, sym))
<1> DEFINE n == Len(s.composing)
           t == ResetCompose(s)
           Steps(h) == [k \in 0..n |-> IF k = 0 THEN Nothing(ResetCompose(s))
                                       ELSE TypeImpl(h[k - 1], sym, h)]
           f == CHOOSE h : h = Steps(h)
           a == TypeImpl(Nothing(t), sym, <<>>)
           g == [k \in 0..n |-> IF k = 0 THEN Nothing(t) ELSE a]
<1>1. n \in {0, 1} /\ (n = 0 => s.composing = <<>>) /\ (n = 1 => OneDead(s.composing))
  BY DEF Fits, States, OneDead
<1>2. /\ Fits(t) /\ t.composing = <<>> /\ t.fed = <<>> /\ t.mode = "Hint"
      /\ \A more : Waits(t, more) = Waits(s, more)
  <2>1. t = Waits(s, <<>>) /\ <<>> \in Seq(Syms)
    BY ResetComposeWaits
  <2> HIDE DEF t
  <2> QED BY <2>1, WaitsFacts
<1>3. Type(s, sym) = TypeImpl(Nothing(s), sym, f)
  BY DEF Type
<1>4. ASSUME NEW h
      PROVE  TypeImpl(Nothing(t), sym, h) = a
  <2> HIDE DEF t
  <2> QED BY <1>2, TypeAfresh
<1>5. g = Steps(g)
  <2>1. ASSUME NEW k \in 0..n
        PROVE  g[k] = Steps(g)[k]
    <3>1. CASE k = 0
      BY <3>1
    <3>2. CASE k # 0
      <4>1. k = 1 /\ 0 \in 0..n
        <5> HIDE DEF n
        <5> QED BY <1>1, <3>2
      <4>2. g[k] = a /\ g[k - 1] = Nothing(t)
        BY <4>1
      <4>3. Steps(g)[k] = TypeImpl(g[k - 1], sym, g)
        BY <3>2
      <4> HIDE DEF g, a, t, Steps
      <4> QED BY <1>4, <4>2, <4>3
    <3> QED BY <3>1, <3>2
  <2>2. DOMAIN g = 0..n /\ DOMAIN Steps(g) = 0..n
    OBVIOUS
  <2>3. g = [k \in 0..n |-> g[k]] /\ Steps(g) = [k \in 0..n |-> Steps(g)[k]]
    OBVIOUS
  <2> HIDE DEF g, Steps
  <2> QED BY <2>1, <2>2, <2>3
<1>6. f = Steps(f)
  <2> HIDE DEF Steps, g
  <2> QED BY <1>5
<1>7. n = 1 => f[1] = TypeImpl(Nothing(ResetCompose(s)), sym, f)
  <2> HIDE DEF f
  <2> SUFFICES ASSUME n = 1
               PROVE  f[1] = TypeImpl(Nothing(ResetCompose(s)), sym, f)
    OBVIOUS
  <2>1. 0 \in 0..n /\ 1 \in 0..n
    OBVIOUS
  <2>2. Steps(f)[0] = Nothing(ResetCompose(s)) /\ Steps(f)[1] = TypeImpl(f[1 - 1], sym, f)
    BY <2>1
  <2>3. f[0] = Steps(f)[0] /\ f[1] = Steps(f)[1]
    <3> HIDE DEF Steps
    <3> QED BY <1>6
  <2> HIDE DEF Steps, n
  <2> QED BY <2>2, <2>3
<1> HIDE DEF f, a, g, Steps
<1>8. CASE s.fed = s.composing /\ s.composing = <<>>
  <2>1. s.fed = <<>> /\ s.composing = <<>>
    BY <1>8
  <2> QED BY <1>3, <2>1, TypedAfresh
<1>9. CASE s.fed = s.composing /\ n = 1
  BY <1>1, <1>3, <1>7, <1>9, TypedBehind
<1>10. CASE s.fed # s.composing
  <2>1. Type(s, sym) = TypeImpl(Nothing(t), sym, f)
    BY <1>3, <1>10, TypeForgets
  <2> DEFINE r == Type(s, sym)
  <2> HIDE DEF r, t
  <2>2. Answers(t, sym, r)
    BY <1>2, <2>1, TypedAfresh DEF r
  <2>3. Waits(t, r.s.composing) = Waits(s, r.s.composing)
    BY <1>2
  <2> QED BY <1>10, <2>2, <2>3 DEF Answers, r
<1> QED BY <1>1, <1>8, <1>9, <1>10

-----------------------------------------------------------------------------
\* A key that types something.

LEMMA HandleComposeFacts ==
  ASSUME PairsOnly, NEW s, Fits(s), NEW sym \in Syms
  PROVE  LET r == HandleCompose(s, sym)
         IN  /\ Fits(r.s) /\ r.s.mode = "Hint" /\ r.s.buffer = CurrentSelection(s)
             /\ CurrentSelection(r.s) = CurrentSelection(s)
             /\ Chosen(r.s) => Chosen(s) /\ s.mode = "Hint"
             /\ r.s.sent = s.sent /\ r.s.removed = s.removed /\ r.s.repeated = s.repeated
             /\ r.text \in Texts /\ Len(r.text) \in {0, 1} /\ r.consumed \in BOOLEAN
             /\ sym \notin DeadKeys => r.s.composing = <<>> /\ (r.text = <<>> => ~r.consumed)
             /\ ~r.consumed => r.s.composing = <<>> /\ sym \notin DeadKeys
             /\ s.fed = s.composing =>
                  r.text \o (IF r.consumed THEN r.s.composing ELSE <<sym>>) =
                    Yields(Append(s.composing, sym))
<1> DEFINE r == HandleCompose(s, sym)
           current == CurrentSelection(s)
           moved == [s EXCEPT !.buffer = current, !.mode = "Hint", !.orig = <<>>]
           h == IF s.buffer = current THEN s ELSE moved
<1>1. s \in States /\ s.mode \in {"Hint", "LongPress"} /\ s.buffer \in Texts /\ s.orig \in Texts
  BY DEF Fits, States
<1>2. /\ current \in Texts
      /\ s.mode = "Hint" => current = IF Chosen(s) THEN s.list.words[s.list.cursor] ELSE s.buffer
      /\ s.mode = "LongPress" =>
           current = s.buffer \o IF Chosen(s) THEN s.list.words[s.list.cursor] ELSE s.orig
  BY SelectionFacts
<1>3. Chosen(s) => s.list.words[s.list.cursor] \in Texts /\ s.list.words[s.list.cursor] # <<>>
  BY ChosenWord DEF OfferedWords
<1>4. s.mode = "LongPress" => s.buffer # current /\ s.list.kind = "LongPress"
  <2> SUFFICES ASSUME s.mode = "LongPress"
               PROVE  s.buffer # current /\ s.list.kind = "LongPress"
    OBVIOUS
  <2> DEFINE word == IF Chosen(s) THEN s.list.words[s.list.cursor] ELSE s.orig
  <2>1. s.orig # <<>> /\ s.list.kind = "LongPress"
    BY DEF Fits
  <2>2. word \in Texts /\ word # <<>>
    BY <1>1, <1>3, <2>1
  <2>3. current = s.buffer \o word
    BY <1>2
  <2> HIDE DEF word, current
  <2>4. s.buffer \o word # s.buffer
    BY <1>1, <2>2, ConcatEqualIffEmpty DEF Texts
  <2> QED BY <2>1, <2>3, <2>4
<1>5. r = Type(h, sym)
  BY DEF HandleCompose
<1>6. /\ Fits(h) /\ h.mode = "Hint" /\ h.buffer = current /\ h.list = s.list
      /\ h.composing = s.composing /\ h.fed = s.fed
      /\ h.sent = s.sent /\ h.removed = s.removed /\ h.repeated = s.repeated
  <2> HIDE DEF current
  <2>1. CASE s.buffer = current
    BY <1>1, <1>4, <2>1
  <2>2. CASE s.buffer # current
    <3>1. h = moved
      BY <2>2
    <3>2. moved \in States
      BY <1>1, <1>2, NoText DEF States
    <3>3. /\ moved.mode = "Hint" /\ moved.buffer = current /\ moved.list = s.list
          /\ moved.composing = s.composing /\ moved.fed = s.fed
          /\ moved.sent = s.sent /\ moved.removed = s.removed /\ moved.repeated = s.repeated
      BY <1>1 DEF States
    <3>4. s.list.kind = "Hint" => current # <<>>
      <4>1. s.list.kind = "Hint" => s.mode = "Hint"
        BY <1>1, <1>4
      <4>2. s.mode = "Hint" => Chosen(s)
        BY <1>2, <2>2
      <4> QED BY <1>2, <1>3, <4>1, <4>2
    <3> HIDE DEF moved, h
    <3>5. Fits(moved)
      BY <3>2, <3>3, <3>4 DEF Fits
    <3> QED BY <3>1, <3>3, <3>5
  <2> QED BY <2>1, <2>2
<1> HIDE DEF h, r
<1>7. Answers(h, sym, r)
  BY <1>5, <1>6, TypeFacts
<1>8. r.s = Waits(h, r.s.composing)
  BY <1>7 DEF Answers
<1> DEFINE t == Waits(h, r.s.composing)
<1>9. /\ Fits(t) /\ t.sent = h.sent /\ t.removed = h.removed /\ t.repeated = h.repeated
      /\ t.buffer = h.buffer /\ t.mode = h.mode /\ t.list = h.list
  <2>1. r.s.composing \in Seq(Syms) /\ (r.s.composing = <<>> \/ OneDead(r.s.composing))
    BY <1>7 DEF Answers
  <2> DEFINE c == r.s.composing
  <2> HIDE DEF c
  <2>2. c \in Seq(Syms) /\ (c = <<>> \/ OneDead(c)) /\ h.mode # "LongPress"
    BY <1>6, <2>1 DEF c
  <2>3. LET u == Waits(h, c)
        IN  /\ Fits(u) /\ u.sent = h.sent /\ u.removed = h.removed /\ u.repeated = h.repeated
            /\ u.buffer = h.buffer /\ u.mode = h.mode /\ u.list = h.list
    BY <1>6, <2>2, WaitsFacts
  <2> QED BY <2>3 DEF c
<1> HIDE DEF t, current
<1>10. /\ Fits(r.s) /\ r.s.mode = "Hint" /\ r.s.buffer = current /\ r.s.list = s.list
       /\ r.s.sent = s.sent /\ r.s.removed = s.removed /\ r.s.repeated = s.repeated
  BY <1>6, <1>8, <1>9 DEF t
<1>11. Chosen(r.s) => Chosen(s) /\ s.mode = "Hint"
  BY <1>1, <1>4, <1>10 DEF Chosen
<1>12. CurrentSelection(r.s) = current
  <2>1. CurrentSelection(r.s) = IF Chosen(r.s) THEN s.list.words[s.list.cursor] ELSE current
    BY <1>10, SelectionFacts
  <2> QED BY <1>2, <1>11, <2>1
<1>13. /\ r.text \in Texts /\ Len(r.text) \in {0, 1} /\ r.consumed \in BOOLEAN
       /\ sym \notin DeadKeys => r.s.composing = <<>> /\ (r.text = <<>> => ~r.consumed)
       /\ ~r.consumed => r.s.composing = <<>> /\ sym \notin DeadKeys
       /\ s.fed = s.composing =>
            r.text \o (IF r.consumed THEN r.s.composing ELSE <<sym>>) =
              Yields(Append(s.composing, sym))
  BY <1>6, <1>7 DEF Answers
<1> QED BY <1>10, <1>11, <1>12, <1>13 DEF r, current

LEMMA TypeCharFacts ==
  ASSUME NEW s, Fits(s), s.mode = "Hint", NEW char \in Characters, NEW words \in Seq(OfferedWords)
  PROVE  LET t == TypeChar(s, char, words)
         IN  /\ Fits(t) /\ Plain(t) /\ t.removed = s.removed /\ t.composing = s.composing
             /\ t.repeated => s.repeated
             /\ HasRoom(s, 1) =>
                  t.sent \o CurrentSelection(t) = (s.sent \o CurrentSelection(s)) \o <<char>>
<1> DEFINE t == TypeChar(s, char, words)
           u == CommitBuffer(s)
<1>1. <<char>> \in Texts /\ Len(<<char>>) = 1
  BY OneText
<1>2. CASE char \in Letters \cup OtherChars /\ HintEnabled(s)
  <2>1. t = UpdateBuffer(s, <<char>>, words)
    BY <1>2 DEF TypeChar
  <2> HIDE DEF t
  <2>2. /\ Fits(t) /\ Plain(t) /\ t.removed = s.removed /\ t.composing = s.composing
        /\ (t.repeated => s.repeated)
        /\ HasRoom(s, Len(<<char>>)) =>
             t.sent \o CurrentSelection(t) = (s.sent \o CurrentSelection(s)) \o <<char>>
    BY <1>1, <2>1, UpdateBufferFacts
  <2> QED BY <1>1, <2>2 DEF t
<1>3. CASE ~(char \in Letters \cup OtherChars /\ HintEnabled(s))
  <2>1. t = CommitText(u, <<char>>)
    BY <1>3 DEF TypeChar
  <2>2. /\ Fits(u) /\ Plain(u) /\ u.sent = s.sent \o CurrentSelection(s)
        /\ u.removed = s.removed /\ u.composing = s.composing /\ (u.repeated => s.repeated)
        /\ CurrentSelection(u) = <<>>
    BY CommitBufferFacts
  <2> HIDE DEF t, u
  <2>3. /\ Fits(t) /\ t.sent = u.sent \o <<char>> /\ CurrentSelection(t) = CurrentSelection(u)
        /\ (Chosen(t) <=> Chosen(u)) /\ t.removed = u.removed /\ t.repeated = u.repeated
        /\ t.mode = u.mode /\ t.composing = u.composing
    BY <1>1, <2>1, <2>2, CommitTextFacts
  <2>4. Plain(t)
    BY <2>2, <2>3 DEF Plain
  <2>5. t.sent \o CurrentSelection(t) = t.sent
    BY <2>2, <2>3, NoText DEF Fits, States
  <2> QED BY <2>2, <2>3, <2>4, <2>5 DEF t
<1> QED BY <1>2, <1>3

\* The characters that composing yields are typed before the key itself.
LEMMA TakenIs ==
  ASSUME PairsOnly, NEW s, Fits(s), NEW sym \in Syms, NEW words
  PROVE  LET r == HandleCompose(s, sym)
             done == IF r.text = <<>> THEN r.s ELSE TypeChar(r.s, r.text[1], words)
         IN  Taken(s, sym, words) =
               IF r.consumed THEN done
               ELSE IF sym \in Letters /\ HintEnabled(done) THEN UpdateBuffer(done, <<sym>>, words)
               ELSE CommitText(ResetPanel(CommitBuffer(done)), <<sym>>)
<1> DEFINE r == HandleCompose(s, sym)
           n == Len(r.text)
           Steps(h) == [k \in 0..n |-> IF k = 0 THEN r.s ELSE TypeChar(h[k - 1], r.text[k], words)]
           f == CHOOSE h : h = Steps(h)
           g == [k \in 0..n |-> IF k = 0 THEN r.s ELSE TypeChar(r.s, r.text[1], words)]
<1>1. r.text \in Texts /\ Len(r.text) \in {0, 1}
  BY HandleComposeFacts
<1>2. Taken(s, sym, words) =
        IF r.consumed THEN f[n]
        ELSE IF sym \in Letters /\ HintEnabled(f[n]) THEN UpdateBuffer(f[n], <<sym>>, words)
        ELSE CommitText(ResetPanel(CommitBuffer(f[n])), <<sym>>)
  BY DEF Taken
<1> HIDE DEF r
<1>3. (n = 0 <=> r.text = <<>>) /\ n \in {0, 1}
  BY <1>1 DEF Texts
<1>4. g = Steps(g)
  <2>1. ASSUME NEW k \in 0..n
        PROVE  g[k] = Steps(g)[k]
    <3>1. CASE k = 0
      BY <3>1
    <3>2. CASE k # 0
      <4>1. k = 1 /\ 0 \in 0..n
        <5> HIDE DEF n
        <5> QED BY <1>3, <3>2
      <4>2. g[k - 1] = r.s
        BY <4>1
      <4> QED BY <4>1, <4>2
    <3> QED BY <3>1, <3>2
  <2>2. DOMAIN g = 0..n /\ DOMAIN Steps(g) = 0..n
    OBVIOUS
  <2>3. g = [k \in 0..n |-> g[k]] /\ Steps(g) = [k \in 0..n |-> Steps(g)[k]]
    OBVIOUS
  <2> HIDE DEF g, Steps
  <2> QED BY <2>1, <2>2, <2>3
<1>5. f = Steps(f)
  <2> HIDE DEF Steps, g
  <2> QED BY <1>4
<1>6. f[n] = IF r.text = <<>> THEN r.s ELSE TypeChar(r.s, r.text[1], words)
  <2> HIDE DEF f
  <2>1. f[0] = Steps(f)[0] /\ f[n] = Steps(f)[n]
    <3> HIDE DEF Steps, n
    <3> QED BY <1>5
  <2>2. Steps(f)[0] = r.s
    <3>1. 0 \in 0..n
      <4> HIDE DEF n
      <4> QED BY <1>3
    <3> QED BY <3>1
  <2>3. CASE n = 0
    <3> HIDE DEF Steps, n
    <3> QED BY <1>3, <2>1, <2>2, <2>3
  <2>4. CASE n = 1
    <3>1. Steps(f)[1] = TypeChar(f[1 - 1], r.text[1], words)
      BY <2>4
    <3>2. Steps(f)[1] = TypeChar(f[0], r.text[1], words)
      BY <3>1
    <3> HIDE DEF Steps, n
    <3> QED BY <1>3, <2>1, <2>2, <2>4, <3>2
  <2> QED BY <1>3, <2>3, <2>4
<1> HIDE DEF f, n
<1> QED BY <1>2, <1>6 DEF r

\* What Typing says of a state.
Adds(s, sym) == CurrentSelection(s) \o Yields(Append(s.composing, sym))

LEMMA AddsText ==
  ASSUME NEW s, Fits(s), NEW sym \in Syms
  PROVE  Adds(s, sym) \in Texts /\ Yields(Append(s.composing, sym)) \in Texts
<1> DEFINE keys == Append(s.composing, sym)
<1>1. keys \in Texts
  <2>1. s.composing \in Seq(Syms)
    BY DEF Fits, States
  <2>2. keys \in Seq(Syms)
    BY <2>1
  <2> HIDE DEF keys
  <2> QED BY <2>2, SymsAreText
<1> HIDE DEF keys
<1>2. Yields(keys) \in Texts
  <2>1. CASE Composes(keys)
    <3>1. ComposeTable[keys] \in Characters
      BY <2>1, ComposeAssumption DEF Composes
    <3> QED BY <2>1, <3>1, OneText DEF Yields
  <2>2. CASE ~Composes(keys)
    BY <1>1, <2>2 DEF Yields
  <2> QED BY <2>1, <2>2
<1>3. CurrentSelection(s) \in Texts
  BY SelectionFacts
<1>4. CurrentSelection(s) \o Yields(keys) \in Texts
  BY <1>2, <1>3, Joined
<1> QED BY <1>2, <1>4 DEF Adds, keys

LEMMA TakenFacts ==
  ASSUME PairsOnly, NEW s, Fits(s), NEW sym \in Syms, NEW words \in Seq(OfferedWords)
  PROVE  LET t == Taken(s, sym, words)
         IN  /\ Fits(t) /\ t.removed = s.removed /\ (t.repeated => s.repeated)
             /\ sym \in Letters => Plain(t) /\ t.composing = <<>>
             /\ s.fed = s.composing
                  /\ (Chosen(s) /\ s.mode = "Hint" =>
                        Len(CurrentSelection(s)) + 1 < BufferLimit) =>
                  t.sent \o PreeditString(t) = s.sent \o Adds(s, sym)
<1> DEFINE r == HandleCompose(s, sym)
           done == IF r.text = <<>> THEN r.s ELSE TypeChar(r.s, r.text[1], words)
           t == Taken(s, sym, words)
           current == CurrentSelection(s)
           room == Chosen(s) /\ s.mode = "Hint" => Len(current) + 1 < BufferLimit
           same == s.fed = s.composing
           keys == Append(s.composing, sym)
<1>1. t = IF r.consumed THEN done
          ELSE IF sym \in Letters /\ HintEnabled(done) THEN UpdateBuffer(done, <<sym>>, words)
          ELSE CommitText(ResetPanel(CommitBuffer(done)), <<sym>>)
  BY TakenIs
<1>2. /\ Fits(r.s) /\ r.s.mode = "Hint" /\ r.s.buffer = current
      /\ CurrentSelection(r.s) = current
      /\ (Chosen(r.s) => Chosen(s) /\ s.mode = "Hint")
      /\ r.s.sent = s.sent /\ r.s.removed = s.removed /\ r.s.repeated = s.repeated
      /\ r.text \in Texts /\ Len(r.text) \in {0, 1} /\ r.consumed \in BOOLEAN
      /\ (sym \notin DeadKeys => r.s.composing = <<>> /\ (r.text = <<>> => ~r.consumed))
      /\ (~r.consumed => r.s.composing = <<>> /\ sym \notin DeadKeys)
      /\ (same => r.text \o (IF r.consumed THEN r.s.composing ELSE <<sym>>) = Yields(keys))
  BY HandleComposeFacts
<1>3. /\ s.sent \in Texts /\ current \in Texts /\ s.sent \o current \in Texts
      /\ <<sym>> \in Texts /\ Len(<<sym>>) = 1 /\ Yields(keys) \in Texts
      /\ sym \in Letters => sym \notin DeadKeys
  <2>1. sym \in Characters
    BY LettersAssumption
  <2> QED BY <2>1, SelectionFacts, AddsText, OneText, Joined, LettersAssumption DEF Fits, States
<1> HIDE DEF r, current, keys
<1>4. room => HasRoom(r.s, 1)
  <2> SUFFICES ASSUME room, Chosen(r.s)
               PROVE  r.s.buffer = CurrentSelection(r.s) /\ Len(r.s.buffer) + 1 < BufferLimit
    BY DEF HasRoom
  <2> QED BY <1>2
<1>5. /\ Fits(done) /\ done.mode = "Hint" /\ done.removed = s.removed
      /\ (done.repeated => s.repeated) /\ done.composing = r.s.composing
      /\ (r.text # <<>> => Plain(done))
      /\ (room => /\ HasRoom(done, 1)
                  /\ done.sent \o CurrentSelection(done) = (s.sent \o current) \o r.text)
  <2>1. CASE r.text = <<>>
    <3>1. done = r.s
      BY <2>1
    <3>2. (s.sent \o current) \o <<>> = s.sent \o current
      BY <1>3, NoText
    <3> HIDE DEF done, room
    <3> QED BY <1>2, <1>4, <2>1, <3>1, <3>2
  <2>2. CASE r.text # <<>>
    <3>1. r.text = <<r.text[1]>> /\ r.text[1] \in Characters
      <4>1. Len(r.text) = 1
        BY <1>2, <2>2 DEF Texts
      <4> QED BY <1>2, <4>1 DEF Texts
    <3> DEFINE u == TypeChar(r.s, r.text[1], words)
    <3>2. done = u
      BY <2>2
    <3>3. /\ Fits(u) /\ Plain(u) /\ u.removed = r.s.removed /\ u.composing = r.s.composing
          /\ (u.repeated => r.s.repeated)
          /\ (HasRoom(r.s, 1) => u.sent \o CurrentSelection(u) =
                                (r.s.sent \o CurrentSelection(r.s)) \o <<r.text[1]>>)
      <4> DEFINE base == r.s
                 char == r.text[1]
      <4>1. Fits(base) /\ base.mode = "Hint" /\ char \in Characters
        BY <1>2, <3>1
      <4> HIDE DEF base, char
      <4>2. LET v == TypeChar(base, char, words)
            IN  /\ Fits(v) /\ Plain(v) /\ v.removed = base.removed /\ v.composing = base.composing
                /\ (v.repeated => base.repeated)
                /\ (HasRoom(base, 1) => v.sent \o CurrentSelection(v) =
                                       (base.sent \o CurrentSelection(base)) \o <<char>>)
        BY <4>1, TypeCharFacts
      <4> QED BY <4>2 DEF base, char
    <3> HIDE DEF done, room, u
    <3>4. room => u.sent \o CurrentSelection(u) = (s.sent \o current) \o r.text
      BY <1>2, <1>4, <3>1, <3>3
    <3>5. HasRoom(u, 1)
      BY <3>3 DEF Plain, HasRoom
    <3>6. u.mode = "Hint"
      BY <3>3 DEF Plain
    <3> QED BY <1>2, <2>2, <3>2, <3>3, <3>4, <3>5, <3>6
  <2> QED BY <2>1, <2>2
<1> HIDE DEF done, room, same, t
<1> DEFINE before == s.sent \o current
<1>6. before \in Texts
  BY <1>3
<1>7. ASSUME r.consumed
      PROVE  /\ Fits(t) /\ t.removed = s.removed /\ (t.repeated => s.repeated)
             /\ (sym \in Letters => Plain(t) /\ t.composing = <<>>)
             /\ (same /\ room => t.sent \o PreeditString(t) = before \o Yields(keys))
  <2>1. t = done
    BY <1>1, <1>7
  <2>2. t.composing = r.s.composing /\ t.mode = "Hint" /\ t.sent \in Texts
        /\ CurrentSelection(t) \in Texts /\ t.composing \in Texts
    BY <1>5, <2>1, SelectionFacts, SymsAreText DEF Fits, States
  <2>3. PreeditString(t) = CurrentSelection(t) \o t.composing
    BY <1>5, <2>1, <2>2, SelectionFacts
  <2>4. sym \in Letters => Plain(t) /\ t.composing = <<>>
    BY <1>2, <1>3, <1>5, <1>7, <2>1
  <2>5. ASSUME same, room
        PROVE  t.sent \o PreeditString(t) = before \o Yields(keys)
    <3>1. r.text \o t.composing = Yields(keys)
      BY <1>2, <1>7, <2>2, <2>5
    <3>2. t.sent \o CurrentSelection(t) = before \o r.text
      BY <1>5, <2>1, <2>5
    <3> HIDE DEF before
    <3>3. t.sent \o (CurrentSelection(t) \o t.composing)
            = (t.sent \o CurrentSelection(t)) \o t.composing
      BY <2>2, Joined
    <3>4. (before \o r.text) \o t.composing = before \o (r.text \o t.composing)
      BY <1>2, <1>6, <2>2, Joined
    <3> QED BY <2>3, <3>1, <3>2, <3>3, <3>4
  <2> QED BY <1>5, <2>1, <2>4, <2>5
<1>8. ASSUME ~r.consumed
      PROVE  /\ Fits(t) /\ t.removed = s.removed /\ (t.repeated => s.repeated)
             /\ Plain(t) /\ t.composing = <<>>
             /\ (same /\ room => t.sent \o PreeditString(t) = before \o Yields(keys))
  <2>1. /\ Fits(t) /\ Plain(t) /\ t.removed = done.removed /\ t.composing = done.composing
        /\ (t.repeated => done.repeated)
        /\ (HasRoom(done, 1) =>
              t.sent \o CurrentSelection(t) =
                (done.sent \o CurrentSelection(done)) \o <<sym>>)
    <3>1. CASE sym \in Letters /\ HintEnabled(done)
      <4>1. t = UpdateBuffer(done, <<sym>>, words)
        BY <1>1, <1>8, <3>1
      <4> DEFINE u == UpdateBuffer(done, <<sym>>, words)
      <4>2. /\ Fits(u) /\ Plain(u) /\ u.removed = done.removed /\ u.composing = done.composing
            /\ (u.repeated => done.repeated)
            /\ (HasRoom(done, Len(<<sym>>)) =>
                  u.sent \o CurrentSelection(u) =
                    (done.sent \o CurrentSelection(done)) \o <<sym>>)
        BY <1>3, <1>5, UpdateBufferFacts
      <4> HIDE DEF u
      <4> QED BY <1>3, <4>1, <4>2 DEF u
    <3>2. CASE ~(sym \in Letters /\ HintEnabled(done))
      <4> DEFINE a == CommitBuffer(done)
                 b == ResetPanel(a)
                 u == CommitText(b, <<sym>>)
      <4>1. t = u
        BY <1>1, <1>8, <3>2
      <4>2. /\ Fits(a) /\ a.mode = "Hint" /\ a.buffer = <<>>
            /\ a.sent = done.sent \o CurrentSelection(done) /\ a.removed = done.removed
            /\ a.composing = done.composing /\ (a.repeated => done.repeated)
        BY <1>5, CommitBufferFacts DEF Plain
      <4> HIDE DEF a
      <4>3. /\ Fits(b) /\ Plain(b) /\ b.buffer = a.buffer /\ b.sent = a.sent
            /\ b.removed = a.removed /\ b.composing = a.composing /\ b.repeated = a.repeated
        BY <4>2, ResetPanelFacts
      <4> HIDE DEF b
      <4>4. /\ Fits(u) /\ u.sent = b.sent \o <<sym>> /\ CurrentSelection(u) = CurrentSelection(b)
            /\ (Chosen(u) <=> Chosen(b)) /\ u.removed = b.removed /\ u.repeated = b.repeated
            /\ u.mode = b.mode /\ u.composing = b.composing
        BY <1>3, <4>3, CommitTextFacts
      <4> HIDE DEF u
      <4>5. Plain(u)
        BY <4>3, <4>4 DEF Plain
      <4>6. CurrentSelection(b) = <<>>
        BY <4>2, <4>3, SelectionFacts DEF Plain
      <4>7. u.sent \o CurrentSelection(u) = u.sent
        BY <4>4, <4>6, NoText DEF Fits, States
      <4> QED BY <4>1, <4>2, <4>3, <4>4, <4>5, <4>7
    <3> QED BY <3>1, <3>2
  <2>2. t.composing = <<>> /\ t.mode = "Hint" /\ t.sent \in Texts /\ CurrentSelection(t) \in Texts
    BY <1>2, <1>5, <1>8, <2>1, SelectionFacts DEF Plain, Fits, States
  <2>3. PreeditString(t) = CurrentSelection(t)
    BY <2>1, <2>2, SelectionFacts, NoText
  <2>4. ASSUME same, room
        PROVE  t.sent \o PreeditString(t) = before \o Yields(keys)
    <3>1. r.text \o <<sym>> = Yields(keys)
      BY <1>2, <1>8, <2>4
    <3>2. t.sent \o CurrentSelection(t) = (before \o r.text) \o <<sym>>
      BY <1>5, <2>1, <2>4
    <3> HIDE DEF before
    <3>3. (before \o r.text) \o <<sym>> = before \o (r.text \o <<sym>>)
      BY <1>2, <1>3, <1>6, Joined
    <3> QED BY <2>3, <3>1, <3>2, <3>3
  <2> QED BY <1>5, <2>1, <2>2, <2>4
<1>9. before \o Yields(keys) = s.sent \o Adds(s, sym)
  <2>1. (s.sent \o current) \o Yields(keys) = s.sent \o (current \o Yields(keys))
    <3> DEFINE yields == Yields(keys)
               sent == s.sent
    <3>1. yields \in Texts /\ sent \in Texts /\ current \in Texts
      BY <1>3
    <3> HIDE DEF yields, sent
    <3>2. (sent \o current) \o yields = sent \o (current \o yields)
      BY ONLY <3>1, Joined
    <3> QED BY <3>2 DEF yields, sent
  <2> QED BY <2>1 DEF Adds, current, keys
<1> HIDE DEF before
<1>10. /\ Fits(t) /\ t.removed = s.removed /\ (t.repeated => s.repeated)
       /\ (sym \in Letters => Plain(t) /\ t.composing = <<>>)
       /\ (same /\ room => t.sent \o PreeditString(t) = s.sent \o Adds(s, sym))
  BY <1>7, <1>8, <1>9
<1> QED BY <1>10 DEF t, same, room, current

-----------------------------------------------------------------------------
\* What every call starts from.

LEMMA SameFacts ==
  ASSUME NEW s, Fits(s), NEW t, t \in States,
         t.buffer = s.buffer, t.mode = s.mode, t.orig = s.orig, t.list = s.list,
         t.composing = s.composing, t.fed = s.composing \/ t.fed = <<>>
  PROVE  /\ Fits(t) /\ CurrentSelection(t) = CurrentSelection(s)
         /\ PreeditString(t) = PreeditString(s) /\ (Chosen(t) <=> Chosen(s))
<1>1. Fits(t)
  BY DEF Fits
<1>2. CurrentSelection(t) = CurrentSelection(s)
  BY DEF CurrentSelection
<1>3. PreeditString(t) = PreeditString(s)
  BY <1>2 DEF PreeditString
<1> QED BY <1>1, <1>2, <1>3 DEF Chosen

Begun(s) ==
  /\ Fits(s) /\ s.sent = <<>> /\ s.removed = 0
  /\ s.buffer = kb.buffer /\ s.mode = kb.mode /\ s.list = kb.list /\ s.shown = kb.shown
  /\ s.composing = kb.composing /\ s.fed = kb.fed
  /\ CurrentSelection(s) = CurrentSelection(kb) /\ PreeditString(s) = Was
  /\ Chosen(s) <=> Chosen(kb)

LEMMA BegunIs ==
  ASSUME Fits(kb), NEW s, s \in States, s.sent = <<>>, s.removed = 0,
         s.buffer = kb.buffer, s.mode = kb.mode, s.list = kb.list, s.shown = kb.shown,
         s.composing = kb.composing, s.fed = kb.fed, s.orig = kb.orig
  PROVE  Begun(s)
<1>1. s.fed = kb.composing \/ s.fed = <<>>
  BY DEF Fits
<1>2. /\ Fits(s) /\ CurrentSelection(s) = CurrentSelection(kb)
      /\ PreeditString(s) = PreeditString(kb) /\ (Chosen(s) <=> Chosen(kb))
  BY <1>1, SameFacts
<1> QED BY <1>2 DEF Begun, Was

LEMMA StartFacts ==
  ASSUME Fits(kb)
  PROVE  Begun(Start) /\ Start.repeated = kb.repeated
<1>1. kb \in States /\ <<>> \in Texts
  BY NoText DEF Fits, Texts
<1>2. Start \in States
  BY <1>1 DEF Start, States
<1>3. /\ Start.sent = <<>> /\ Start.removed = 0
      /\ Start.buffer = kb.buffer /\ Start.mode = kb.mode /\ Start.list = kb.list
      /\ Start.shown = kb.shown /\ Start.composing = kb.composing /\ Start.fed = kb.fed
      /\ Start.orig = kb.orig /\ Start.repeated = kb.repeated
  BY <1>1 DEF Start, States
<1> DEFINE s == Start
<1> HIDE DEF s
<1>4. Begun(s)
  BY <1>2, <1>3, BegunIs DEF s
<1> QED BY <1>3, <1>4 DEF s

LEMMA PressedFacts ==
  ASSUME Fits(kb)
  PROVE  Begun(Pressed) /\ Pressed.repeated = FALSE
<1>1. kb \in States /\ <<>> \in Texts
  BY NoText DEF Fits, Texts
<1>2. Pressed \in States
  BY <1>1 DEF Pressed, Start, States
<1>3. /\ Pressed.sent = <<>> /\ Pressed.removed = 0
      /\ Pressed.buffer = kb.buffer /\ Pressed.mode = kb.mode /\ Pressed.list = kb.list
      /\ Pressed.shown = kb.shown /\ Pressed.composing = kb.composing /\ Pressed.fed = kb.fed
      /\ Pressed.orig = kb.orig /\ Pressed.repeated = FALSE
  BY <1>1 DEF Pressed, Start, States
<1> DEFINE s == Pressed
<1> HIDE DEF s
<1>4. Begun(s)
  BY <1>2, <1>3, BegunIs DEF s
<1> QED BY <1>3, <1>4 DEF s

\* What every call ends in.  A key that is still held has nothing behind it that a
\* long press would not know.
LEMMA EndsFacts ==
  ASSUME NEW what, NEW s, NEW key, Ends(what, s, key), predict \in BOOLEAN, Fits(s),
         key \in DOMAIN Relatives => s.composing = <<>> /\ (s.repeated \/ Plain(s)),
         what[1] = "Repeat" => s.repeated,
         what[1] \notin {"Click", "Invoke", "Switch"} => s.shown = PreeditString(s)
  PROVE  KbInv' /\ kb' = s /\ did' = what /\ Seen = s.sent \o PreeditString(s)
<1>1. kb' = s /\ did' = what /\ predict' = predict
  BY DEF Ends
<1>2. held' = IF key \in DOMAIN Relatives THEN key ELSE NoKey
  BY DEF Ends
<1>3. held' \in Letters \cup {NoKey}
  BY <1>2, WordsAssumption
<1>4. held' # NoKey => s.composing = <<>> /\ (s.repeated \/ Plain(s))
  BY <1>2
<1>5. KbInv'
  BY <1>1, <1>3, <1>4 DEF KbInv, Plain, Fits, Sound, PreeditString, CurrentSelection, Chosen
<1> QED BY <1>1, <1>5 DEF Seen

LEMMA KeyEndsFacts ==
  ASSUME NEW what, NEW s, NEW key, KeyEnds(what, s, key), predict \in BOOLEAN, Fits(s),
         key \in DOMAIN Relatives => s.composing = <<>> /\ (s.repeated \/ Plain(s)),
         what[1] = "Repeat" => s.repeated
  PROVE  /\ KbInv' /\ did' = what /\ Seen = s.sent \o PreeditString(s)
         /\ kb'.removed = s.removed
<1> DEFINE t == SetPreedit(s)
<1>1. /\ Fits(t) /\ t.shown = PreeditString(s) /\ PreeditString(t) = PreeditString(s)
      /\ t.sent = s.sent /\ t.removed = s.removed /\ t.repeated = s.repeated
      /\ t.composing = s.composing /\ t.mode = s.mode /\ t.list = s.list
  BY SetPreeditFacts
<1>2. Ends(what, t, key)
  BY DEF KeyEnds
<1> HIDE DEF t
<1>3. key \in DOMAIN Relatives => t.composing = <<>> /\ (t.repeated \/ Plain(t))
  BY <1>1 DEF Plain, Chosen
<1>4. KbInv' /\ kb' = t /\ did' = what /\ Seen = t.sent \o PreeditString(t)
  BY <1>1, <1>2, <1>3, EndsFacts
<1> QED BY <1>1, <1>4

\* What the invariant says of the state before a call.
LEMMA InvFacts ==
  ASSUME KbInv
  PROVE  /\ predict \in BOOLEAN /\ Fits(kb)
         /\ kb.mode \in {"Hint", "LongPress"} /\ kb.buffer \in Texts /\ kb.shown \in Texts
         /\ kb.composing \in Seq(Syms) /\ kb.list.words \in Seq(OfferedWords)
         /\ kb.mode = "LongPress" => kb.composing = <<>>
         /\ kb.list.kind = "Hint" => kb.mode = "Hint"
         /\ Was \in Texts /\ NoKey \notin DOMAIN Relatives
<1>1. Fits(kb) /\ kb \in States
  BY DEF KbInv, Fits
<1>2. /\ kb.mode \in {"Hint", "LongPress"} /\ kb.buffer \in Texts /\ kb.shown \in Texts
      /\ kb.composing \in Seq(Syms) /\ kb.list \in Lists
  BY <1>1 DEF States
<1>3. kb.mode = "LongPress" => kb.composing = <<>> /\ kb.list.kind = "LongPress"
  BY <1>1 DEF Fits
<1>4. Was \in Texts
  BY <1>1, SelectionFacts DEF Was
<1> QED BY <1>1, <1>2, <1>3, <1>4, LettersAssumption, WordsAssumption DEF KbInv, Lists

LEMMA TypeKeyKeeps ==
  ASSUME PairsOnly, KbInv, NEW sym \in Syms, TypeKey(sym)
  PROVE  KbInv' /\ CallKeepsText
<1>1. PICK words \in Offers : KeyEnds(<<"Type", sym>>, Taken(Pressed, sym, words), sym)
  BY DEF TypeKey
<1>2. words \in Seq(OfferedWords)
  BY WordsAssumption
<1> DEFINE s == Pressed
           t == Taken(s, sym, words)
<1>3. Begun(s)
  BY InvFacts, PressedFacts
<1>4. KeyEnds(<<"Type", sym>>, t, sym)
  BY <1>1
<1> HIDE DEF s, t
<1>5. /\ Fits(t) /\ (sym \in Letters => Plain(t) /\ t.composing = <<>>)
      /\ (s.fed = s.composing
           /\ (Chosen(s) /\ s.mode = "Hint" => Len(CurrentSelection(s)) + 1 < BufferLimit) =>
           t.sent \o PreeditString(t) = s.sent \o Adds(s, sym))
  BY <1>2, <1>3, TakenFacts DEF Begun, t
<1>6. sym \in DOMAIN Relatives => t.composing = <<>> /\ (t.repeated \/ Plain(t))
  BY <1>5, WordsAssumption
<1> DEFINE what == <<"Type", sym>>
<1>7. what[1] = "Type" /\ what[2] = sym
  OBVIOUS
<1> HIDE DEF what
<1>8. KbInv' /\ did' = what /\ Seen = t.sent \o PreeditString(t)
  BY <1>4, <1>5, <1>6, <1>7, InvFacts, KeyEndsFacts DEF what
<1>9. ASSUME kb.fed = kb.composing, ~Overlong
      PROVE  Seen = Typing(sym)
  <2>1. Adds(s, sym) = Typing(sym)
    BY <1>3 DEF Adds, Yields, Typing, Begun
  <2>2. Chosen(s) /\ s.mode = "Hint" => Len(CurrentSelection(s)) + 1 < BufferLimit
    <3> SUFFICES ASSUME Chosen(s), s.mode = "Hint"
                 PROVE  Len(CurrentSelection(s)) + 1 < BufferLimit
      OBVIOUS
    <3>1. ~(Len(CurrentSelection(kb)) + 1 >= BufferLimit)
      BY <1>3, <1>9 DEF Overlong, Chosen, Begun
    <3> DEFINE n == Len(CurrentSelection(kb))
    <3>2. n \in Nat
      <4>1. CurrentSelection(kb) \in Texts
        BY InvFacts, SelectionFacts
      <4> QED BY <4>1 DEF Texts
    <3>3. ~(n + 1 >= BufferLimit)
      BY <3>1
    <3> HIDE DEF n
    <3>4. n + 1 < BufferLimit
      BY <3>2, <3>3, LimitAssumption
    <3> QED BY <1>3, <3>4 DEF Begun, n
  <2>3. t.sent \o PreeditString(t) = <<>> \o Typing(sym)
    BY <1>3, <1>5, <1>9, <2>1, <2>2 DEF Begun
  <2>4. Typing(sym) \in Texts
    BY <1>3, <2>1, AddsText DEF Begun
  <2> QED BY <1>8, <2>3, <2>4, NoText
<1> HIDE DEF what
<1>10. CallKeepsText
  BY <1>7, <1>8, <1>9 DEF CallKeepsText
<1> QED BY <1>8, <1>10

LEMMA RepeatKeeps ==
  ASSUME KbInv, Repeat
  PROVE  KbInv' /\ CallKeepsText
<1> DEFINE s == Start
           t == LongPressed(s, held)
           what == <<"Repeat">>
<1>1. held \in DOMAIN Relatives /\ KeyEnds(what, t, held)
  BY DEF Repeat
<1>2. Begun(s) /\ s.repeated = kb.repeated
  BY InvFacts, StartFacts
<1>3. held \in Letters /\ held # NoKey /\ Relatives[held] \in Seq(OfferedWords)
  BY <1>1, WordsAssumption, LettersAssumption
<1>4. kb.composing = <<>> /\ (kb.repeated \/ Plain(kb)) /\ (did[1] = "Repeat" => kb.repeated)
  BY <1>3 DEF KbInv
<1>5. what[1] = "Repeat"
  OBVIOUS
<1>6. held \in Characters /\ held \in Syms
  BY <1>3, LettersAssumption DEF Syms
<1> HIDE DEF s, what
<1>7. /\ Fits(t) /\ t.repeated /\ t.composing = <<>>
      /\ TakesOwn => t.sent \o PreeditString(t) =
                       (IF t.removed = 1 THEN <<tail>> ELSE <<>>) \o Was
  <2>1. CASE s.repeated
    <3>1. t = s
      BY <2>1 DEF LongPressed
    <3>2. t.sent = <<>> /\ t.removed = 0 /\ PreeditString(t) = Was
      BY <1>2, <3>1 DEF Begun
    <3> HIDE DEF t
    <3>3. Fits(t) /\ t.repeated /\ t.composing = <<>>
      BY <1>2, <1>4, <2>1, <3>1 DEF Begun
    <3>4. t.sent \o PreeditString(t) = (IF t.removed = 1 THEN <<tail>> ELSE <<>>) \o Was
      BY <3>2
    <3> QED BY <3>3, <3>4
  <2>2. CASE ~s.repeated
    <3> DEFINE list == [kind |-> "LongPress", words |-> Relatives[held], cursor |-> 0]
               removed == IF s.buffer = <<>> THEN 1 ELSE 0
               buffer == IF s.buffer = <<>> THEN <<>> ELSE Front(s.buffer)
    <3>1. t = [s EXCEPT !.list = list, !.shown = <<>>, !.repeated = TRUE, !.mode = "LongPress",
                        !.orig = <<held>>, !.removed = removed, !.buffer = buffer]
      <4>1. s \in States
        BY <1>2 DEF Begun, Fits
      <4>2. t = [[s EXCEPT !.list = NoList, !.shown = <<>>]
                   EXCEPT !.repeated = TRUE, !.mode = "LongPress", !.orig = <<held>>,
                          !.list = list, !.removed = removed,
                          !.buffer = IF @ = <<>> THEN @ ELSE Front(@)]
        BY <2>2 DEF LongPressed, ResetPanel
      <4> HIDE DEF list, removed
      <4> QED BY <4>1, <4>2 DEF States
    <3>2. list \in Lists /\ list.kind = "LongPress" /\ list.cursor = 0
      BY <1>3 DEF Lists
    <3>3. list.cursor <= Len(list.words)
      BY <1>3
    <3>4. s \in States /\ s.buffer \in Texts /\ s.sent = <<>>
      BY <1>2 DEF Begun, Fits, States
    <3>5. buffer \in Texts /\ removed \in {0, 1}
      BY <3>4 DEF Texts, Front
    <3>6. <<held>> \in Texts /\ <<held>> # <<>> /\ <<>> \in Texts
      BY <1>6, OneText, NoText
    <3> HIDE DEF list, removed, buffer, t
    <3>7. t \in States
      BY <3>1, <3>2, <3>4, <3>5, <3>6 DEF States
    <3>8. /\ t.list = list /\ t.mode = "LongPress" /\ t.orig = <<held>> /\ t.removed = removed
          /\ t.buffer = buffer /\ t.composing = s.composing /\ t.fed = s.fed /\ t.sent = s.sent
          /\ t.repeated = TRUE
      BY <3>1, <3>4 DEF States
    <3>9. t.composing = <<>> /\ t.fed = <<>>
      BY <1>2, <1>4, <3>8 DEF Begun, Fits
    <3>10. Fits(t)
      BY <3>2, <3>3, <3>6, <3>7, <3>8, <3>9 DEF Fits
    <3>11. PreeditString(t) = buffer \o <<held>>
      <4>1. ~Chosen(t)
        BY <3>2, <3>8 DEF Chosen
      <4> QED BY <3>8, <3>10, <4>1, SelectionFacts
    <3>12. t.sent \o PreeditString(t) = buffer \o <<held>>
      <4>1. buffer \o <<held>> \in Texts
        BY <3>5, <3>6, Joined
      <4> DEFINE all == buffer \o <<held>>
      <4> HIDE DEF all
      <4>2. <<>> \o all = all
        BY <4>1, NoText DEF all
      <4> QED BY <3>4, <3>8, <3>11, <4>2 DEF all
    <3>13. Was = s.buffer
      <4>1. kb.mode = "Hint" /\ ~Chosen(kb)
        BY <1>2, <1>4, <2>2 DEF Plain
      <4>2. Was = kb.buffer \o kb.composing
        BY <4>1, InvFacts, SelectionFacts DEF Was
      <4> QED BY <1>2, <1>4, <3>4, <4>2, NoText DEF Begun
    <3>14. ASSUME TakesOwn
           PROVE  buffer \o <<held>> = (IF t.removed = 1 THEN <<tail>> ELSE <<>>) \o Was
      <4>1. (IF kb.buffer = <<>> THEN tail ELSE Last(kb.buffer)) = held
        BY <1>2, <1>4, <2>2, <3>14 DEF TakesOwn
      <4>2. CASE s.buffer = <<>>
        <5>1. tail = held /\ buffer = <<>> /\ t.removed = 1
          BY <1>2, <3>8, <4>1, <4>2 DEF Begun, buffer, removed
        <5> QED BY <3>6, <3>13, <4>2, <5>1, NoText
      <4>3. CASE s.buffer # <<>>
        <5>1. Last(s.buffer) = held /\ buffer = Front(s.buffer) /\ t.removed = 0
          BY <1>2, <3>8, <4>1, <4>3 DEF Begun, buffer, removed
        <5>2. Front(s.buffer) \o <<Last(s.buffer)>> = s.buffer
          BY <3>4, <4>3 DEF Texts, Front, Last
        <5>3. <<>> \o s.buffer = s.buffer
          BY <3>4, NoText
        <5> QED BY <3>13, <5>1, <5>2, <5>3
      <4> QED BY <4>2, <4>3
    <3> QED BY <3>8, <3>9, <3>10, <3>12, <3>14
  <2> QED BY <2>1, <2>2
<1> HIDE DEF t
<1>8. KbInv' /\ did' = what /\ Seen = t.sent \o PreeditString(t) /\ kb'.removed = t.removed
  BY <1>1, <1>5, <1>7, InvFacts, KeyEndsFacts
<1>9. CallKeepsText
  BY <1>5, <1>7, <1>8 DEF CallKeepsText
<1> QED BY <1>8, <1>9

\* A call that changes nothing but what the next ones offer.
LEMMA TriggerKeeps ==
  ASSUME KbInv, HintTrigger \/ OneTimeHintTrigger
  PROVE  KbInv' /\ CallKeepsText
<1> DEFINE what == <<"Trigger">>
           s == Pressed
<1>1. what[1] = "Trigger"
  OBVIOUS
<1>2. Begun(s) /\ Was \in Texts /\ NoKey \notin DOMAIN Relatives /\ predict \in BOOLEAN
  BY InvFacts, PressedFacts
<1>3. ASSUME NEW a \in BOOLEAN, NEW b \in BOOLEAN
      PROVE  LET t == CommitBuffer([s EXCEPT !.wordHint = a, !.oneTime = b])
             IN  Fits(t) /\ t.sent \o PreeditString(t) = Was
  <2> DEFINE u == [s EXCEPT !.wordHint = a, !.oneTime = b]
             t == CommitBuffer(u)
  <2> HIDE DEF s
  <2>1. s \in States /\ Fits(s) /\ s.sent = <<>> /\ PreeditString(s) = Was
    BY <1>2 DEF Begun, Fits
  <2>2. u \in States
    BY <2>1 DEF States
  <2>3. /\ u.buffer = s.buffer /\ u.mode = s.mode /\ u.orig = s.orig /\ u.list = s.list
        /\ u.composing = s.composing /\ u.fed = s.fed /\ u.sent = s.sent
    BY <2>1 DEF States
  <2> HIDE DEF u
  <2>4. u.fed = s.composing \/ u.fed = <<>>
    BY <2>1, <2>3 DEF Fits
  <2>5. Fits(u) /\ PreeditString(u) = Was
    BY <2>1, <2>2, <2>3, <2>4, SameFacts
  <2>6. Fits(t) /\ t.sent \o PreeditString(t) = u.sent \o PreeditString(u)
    BY <2>5, CommitBufferFacts
  <2>7. <<>> \o Was = Was
    BY <1>2, NoText
  <2> HIDE DEF t
  <2>8. Fits(t) /\ t.sent \o PreeditString(t) = Was
    BY <2>1, <2>3, <2>5, <2>6, <2>7
  <2> QED BY <2>8 DEF t, u
<1>4. \E t : KeyEnds(what, t, NoKey) /\ Fits(t) /\ t.sent \o PreeditString(t) = Was
  <2>1. s \in States
    BY <1>2 DEF Begun, Fits
  <2>2. CASE HintTrigger
    <3> DEFINE a == ~s.wordHint
               t == CommitBuffer([s EXCEPT !.wordHint = a, !.oneTime = FALSE])
    <3>1. a \in BOOLEAN
      OBVIOUS
    <3>2. KeyEnds(what, t, NoKey)
      BY <2>2 DEF HintTrigger
    <3> HIDE DEF a, s, what
    <3>3. Fits(t) /\ t.sent \o PreeditString(t) = Was
      BY <1>3, <3>1
    <3> HIDE DEF t
    <3> QED BY <3>2, <3>3
  <2>3. CASE OneTimeHintTrigger
    <3> DEFINE u == [s EXCEPT !.wordHint = FALSE]
               c == CommitBuffer(u)
               t == [c EXCEPT !.oneTime = ~kb.oneTime]
    <3>1. KeyEnds(what, t, NoKey)
      BY <2>3 DEF OneTimeHintTrigger
    <3>2. u = [s EXCEPT !.wordHint = FALSE, !.oneTime = s.oneTime] /\ s.oneTime \in BOOLEAN
      <4> HIDE DEF s
      <4> QED BY <2>1 DEF States
    <3> HIDE DEF u, s, what
    <3>3. Fits(c) /\ c.sent \o PreeditString(c) = Was
      BY <1>3, <3>2
    <3> HIDE DEF c
    <3>4. c \in States
      BY <3>3 DEF Fits
    <3>5. t \in States
      BY <3>4 DEF States
    <3>6. /\ t.buffer = c.buffer /\ t.mode = c.mode /\ t.orig = c.orig /\ t.list = c.list
          /\ t.composing = c.composing /\ t.fed = c.fed /\ t.sent = c.sent
      BY <3>4 DEF States
    <3> HIDE DEF t
    <3>7. t.fed = c.composing \/ t.fed = <<>>
      BY <3>3, <3>6 DEF Fits
    <3>8. Fits(t) /\ PreeditString(t) = PreeditString(c)
      BY <3>3, <3>5, <3>6, <3>7, SameFacts
    <3> QED BY <3>1, <3>3, <3>6, <3>8
  <2> QED BY <2>2, <2>3
<1> HIDE DEF s, what
<1>5. PICK t : KeyEnds(what, t, NoKey) /\ Fits(t) /\ t.sent \o PreeditString(t) = Was
  BY <1>4
<1>6. KbInv' /\ did' = what /\ Seen = t.sent \o PreeditString(t)
  BY <1>1, <1>2, <1>5, KeyEndsFacts
<1>7. CallKeepsText
  BY <1>1, <1>5, <1>6 DEF CallKeepsText
<1> QED BY <1>6, <1>7

LEMMA MoveKeeps ==
  ASSUME KbInv, NEW step \in {-1, 1}, MoveChoice(step)
  PROVE  KbInv' /\ CallKeepsText
<1> DEFINE what == <<"Move">>
           s == Pressed
           count == Len(kb.list.words) + 1
           cursor == (s.list.cursor + step + count) % count
           t == [s EXCEPT !.list.cursor = cursor]
<1>1. what[1] = "Move"
  OBVIOUS
<1>2. Begun(s) /\ NoKey \notin DOMAIN Relatives /\ predict \in BOOLEAN
  BY InvFacts, PressedFacts
<1>3. KeyEnds(what, t, NoKey)
  BY DEF MoveChoice
<1> HIDE DEF s, what
<1>4. s \in States /\ Fits(s) /\ s.list = kb.list /\ s.list \in Lists
  BY <1>2 DEF Begun, Fits, States
<1>5. cursor \in Nat /\ cursor <= Len(s.list.words)
  <2>1. Len(s.list.words) \in Nat /\ s.list.cursor \in Nat /\ count = Len(s.list.words) + 1
    BY <1>4 DEF Lists
  <2> DEFINE n == Len(s.list.words)
             c == s.list.cursor
  <2>2. n \in Nat /\ c \in Nat /\ count = n + 1
    BY <2>1
  <2>3. cursor = (c + step + count) % count
    OBVIOUS
  <2> HIDE DEF n, c, count, cursor
  <2>4. c + step + count \in Int /\ count \in Nat /\ count > 0
    BY <2>2
  <2>5. cursor \in 0..(count - 1)
    BY <2>3, <2>4
  <2>6. cursor \in Nat /\ cursor <= n
    BY <2>2, <2>5
  <2> QED BY <2>6 DEF n
<1> HIDE DEF cursor
<1>6. Fits(t)
  <2> DEFINE list == [s.list EXCEPT !.cursor = cursor]
  <2>1. /\ list \in Lists /\ list.cursor = cursor /\ list.words = s.list.words
        /\ list.kind = s.list.kind
    BY <1>4, <1>5 DEF Lists
  <2>2. t = [s EXCEPT !.list = list]
    BY <1>4 DEF States
  <2> HIDE DEF list, t
  <2>3. t \in States
    BY <1>4, <2>1, <2>2 DEF States
  <2>4. /\ t.list = list /\ t.mode = s.mode /\ t.orig = s.orig /\ t.buffer = s.buffer
        /\ t.composing = s.composing /\ t.fed = s.fed
    BY <1>4, <2>2 DEF States
  <2> QED BY <1>4, <1>5, <2>1, <2>3, <2>4 DEF Fits
<1> HIDE DEF t
<1>7. KbInv' /\ did' = what
  BY <1>1, <1>2, <1>3, <1>6, KeyEndsFacts
<1>8. CallKeepsText
  BY <1>1, <1>7 DEF CallKeepsText
<1> QED BY <1>7, <1>8

\* The calls that are no keys.
LEMMA InvokeKeeps ==
  ASSUME KbInv, InvokeAction
  PROVE  KbInv' /\ CallKeepsText
<1> DEFINE what == <<"Invoke">>
           s == Start
           t == CommitBuffer(s)
<1>1. what[1] = "Invoke"
  OBVIOUS
<1>2. Begun(s) /\ Was \in Texts /\ NoKey \notin DOMAIN Relatives /\ predict \in BOOLEAN
  BY InvFacts, StartFacts
<1>3. Ends(what, t, held)
  BY DEF InvokeAction
<1> HIDE DEF s, what
<1>4. /\ Fits(t) /\ Plain(t) /\ t.composing = s.composing
      /\ t.sent \o PreeditString(t) = s.sent \o PreeditString(s)
  BY <1>2, CommitBufferFacts DEF Begun
<1>5. t.sent \o PreeditString(t) = Was
  BY <1>2, <1>4, NoText DEF Begun
<1>6. held \in DOMAIN Relatives => t.composing = <<>> /\ (t.repeated \/ Plain(t))
  BY <1>2, <1>4 DEF Begun, KbInv
<1> HIDE DEF t
<1>7. KbInv' /\ did' = what /\ Seen = t.sent \o PreeditString(t)
  BY <1>1, <1>2, <1>3, <1>4, <1>6, EndsFacts
<1>8. CallKeepsText
  BY <1>1, <1>5, <1>7 DEF CallKeepsText
<1> QED BY <1>7, <1>8

LEMMA KbResetKeeps ==
  ASSUME KbInv, KbReset
  PROVE  KbInv' /\ CallKeepsText
<1> DEFINE what == <<"Reset">>
           s == Start
           u == [s EXCEPT !.fed = <<>>]
           t == ResetState(u, TRUE)
<1>1. what[1] = "Reset"
  OBVIOUS
<1>2. Begun(s) /\ NoKey \notin DOMAIN Relatives /\ predict \in BOOLEAN
  BY InvFacts, StartFacts
<1>3. Ends(what, t, NoKey)
  BY DEF KbReset
<1> HIDE DEF s, what
<1>4. Sound(u)
  <2>1. s \in States /\ (s.composing = <<>> \/ OneDead(s.composing))
    BY <1>2 DEF Begun, Fits
  <2>2. <<>> \in Seq(Syms)
    OBVIOUS
  <2>3. u \in States
    BY <2>1, <2>2 DEF States
  <2>4. u.fed = <<>> /\ u.composing = s.composing
    BY <2>1 DEF States
  <2> HIDE DEF u
  <2> QED BY <2>1, <2>3, <2>4 DEF Sound
<1> HIDE DEF u
<1>5. Fits(t) /\ t.shown = <<>> /\ t.composing = <<>> /\ PreeditString(t) = t.composing
  BY <1>4, ResetStateFacts
<1> HIDE DEF t
<1>6. KbInv' /\ did' = what
  BY <1>1, <1>2, <1>3, <1>5, EndsFacts
<1>7. CallKeepsText
  BY <1>1, <1>6 DEF CallKeepsText
<1> QED BY <1>6, <1>7

LEMMA UnfocusKeeps ==
  ASSUME KbInv, Unfocus
  PROVE  KbInv' /\ CallKeepsText
<1> DEFINE what == <<"Unfocus">>
           s == Start
           visible == kb.shown
           u == CommitText(s, visible)
           t == ResetState(u, TRUE)
<1>1. what[1] = "Unfocus"
  OBVIOUS
<1>2. Begun(s) /\ NoKey \notin DOMAIN Relatives /\ predict \in BOOLEAN /\ visible \in Texts
  BY InvFacts, StartFacts
<1>3. Ends(what, t, NoKey)
  BY DEF Unfocus
<1> HIDE DEF s, what, visible
<1>4. Fits(u) /\ u.sent = s.sent \o visible
  BY <1>2, CommitTextFacts DEF Begun
<1> HIDE DEF u
<1>5. Sound(u)
  BY <1>4 DEF Fits, Sound
<1>6. /\ Fits(t) /\ t.shown = <<>> /\ t.composing = <<>> /\ PreeditString(t) = t.composing
      /\ t.sent = u.sent
  BY <1>5, ResetStateFacts
<1>7. t.sent \o PreeditString(t) = visible
  <2>1. t.sent = visible
    BY <1>2, <1>4, <1>6, NoText DEF Begun
  <2> HIDE DEF t
  <2> QED BY <1>2, <1>6, <2>1, NoText
<1> HIDE DEF t
<1>8. KbInv' /\ did' = what /\ Seen = t.sent \o PreeditString(t)
  BY <1>1, <1>2, <1>3, <1>6, EndsFacts
<1>9. did[1] \notin {"Click", "Invoke", "Switch"} => visible = Was
  BY DEF KbInv, Was, visible
<1>10. CallKeepsText
  BY <1>1, <1>7, <1>8, <1>9 DEF CallKeepsText
<1> QED BY <1>8, <1>10

LEMMA SwitchKeeps ==
  ASSUME KbInv, SwitchAway
  PROVE  KbInv' /\ CallKeepsText
<1> DEFINE what == <<"Switch">>
           s == Start
           c == CommitBuffer(s)
           p == ResetPanel(c)
<1>1. what[1] = "Switch"
  OBVIOUS
<1>2. Begun(s) /\ Was \in Texts /\ NoKey \notin DOMAIN Relatives /\ predict \in BOOLEAN
  BY InvFacts, StartFacts
<1>3. PICK rest \in {kb.fed, <<>>} : Ends(what, [p EXCEPT !.fed = rest], NoKey)
  BY DEF SwitchAway
<1> DEFINE t == [p EXCEPT !.fed = rest]
<1> HIDE DEF s, what
<1>4. /\ Fits(c) /\ Plain(c) /\ c.mode = "Hint" /\ c.composing = s.composing
      /\ c.sent \o PreeditString(c) = s.sent \o PreeditString(s)
  BY <1>2, CommitBufferFacts DEF Begun, Plain
<1> HIDE DEF c
<1>5. /\ Fits(p) /\ Plain(p) /\ p.sent = c.sent /\ p.composing = c.composing
      /\ p.buffer = c.buffer
  BY <1>4, ResetPanelFacts
<1> HIDE DEF p
<1>6. PreeditString(p) = PreeditString(c)
  BY <1>4, <1>5, SelectionFacts DEF Plain
<1>7. p \in States /\ rest \in Seq(Syms)
  <2>1. kb.fed \in Seq(Syms) /\ <<>> \in Seq(Syms)
    BY InvFacts DEF Fits, States
  <2> QED BY <1>5, <2>1 DEF Fits
<1>8. t \in States
  BY <1>7 DEF States
<1>9. /\ t.buffer = p.buffer /\ t.mode = p.mode /\ t.orig = p.orig /\ t.list = p.list
      /\ t.composing = p.composing /\ t.fed = rest /\ t.sent = p.sent
  BY <1>7 DEF States
<1>10. Ends(what, t, NoKey)
  BY <1>3
<1> HIDE DEF t
<1>11. t.fed = p.composing \/ t.fed = <<>>
  BY <1>2, <1>4, <1>5, <1>9, InvFacts DEF Begun, Fits
<1>12. Fits(t) /\ PreeditString(t) = PreeditString(p)
  BY <1>5, <1>8, <1>9, <1>11, SameFacts
<1>13. t.sent \o PreeditString(t) = Was
  BY <1>2, <1>4, <1>5, <1>6, <1>9, <1>12, NoText DEF Begun
<1>14. KbInv' /\ did' = what /\ Seen = t.sent \o PreeditString(t)
  BY <1>1, <1>2, <1>10, <1>12, EndsFacts
<1>15. CallKeepsText
  BY <1>1, <1>13, <1>14 DEF CallKeepsText
<1> QED BY <1>14, <1>15

\* A word that was offered.
LEMMA SelectFacts ==
  ASSUME KbInv, NEW s, Begun(s), NEW i \in DOMAIN kb.list.words, NEW words \in Seq(OfferedWords)
  PROVE  LET t == Select(s, i, words)
         IN  /\ Fits(t)
             /\ kb.list.kind = kb.mode =>
                  t.sent \o PreeditString(t) =
                    (IF kb.mode = "Hint" THEN <<>> ELSE kb.buffer) \o kb.list.words[i]
<1> DEFINE t == Select(s, i, words)
           word == kb.list.words[i]
           hint == [s EXCEPT !.mode = "Hint", !.list = NoList]
<1>1. /\ word \in Texts /\ kb.buffer \in Texts
      /\ kb.mode = "LongPress" => kb.composing = <<>>
      /\ kb.list.kind = "Hint" => kb.mode = "Hint"
  BY InvFacts DEF OfferedWords
<1>2. /\ Fits(s) /\ s \in States /\ s.list = kb.list /\ s.mode = kb.mode /\ s.buffer = kb.buffer
      /\ s.composing = kb.composing /\ s.sent = <<>> /\ s.mode \in {"Hint", "LongPress"}
  BY DEF Begun, Fits, States
<1>3. <<>> \o word = word /\ word \o <<>> = word /\ <<>> \o kb.buffer = kb.buffer
  BY <1>1, NoText
<1>4. t = IF s.list.kind = "Hint" THEN ResetState(CommitText(ResetPanel(s), word), TRUE)
          ELSE IF HintEnabled(hint) THEN UpdateBuffer(hint, word, words)
          ELSE CommitText(SetPreedit(ResetPanel(CommitBuffer(hint))), word)
  BY <1>2 DEF Select
<1> HIDE DEF t, word
<1>5. CASE s.list.kind = "Hint"
  <2> DEFINE p == ResetPanel(s)
             u == CommitText(p, word)
             v == ResetState(u, TRUE)
  <2>1. t = v
    BY <1>4, <1>5
  <2>2. Fits(p) /\ p.sent = <<>>
    BY <1>1, <1>2, <1>5, ResetPanelFacts
  <2> HIDE DEF p
  <2>3. Fits(u) /\ u.sent = p.sent \o word
    BY <1>1, <2>2, CommitTextFacts
  <2> HIDE DEF u
  <2>4. Sound(u)
    BY <2>3 DEF Fits, Sound
  <2>5. Fits(v) /\ v.sent = u.sent /\ v.composing = <<>> /\ PreeditString(v) = v.composing
    BY <2>4, ResetStateFacts
  <2> HIDE DEF v
  <2>6. v.sent \o PreeditString(v) = word /\ <<>> \o word = word
    BY <1>3, <2>2, <2>3, <2>5
  <2> QED BY <1>1, <1>2, <1>5, <2>1, <2>5, <2>6 DEF t, word
<1>6. CASE s.list.kind # "Hint"
  <2>1. hint \in States
    <3>1. NoList \in Lists
      BY DEF NoList, Lists
    <3> HIDE DEF NoList
    <3> QED BY <1>2, <3>1 DEF States
  <2>2. /\ hint.mode = "Hint" /\ hint.list = NoList /\ hint.buffer = kb.buffer
        /\ hint.composing = kb.composing /\ hint.fed = s.fed /\ hint.sent = <<>>
    BY <1>2 DEF States
  <2>3. NoList.cursor = 0 /\ NoList.words = <<>> /\ NoList.kind = "None"
    BY DEF NoList
  <2> HIDE DEF hint, NoList
  <2>4. Fits(hint) /\ ~Chosen(hint)
    BY <1>2, <2>1, <2>2, <2>3 DEF Fits, Chosen
  <2>5. CurrentSelection(hint) = kb.buffer
    BY <2>2, <2>4, SelectionFacts
  <2>6. /\ Fits(t) /\ t.mode = "Hint" /\ t.composing = kb.composing
        /\ t.sent \o CurrentSelection(t) = kb.buffer \o word
    <3>1. CASE HintEnabled(hint)
      <4> DEFINE u == UpdateBuffer(hint, word, words)
      <4>1. t = u
        BY <1>4, <1>6, <3>1
      <4>2. /\ Fits(u) /\ Plain(u) /\ u.composing = hint.composing
            /\ (HasRoom(hint, Len(word)) =>
                  u.sent \o CurrentSelection(u) = (hint.sent \o CurrentSelection(hint)) \o word)
        BY <1>1, <2>2, <2>4, UpdateBufferFacts
      <4> HIDE DEF u
      <4>3. HasRoom(hint, Len(word))
        BY <2>4 DEF HasRoom
      <4> QED BY <1>3, <2>2, <2>5, <4>1, <4>2, <4>3 DEF Plain
    <3>2. CASE ~HintEnabled(hint)
      <4> DEFINE c == CommitBuffer(hint)
                 p == ResetPanel(c)
                 q == SetPreedit(p)
                 u == CommitText(q, word)
      <4>1. t = u
        BY <1>4, <1>6, <3>2
      <4>2. /\ Fits(c) /\ Plain(c) /\ c.buffer = <<>>
            /\ c.sent = hint.sent \o CurrentSelection(hint) /\ c.composing = hint.composing
        BY <2>4, CommitBufferFacts
      <4> HIDE DEF c
      <4>3. /\ Fits(p) /\ Plain(p) /\ p.buffer = c.buffer /\ p.sent = c.sent
            /\ p.composing = c.composing
        BY <4>2, ResetPanelFacts DEF Plain
      <4> HIDE DEF p
      <4>4. /\ Fits(q) /\ q.sent = p.sent /\ q.buffer = p.buffer /\ q.mode = p.mode
            /\ q.list = p.list /\ q.composing = p.composing
        BY <4>3, SetPreeditFacts
      <4> HIDE DEF q
      <4>5. q.mode = "Hint" /\ ~Chosen(q)
        BY <4>3, <4>4 DEF Plain, Chosen
      <4>6. CurrentSelection(q) = <<>>
        BY <4>2, <4>3, <4>4, <4>5, SelectionFacts
      <4>7. /\ Fits(u) /\ u.sent = q.sent \o word /\ CurrentSelection(u) = CurrentSelection(q)
            /\ u.mode = q.mode /\ u.composing = q.composing
        BY <1>1, <4>4, CommitTextFacts
      <4> HIDE DEF u
      <4>8. u.sent \o CurrentSelection(u) = u.sent
        BY <4>6, <4>7, NoText DEF Fits, States
      <4> QED BY <1>3, <2>2, <2>5, <4>1, <4>2, <4>3, <4>4, <4>5, <4>7, <4>8
    <3> QED BY <3>1, <3>2
  <2>7. ASSUME kb.list.kind = kb.mode
        PROVE  t.sent \o PreeditString(t) = kb.buffer \o word /\ kb.mode # "Hint"
    <3>1. kb.mode = "LongPress" /\ kb.composing = <<>>
      BY <1>1, <1>2, <1>6, <2>7
    <3>2. PreeditString(t) = CurrentSelection(t)
      BY <2>6, <3>1, SelectionFacts, NoText
    <3> QED BY <2>6, <3>1, <3>2
  <2> QED BY <2>6, <2>7 DEF t, word
<1> QED BY <1>5, <1>6

LEMMA SelectKeeps ==
  ASSUME KbInv, NEW i \in 1..2, SelectKey(i) \/ Click(i)
  PROVE  KbInv' /\ CallKeepsText
<1>1. i \in DOMAIN kb.list.words /\ NoKey \notin DOMAIN Relatives /\ predict \in BOOLEAN
  BY InvFacts DEF SelectKey, Click
<1>2. Begun(Pressed) /\ Begun(Start)
  BY InvFacts, PressedFacts, StartFacts
<1>3. \E s, words : /\ Begun(s) /\ words \in Seq(OfferedWords)
                    /\ \/ KeyEnds(<<"Select", i>>, Select(s, i, words), NoKey)
                       \/ Ends(<<"Click", i>>, Select(s, i, words), NoKey)
  BY <1>2, WordsAssumption DEF SelectKey, Click
<1>4. PICK s, words : /\ Begun(s) /\ words \in Seq(OfferedWords)
                      /\ \/ KeyEnds(<<"Select", i>>, Select(s, i, words), NoKey)
                         \/ Ends(<<"Click", i>>, Select(s, i, words), NoKey)
  BY <1>3
<1> DEFINE t == Select(s, i, words)
           text == (IF kb.mode = "Hint" THEN <<>> ELSE kb.buffer) \o kb.list.words[i]
<1>5. Fits(t) /\ (kb.list.kind = kb.mode => t.sent \o PreeditString(t) = text)
  BY <1>1, <1>4, SelectFacts
<1>6. KeyEnds(<<"Select", i>>, t, NoKey) \/ Ends(<<"Click", i>>, t, NoKey)
  BY <1>4
<1> HIDE DEF t
<1> DEFINE select == <<"Select", i>>
           click == <<"Click", i>>
<1>7. select[1] = "Select" /\ select[2] = i /\ click[1] = "Click" /\ click[2] = i
  OBVIOUS
<1> HIDE DEF select, click
<1>8. CASE KeyEnds(select, t, NoKey)
  <2>1. KbInv' /\ did' = select /\ Seen = t.sent \o PreeditString(t)
    BY <1>1, <1>5, <1>7, <1>8, KeyEndsFacts
  <2>2. CallKeepsText
    BY <1>5, <1>7, <2>1 DEF CallKeepsText
  <2> QED BY <2>1, <2>2
<1>9. CASE Ends(click, t, NoKey)
  <2>1. KbInv' /\ did' = click /\ Seen = t.sent \o PreeditString(t)
    BY <1>1, <1>5, <1>7, <1>9, EndsFacts
  <2>2. CallKeepsText
    BY <1>5, <1>7, <2>1 DEF CallKeepsText
  <2> QED BY <2>1, <2>2
<1> QED BY <1>6, <1>8, <1>9 DEF select, click

\* The dead key that waits is the only one.
LEMMA ComposeBackspaceIs ==
  ASSUME NEW s, OneDead(s.composing)
  PROVE  ComposeBackspace(s) = ResetCompose(s)
<1> DEFINE n == Len(s.composing) - 1
           Steps(h) == [k \in 0..n |-> IF k = 0 THEN ResetCompose(s)
                                       ELSE Type(h[k - 1], s.composing[k]).s]
           f == CHOOSE h : h = Steps(h)
           g == [k \in 0..n |-> ResetCompose(s)]
<1>1. n = 0
  BY DEF OneDead
<1>2. ComposeBackspace(s) = f[n]
  BY DEF ComposeBackspace
<1>3. g = Steps(g)
  <2>1. ASSUME NEW k \in 0..n
        PROVE  g[k] = Steps(g)[k]
    <3>1. k = 0
      <4> HIDE DEF n
      <4> QED BY <1>1
    <3> QED BY <3>1
  <2>2. DOMAIN g = 0..n /\ DOMAIN Steps(g) = 0..n
    OBVIOUS
  <2>3. g = [k \in 0..n |-> g[k]] /\ Steps(g) = [k \in 0..n |-> Steps(g)[k]]
    OBVIOUS
  <2> HIDE DEF g, Steps
  <2> QED BY <2>1, <2>2, <2>3
<1>4. f = Steps(f)
  <2> HIDE DEF Steps, g
  <2> QED BY <1>3
<1> HIDE DEF f
<1>5. f[0] = Steps(f)[0]
  <2> HIDE DEF Steps
  <2> QED BY <1>4
<1>6. Steps(f)[0] = ResetCompose(s)
  <2>1. 0 \in 0..n
    <3> HIDE DEF n
    <3> QED BY <1>1
  <2> QED BY <2>1
<1> HIDE DEF Steps, n
<1> QED BY <1>1, <1>2, <1>5, <1>6

LEMMA FrontAdded ==
  ASSUME NEW S, NEW a \in Seq(S), NEW c \in S
  PROVE  Front(a \o <<c>>) = a
<1> DEFINE b == a \o <<c>>
           n == Len(a)
<1>1. b \in Seq(S) /\ Len(b) = n + 1 /\ n \in Nat /\ \A i \in 1..n : b[i] = a[i]
  <2>1. <<c>> \in Seq(S) /\ Len(<<c>>) = 1
    OBVIOUS
  <2> QED BY <2>1, ConcatProperties
<1> HIDE DEF b
<1>2. Front(b) = SubSeq(b, 1, n)
  BY <1>1 DEF Front
<1>3. SubSeq(b, 1, n) \in Seq(S) /\ Len(SubSeq(b, 1, n)) = n
      /\ \A i \in 1..n : SubSeq(b, 1, n)[i] = b[i]
  BY <1>1
<1> DEFINE front == SubSeq(b, 1, n)
<1>4. front \in Seq(S) /\ Len(front) = n /\ \A i \in 1..n : front[i] = a[i]
  BY <1>1, <1>3
<1> HIDE DEF front
<1>5. front = a
  BY <1>4, SeqEqual
<1> QED BY <1>2, <1>5 DEF front, b

LEMMA FrontText ==
  ASSUME NEW a \in Texts, a # <<>>
  PROVE  /\ Front(a) \in Texts /\ Len(Front(a)) = Len(a) - 1
         /\ (Len(a) = 1 <=> Front(a) = <<>>)
<1>1. a \in Seq(Characters) /\ Len(a) \in Nat /\ Len(a) > 0
  BY DEF Texts
<1>2. Front(a) \in Seq(Characters) /\ Len(Front(a)) = Len(a) - 1
  <2> DEFINE n == Len(a) - 1
  <2>1. n \in Nat /\ 1 \in Int /\ \A i \in 1..n : a[i] \in Characters
    BY <1>1
  <2> HIDE DEF n
  <2>2. /\ SubSeq(a, 1, n) \in Seq(Characters)
        /\ Len(SubSeq(a, 1, n)) = IF 1 <= n THEN n - 1 + 1 ELSE 0
    BY <2>1, SubSeqProperties
  <2>3. Len(SubSeq(a, 1, n)) = n
    BY <2>1, <2>2
  <2> QED BY <2>2, <2>3 DEF Front, n
<1>3. Len(a) = 1 <=> Front(a) = <<>>
  <2>1. Front(a) = <<>> <=> Len(Front(a)) = 0
    <3> DEFINE b == Front(a)
    <3>1. b \in Seq(Characters)
      BY <1>2
    <3> HIDE DEF b
    <3>2. b = <<>> <=> Len(b) = 0
      BY <3>1, EmptySeq
    <3> QED BY <3>2 DEF b
  <2> QED BY <1>1, <1>2, <2>1
<1> QED BY <1>2, <1>3 DEF Texts

LEMMA BackspacedFacts ==
  ASSUME KbInv, NEW s, Begun(s), NEW words \in Seq(OfferedWords)
  PROVE  LET t == Backspaced(s, words)
             seen == t.sent \o PreeditString(t)
         IN  /\ Fits(t)
             /\ IF kb.mode = "LongPress" THEN kb.buffer = <<>> => seen = <<>>
                ELSE IF kb.composing # <<>> THEN seen = Front(Was)
                ELSE IF kb.buffer # <<>> THEN seen = Front(kb.buffer)
                ELSE seen = <<>> /\ t.removed = 1
<1> DEFINE t == Backspaced(s, words)
           seen == t.sent \o PreeditString(t)
           hint == [ResetPanel(s) EXCEPT !.orig = <<>>, !.mode = "Hint"]
           less == [s EXCEPT !.buffer = Front(s.buffer)]
<1>1. /\ Fits(s) /\ s \in States /\ s.list = kb.list /\ s.mode = kb.mode /\ s.buffer = kb.buffer
      /\ s.composing = kb.composing /\ s.sent = <<>> /\ s.mode \in {"Hint", "LongPress"}
      /\ s.buffer \in Texts /\ CurrentSelection(s) = CurrentSelection(kb)
  BY DEF Begun, Fits, States
<1>2. t = IF s.mode = "LongPress"
          THEN IF HintEnabled(hint) THEN UpdateBuffer(hint, s.buffer, words)
               ELSE CommitText(CommitBuffer(hint), s.buffer)
          ELSE IF s.composing # <<>> THEN ComposeBackspace(s)
          ELSE IF s.buffer = <<>> THEN [s EXCEPT !.removed = 1]
          ELSE IF Len(s.buffer) = 1 THEN ResetState(less, TRUE)
          ELSE UpdateCandidate(less, words)
  BY DEF Backspaced
<1>3. <<>> \in Texts /\ <<>> \o <<>> = <<>>
  BY DEF Texts
<1> HIDE DEF t
<1>4. CASE s.mode = "LongPress"
  <2>1. s.composing = <<>> /\ s.fed = <<>>
    BY <1>1, <1>4 DEF Fits
  <2>2. NoList \in Lists /\ NoList.cursor = 0 /\ NoList.words = <<>> /\ NoList.kind = "None"
    BY DEF NoList, Lists
  <2>3. hint = [[s EXCEPT !.list = NoList, !.shown = <<>>] EXCEPT !.orig = <<>>, !.mode = "Hint"]
    BY DEF ResetPanel
  <2> HIDE DEF NoList, hint
  <2>4. hint \in States
    BY <1>1, <1>3, <2>2, <2>3 DEF States
  <2>5. /\ hint.mode = "Hint" /\ hint.list = NoList /\ hint.buffer = s.buffer
        /\ hint.composing = s.composing /\ hint.fed = s.fed /\ hint.sent = s.sent
    BY <1>1, <2>3 DEF States
  <2>6. Fits(hint) /\ ~Chosen(hint)
    BY <2>1, <2>2, <2>4, <2>5 DEF Fits, Chosen
  <2>7. CurrentSelection(hint) = s.buffer
    BY <2>5, <2>6, SelectionFacts
  <2>8. /\ Fits(t) /\ t.mode = "Hint" /\ t.composing = <<>>
        /\ t.sent \o CurrentSelection(t) = (<<>> \o s.buffer) \o s.buffer
    <3>1. CASE HintEnabled(hint)
      <4> DEFINE text == s.buffer
                 u == UpdateBuffer(hint, text, words)
      <4>1. t = u
        BY <1>2, <1>4, <3>1
      <4>2. text \in Texts
        BY <1>1
      <4> HIDE DEF text
      <4>3. /\ Fits(u) /\ Plain(u) /\ u.composing = hint.composing
            /\ (HasRoom(hint, Len(text)) =>
                  u.sent \o CurrentSelection(u) = (hint.sent \o CurrentSelection(hint)) \o text)
        BY <2>5, <2>6, <4>2, UpdateBufferFacts
      <4> HIDE DEF u
      <4>4. HasRoom(hint, Len(text))
        BY <2>6 DEF HasRoom
      <4>5. hint.sent \o CurrentSelection(hint) = <<>> \o s.buffer
        BY <1>1, <2>5, <2>7
      <4> QED BY <2>1, <2>5, <4>1, <4>3, <4>4, <4>5 DEF Plain, text
    <3>2. CASE ~HintEnabled(hint)
      <4> DEFINE c == CommitBuffer(hint)
                 u == CommitText(c, s.buffer)
      <4>1. t = u
        BY <1>2, <1>4, <3>2
      <4>2. /\ Fits(c) /\ Plain(c) /\ CurrentSelection(c) = <<>>
            /\ c.sent = hint.sent \o CurrentSelection(hint) /\ c.composing = hint.composing
        BY <2>6, CommitBufferFacts
      <4> HIDE DEF c
      <4>3. /\ Fits(u) /\ u.sent = c.sent \o s.buffer /\ CurrentSelection(u) = CurrentSelection(c)
            /\ u.mode = c.mode /\ u.composing = c.composing
        BY <1>1, <4>2, CommitTextFacts
      <4> HIDE DEF u
      <4>4. u.sent \o CurrentSelection(u) = u.sent
        BY <4>2, <4>3, NoText DEF Fits, States
      <4>5. c.sent = <<>> \o s.buffer
        BY <1>1, <2>5, <2>7, <4>2
      <4> QED BY <2>1, <2>5, <4>1, <4>2, <4>3, <4>4, <4>5 DEF Plain
    <3> QED BY <3>1, <3>2
  <2>9. PreeditString(t) = CurrentSelection(t)
    BY <2>8, SelectionFacts, NoText
  <2>10. kb.buffer = <<>> => seen = <<>>
    BY <1>1, <1>3, <2>8, <2>9
  <2> QED BY <1>1, <1>4, <2>8, <2>10 DEF t
<1>5. CASE s.mode = "Hint" /\ s.composing # <<>>
  <2> DEFINE u == Waits(s, <<>>)
             d == s.composing[1]
             selected == CurrentSelection(s)
  <2>1. OneDead(s.composing) /\ s.composing \in Seq(Syms) /\ <<>> \in Seq(Syms)
    BY <1>1, <1>5 DEF Fits, States
  <2>2. t = u
    BY <1>2, <1>5, <2>1, ComposeBackspaceIs, ResetComposeWaits
  <2>3. /\ Fits(u) /\ u.composing = <<>> /\ u.sent = s.sent /\ u.mode = s.mode
        /\ CurrentSelection(u) = selected
    BY <1>1, <2>1, WaitsFacts
  <2>4. selected \in Texts /\ d \in Characters /\ s.composing = <<d>>
    <3>1. d \in Syms /\ s.composing = <<d>>
      BY <2>1 DEF OneDead
    <3> QED BY <1>1, <3>1, SelectionFacts, LettersAssumption
  <2> HIDE DEF u, d, selected
  <2>5. seen = selected
    <3>1. PreeditString(u) = selected
      BY <1>5, <2>3, <2>4, SelectionFacts, NoText
    <3> QED BY <1>1, <2>2, <2>3, <2>4, <3>1, NoText
  <2>6. Was = selected \o <<d>>
    BY <1>1, <1>5, <2>4, SelectionFacts DEF Begun, selected
  <2>7. Front(selected \o <<d>>) = selected
    BY <2>4, FrontAdded DEF Texts
  <2> QED BY <1>1, <1>5, <2>2, <2>3, <2>5, <2>6, <2>7 DEF t
<1>6. CASE s.mode = "Hint" /\ s.composing = <<>> /\ s.buffer = <<>>
  <2>1. t = [s EXCEPT !.removed = 1]
    BY <1>2, <1>6
  <2>2. t \in States
    BY <1>1, <2>1 DEF States
  <2>3. /\ t.buffer = s.buffer /\ t.mode = s.mode /\ t.orig = s.orig /\ t.list = s.list
        /\ t.composing = s.composing /\ t.fed = s.fed /\ t.sent = s.sent /\ t.removed = 1
    BY <1>1, <2>1 DEF States
  <2>4. t.fed = s.composing \/ t.fed = <<>>
    BY <1>1, <2>3 DEF Fits
  <2>5. Fits(t)
    BY <1>1, <2>2, <2>3, <2>4, SameFacts
  <2>6. ~Chosen(t)
    <3>1. t.list.kind = "Hint" => t.list.words = <<>>
      BY <1>6, <2>3, <2>5 DEF Fits
    <3>2. t.list.cursor <= Len(t.list.words) /\ t.list.cursor \in Nat
      BY <2>5 DEF Fits, States, Lists
    <3>3. Len(<<>>) = 0
      OBVIOUS
    <3> QED BY <1>6, <2>3, <3>1, <3>2, <3>3 DEF Chosen
  <2>7. PreeditString(t) = <<>>
    BY <1>3, <1>6, <2>3, <2>5, <2>6, SelectionFacts
  <2>8. seen = <<>>
    BY <1>1, <1>3, <2>3, <2>7
  <2> QED BY <1>1, <1>6, <2>3, <2>5, <2>8 DEF t
<1>7. CASE s.mode = "Hint" /\ s.composing = <<>> /\ s.buffer # <<>>
  <2>1. /\ Front(s.buffer) \in Texts /\ (Len(s.buffer) = 1 <=> Front(s.buffer) = <<>>)
    BY <1>1, <1>7, FrontText
  <2>2. less \in States
    BY <1>1, <2>1 DEF States
  <2>3. /\ less.buffer = Front(s.buffer) /\ less.mode = s.mode /\ less.orig = s.orig
        /\ less.list = s.list /\ less.composing = s.composing /\ less.fed = s.fed
        /\ less.sent = s.sent
    BY <1>1 DEF States
  <2> HIDE DEF less
  <2>4. CASE Len(s.buffer) = 1
    <3>1. t = ResetState(less, TRUE)
      BY <1>2, <1>7, <2>4
    <3>2. Sound(less)
      BY <1>1, <2>2, <2>3 DEF Sound, Fits
    <3>3. Fits(t) /\ t.sent = less.sent /\ t.composing = <<>> /\ PreeditString(t) = t.composing
      BY <3>1, <3>2, ResetStateFacts
    <3>4. seen = Front(kb.buffer)
      BY <1>1, <1>3, <2>1, <2>3, <2>4, <3>3
    <3> QED BY <1>1, <1>7, <3>3, <3>4 DEF t
  <2>5. CASE Len(s.buffer) # 1
    <3>1. t = UpdateCandidate(less, words)
      BY <1>2, <1>7, <2>5
    <3>2. Fits(less)
      BY <1>1, <2>1, <2>2, <2>3, <2>5 DEF Fits
    <3>3. /\ Fits(t) /\ Plain(t) /\ CurrentSelection(t) = less.buffer
          /\ t.sent = less.sent /\ t.composing = less.composing
      BY <1>7, <2>3, <3>1, <3>2, UpdateCandidateFacts
    <3>4. PreeditString(t) = Front(s.buffer)
      <4>1. PreeditString(t) = CurrentSelection(t) \o t.composing
        BY <3>3, SelectionFacts DEF Plain
      <4>2. CurrentSelection(t) = Front(s.buffer) /\ t.composing = <<>>
        BY <1>7, <2>3, <3>3
      <4> QED BY <2>1, <4>1, <4>2, NoText
    <3>5. seen = Front(kb.buffer)
      BY <1>1, <2>1, <2>3, <3>3, <3>4, NoText
    <3> QED BY <1>1, <1>7, <3>3, <3>5 DEF t
  <2> QED BY <2>4, <2>5
<1> QED BY <1>1, <1>4, <1>5, <1>6, <1>7

LEMMA BackSpaceKeeps ==
  ASSUME KbInv, BackSpace
  PROVE  KbInv' /\ CallKeepsText
<1> DEFINE what == <<"BackSpace">>
           s == Pressed
<1>1. what[1] = "BackSpace"
  OBVIOUS
<1>2. Begun(s) /\ NoKey \notin DOMAIN Relatives /\ predict \in BOOLEAN
  BY InvFacts, PressedFacts
<1>3. PICK words \in Offers : KeyEnds(what, Backspaced(s, words), NoKey)
  BY DEF BackSpace
<1>4. words \in Seq(OfferedWords)
  BY WordsAssumption
<1> DEFINE t == Backspaced(s, words)
           seen == t.sent \o PreeditString(t)
<1> HIDE DEF s, what
<1>5. /\ Fits(t)
      /\ IF kb.mode = "LongPress" THEN kb.buffer = <<>> => seen = <<>>
         ELSE IF kb.composing # <<>> THEN seen = Front(Was)
         ELSE IF kb.buffer # <<>> THEN seen = Front(kb.buffer)
         ELSE seen = <<>> /\ t.removed = 1
  BY <1>2, <1>4, BackspacedFacts
<1>6. KeyEnds(what, t, NoKey)
  BY <1>3
<1> HIDE DEF t
<1>7. KbInv' /\ did' = what /\ Seen = t.sent \o PreeditString(t) /\ kb'.removed = t.removed
  BY <1>1, <1>2, <1>5, <1>6, KeyEndsFacts
<1>8. CallKeepsText
  BY <1>1, <1>5, <1>7 DEF CallKeepsText
<1> QED BY <1>7, <1>8

LEMMA KbStarts ==
  KbInit => KbInv
<1> SUFFICES ASSUME KbInit
             PROVE  KbInv
  OBVIOUS
<1>1. PICK byDefault \in BOOLEAN : kb = [Fresh EXCEPT !.wordHint = byDefault]
  BY DEF KbInit
<1>2. NoList \in Lists /\ NoList.cursor = 0 /\ NoList.words = <<>> /\ NoList.kind = "None"
  BY DEF NoList, Lists
<1>3. <<>> \in Texts /\ <<>> \in Seq(Syms) /\ <<>> \o <<>> = <<>> /\ Len(<<>>) = 0
  BY DEF Texts
<1> HIDE DEF NoList
<1>4. /\ kb \in States /\ kb.composing = <<>> /\ kb.fed = <<>> /\ kb.list = NoList
      /\ kb.mode = "Hint" /\ kb.buffer = <<>> /\ kb.shown = <<>>
  BY <1>1, <1>2, <1>3 DEF Fresh, States
<1>5. Fits(kb) /\ ~Chosen(kb)
  BY <1>2, <1>3, <1>4 DEF Fits, Chosen
<1>6. PreeditString(kb) = <<>>
  BY <1>3, <1>4, <1>5, SelectionFacts
<1>7. did[1] = "none"
  BY DEF KbInit
<1> QED BY <1>4, <1>5, <1>6, <1>7 DEF KbInit, KbInv

LEMMA KbStep ==
  ASSUME PairsOnly, KbInv, KbNext
  PROVE  KbInv' /\ CallKeepsText
<1>1. ASSUME NEW sym \in Syms, TypeKey(sym)
      PROVE  KbInv' /\ CallKeepsText
  BY <1>1, TypeKeyKeeps
<1>2. CASE Repeat
  BY <1>2, RepeatKeeps
<1>3. CASE HintTrigger \/ OneTimeHintTrigger
  BY <1>3, TriggerKeeps
<1>4. ASSUME NEW i \in 1..2, SelectKey(i) \/ Click(i)
      PROVE  KbInv' /\ CallKeepsText
  BY <1>4, SelectKeeps
<1>5. ASSUME NEW step \in {-1, 1}, MoveChoice(step)
      PROVE  KbInv' /\ CallKeepsText
  BY <1>5, MoveKeeps
<1>6. CASE BackSpace
  BY <1>6, BackSpaceKeeps
<1>7. CASE InvokeAction
  BY <1>7, InvokeKeeps
<1>8. CASE KbReset
  BY <1>8, KbResetKeeps
<1>9. CASE Unfocus
  BY <1>9, UnfocusKeeps
<1>10. CASE SwitchAway
  BY <1>10, SwitchKeeps
<1> QED BY <1>1, <1>2, <1>3, <1>4, <1>5, <1>6, <1>7, <1>8, <1>9, <1>10 DEF KbNext

LEMMA KbStutter ==
  ASSUME KbInv, UNCHANGED kbVars
  PROVE  KbInv'
BY DEF KbInv, kbVars, Fits, Sound, Plain, Chosen, PreeditString, CurrentSelection

\* Between two calls the preedit of the panel, the mode, the list of candidates and the
\* dead keys agree (KeyboardEngineState and ComposeState), with pairs of keys to compose.
THEOREM KeyboardInvariant ==
  ASSUME PairsOnly
  PROVE  KbSpec => []KbInv
<1>1. KbInit => KbInv
  BY KbStarts
<1>2. KbInv /\ [KbNext]_kbVars => KbInv'
  BY KbStep, KbStutter
<1> QED BY <1>1, <1>2, PTL DEF KbSpec

\* No call of KeyboardEngine loses, doubles or moves a character of the text that the
\* user sees, for any letters, words that are offered and size of the buffer, and any
\* compose table of pairs.
THEOREM TypedTextKeptAlways ==
  ASSUME PairsOnly
  PROVE  KbSpec => TypedTextKept
<1>1. KbInv /\ [KbNext]_kbVars => [CallKeepsText]_kbVars
  BY KbStep
<1> QED BY <1>1, KeyboardInvariant, PTL DEF KbSpec, TypedTextKept
=============================================================================
