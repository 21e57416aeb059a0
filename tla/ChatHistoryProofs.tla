-------------------------- MODULE ChatHistoryProofs --------------------------
(***************************************************************************)
(* What holds of the cached list and of every history, for any number of   *)
(* viewers and messages and any limit, whatever calls fail and however the *)
(* goroutines of saves, updates, fills and edits interleave.               *)
(***************************************************************************)
EXTENDS ChatHistory, SequenceTheorems, TLAPS

\* The entries of s are of messages that were taken, with no text that the
\* table does not have.
Known(s) ==
  \A i \in 1..Len(s) : /\ s[i].msg \in taken
                       /\ s[i].rev > 0 => s[i].rev <= row[s[i].msg]

\* A list that may be cached or sent.
Good(s) == s \in Seq(Entry) /\ Len(s) <= Limit /\ Known(s)

ControlOK ==
  /\ taken \subseteq Msgs
  /\ row \in [Msgs -> NoRow..MaxRev]
  /\ saver \in [Msgs -> {"off", "create", "done"}]
  /\ updater \in [Msgs -> {"off", "get", "set", "done"}]
  /\ edit \in 0..MaxMsgs
  /\ viewer \in [Viewers -> {"idle", "miss", "fill", "sort"}]
  /\ list = [n \in Msgs |-> list[n]]
  /\ history = [v \in Viewers |-> history[v]]
  /\ loaded = [v \in Viewers |-> loaded[v]]
  /\ at \in [Viewers -> Nat \ {0}] /\ against \in [Viewers -> Nat]

\* A row is made once, of a message that was taken: no later save puts the
\* first text back in place of an edited one.
RowsOfTaken ==
  \A n \in Msgs :
    /\ n \notin taken => saver[n] = "off" /\ updater[n] = "off"
    /\ saver[n] # "done" => row[n] = NoRow
    /\ saver[n] = "create" => n \in taken

\* Whatever is read, kept and written back is such a list.
ListsGood ==
  /\ Good(cache)
  /\ \A n \in Msgs : Good(list[n])
  /\ \A v \in Viewers : Good(history[v]) /\ Good(loaded[v])

\* Of a list that is sorted, with the outer loop at i and the inner one at j:
\* positions before i hold their message for good, and i holds the earliest
\* of those the inner loop has passed.
Settled(s, i, j) ==
  /\ \A a, b \in 1..Len(s) : a < i /\ a < b => s[a].msg <= s[b].msg
  /\ \A b \in 1..Len(s) : i < b /\ b < j => s[i].msg <= s[b].msg

\* Before the sort the two are at its start; the inner one stays behind the
\* outer one.
LoopsOK(v) ==
  /\ viewer[v] # "sort" => at[v] = 1 /\ against[v] = 2
  /\ at[v] < Len(history[v]) =>
       at[v] < against[v] /\ against[v] <= Len(history[v]) + 1

\* What is sorted stays a rearrangement of what was loaded.
SortOK(v) ==
  /\ LoopsOK(v)
  /\ Settled(history[v], at[v], against[v])
  /\ history[v] \in Rearranged(loaded[v])

SortsOK == \A v \in Viewers : SortOK(v)

HistoryInv == ControlOK /\ RowsOfTaken /\ ListsGood /\ SortsOK

-----------------------------------------------------------------------------
(* Lists.                                                                  *)

LEMMA EmptyGood == Good(<<>>)
<1>1. <<>> \in Seq(Entry) /\ Len(<<>>) = 0
  OBVIOUS
<1>2. \A i \in 1..0 : FALSE
  OBVIOUS
<1> QED
  BY <1>1, <1>2, HistoryAssumption, SMT DEF Good, Known

\* A function on 1..k is a sequence of that length.
LEMMA FunctionIsList ==
  ASSUME NEW S, NEW k \in Nat, NEW s \in [1..k -> S]
  PROVE  s \in Seq(S) /\ Len(s) = k
<1>1. s \in Seq(S)
  BY SeqDef, Zenon
<1>2. Len(s) \in Nat /\ s \in [1..Len(s) -> S]
  BY <1>1, LenProperties, Zenon
<1>3. 1..Len(s) = 1..k
  BY <1>2, Zenon
<1> QED
  BY <1>1, <1>2, <1>3, SMT

\* What the table answers is a list of its rows, each with its text.
LEMMA RecentGood ==
  ASSUME ControlOK, RowsOfTaken, NEW s \in Recent
  PROVE  Good(s)
<1> DEFINE Rows == {[msg |-> n, rev |-> row[n], id |-> TRUE] : n \in Saved}
<1>1. PICK k \in 0..Limit : s \in [1..k -> Rows]
  BY DEF Recent, Lists
<1>2. s \in Seq(Rows) /\ Len(s) = k /\ k \in Nat
  BY <1>1, FunctionIsList, HistoryAssumption
<1>3. ASSUME NEW i \in 1..k
      PROVE  /\ s[i] \in Entry /\ s[i].msg \in taken
             /\ s[i].rev = row[s[i].msg] /\ s[i].msg \in Msgs
  <2>1. PICK n \in Saved : s[i] = [msg |-> n, rev |-> row[n], id |-> TRUE]
    BY <1>1
  <2>2. n \in Msgs /\ row[n] # NoRow /\ row[n] \in NoRow..MaxRev
    BY DEF Saved, ControlOK
  <2>3. row[n] \in 0..MaxRev
    BY <2>2, HistoryAssumption DEF NoRow
  <2>4. n \in taken
    BY <2>2 DEF RowsOfTaken
  <2> QED
    BY <2>1, <2>2, <2>3, <2>4 DEF Entry
<1>4. s \in Seq(Entry)
  <2>1. s \in [1..k -> Entry]
    BY <1>1, <1>3
  <2> QED
    BY <2>1, <1>2, FunctionIsList
<1>5. Known(s)
  <2> SUFFICES ASSUME NEW i \in 1..k, s[i].rev > 0
               PROVE  s[i].rev <= row[s[i].msg]
    BY <1>2, <1>3 DEF Known
  <2>1. s[i].rev = row[s[i].msg] /\ row[s[i].msg] \in NoRow..MaxRev
    BY <1>3 DEF ControlOK
  <2> QED
    BY <2>1, HistoryAssumption DEF NoRow
<1> QED
  BY <1>1, <1>2, <1>4, <1>5 DEF Good

\* Sorting loses nothing and adds nothing.
LEMMA RearrangedGood ==
  ASSUME NEW s, Good(s), NEW t \in Rearranged(s)
  PROVE  Good(t) /\ Len(t) = Len(s)
<1>1. PICK p \in Bijection(1..Len(s), 1..Len(s)) :
        t = [k \in 1..Len(s) |-> s[p[k]]]
  BY DEF Rearranged
<1>2. p \in [1..Len(s) -> 1..Len(s)]
  BY DEF Bijection, Injection
<1>3. Len(s) \in Nat /\ \A i \in 1..Len(s) : s[i] \in Entry
  BY DEF Good
<1>4. t \in [1..Len(s) -> Entry]
  BY <1>1, <1>2, <1>3
<1>5. t \in Seq(Entry) /\ Len(t) = Len(s)
  BY <1>3, <1>4, FunctionIsList
<1>6. Known(t)
  <2>1. \A i \in 1..Len(t) : \E j \in 1..Len(s) : t[i] = s[j]
    BY <1>1, <1>2, <1>5
  <2> QED
    BY <2>1 DEF Good, Known
<1> QED
  BY <1>5, <1>6 DEF Good

\* updateCache adds a message that was taken and cuts the list to the limit.
LEMMA AppendedGood ==
  ASSUME ControlOK, NEW s, Good(s), NEW n \in taken
  PROVE  Good(Appended(s, n))
<1> DEFINE e == [msg |-> n, rev |-> 0, id |-> FALSE]
           a == Append(s, e)
           first == IF Len(a) > Limit THEN Len(a) - Limit + 1 ELSE 1
           t == SubSeq(a, first, Len(a))
<1>1. e \in Entry /\ s \in Seq(Entry)
  BY HistoryAssumption DEF Entry, ControlOK, Good
<1>2. /\ a \in Seq(Entry) /\ Len(a) = Len(s) + 1 /\ Len(a) \in Nat
      /\ \A i \in 1..Len(s) : a[i] = s[i]
      /\ a[Len(s) + 1] = e
  <2> HIDE DEF e
  <2> QED
    BY <1>1
<1>3. Known(a)
  <2> SUFFICES ASSUME NEW i \in 1..Len(a)
               PROVE  /\ a[i].msg \in taken
                      /\ a[i].rev > 0 => a[i].rev <= row[a[i].msg]
    BY DEF Known
  <2>1. CASE i \in 1..Len(s)
    <3>1. a[i] = s[i]
      BY <2>1, <1>2
    <3> QED
      BY <2>1, <3>1, Zenon DEF Good, Known
  <2>2. CASE i = Len(s) + 1
    BY <2>2, <1>2
  <2> QED
    BY <2>1, <2>2, <1>1, <1>2
<1> HIDE DEF a
<1>4. first \in Nat /\ first >= 1 /\ Len(a) - first + 1 <= Limit
      /\ first <= Len(a) + 1
  BY <1>2, HistoryAssumption
<1> HIDE DEF first
<1>5. /\ t \in Seq(Entry) /\ Len(t) = Len(a) - first + 1
      /\ \A i \in 1..Len(t) : t[i] = a[first + i - 1] /\ first + i - 1 \in 1..Len(a)
  BY <1>2, <1>4
<1>6. Known(t)
  BY <1>3, <1>5 DEF Known
<1>7. Appended(s, n) = t
  BY DEF Appended, Trim, t, first, a
<1> QED
  BY <1>4, <1>5, <1>6, <1>7 DEF Good

\* A list stays good while messages are taken and edits stored.
LEMMA StaysGood ==
  ASSUME NEW s, Good(s), ControlOK, taken \subseteq taken',
         \A m \in Msgs : row[m] > 0 => row'[m] >= row[m],
         row' \in [Msgs -> NoRow..MaxRev]
  PROVE  Good(s)'
<1> SUFFICES ASSUME NEW i \in 1..Len(s), s[i].rev > 0
             PROVE  s[i].rev <= row'[s[i].msg]
  BY DEF Good, Known
<1>0. s[i] \in Entry
  BY DEF Good
<1>1. s[i].msg \in Msgs /\ s[i].rev \in 0..MaxRev
  BY <1>0 DEF Entry
<1>2. s[i].rev <= row[s[i].msg]
  BY DEF Good, Known
<1>3. row[s[i].msg] \in Int /\ row'[s[i].msg] \in Int
  BY <1>1, HistoryAssumption DEF ControlOK, NoRow
<1> QED
  BY <1>1, <1>2, <1>3, HistoryAssumption

-----------------------------------------------------------------------------
(* Sorting.                                                                *)

LEMMA EntriesHaveRanks ==
  ASSUME NEW s \in Seq(Entry)
  PROVE  /\ Len(s) \in Nat /\ s = [k \in 1..Len(s) |-> s[k]]
         /\ \A k \in 1..Len(s) : s[k] \in Entry /\ s[k].msg \in Nat
<1>1. /\ Len(s) \in Nat /\ s = [k \in 1..Len(s) |-> s[k]]
      /\ \A k \in 1..Len(s) : s[k] \in Entry
  OBVIOUS
<1>2. \A e \in Entry : e.msg \in Nat
  BY DEF Entry, Msgs
<1> QED
  BY <1>1, <1>2

\* A list is a rearrangement of itself.
LEMMA AsLoaded ==
  ASSUME NEW s \in Seq(Entry)
  PROVE  s \in Rearranged(s)
<1> DEFINE D == 1..Len(s)
<1> DEFINE p == [k \in D |-> k]
<1>1. p \in Bijection(D, D)
  BY DEF Bijection, Injection, Surjection, IsInjective
<1>2. s = [k \in D |-> s[k]]
  BY EntriesHaveRanks
<1>3. [k \in D |-> s[k]] = [k \in D |-> s[p[k]]]
  OBVIOUS
<1> QED
  BY <1>1, <1>2, <1>3, Zenon DEF Rearranged

\* So is one in which two messages have changed places.
LEMMA Swapped ==
  ASSUME NEW s \in Seq(Entry), NEW t \in Rearranged(s),
         NEW a \in 1..Len(s), NEW b \in 1..Len(s)
  PROVE  Swap(t, a, b) \in Rearranged(s)
<1> DEFINE D == 1..Len(s)
<1>1. PICK p \in Bijection(D, D) : t = [k \in D |-> s[p[k]]]
  BY DEF Rearranged
<1>2. /\ p \in [D -> D]
      /\ \A i, j \in D : p[i] = p[j] => i = j
      /\ \A d \in D : \E k \in D : p[k] = d
  BY DEF Bijection, Injection, Surjection, IsInjective
<1> DEFINE to(k) == IF k = a THEN b ELSE IF k = b THEN a ELSE k
<1> DEFINE q == [k \in D |-> p[to(k)]]
<1>3. \A k \in D : to(k) \in D /\ to(to(k)) = k
  OBVIOUS
<1>4. q \in [D -> D] /\ \A k \in D : q[k] = p[to(k)]
  BY <1>2, <1>3
<1>5. \A i, j \in D : q[i] = q[j] => i = j
  <2> SUFFICES ASSUME NEW i \in D, NEW j \in D, q[i] = q[j] PROVE i = j
    OBVIOUS
  <2>1. to(i) \in D /\ to(j) \in D /\ p[to(i)] = p[to(j)]
    BY <1>3, <1>4
  <2>2. to(i) = to(j)
    BY <2>1, <1>2
  <2> QED
    BY <2>2, <1>3
<1>6. \A d \in D : \E k \in D : q[k] = d
  <2> TAKE d \in D
  <2>1. PICK k \in D : p[k] = d
    BY <1>2
  <2>2. to(k) \in D /\ q[to(k)] = d
    BY <2>1, <1>3, <1>4
  <2> QED
    BY <2>2
<1>7. q \in Bijection(D, D)
  BY <1>4, <1>5, <1>6 DEF Bijection, Injection, Surjection, IsInjective
<1>8. Swap(t, a, b) = [k \in D |-> s[q[k]]]
  BY <1>1, <1>3, <1>4 DEF Swap
<1> QED
  BY <1>7, <1>8 DEF Rearranged

\* Whichever way a comparison goes, the earlier message of the two then stands
\* at the outer loop's position, and all after it are still no earlier than
\* what is settled.
LEMMA CompareSettles ==
  ASSUME NEW s \in Seq(Entry), NEW i \in 1..Len(s), NEW j \in 1..Len(s), i < j,
         Settled(s, i, j), NEW t,
         t = IF s[i].msg > s[j].msg THEN Swap(s, i, j) ELSE s
  PROVE  t \in Seq(Entry) /\ Len(t) = Len(s) /\ Settled(t, i, j + 1)
<1> DEFINE n == Len(s)
<1> DEFINE w == Swap(s, i, j)
<1>1. /\ n \in Nat /\ s = [k \in 1..n |-> s[k]]
      /\ \A k \in 1..n : s[k] \in Entry /\ s[k].msg \in Nat
  BY EntriesHaveRanks
<1>2. w \in [1..n -> Entry]
  BY <1>1 DEF Swap
<1>3. w \in Seq(Entry) /\ Len(w) = n
  <2> HIDE DEF w, n
  <2> QED
    BY <1>1, <1>2, FunctionIsList
<1>4. t \in Seq(Entry) /\ Len(t) = n
  BY <1>3
<1>5. \A k \in 1..n : w[k] = IF k = j THEN s[i] ELSE IF k = i THEN s[j] ELSE s[k]
  BY <1>1 DEF Swap
<1> HIDE DEF w
<1>6. t = IF s[i].msg > s[j].msg THEN w ELSE s
  BY DEF w
<1>7. /\ \A a, b \in 1..n : a < i /\ a < b => s[a].msg <= s[b].msg
      /\ \A b \in 1..n : i < b /\ b < j => s[i].msg <= s[b].msg
  BY DEF Settled
<1>8. \A a, b \in 1..n : a < i /\ a < b => t[a].msg <= t[b].msg
  BY <1>1, <1>5, <1>6, <1>7
<1>9. ASSUME NEW b \in 1..n, i < b, b < j + 1 PROVE t[i].msg <= t[b].msg
  <2>1. CASE b = j
    BY <2>1, <1>1, <1>5, <1>6
  <2>2. CASE b < j
    <3>1. s[i].msg <= s[b].msg /\ w[i] = s[j] /\ w[b] = s[b]
      BY <2>2, <1>1, <1>5, <1>7, <1>9
    <3>2. s[i].msg \in Nat /\ s[j].msg \in Nat /\ s[b].msg \in Nat
      BY <1>1
    <3> QED
      BY <3>1, <3>2, <1>6
  <2> QED
    BY <2>1, <2>2, <1>1, <1>9
<1> QED
  BY <1>4, <1>8, <1>9 DEF Settled

\* At the end of the inner loop its position is settled too.
LEMMA AdvanceSettles ==
  ASSUME NEW s \in Seq(Entry), NEW i \in Nat \ {0}, NEW j \in Nat, j > Len(s),
         Settled(s, i, j)
  PROVE  Settled(s, i + 1, i + 2)
<1>1. Len(s) \in Nat
  OBVIOUS
<1>2. /\ \A a, b \in 1..Len(s) : a < i /\ a < b => s[a].msg <= s[b].msg
      /\ \A b \in 1..Len(s) : i < b /\ b < j => s[i].msg <= s[b].msg
  BY DEF Settled
<1>3. \A a, b \in 1..Len(s) : a < i + 1 /\ a < b => s[a].msg <= s[b].msg
  BY <1>1, <1>2
<1>4. \A b \in 1..Len(s) : ~(i + 1 < b /\ b < i + 2)
  OBVIOUS
<1> QED
  BY <1>3, <1>4 DEF Settled

\* A list that was just loaded is ready to be sorted.
LEMMA ReadyToSort ==
  ASSUME NEW s \in Seq(Entry)
  PROVE  Settled(s, 1, 2) /\ s \in Rearranged(s)
<1>1. Settled(s, 1, 2)
  <2>1. \A a \in 1..Len(s) : ~(a < 1)
    OBVIOUS
  <2>2. \A b \in 1..Len(s) : ~(1 < b /\ b < 2)
    OBVIOUS
  <2> QED
    BY <2>1, <2>2 DEF Settled
<1> QED
  BY <1>1, AsLoaded

-----------------------------------------------------------------------------
(* The invariant.                                                          *)

LEMMA InvInit == Init => HistoryInv
<1> SUFFICES ASSUME Init PROVE HistoryInv
  OBVIOUS
<1>1. ControlOK
  BY HistoryAssumption DEF Init, ControlOK, Msgs, NoRow
<1>2. RowsOfTaken
  BY HistoryAssumption DEF Init, RowsOfTaken
<1>3. ListsGood
  BY EmptyGood DEF Init, ListsGood
<1>4. SortsOK
  <2> SUFFICES ASSUME NEW v \in Viewers PROVE SortOK(v)
    BY DEF SortsOK
  <2>1. /\ history[v] = <<>> /\ loaded[v] = <<>>
        /\ at[v] = 1 /\ against[v] = 2
    BY DEF Init
  <2>2. <<>> \in Seq(Entry) /\ Len(<<>>) = 0
    OBVIOUS
  <2>3. LoopsOK(v)
    BY <2>1, <2>2 DEF LoopsOK
  <2>4. Settled(<<>>, 1, 2) /\ <<>> \in Rearranged(<<>>)
    BY <2>2, ReadyToSort
  <2> QED
    BY <2>1, <2>3, <2>4, Zenon DEF SortOK
<1> QED
  BY <1>1, <1>2, <1>3, <1>4 DEF HistoryInv

\* A goroutine that does not run.
LEMMA Elsewhere ==
  ASSUME NEW w \in Viewers, SortOK(w),
         viewer'[w] = viewer[w], history'[w] = history[w],
         loaded'[w] = loaded[w], at'[w] = at[w], against'[w] = against[w]
  PROVE  SortOK(w)'
  BY DEF SortOK, LoopsOK, Settled, Rearranged

\* The lists of a step that stores none: they only may be emptied.
LEMMA ListsKept ==
  ASSUME HistoryInv, ControlOK', taken \subseteq taken',
         \A m \in Msgs : row[m] > 0 => row'[m] >= row[m],
         cache' \in {cache, <<>>},
         \A n \in Msgs : list'[n] \in {list[n], <<>>},
         UNCHANGED historyVars
  PROVE  ListsGood' /\ SortsOK'
<1>1. ASSUME NEW s, s = <<>> \/ Good(s) PROVE Good(s)'
  <2>1. Good(s)
    BY <1>1, EmptyGood
  <2> QED
    BY <2>1, StaysGood DEF HistoryInv, ControlOK
<1>2. ListsGood'
  BY <1>1 DEF HistoryInv, ListsGood, historyVars
<1>3. SortsOK'
  BY Elsewhere DEF HistoryInv, SortsOK, historyVars
<1> QED
  BY <1>2, <1>3

\* A list that a goroutine has got hold of is still to be sorted.
LEMMA LoadStep ==
  ASSUME HistoryInv, NEW v \in Viewers, viewer[v] # "sort",
         NEW got, Good(got), NEW next \in {"miss", "fill", "sort"},
         Load(v, got, next)
  PROVE  /\ SortsOK'
         /\ \A w \in Viewers : Good(history'[w]) /\ Good(loaded'[w])
<1> USE DEF HistoryInv
<1>1. /\ history = [w \in Viewers |-> history[w]]
      /\ loaded = [w \in Viewers |-> loaded[w]]
      /\ viewer \in [Viewers -> {"idle", "miss", "fill", "sort"}]
  BY DEF ControlOK
<1>2. ASSUME NEW w \in Viewers, w # v
      PROVE  /\ history'[w] = history[w] /\ loaded'[w] = loaded[w]
             /\ viewer'[w] = viewer[w] /\ at'[w] = at[w]
             /\ against'[w] = against[w]
  BY <1>1, <1>2 DEF Load
<1>3. /\ history'[v] = got /\ loaded'[v] = got /\ viewer'[v] = next
      /\ at'[v] = 1 /\ against'[v] = 2
  BY <1>1 DEF Load, SortsOK, SortOK, LoopsOK
<1>4. got \in Seq(Entry) /\ Len(got) \in Nat
  BY DEF Good
<1>5. SortOK(v)'
  <2>1. LoopsOK(v)'
    BY <1>3, <1>4 DEF LoopsOK
  <2> QED
    BY <1>3, <1>4, <2>1, ReadyToSort DEF SortOK
<1>6. SortsOK'
  <2> SUFFICES ASSUME NEW w \in Viewers PROVE SortOK(w)'
    BY DEF SortsOK
  <2> QED
    BY <1>2, <1>5, Elsewhere DEF SortsOK
<1>7. \A w \in Viewers : Good(history'[w]) /\ Good(loaded'[w])
  BY <1>2, <1>3 DEF ListsGood
<1> QED
  BY <1>6, <1>7

LEMMA InvStep ==
  ASSUME HistoryInv, [Next]_vars
  PROVE  HistoryInv'
<1>t. ControlOK /\ RowsOfTaken /\ ListsGood /\ SortsOK
  BY DEF HistoryInv
<1> USE HistoryAssumption DEF HistoryInv
<1>k. ASSUME ControlOK', RowsOfTaken', taken \subseteq taken',
             \A m \in Msgs : row[m] > 0 => row'[m] >= row[m],
             cache' \in {cache, <<>>},
             \A n \in Msgs : list'[n] \in {list[n], <<>>},
             UNCHANGED historyVars
      PROVE  HistoryInv'
  BY <1>k, ListsKept
\* A step that stores lists and leaves the table alone.
<1>l. ASSUME ControlOK', RowsOfTaken', UNCHANGED <<taken, row>>,
             Good(cache'), \A n \in Msgs : Good(list'[n]),
             \A v \in Viewers : Good(history'[v]) /\ Good(loaded'[v]),
             SortsOK'
      PROVE  HistoryInv'
  <2>1. ASSUME NEW s PROVE Good(s)' <=> Good(s)
    BY <1>l DEF Good, Known
  <2> QED
    BY <1>l, <2>1 DEF ListsGood
<1>g. /\ Good(cache) /\ \A n \in Msgs : Good(list[n])
      /\ \A v \in Viewers : Good(history[v]) /\ Good(loaded[v])
  BY DEF ListsGood
<1>s. ASSUME UNCHANGED historyVars PROVE SortsOK'
  BY <1>s, Elsewhere DEF SortsOK, historyVars
<1>1. ASSUME NEW n \in Msgs, Post(n) PROVE HistoryInv'
  <2>1. ControlOK' /\ RowsOfTaken'
    BY <1>1 DEF Post, ControlOK, RowsOfTaken, historyVars
  <2>2. \A m \in Msgs : row'[m] = row[m] /\ row[m] \in Int
    BY <1>1, <1>t DEF Post, ControlOK, NoRow
  <2> QED
    BY <1>1, <1>k, <2>1, <2>2 DEF Post
<1>2. ASSUME NEW n \in Msgs, StoreEdit(n) PROVE HistoryInv'
  <2>1. row[n] \in 0..MaxRev /\ row[n] + 1 \in 0..MaxRev
    BY <1>2 DEF StoreEdit, Saved, ControlOK, NoRow
  <2>2. ControlOK'
    BY <1>2, <2>1 DEF StoreEdit, ControlOK, Msgs, NoRow, historyVars
  <2>3. RowsOfTaken'
    BY <1>2, <1>t DEF StoreEdit, RowsOfTaken, ControlOK, Saved
  <2>4. \A m \in Msgs : row'[m] >= row[m]
    BY <1>2, <1>t DEF StoreEdit, ControlOK, NoRow
  <2> QED
    BY <1>2, <1>k, <2>2, <2>3, <2>4 DEF StoreEdit
<1>3. CASE PublishEdit
  <2>1. ControlOK' /\ RowsOfTaken'
    BY <1>3 DEF PublishEdit, ControlOK, RowsOfTaken, historyVars
  <2>2. \A m \in Msgs : row'[m] = row[m] /\ row[m] \in Int
    BY <1>3, <1>t DEF PublishEdit, ControlOK, NoRow
  <2> QED
    BY <1>3, <1>k, <2>1, <2>2 DEF PublishEdit, Stores
<1>4. ASSUME NEW n \in Msgs, Create(n) PROVE HistoryInv'
  <2>1. row[n] = NoRow /\ n \in taken
    BY <1>4 DEF Create, RowsOfTaken
  <2>2. row' \in {row, [row EXCEPT ![n] = 0]}
    BY <1>4 DEF Create, Stores
  <2>3. ControlOK' /\ RowsOfTaken'
    BY <1>4, <2>1, <2>2, <1>t DEF Create, ControlOK, RowsOfTaken, NoRow, historyVars
  <2>4. \A m \in Msgs : row[m] > 0 => row'[m] >= row[m]
    BY <2>1, <2>2, <1>t DEF ControlOK, NoRow
  <2> QED
    BY <1>4, <1>k, <2>3, <2>4 DEF Create
<1>5. ASSUME NEW n \in Msgs, ReadCache(n) PROVE HistoryInv'
  <2>1. ControlOK' /\ RowsOfTaken'
    BY <1>5 DEF ReadCache, ControlOK, RowsOfTaken, historyVars
  <2>2. PICK got \in CacheReads : list' = [list EXCEPT ![n] = got]
    BY <1>5 DEF ReadCache
  <2>3. Good(got)
    BY <1>g, EmptyGood DEF CacheReads
  <2>4. \A m \in Msgs : Good(list'[m])
    BY <2>2, <2>3, <1>g, <1>t DEF ControlOK
  <2> QED
    BY <1>5, <1>l, <1>g, <1>s, <2>1, <2>4 DEF ReadCache, historyVars
<1>6. ASSUME NEW n \in Msgs, WriteCache(n) PROVE HistoryInv'
  <2>1. ControlOK' /\ RowsOfTaken'
    BY <1>6 DEF WriteCache, ControlOK, RowsOfTaken, historyVars
  <2>2. n \in taken
    BY <1>6 DEF WriteCache, RowsOfTaken
  <2>3. Good(Appended(list[n], n))
    BY <1>g, <2>2, AppendedGood
  <2>4. Good(cache')
    BY <1>6, <1>g, <2>3 DEF WriteCache, Stores
  <2>5. \A m \in Msgs : Good(list'[m])
    BY <1>6, <1>g, <1>t, EmptyGood DEF WriteCache, ControlOK
  <2> QED
    BY <1>6, <1>l, <1>g, <1>s, <2>1, <2>4, <2>5 DEF WriteCache, historyVars
<1>7. ASSUME NEW v \in Viewers, AskCache(v) PROVE HistoryInv'
  <2>1. PICK got \in CacheReads :
          Load(v, got, IF got # <<>> THEN "sort" ELSE "miss")
    BY <1>7 DEF AskCache
  <2>2. Good(got)
    BY <1>g, EmptyGood DEF CacheReads
  <2>3. /\ SortsOK'
        /\ \A w \in Viewers : Good(history'[w]) /\ Good(loaded'[w])
    BY <1>7, <2>1, <2>2, LoadStep DEF AskCache
  <2>4. ControlOK' /\ RowsOfTaken'
    BY <1>7, <2>1 DEF AskCache, Load, ControlOK, RowsOfTaken
  <2> QED
    BY <1>7, <1>l, <1>g, <2>3, <2>4 DEF AskCache
<1>8. ASSUME NEW v \in Viewers, AskDatabase(v) PROVE HistoryInv'
  <2>1. PICK got \in TableReads :
          Load(v, got, IF got # <<>> THEN "fill" ELSE "sort")
    BY <1>8 DEF AskDatabase
  <2>2. Good(got)
    BY <1>t, EmptyGood, RecentGood DEF TableReads
  <2>3. /\ SortsOK'
        /\ \A w \in Viewers : Good(history'[w]) /\ Good(loaded'[w])
    BY <1>8, <2>1, <2>2, LoadStep DEF AskDatabase
  <2>4. ControlOK' /\ RowsOfTaken'
    BY <1>8, <2>1 DEF AskDatabase, Load, ControlOK, RowsOfTaken
  <2> QED
    BY <1>8, <1>l, <1>g, <2>3, <2>4 DEF AskDatabase
<1>9. ASSUME NEW v \in Viewers, FillCache(v) PROVE HistoryInv'
  <2>1. ControlOK' /\ RowsOfTaken'
    BY <1>9 DEF FillCache, ControlOK, RowsOfTaken
  <2>2. Good(cache')
    BY <1>9, <1>g DEF FillCache, Stores
  <2>3. SortsOK'
    <3> SUFFICES ASSUME NEW w \in Viewers PROVE SortOK(w)'
      BY DEF SortsOK
    <3>1. CASE w = v
      <4>1. LoopsOK(v) /\ viewer[v] # "sort"
        BY <1>9, <1>t DEF FillCache, SortsOK, SortOK
      <4>2. LoopsOK(v)'
        BY <1>9, <4>1 DEF FillCache, LoopsOK
      <4> QED
        BY <1>9, <1>t, <3>1, <4>2
           DEF FillCache, SortsOK, SortOK, Settled, Rearranged
    <3>2. CASE w # v
      BY <1>9, <1>t, <3>2, Elsewhere DEF FillCache, SortsOK, ControlOK
    <3> QED
      BY <3>1, <3>2
  <2> QED
    BY <1>9, <1>l, <1>g, <2>1, <2>2, <2>3 DEF FillCache
<1>10. ASSUME NEW v \in Viewers, Leave(v) PROVE HistoryInv'
  <2>1. ControlOK' /\ RowsOfTaken'
    <3>1. /\ at' \in [Viewers -> Nat \ {0}] /\ against' \in [Viewers -> Nat]
          /\ viewer' \in [Viewers -> {"idle", "miss", "fill", "sort"}]
      BY <1>10 DEF Leave, ControlOK
    <3>2. /\ history' = [w \in Viewers |-> history'[w]]
          /\ loaded' = [w \in Viewers |-> loaded'[w]]
      BY <1>10 DEF Leave, ControlOK
    <3> QED
      BY <1>10, <3>1, <3>2 DEF Leave, ControlOK, RowsOfTaken
  <2>2. ASSUME NEW w \in Viewers, w # v
        PROVE  /\ history'[w] = history[w] /\ loaded'[w] = loaded[w]
               /\ viewer'[w] = viewer[w] /\ at'[w] = at[w]
               /\ against'[w] = against[w]
    BY <1>10, <1>t, <2>2 DEF Leave, ControlOK
  <2>3. /\ history'[v] = <<>> /\ loaded'[v] = <<>> /\ viewer'[v] = "idle"
        /\ at'[v] = 1 /\ against'[v] = 2
    BY <1>10, <1>t DEF Leave, ControlOK
  <2>4. SortOK(v)'
    <3>1. <<>> \in Seq(Entry) /\ Len(<<>>) = 0
      OBVIOUS
    <3>2. LoopsOK(v)'
      BY <2>3, <3>1 DEF LoopsOK
    <3> QED
      BY <2>3, <3>1, <3>2, ReadyToSort DEF SortOK
  <2>5. SortsOK'
    <3> SUFFICES ASSUME NEW w \in Viewers PROVE SortOK(w)'
      BY DEF SortsOK
    <3> QED
      BY <1>t, <2>2, <2>4, Elsewhere DEF SortsOK
  <2>6. \A w \in Viewers : Good(history'[w]) /\ Good(loaded'[w])
    BY <2>2, <2>3, <1>g, EmptyGood
  <2> QED
    BY <1>10, <1>l, <1>g, <2>1, <2>5, <2>6 DEF Leave
<1>14. ASSUME NEW v \in Viewers, Compare(v) PROVE HistoryInv'
  <2> DEFINE s == history[v]
             i == at[v]
             j == against[v]
             t == IF s[i].msg > s[j].msg THEN Swap(s, i, j) ELSE s
  <2>1. /\ s \in Seq(Entry) /\ Len(s) \in Nat
        /\ Good(loaded[v]) /\ s \in Rearranged(loaded[v])
        /\ LoopsOK(v) /\ Settled(s, i, j)
    BY <1>t DEF ListsGood, Good, SortsOK, SortOK
  <2>2. i \in Nat \ {0} /\ j \in Nat /\ i < Len(s) /\ j <= Len(s) /\ i < j
    BY <1>14, <1>t, <2>1 DEF Compare, Sorting, ControlOK, LoopsOK
  <2>3. i \in 1..Len(s) /\ j \in 1..Len(s)
    BY <2>1, <2>2
  <2>4. /\ history' = [history EXCEPT ![v] = t]
        /\ against' = [against EXCEPT ![v] = j + 1]
        /\ UNCHANGED <<taken, row, cache, saver, updater, list, edit, viewer,
                       loaded, at>>
    BY <1>14 DEF Compare
  <2>5. t \in Seq(Entry) /\ Len(t) = Len(s) /\ Settled(t, i, j + 1)
    BY <2>1, <2>2, <2>3, CompareSettles
  <2>6. t \in Rearranged(loaded[v])
    <3>1. Len(s) = Len(loaded[v]) /\ loaded[v] \in Seq(Entry)
      BY <2>1, RearrangedGood DEF Good
    <3>2. Swap(s, i, j) \in Rearranged(loaded[v])
      BY <2>1, <2>3, <3>1, Swapped
    <3> QED
      BY <2>1, <3>2
  <2>7. Good(t)
    BY <2>1, <2>6, RearrangedGood
  <2> HIDE DEF t
  <2>8. history'[v] = t /\ \A w \in Viewers : w # v => history'[w] = history[w]
    BY <2>4, <1>t DEF ControlOK
  <2>9. /\ against'[v] = j + 1
        /\ \A w \in Viewers : w # v => against'[w] = against[w]
    BY <2>4, <1>t DEF ControlOK
  <2>10. ControlOK' /\ RowsOfTaken'
    <3>1. against' \in [Viewers -> Nat] /\ at' \in [Viewers -> Nat \ {0}]
      BY <2>2, <2>4 DEF ControlOK
    <3>2. history' = [w \in Viewers |-> history'[w]]
      BY <2>4 DEF ControlOK
    <3> QED
      BY <2>4, <3>1, <3>2 DEF ControlOK, RowsOfTaken
  <2>11. SortOK(v)'
    <3>1. viewer[v] = "sort"
      BY <1>14 DEF Compare, Sorting
    <3>2. LoopsOK(v)'
      BY <2>1, <2>2, <2>4, <2>5, <2>8, <2>9, <3>1 DEF LoopsOK
    <3>3. Settled(history[v], at[v], against[v])'
      BY <2>4, <2>5, <2>8, <2>9
    <3>4. (history[v] \in Rearranged(loaded[v]))'
      BY <2>4, <2>6, <2>8
    <3> QED
      BY <3>2, <3>3, <3>4 DEF SortOK
  <2>12. SortsOK'
    <3> SUFFICES ASSUME NEW w \in Viewers PROVE SortOK(w)'
      BY DEF SortsOK
    <3> QED
      BY <1>t, <2>4, <2>8, <2>9, <2>11, Elsewhere DEF SortsOK
  <2>13. \A w \in Viewers : Good(history'[w]) /\ Good(loaded'[w])
    BY <2>4, <2>7, <2>8, <1>g
  <2> QED
    BY <2>4, <1>l, <1>g, <2>10, <2>12, <2>13
<1>15. ASSUME NEW v \in Viewers, Advance(v) PROVE HistoryInv'
  <2> DEFINE s == history[v]
             i == at[v]
             j == against[v]
  <2>1. /\ s \in Seq(Entry) /\ Len(s) \in Nat /\ Settled(s, i, j)
        /\ s \in Rearranged(loaded[v])
    BY <1>t DEF ListsGood, Good, SortsOK, SortOK
  <2>2. i \in Nat \ {0} /\ j \in Nat /\ i < Len(s) /\ j > Len(s)
    BY <1>15, <1>t, <2>1 DEF Advance, Sorting, ControlOK
  <2>3. Settled(s, i + 1, i + 2)
    BY <2>1, <2>2, AdvanceSettles
  <2>4. /\ at' = [at EXCEPT ![v] = i + 1]
        /\ against' = [against EXCEPT ![v] = i + 2]
        /\ UNCHANGED <<taken, row, cache, saver, updater, list, edit, viewer,
                       history, loaded>>
    BY <1>15 DEF Advance
  <2>5. /\ at'[v] = i + 1 /\ against'[v] = i + 2
        /\ \A w \in Viewers : w # v => at'[w] = at[w] /\ against'[w] = against[w]
    BY <2>4, <1>t DEF ControlOK
  <2>6. ControlOK' /\ RowsOfTaken'
    BY <2>2, <2>4, <1>t DEF ControlOK, RowsOfTaken
  <2>7. SortOK(v)'
    <3>1. viewer[v] = "sort"
      BY <1>15 DEF Advance, Sorting
    <3>2. LoopsOK(v)'
      BY <2>1, <2>2, <2>4, <2>5, <3>1 DEF LoopsOK
    <3>3. Settled(history[v], at[v], against[v])'
      BY <2>3, <2>4, <2>5
    <3>4. (history[v] \in Rearranged(loaded[v]))'
      BY <2>1, <2>4
    <3> QED
      BY <3>2, <3>3, <3>4 DEF SortOK
  <2>8. SortsOK'
    <3> SUFFICES ASSUME NEW w \in Viewers PROVE SortOK(w)'
      BY DEF SortsOK
    <3> QED
      BY <1>t, <2>4, <2>5, <2>7, Elsewhere DEF SortsOK
  <2> QED
    BY <2>4, <1>l, <1>g, <2>6, <2>8
<1>11. CASE Expire
  <2>1. ControlOK' /\ RowsOfTaken'
    BY <1>11 DEF Expire, ControlOK, RowsOfTaken, historyVars
  <2> QED
    BY <1>11, <1>l, <1>g, <1>s, <2>1, EmptyGood DEF Expire, historyVars
<1>12. CASE Restart
  <2>1. ControlOK' /\ RowsOfTaken'
    BY <1>12 DEF Restart, ControlOK, RowsOfTaken
  <2>2. /\ \A n \in Msgs : list'[n] = <<>>
        /\ \A v \in Viewers : /\ history'[v] = <<>> /\ loaded'[v] = <<>>
                              /\ at'[v] = 1 /\ against'[v] = 2
        /\ cache' \in {cache, <<>>} /\ UNCHANGED <<taken, row>>
    BY <1>12 DEF Restart
  <2>3. SortsOK'
    <3> SUFFICES ASSUME NEW v \in Viewers PROVE SortOK(v)'
      BY DEF SortsOK
    <3>1. <<>> \in Seq(Entry) /\ Len(<<>>) = 0
      OBVIOUS
    <3>2. LoopsOK(v)'
      BY <2>2, <3>1 DEF LoopsOK
    <3> QED
      BY <2>2, <3>1, <3>2, ReadyToSort DEF SortOK
  <2> QED
    BY <1>l, <1>g, <2>1, <2>2, <2>3, EmptyGood
<1>13. CASE UNCHANGED vars
  <2>1. ControlOK' /\ RowsOfTaken'
    BY <1>13 DEF vars, historyVars, ControlOK, RowsOfTaken
  <2> QED
    BY <1>13, <1>l, <1>g, <1>s, <2>1 DEF vars, historyVars
<1> QED
  BY <1>1, <1>2, <1>3, <1>4, <1>5, <1>6, <1>7, <1>8, <1>9, <1>10, <1>11,
     <1>12, <1>13, <1>14, <1>15 DEF Next, Update, View

-----------------------------------------------------------------------------
(* The theorems.                                                           *)

\* Every list that goroutines read, keep, cache or send is bounded, of
\* messages that were taken, with texts that the table has; a row is made once.
THEOREM HistoryInvariant == Spec => []HistoryInv
<1>1. Init => HistoryInv
  BY InvInit
<1>2. HistoryInv /\ [Next]_vars => HistoryInv'
  BY InvStep
<1> QED
  BY <1>1, <1>2, PTL DEF Spec

\* Every variable has its type.
THEOREM HistoryTypes == Spec => []TypeOK
<1>1. HistoryInv => TypeOK
  <2> SUFFICES ASSUME HistoryInv PROVE TypeOK
    OBVIOUS
  <2>1. /\ cache \in Seq(Entry)
        /\ \A n \in Msgs : list[n] \in Seq(Entry)
        /\ \A v \in Viewers : history[v] \in Seq(Entry) /\ loaded[v] \in Seq(Entry)
    BY DEF HistoryInv, ListsGood, Good
  <2>2. /\ [n \in Msgs |-> list[n]] \in [Msgs -> Seq(Entry)]
        /\ [v \in Viewers |-> history[v]] \in [Viewers -> Seq(Entry)]
        /\ [v \in Viewers |-> loaded[v]] \in [Viewers -> Seq(Entry)]
    BY <2>1
  <2>3. /\ list = [n \in Msgs |-> list[n]]
        /\ history = [v \in Viewers |-> history[v]]
        /\ loaded = [v \in Viewers |-> loaded[v]]
    BY DEF HistoryInv, ControlOK
  <2>4. /\ list \in [Msgs -> Seq(Entry)] /\ history \in [Viewers -> Seq(Entry)]
        /\ loaded \in [Viewers -> Seq(Entry)]
    BY <2>2, <2>3, Zenon
  <2> QED
    BY <2>1, <2>4 DEF HistoryInv, ControlOK, TypeOK
<1> QED
  BY <1>1, HistoryInvariant, PTL

\* manager.go:384-389 and repository/message.go: neither the cached list nor a
\* history is longer than the limit.
THEOREM ListsAreBounded == Spec => []CacheBounded
<1>1. HistoryInv => CacheBounded
  BY DEF HistoryInv, ListsGood, Good, CacheBounded
<1> QED
  BY <1>1, HistoryInvariant, PTL

\* Nothing is cached or replayed that was not broadcast, and no text that the
\* table does not have.
THEOREM NothingIsAhead == Spec => []NothingAhead
<1>1. HistoryInv => NothingAhead
  <2> SUFFICES ASSUME HistoryInv, NEW s, Good(s), NEW e \in Range(s)
               PROVE  e.msg \in taken /\ (e.rev > 0 => e.rev <= row[e.msg])
    BY DEF HistoryInv, ListsGood, NothingAhead
  <2>1. DOMAIN s = 1..Len(s)
    BY DEF Good
  <2>2. PICK i \in 1..Len(s) : e = s[i]
    BY <2>1 DEF Range
  <2> QED
    BY <2>2 DEF Good, Known
<1> QED
  BY <1>1, HistoryInvariant, PTL

\* manager.go:288-295: a history is sent in the order of the timestamps,
\* whatever order the cache was filled in, and with every message as often as it
\* was in the list that was loaded.
THEOREM HistoriesInOrder == Spec => []HistoryInOrder
<1>1. HistoryInv => HistoryInOrder
  <2> SUFFICES ASSUME HistoryInv, NEW v \in Viewers, Sorted(v)
               PROVE  /\ Ordered(history[v])
                      /\ history[v] \in Rearranged(loaded[v])
    BY DEF HistoryInOrder
  <2>1. /\ Len(history[v]) \in Nat /\ at[v] \in Nat /\ at[v] >= Len(history[v])
        /\ history[v] \in Rearranged(loaded[v])
        /\ Settled(history[v], at[v], against[v])
    BY DEF HistoryInv, ControlOK, ListsGood, Good, SortsOK, SortOK, Sorted
  <2>2. \A i, j \in 1..Len(history[v]) :
          i < at[v] /\ i < j => history[v][i].msg <= history[v][j].msg
    BY <2>1 DEF Settled
  <2>3. Ordered(history[v])
    BY <2>1, <2>2 DEF Ordered
  <2> QED
    BY <2>1, <2>3
<1> QED
  BY <1>1, HistoryInvariant, PTL
=============================================================================
