------------------------ MODULE PlanningTypesProofs ------------------------
(***************************************************************************)
(* Theorems about the operators of Planning and Picker, and about the      *)
(* types of their states, for every tenant, every set of schedules, every  *)
(* project and every bound: that every step of the command keeps its rows, *)
(* plan, caches and picker what the code's types and checks make them,     *)
(* that the choice between eligibilities has one answer for each grant,    *)
(* and that the picker keeps its place and does not touch the rows a       *)
(* filter hides.                                                           *)
(***************************************************************************)
EXTENDS Planning, SequenceTheorems, FiniteSetTheorems, TLAPS

-----------------------------------------------------------------------------
(* Sequences whose elements have no common set: a row may hold anything.   *)

IsSeq(s) == Len(s) \in Nat /\ s = [i \in 1..Len(s) |-> s[i]]

\* The two views of a sequence.
LEMMA SeqIsSeq == ASSUME NEW S, NEW s \in Seq(S) PROVE IsSeq(s)
BY LenProperties DEF IsSeq

\* A sequence is one of any set that holds its elements.
LEMMA IsSeqOf ==
  ASSUME NEW s, IsSeq(s), NEW S, \A i \in 1..Len(s) : s[i] \in S
  PROVE  s \in Seq(S)
BY DEF IsSeq

\* A function on an initial segment is a sequence.
LEMMA FunctionIsSeq ==
  ASSUME NEW n \in Nat, NEW f, f = [i \in 1..n |-> f[i]]
  PROVE  IsSeq(f) /\ Len(f) = n
BY DEF IsSeq

\* Appending keeps what is there.
LEMMA AppendIsSeq ==
  ASSUME NEW s, IsSeq(s), NEW x
  PROVE  /\ IsSeq(Append(s, x))
         /\ Len(Append(s, x)) = Len(s) + 1
         /\ \A i \in 1..Len(s) : Append(s, x)[i] = s[i]
         /\ Append(s, x)[Len(s) + 1] = x
<1> DEFINE S == {s[i] : i \in 1..Len(s)} \union {x}
<1>1. \A i \in 1..Len(s) : s[i] \in S
  OBVIOUS
<1>2. x \in S
  OBVIOUS
<1> HIDE DEF S
<1>3. s \in Seq(S)
  BY <1>1, IsSeqOf
<1>4. Append(s, x) \in Seq(S)
  BY <1>2, <1>3, AppendProperties
<1>5. IsSeq(Append(s, x))
  BY <1>4, SeqIsSeq
<1> QED BY <1>2, <1>3, <1>5, AppendProperties

-----------------------------------------------------------------------------
(* The choice between eligibilities.                                       *)

\* Two schedules left to choose from never stand for the same grant, whatever
\* ARM listed: duplicates through groups cannot make a choice ambiguous
\* (equivalentSources, preferSource).
THEOREM SourcesAreDistinct ==
  ASSUME NEW n \in Nat, Schedules = [i \in 1..n |-> Schedules[i]],
         NEW cands, cands \subseteq AllOf(Schedules),
         \A s \in cands : GrantOf[s].direct \in BOOLEAN,
         NEW s \in Sources(cands), NEW o \in Sources(cands), SameGrant(s, o)
  PROVE  s = o
<1>1. SUFFICES ASSUME s # o PROVE FALSE
  OBVIOUS
<1>2. s \in cands /\ o \in cands /\ SameGrant(o, s)
  BY DEF Sources, SameGrant
<1>3. Preferred(s, o) /\ Preferred(o, s)
  BY <1>1, <1>2 DEF Sources
<1>4. Rank(s) \in Nat /\ Rank(o) \in Nat
  <2>1. Len(Schedules) = n
    BY FunctionIsSeq
  <2>2. (\E i \in 1..n : Schedules[i] = s) /\ (\E i \in 1..n : Schedules[i] = o)
    BY <1>2, <2>1 DEF AllOf
  <2> QED BY <2>1, <2>2 DEF Rank
<1> QED BY <1>2, <1>3, <1>4 DEF Preferred

-----------------------------------------------------------------------------
(* The picker.                                                             *)

\* Whatever has happened to the filter, the cursor and the terminal, clamping
\* leaves the cursor on a row the window draws, and the window as full as it
\* can be (clampWindow).
THEOREM ClampDrawsCursor ==
  ASSUME NEW m \in Pickers
  PROVE  CursorIsDrawn(ClampWindow(m))
<1> DEFINE w == ClampWindow(m)
           cursor == AtMost(AtLeast(m.cursor, 0), AtLeast(0, Len(m.shown) - 1))
           top == AtLeast(0, AtMost(AtLeast(AtMost(m.top, cursor), cursor - Rows(m) + 1), Len(m.shown) - Rows(m)))
<1>0. /\ m.cursor \in Int /\ m.top \in Int /\ m.termRows \in Nat /\ Len(m.shown) \in Nat
      /\ m.shown # <<>> => Len(m.shown) > 0
  <2>1. m.shown \in Seq(Nat) /\ m.cursor \in Int /\ m.top \in Int /\ m.termRows \in Nat
    BY DEF Pickers
  <2> QED BY <2>1, EmptySeq, LenProperties
<1>1. w.shown = m.shown /\ w.termRows = m.termRows /\ w.cursor = cursor /\ w.top = top
  BY DEF ClampWindow, Pickers
<1>2. Rows(m) \in Nat \ {0} /\ Rows(w) = Rows(m)
  BY <1>0, <1>1, PickerAssumption DEF Rows, AtMost, AtLeast, ChromeLines
<1>3. cursor \in Nat /\ (Len(m.shown) > 0 => cursor < Len(m.shown)) /\ (Len(m.shown) = 0 => cursor = 0)
  BY <1>0 DEF AtMost, AtLeast
<1> HIDE DEF cursor
<1>4. 0 <= top /\ top <= cursor /\ cursor < top + Rows(m) /\ (top > 0 => top + Rows(m) <= Len(m.shown))
  BY <1>0, <1>2, <1>3 DEF AtMost, AtLeast
<1> HIDE DEF top, w
<1>5. CursorIsDrawn(w)
  BY <1>0, <1>1, <1>2, <1>3, <1>4 DEF CursorIsDrawn, HasCursor
<1> QED BY <1>5 DEF w

\* No key selects or clears a row the filter hides (toggleCursor,
\* toggleAllShown, refilter).
THEOREM HiddenKeepTheirSelection ==
  ASSUME NEW m \in Pickers, ~m.single, NEW key \in Keys, NEW i, i \notin ShownItems(m)
  PROVE  i \in m.selected <=> i \in Update(m, key).selected
<1>1. ASSUME NEW by PROVE Moved(m, by).selected = m.selected
  BY DEF Moved, ClampWindow, Pickers
<1>2. ASSUME NEW filter PROVE Typed(m, filter).selected = m.selected
  BY DEF Typed, Refilter, ClampWindow, Pickers
<1>3. HasCursor(m) => UnderCursor(m) \in ShownItems(m)
  <2>1. m.shown \in Seq(Nat) /\ m.cursor \in Int
    BY DEF Pickers
  <2> QED BY <2>1, LenProperties DEF HasCursor, UnderCursor, ShownItems
<1>4. i \in m.selected <=> i \in ToggleCursor(m).selected
  BY <1>3 DEF ToggleCursor, Pickers
<1>5. i \in m.selected <=> i \in ToggleAllShown(m).selected
  BY DEF ToggleAllShown, Pickers
<1>6. CASE key \in Editing
  BY <1>1, <1>2, <1>4, <1>5, <1>6 DEF Update, HandleEditKey
<1>7. CASE key \notin Editing
  BY <1>2, <1>7 DEF Update, HandleExitKey, Keys, Pickers
<1> QED BY <1>6, <1>7

\* A function on an initial segment is a sequence of what it takes values in.
LEMMA FunctionInSeq ==
  ASSUME NEW n \in Nat, NEW S, NEW f \in [1..n -> S]
  PROVE  f \in Seq(S) /\ Len(f) = n
OBVIOUS

-----------------------------------------------------------------------------
(* Places of a sequence, in their order.                                    *)

UpTo(places, i) == {j \in places : j <= i}
CountTo(places, i) == Cardinality({j \in places : j <= i})

\* Counting a set of places up, every number to the last is met at one of them.
LEMMA Counting ==
  ASSUME NEW n \in Nat, NEW places \in SUBSET (1..n)
  PROVE  /\ Cardinality(places) \in Nat /\ IsFiniteSet(places)
         /\ \A i \in places : CountTo(places, i) \in 1..Cardinality(places)
         /\ \A i, j \in places : i < j => CountTo(places, i) < CountTo(places, j)
         /\ \A k \in 1..Cardinality(places) : \E i \in places : CountTo(places, i) = k
<1> DEFINE m == Cardinality(places)
<1>1. IsFiniteSet(places) /\ m \in Nat
  <2>1. IsFiniteSet(1..n)
    BY FS_Interval
  <2>2. IsFiniteSet(places)
    BY <2>1, FS_Subset
  <2> QED BY <2>2, FS_CardinalityType
<1>2. ASSUME NEW i \in places PROVE IsFiniteSet(UpTo(places, i)) /\ CountTo(places, i) \in 1..m
  <2>1. UpTo(places, i) \subseteq places /\ i \in UpTo(places, i)
    BY DEF UpTo
  <2>2. IsFiniteSet(UpTo(places, i)) /\ Cardinality(UpTo(places, i)) <= m
    BY <1>1, <2>1, FS_Subset
  <2>3. Cardinality(UpTo(places, i)) \in Nat /\ Cardinality(UpTo(places, i)) # 0
    BY <2>1, <2>2, FS_CardinalityType, FS_EmptySet
  <2> QED BY <1>1, <2>2, <2>3 DEF CountTo, UpTo
<1>3. ASSUME NEW i \in places, NEW j \in places, i < j PROVE CountTo(places, i) < CountTo(places, j)
  <2>1. UpTo(places, i) \subseteq UpTo(places, j) /\ UpTo(places, i) # UpTo(places, j)
    <3>1. j \in UpTo(places, j) /\ j \notin UpTo(places, i)
      BY <1>3 DEF UpTo
    <3>2. \A x \in places : x <= i => x <= j
      <4>1. \A x \in 1..n : i \in 1..n /\ j \in 1..n /\ x <= i => x <= j
        BY <1>3
      <4> QED BY <4>1
    <3> QED BY <3>1, <3>2 DEF UpTo
  <2>2. Cardinality(UpTo(places, i)) < Cardinality(UpTo(places, j))
    BY <1>2, <2>1, FS_Subset, FS_CardinalityType
  <2> QED BY <2>2 DEF CountTo, UpTo
<1>4. ASSUME NEW k \in 1..m, \A i \in places : CountTo(places, i) # k PROVE FALSE
  <2> DEFINE T == (1..m) \ {k}
             f == [i \in places |-> CountTo(places, i)]
  <2>1. IsFiniteSet(1..m) /\ Cardinality(1..m) = m
    BY <1>1, FS_Interval
  <2>2. IsFiniteSet(T) /\ Cardinality(T) = m - 1
    BY <2>1, FS_RemoveElement
  <2>3. f \in [places -> T]
    BY <1>2, <1>4
  <2> HIDE DEF f, T
  <2>4. \E x, y \in places : x # y /\ f[x] = f[y]
    <3>1. Cardinality(T) < m
      BY <1>1, <2>2
    <3> QED BY <1>1, <2>2, <2>3, <3>1, FS_PigeonHole
  <2> QED BY <1>2, <1>3, <2>4 DEF f
<1> QED BY <1>1, <1>2, <1>3, <1>4

\* InOrder lists every place once, in order.
LEMMA Ordered ==
  ASSUME NEW n \in Nat, NEW places \in SUBSET (1..n)
  PROVE  /\ IsSeq(InOrder(places)) /\ Len(InOrder(places)) = Cardinality(places)
         /\ Cardinality(places) \in Nat
         /\ places # {} => Cardinality(places) > 0
         /\ \A k \in 1..Len(InOrder(places)) : InOrder(places)[k] \in places
         /\ \A k, l \in 1..Len(InOrder(places)) : k < l => InOrder(places)[k] < InOrder(places)[l]
         /\ \A i \in places : \E k \in 1..Len(InOrder(places)) : InOrder(places)[k] = i
<1> DEFINE m == Cardinality(places)
           o == InOrder(places)
<1>0. m \in Nat
  BY Counting
<1>1. o = [k \in 1..m |-> o[k]]
  BY DEF InOrder
<1>2. IsSeq(o) /\ Len(o) = m
  BY <1>0, <1>1, FunctionIsSeq
<1>3. ASSUME NEW k \in 1..m PROVE o[k] \in places /\ CountTo(places, o[k]) = k
  <2>1. \E i \in places : CountTo(places, i) = k
    BY Counting
  <2>2. o[k] = CHOOSE i \in places : CountTo(places, i) = k
    BY DEF InOrder, CountTo
  <2> QED BY <2>1, <2>2
<1>4. ASSUME NEW k \in 1..m, NEW l \in 1..m, k < l PROVE o[k] < o[l]
  <2>1. o[k] \in places /\ o[l] \in places /\ CountTo(places, o[k]) = k /\ CountTo(places, o[l]) = l
    BY <1>3
  <2>2. o[l] < o[k] => CountTo(places, o[l]) < CountTo(places, o[k])
    BY <2>1, Counting
  <2>3. o[k] # o[l] /\ ~(o[l] < o[k])
    BY <1>4, <2>1, <2>2
  <2>4. o[k] \in 1..n /\ o[l] \in 1..n
    BY <2>1
  <2> HIDE DEF o
  <2> QED BY <2>3, <2>4
<1>5. ASSUME NEW i \in places PROVE \E k \in 1..m : o[k] = i
  <2>1. CountTo(places, i) \in 1..m
    BY Counting
  <2>2. o[CountTo(places, i)] \in places /\ CountTo(places, o[CountTo(places, i)]) = CountTo(places, i)
    BY <1>3, <2>1
  <2>3. \A j \in places : CountTo(places, j) = CountTo(places, i) => j = i
    <3> SUFFICES ASSUME NEW j \in places, CountTo(places, j) = CountTo(places, i), j # i PROVE FALSE
      OBVIOUS
    <3>1. j < i \/ i < j
      OBVIOUS
    <3>2. CountTo(places, j) < CountTo(places, i) \/ CountTo(places, i) < CountTo(places, j)
      BY <3>1, Counting
    <3> QED BY <2>1, <3>2
  <2> QED BY <2>1, <2>2, <2>3
<1>6. places # {} => m > 0
  <2> SUFFICES ASSUME NEW i \in places PROVE m > 0
    OBVIOUS
  <2> HIDE DEF m, o
  <2> QED BY <1>0, <1>5
<1> HIDE DEF o, m
<1> QED BY <1>0, <1>2, <1>3, <1>4, <1>5, <1>6 DEF m, o

\* The elements at a set of places are those there, at different places.
LEMMA AtPlaces ==
  ASSUME NEW S, NEW s \in Seq(S), NEW places \in SUBSET (1..Len(s))
  PROVE  /\ At(s, places) \in Seq(S) /\ Len(At(s, places)) \in Nat
         /\ places # {} => Len(At(s, places)) > 0
         /\ \A k \in 1..Len(At(s, places)) :
              InOrder(places)[k] \in places /\ At(s, places)[k] = s[InOrder(places)[k]]
         /\ \A k, l \in 1..Len(At(s, places)) : InOrder(places)[k] = InOrder(places)[l] => k = l
         /\ \A i \in places : \E k \in 1..Len(At(s, places)) : At(s, places)[k] = s[i]
<1> DEFINE o == InOrder(places)
           a == At(s, places)
<1>1. Len(s) \in Nat
  BY LenProperties
<1>2. /\ Len(o) \in Nat /\ (places # {} => Len(o) > 0)
      /\ \A k \in 1..Len(o) : o[k] \in places
      /\ \A k, l \in 1..Len(o) : k < l => o[k] < o[l]
      /\ \A i \in places : \E k \in 1..Len(o) : o[k] = i
  <2>1. Len(s) \in Nat /\ places \in SUBSET (1..Len(s))
    BY <1>1
  <2> QED BY <2>1, Ordered DEF IsSeq
<1> HIDE DEF o
<1>3. a = [n \in 1..Len(o) |-> s[o[n]]]
  BY DEF At, o
<1>4. \A k \in 1..Len(o) : s[o[k]] \in S
  BY <1>2, ElementOfSeq
<1>5. a \in Seq(S) /\ Len(a) = Len(o)
  <2>1. a \in [1..Len(o) -> S]
    BY <1>3, <1>4
  <2> HIDE DEF a
  <2> QED BY <1>2, <2>1, FunctionInSeq
<1>6. \A k, l \in 1..Len(o) : o[k] = o[l] => k = l
  <2> SUFFICES ASSUME NEW k \in 1..Len(o), NEW l \in 1..Len(o), o[k] = o[l], k # l PROVE FALSE
    OBVIOUS
  <2>1. o[k] \in 1..Len(s) /\ o[l] \in 1..Len(s)
    BY <1>2
  <2>2. k < l \/ l < k
    BY <1>2
  <2>3. o[k] < o[l] \/ o[l] < o[k]
    BY <1>2, <2>2
  <2> QED BY <1>1, <2>1, <2>3
<1> HIDE DEF a
<1>7. /\ \A k \in 1..Len(a) : o[k] \in places /\ a[k] = s[o[k]]
      /\ \A i \in places : \E k \in 1..Len(a) : a[k] = s[i]
  BY <1>2, <1>3, <1>5
<1> QED BY <1>2, <1>5, <1>6, <1>7 DEF a, o

-----------------------------------------------------------------------------
(* The picker: what it shows and what is selected are items of it.          *)

IsPicker(m) ==
  /\ m \in Pickers
  /\ ShownItems(m) \subseteq 1..Len(m.items) /\ m.selected \subseteq 1..Len(m.items)

SameChoice(m, w) == w.items = m.items /\ w.single = m.single /\ w.selected = m.selected /\ w.end = m.end
StaysOn(m, w) ==
  HasCursor(m) /\ UnderCursor(m) \in ShownItems(w) => HasCursor(w) /\ UnderCursor(w) = UnderCursor(m)

\* Clamping moves the cursor only if it is on no row.
LEMMA Clamped ==
  ASSUME NEW m, IsPicker(m), NEW w, w = ClampWindow(m)
  PROVE  /\ IsPicker(w) /\ SameChoice(m, w) /\ CursorIsDrawn(w)
         /\ w.shown = m.shown /\ w.filter = m.filter /\ w.termRows = m.termRows
         /\ HasCursor(m) => w.cursor = m.cursor
<1>0. m \in Pickers
  BY DEF IsPicker
<1>1. CursorIsDrawn(w)
  BY <1>0, ClampDrawsCursor
<1> DEFINE last == AtLeast(0, Len(m.shown) - 1)
           cursor == AtMost(AtLeast(m.cursor, 0), last)
           top == AtLeast(0, AtMost(AtLeast(AtMost(m.top, cursor), cursor - Rows(m) + 1), Len(m.shown) - Rows(m)))
<1>2. w = [m EXCEPT !.cursor = cursor, !.top = top]
  BY DEF ClampWindow
<1>3. m.cursor \in Int /\ m.top \in Int /\ m.termRows \in Nat /\ m.shown \in Seq(Nat)
  BY <1>0 DEF Pickers
<1>4. Len(m.shown) \in Nat
  BY <1>3, LenProperties
<1>5. Rows(m) \in Int
  BY <1>3, PickerAssumption DEF Rows, AtLeast, AtMost, ChromeLines
<1>6. cursor \in Int /\ top \in Int /\ (HasCursor(m) => cursor = m.cursor)
  <2>1. ASSUME NEW a \in Int, NEW b \in Int PROVE AtMost(a, b) \in Int /\ AtLeast(a, b) \in Int
    BY DEF AtLeast, AtMost
  <2>2. last \in Int /\ cursor \in Int
    BY <1>3, <1>4 DEF AtLeast, AtMost
  <2>3. HasCursor(m) => cursor = m.cursor
    BY <1>3, <1>4 DEF AtLeast, AtMost, HasCursor
  <2> HIDE DEF cursor
  <2>4. AtMost(m.top, cursor) \in Int
    BY <1>3, <2>1, <2>2
  <2>6. AtLeast(AtMost(m.top, cursor), cursor - Rows(m) + 1) \in Int
    BY <1>5, <2>2, <2>4 DEF AtLeast
  <2>7. AtMost(AtLeast(AtMost(m.top, cursor), cursor - Rows(m) + 1), Len(m.shown) - Rows(m)) \in Int
    BY <1>4, <1>5, <2>6 DEF AtMost
  <2>5. top \in Int
    BY <2>1, <2>7
  <2> QED BY <2>2, <2>3, <2>5
<1> HIDE DEF cursor, top
<1>7. w \in Pickers /\ SameChoice(m, w) /\ w.shown = m.shown /\ w.filter = m.filter /\ w.termRows = m.termRows
      /\ w.cursor = cursor
  BY <1>0, <1>2, <1>6 DEF Pickers, SameChoice
<1> QED BY <1>1, <1>6, <1>7 DEF IsPicker, SameChoice, ShownItems

\* The rows that match are items.
LEMMA Matching ==
  ASSUME NEW m, IsPicker(m), NEW filter
  PROVE  Matches(m, filter) \in Seq(1..Len(m.items))
<1> DEFINE places == {i \in 1..Len(m.items) : Contains(m.items[i], filter)}
<1>1. Len(m.items) \in Nat
  BY LenProperties DEF IsPicker, Pickers
<1>2. places \in SUBSET (1..Len(m.items))
  OBVIOUS
<1> HIDE DEF places
<1>3. IsSeq(InOrder(places)) /\ \A k \in 1..Len(InOrder(places)) : InOrder(places)[k] \in 1..Len(m.items)
  BY <1>1, <1>2, Ordered
<1>4. InOrder(places) \in Seq(1..Len(m.items))
  BY <1>3, IsSeqOf
<1> QED BY <1>4 DEF Matches, places

\* Another filter keeps the cursor on its item if that is still shown.
LEMMA Refiltered ==
  ASSUME NEW m, IsPicker(m), NEW w, w = Refilter(m)
  PROVE  /\ IsPicker(w) /\ SameChoice(m, w) /\ CursorIsDrawn(w)
         /\ StaysOn(m, w)
<1> DEFINE shown == Matches(m, m.filter)
           stays == {c \in 1..Len(shown) : HasCursor(m) /\ shown[c] = UnderCursor(m)}
           cursor == IF stays = {} THEN 0 ELSE (CHOOSE c \in stays : TRUE) - 1
           n == [m EXCEPT !.shown = shown, !.cursor = cursor]
<1>1. w = ClampWindow(n)
  BY DEF Refilter
<1>2. shown \in Seq(1..Len(m.items))
  BY Matching
<1>3. Len(m.items) \in Nat /\ m \in Pickers /\ m.cursor \in Int
  BY LenProperties DEF IsPicker, Pickers
<1> HIDE DEF shown
<1>4. Len(shown) \in Nat /\ shown \in Seq(Nat) /\ \A c \in 1..Len(shown) : shown[c] \in 1..Len(m.items)
  <2>1. 1..Len(m.items) \subseteq Nat
    BY <1>3
  <2>2. shown \in Seq(Nat)
    BY <1>2, <2>1, SeqMonotonic
  <2> QED BY <1>2, <2>2, LenProperties, ElementOfSeq
<1>5. cursor \in Int /\ (stays # {} => cursor + 1 \in stays)
  BY <1>4
<1>6. stays # {} => cursor >= 0 /\ cursor < Len(shown) /\ shown[cursor + 1] = UnderCursor(m)
  <2> SUFFICES ASSUME stays # {} PROVE cursor >= 0 /\ cursor < Len(shown) /\ shown[cursor + 1] = UnderCursor(m)
    OBVIOUS
  <2>1. cursor + 1 \in stays
    BY <1>5
  <2> HIDE DEF cursor
  <2>2. cursor + 1 \in 1..Len(shown) /\ shown[cursor + 1] = UnderCursor(m)
    BY <2>1
  <2> QED BY <1>4, <1>5, <2>2
<1>7. (HasCursor(m) /\ \E c \in 1..Len(shown) : shown[c] = UnderCursor(m)) => stays # {}
  OBVIOUS
<1> HIDE DEF stays, cursor
<1>8. n \in Pickers /\ n.shown = shown /\ n.cursor = cursor /\ SameChoice(m, n)
  BY <1>3, <1>4, <1>5 DEF Pickers, SameChoice
<1> HIDE DEF n
<1>9. IsPicker(n)
  BY <1>4, <1>8 DEF IsPicker, ShownItems, SameChoice
<1>10. /\ IsPicker(w) /\ SameChoice(n, w) /\ CursorIsDrawn(w) /\ w.shown = shown
       /\ HasCursor(n) => w.cursor = cursor
  BY <1>1, <1>8, <1>9, Clamped
<1>11. ASSUME HasCursor(m), UnderCursor(m) \in ShownItems(w)
       PROVE  HasCursor(w) /\ UnderCursor(w) = UnderCursor(m)
  <2>1. \E c \in 1..Len(shown) : shown[c] = UnderCursor(m)
    BY <1>10, <1>11 DEF ShownItems
  <2>2. HasCursor(n) /\ shown[cursor + 1] = UnderCursor(m)
    BY <1>6, <1>7, <1>8, <1>11, <2>1 DEF HasCursor
  <2>3. w.cursor = n.cursor
    BY <1>8, <1>10, <2>2
  <2> QED BY <1>8, <1>10, <2>2, <2>3 DEF HasCursor, UnderCursor
<1> QED BY <1>8, <1>10, <1>11 DEF SameChoice, StaysOn

\* What holds of a picker that is on screen.
OnScreen(m) ==
  /\ IsPicker(m) /\ CursorIsDrawn(m)
  /\ m.single => /\ m.end = "open" => m.selected = {}
                 /\ m.end = "confirmed" => \E x \in 1..Len(m.items) : m.selected = {x}

\* What one key or one resize does to it.
KeepsPlace(m, w) ==
  /\ \A i : i \notin ShownItems(m) => (i \in m.selected <=> i \in w.selected)
  /\ m.filter # w.filter \/ m.termRows # w.termRows => StaysOn(m, w)

\* A new picker is on screen, and shows what it was given.
LEMMA NewPicker ==
  ASSUME NEW items \in Seq(Seq(Chars)), NEW single \in BOOLEAN
  PROVE  LET m == NewModel(items, single)
         IN  OnScreen(m) /\ m.items = items /\ m.single = single /\ m.end = "open"
<1> DEFINE n == [items |-> items, single |-> single, selected |-> {}, shown |-> <<>>,
                 filter |-> <<>>, cursor |-> 0, top |-> 0, termRows |-> 0, end |-> "open"]
           m == Refilter(n)
<1>1. n \in Pickers
  BY EmptySeq DEF Pickers
<1>2. n.items = items /\ n.single = single /\ n.selected = {} /\ n.end = "open" /\ n.shown = <<>>
  OBVIOUS
<1> HIDE DEF n
<1>3. IsPicker(n)
  BY <1>1, <1>2, EmptySeq DEF IsPicker, ShownItems
<1>4. IsPicker(m) /\ SameChoice(n, m) /\ CursorIsDrawn(m)
  BY <1>3, Refiltered
<1> HIDE DEF m
<1>5. OnScreen(m) /\ m.items = items /\ m.single = single /\ m.end = "open"
  BY <1>2, <1>4 DEF OnScreen, SameChoice
<1> QED BY <1>5 DEF m, n, NewModel

\* A resize leaves the picker on screen and keeps its place.
LEMMA Resized ==
  ASSUME NEW m, OnScreen(m), m.end = "open", NEW height \in Nat, NEW w, w = Resize(m, height)
  PROVE  OnScreen(w) /\ w.items = m.items /\ w.single = m.single /\ KeepsPlace(m, w)
<1> DEFINE n == [m EXCEPT !.termRows = height]
<1>1. m \in Pickers /\ IsPicker(m)
  BY DEF OnScreen, IsPicker
<1>2. n \in Pickers /\ SameChoice(m, n) /\ n.shown = m.shown /\ n.cursor = m.cursor
  BY <1>1 DEF Pickers, SameChoice
<1>3. w = ClampWindow(n)
  BY DEF Resize
<1> HIDE DEF n
<1>4. IsPicker(n)
  BY <1>1, <1>2 DEF IsPicker, ShownItems, SameChoice
<1>5. /\ IsPicker(w) /\ SameChoice(n, w) /\ CursorIsDrawn(w) /\ w.shown = n.shown
      /\ HasCursor(n) => w.cursor = n.cursor
  BY <1>3, <1>4, Clamped
<1>6. OnScreen(w) /\ w.items = m.items /\ w.single = m.single /\ w.selected = m.selected
  BY <1>2, <1>5 DEF OnScreen, SameChoice
<1>7. StaysOn(m, w)
  BY <1>2, <1>5 DEF StaysOn, HasCursor, UnderCursor
<1> QED BY <1>6, <1>7 DEF KeepsPlace

\* So does a key, which touches only rows that are shown.
LEMMA Pressed ==
  ASSUME NEW m, OnScreen(m), m.end = "open", NEW key \in Keys, NEW w, w = Update(m, key)
  PROVE  OnScreen(w) /\ w.items = m.items /\ w.single = m.single /\ KeepsPlace(m, w)
<1> DEFINE Goal == OnScreen(w) /\ w.items = m.items /\ w.single = m.single /\ KeepsPlace(m, w)
<1>0. /\ m \in Pickers /\ IsPicker(m) /\ CursorIsDrawn(m) /\ m.filter \in Seq(Chars) /\ m.cursor \in Int
      /\ m.single => m.selected = {}
      /\ ShownItems(m) \subseteq 1..Len(m.items) /\ m.selected \subseteq 1..Len(m.items) /\ Len(m.items) \in Nat
  BY LenProperties DEF OnScreen, IsPicker, Pickers
<1>1. ASSUME NEW f \in Seq(Chars), w = Typed(m, f) PROVE Goal
  <2> DEFINE n == [m EXCEPT !.filter = f]
  <2>1. n \in Pickers /\ SameChoice(m, n) /\ n.shown = m.shown /\ n.cursor = m.cursor
    BY <1>0 DEF Pickers, SameChoice
  <2>2. w = Refilter(n)
    BY <1>1 DEF Typed
  <2> HIDE DEF n
  <2>3. IsPicker(n)
    BY <1>0, <2>1 DEF IsPicker, ShownItems, SameChoice
  <2>4. IsPicker(w) /\ SameChoice(n, w) /\ CursorIsDrawn(w) /\ StaysOn(n, w)
    BY <2>2, <2>3, Refiltered
  <2>5. StaysOn(m, w)
    BY <2>1, <2>4 DEF StaysOn, HasCursor, UnderCursor
  <2> QED BY <1>0, <2>1, <2>4, <2>5 DEF OnScreen, SameChoice, KeepsPlace
<1>2. ASSUME NEW by \in Int, w = Moved(m, by) PROVE Goal
  <2> DEFINE n == [m EXCEPT !.cursor = @ + by]
  <2>0. m.cursor + by \in Int
    BY <1>0, <1>2
  <2>1. n \in Pickers /\ SameChoice(m, n) /\ n.shown = m.shown /\ n.filter = m.filter /\ n.termRows = m.termRows
    BY <1>0, <2>0 DEF Pickers, SameChoice
  <2>2. w = ClampWindow(n)
    BY <1>2 DEF Moved
  <2> HIDE DEF n
  <2>3. IsPicker(n)
    BY <1>0, <2>1 DEF IsPicker, ShownItems, SameChoice
  <2>4. IsPicker(w) /\ SameChoice(n, w) /\ CursorIsDrawn(w) /\ w.filter = n.filter /\ w.termRows = n.termRows
    BY <2>2, <2>3, Clamped
  <2> QED BY <1>0, <2>1, <2>4 DEF OnScreen, SameChoice, KeepsPlace
<1>3. ASSUME w = m PROVE Goal
  BY <1>0, <1>3 DEF OnScreen, KeepsPlace
<1>4. ASSUME ~m.single, NEW set \in SUBSET (1..Len(m.items)), w = [m EXCEPT !.selected = set],
             \A i : i \notin ShownItems(m) => (i \in m.selected <=> i \in set)
      PROVE  Goal
  <2>1. set \subseteq Nat
    <3>1. 1..Len(m.items) \subseteq Nat
      BY <1>0
    <3> QED BY <3>1
  <2>2. w \in Pickers /\ w.selected = set /\ w.items = m.items /\ w.single = m.single /\ w.shown = m.shown
        /\ w.cursor = m.cursor /\ w.top = m.top /\ w.termRows = m.termRows /\ w.filter = m.filter
    BY <1>0, <1>4, <2>1 DEF Pickers
  <2>3. CursorIsDrawn(w)
    BY <1>0, <2>2 DEF CursorIsDrawn, HasCursor, Rows
  <2>4. IsPicker(w)
    BY <1>0, <2>2 DEF IsPicker, ShownItems
  <2> QED BY <1>4, <2>2, <2>3, <2>4 DEF OnScreen, KeepsPlace
<1>5. HasCursor(m) => UnderCursor(m) \in ShownItems(m)
  <2>1. m.shown \in Seq(Nat)
    BY <1>0 DEF Pickers
  <2>2. Len(m.shown) \in Nat
    BY <2>1, LenProperties
  <2>3. HasCursor(m) => m.cursor + 1 \in 1..Len(m.shown)
    BY <1>0, <2>2 DEF HasCursor
  <2> QED BY <2>3 DEF UnderCursor, ShownItems
<1>6. ASSUME NEW end \in {"aborted", "confirmed"}, NEW set \in SUBSET (1..Len(m.items)),
             w = [m EXCEPT !.selected = set, !.end = end],
             m.single /\ end = "confirmed" => \E x \in 1..Len(m.items) : set = {x},
             \A i : i \notin ShownItems(m) => (i \in m.selected <=> i \in set)
      PROVE  Goal
  <2>1. set \subseteq Nat
    <3>1. 1..Len(m.items) \subseteq Nat
      BY <1>0
    <3> QED BY <3>1
  <2>2. w \in Pickers /\ w.selected = set /\ w.items = m.items /\ w.single = m.single /\ w.shown = m.shown /\ w.end = end
        /\ w.cursor = m.cursor /\ w.top = m.top /\ w.termRows = m.termRows /\ w.filter = m.filter
    BY <1>0, <1>6, <2>1 DEF Pickers
  <2>3. CursorIsDrawn(w)
    BY <1>0, <2>2 DEF CursorIsDrawn, HasCursor, Rows
  <2>4. IsPicker(w)
    BY <1>0, <2>2 DEF IsPicker, ShownItems
  <2> QED BY <1>6, <2>2, <2>3, <2>4 DEF OnScreen, KeepsPlace
<1>7. ASSUME ~m.single, w = ToggleCursor(m) PROVE Goal
  <2>1. CASE ~HasCursor(m)
    BY <1>3, <1>7, <2>1 DEF ToggleCursor
  <2>2. CASE HasCursor(m)
    <3> DEFINE set == IF UnderCursor(m) \in m.selected THEN m.selected \ {UnderCursor(m)}
                                                       ELSE m.selected \union {UnderCursor(m)}
    <3>1. w = [m EXCEPT !.selected = set]
      BY <1>7, <2>2 DEF ToggleCursor
    <3>2. set \in SUBSET (1..Len(m.items)) /\ \A i : i \notin ShownItems(m) => (i \in m.selected <=> i \in set)
      BY <1>0, <1>5, <2>2
    <3> HIDE DEF set, Goal
    <3> QED BY <1>4, <1>7, <3>1, <3>2
  <2> QED BY <2>1, <2>2
<1>8. ASSUME ~m.single, w = ToggleAllShown(m) PROVE Goal
  <2> DEFINE set == IF ShownItems(m) \subseteq m.selected THEN m.selected \ ShownItems(m)
                                                          ELSE m.selected \union ShownItems(m)
  <2>1. w = [m EXCEPT !.selected = set]
    BY <1>8 DEF ToggleAllShown
  <2>2. set \in SUBSET (1..Len(m.items)) /\ \A i : i \notin ShownItems(m) => (i \in m.selected <=> i \in set)
    BY <1>0
  <2> HIDE DEF set
  <2> QED BY <1>4, <1>8, <2>1, <2>2
<1>9. CASE key \in Editing
  <2>1. \/ w = Moved(m, -1) \/ w = Moved(m, 1) \/ w = m
        \/ ~m.single /\ w = ToggleCursor(m)
        \/ ~m.single /\ w = ToggleAllShown(m)
        \/ m.filter # <<>> /\ w = Typed(m, SubSeq(m.filter, 1, Len(m.filter) - 1))
        \/ key \in Chars /\ w = Typed(m, Append(m.filter, key))
    BY <1>9 DEF Update, HandleEditKey, Editing
  <2>2. SubSeq(m.filter, 1, Len(m.filter) - 1) \in Seq(Chars) \/ m.filter = <<>>
    <3>1. ASSUME m.filter # <<>> PROVE SubSeq(m.filter, 1, Len(m.filter) - 1) \in Seq(Chars)
      <4>1. Len(m.filter) \in Nat \ {0}
        BY <1>0, <3>1, EmptySeq
      <4>2. \A i \in 1..(Len(m.filter) - 1) : m.filter[i] \in Chars
        BY <1>0, <4>1
      <4> QED BY <1>0, <4>1, <4>2
    <3> QED BY <3>1
  <2>3. key \in Chars => Append(m.filter, key) \in Seq(Chars)
    BY <1>0, AppendProperties
  <2>4. -1 \in Int /\ 1 \in Int
    OBVIOUS
  <2>5. CASE w = Moved(m, -1) \/ w = Moved(m, 1)
    BY <1>2, <2>4, <2>5
  <2>6. CASE m.filter # <<>> /\ w = Typed(m, SubSeq(m.filter, 1, Len(m.filter) - 1))
    BY <1>1, <2>2, <2>6
  <2>7. CASE key \in Chars /\ w = Typed(m, Append(m.filter, key))
    BY <1>1, <2>3, <2>7
  <2> QED BY <1>3, <1>7, <1>8, <2>1, <2>5, <2>6, <2>7
<1>10. CASE key \notin Editing
  <2>1. \/ w = [m EXCEPT !.end = "aborted"]
        \/ w = Typed(m, <<>>)
        \/ ~m.single /\ w = [m EXCEPT !.end = "confirmed"]
        \/ w = m
        \/ m.single /\ m.shown # <<>> /\ w = [m EXCEPT !.selected = {UnderCursor(m)}, !.end = "confirmed"]
    BY <1>10 DEF Update, HandleExitKey, Keys
  <2>2. \A end : [m EXCEPT !.end = end] = [m EXCEPT !.selected = m.selected, !.end = end]
    BY <1>0 DEF Pickers
  <2>3. CASE w = [m EXCEPT !.end = "aborted"]
    BY <1>0, <1>6, <2>2, <2>3
  <2>4. CASE ~m.single /\ w = [m EXCEPT !.end = "confirmed"]
    BY <1>0, <1>6, <2>2, <2>4
  <2>5. CASE m.single /\ m.shown # <<>> /\ w = [m EXCEPT !.selected = {UnderCursor(m)}, !.end = "confirmed"]
    <3>1. UnderCursor(m) \in ShownItems(m) /\ UnderCursor(m) \in 1..Len(m.items) /\ m.selected = {}
      BY <1>0, <1>5, <2>5 DEF CursorIsDrawn
    <3>2. {UnderCursor(m)} \in SUBSET (1..Len(m.items))
      BY <3>1
    <3> QED BY <1>6, <2>5, <3>1, <3>2
  <2>6. CASE w = Typed(m, <<>>)
    BY <1>1, <2>6, EmptySeq
  <2> QED BY <1>3, <2>1, <2>3, <2>4, <2>5, <2>6
<1> QED BY <1>9, <1>10

-----------------------------------------------------------------------------
(* Rows.                                                                    *)

Helds == [active : BOOLEAN, confirmed : BOOLEAN, verified : BOOLEAN, from : Nat, until : Nat]
Grants == AllOf(Schedules)
RowSet == [sched : Grants, target : Scopes, held : Helds]
DistinctIds(s) == \A i, j \in 1..Len(s) : Id(s[i]) = Id(s[j]) => i = j
Ids(s) == {Id(s[i]) : i \in 1..Len(s)}
Scheds(s) == {s[i].sched : i \in 1..Len(s)}

\* A row of a schedule at a scope is one.
LEMMA RowType ==
  ASSUME NEW s \in Grants, NEW target \in Scopes
  PROVE  Row(s, target) \in RowSet /\ Row(s, target).sched = s /\ Row(s, target).target = target
BY DEF Row, RowSet, NotHeld, Helds

\* A row stands for a target of the tenant.
LEMMA IdType ==
  ASSUME NEW r \in RowSet
  PROVE  Id(r) \in Targets /\ PolicyKey(r) \in Targets /\ SourceScope(r) \in Scopes /\ r.sched \in Grants /\ r.target \in Scopes
         /\ Id(r)[1] = GrantOf[r.sched].role /\ Id(r)[2] = r.target
BY TenantAssumption DEF RowSet, Id, PolicyKey, SourceScope, Targets, Roles, Grants

\* Of places there are, one is the first and one the last.
LEMMA FirstAndLast ==
  ASSUME NEW n \in Nat, NEW places \in SUBSET (1..n), places # {}
  PROVE  /\ InOrder(places)[1] \in places /\ \A j \in places : InOrder(places)[1] <= j
         /\ \E i \in places : \A j \in places : j <= i
<1> DEFINE o == InOrder(places)
           m == Cardinality(places)
<1>1. /\ Len(o) = m /\ m \in Nat /\ m > 0
      /\ \A k \in 1..m : o[k] \in places
      /\ \A k, l \in 1..m : k < l => o[k] < o[l]
      /\ \A i \in places : \E k \in 1..m : o[k] = i
  BY Ordered
<1> HIDE DEF o, m
<1>2. o[1] \in places /\ o[m] \in places
  BY <1>1
<1>3. ASSUME NEW j \in places PROVE o[1] <= j /\ j <= o[m]
  <2>1. PICK k \in 1..m : o[k] = j
    BY <1>1
  <2>2. (k = 1 \/ o[1] < o[k]) /\ (k = m \/ o[k] < o[m])
    BY <1>1
  <2>3. o[1] \in 1..n /\ o[m] \in 1..n /\ j \in 1..n
    BY <1>2
  <2> QED BY <2>1, <2>2, <2>3
<1> QED BY <1>2, <1>3 DEF o

\* Rows at a set of places.
LEMMA RowsAt ==
  ASSUME NEW S, NEW s \in Seq(S), NEW places \in SUBSET (1..Len(s))
  PROVE  /\ At(s, places) \in Seq(S) /\ Len(At(s, places)) \in Nat
         /\ AllOf(At(s, places)) = {s[i] : i \in places}
         /\ DistinctIds(s) => DistinctIds(At(s, places))
         /\ Ids(At(s, places)) = {Id(s[i]) : i \in places}
<1> DEFINE a == At(s, places)
           o == InOrder(places)
<1>1. /\ a \in Seq(S) /\ Len(a) \in Nat
      /\ \A k \in 1..Len(a) : o[k] \in places /\ a[k] = s[o[k]]
      /\ \A k, l \in 1..Len(a) : o[k] = o[l] => k = l
      /\ \A i \in places : \E k \in 1..Len(a) : a[k] = s[i]
  BY AtPlaces
<1> HIDE DEF a, o
<1>2. AllOf(a) = {s[i] : i \in places} /\ Ids(a) = {Id(s[i]) : i \in places}
  <2>1. \A k \in 1..Len(a) : \E i \in places : a[k] = s[i]
    BY <1>1
  <2>2. \A i \in places : \E k \in 1..Len(a) : a[k] = s[i]
    BY <1>1
  <2>3. AllOf(a) = {s[i] : i \in places}
    <3>1. AllOf(a) = {a[k] : k \in 1..Len(a)}
      BY DEF AllOf
    <3>2. \A x \in AllOf(a) : \E i \in places : x = s[i]
      BY <2>1, <3>1
    <3>3. \A i \in places : s[i] \in AllOf(a)
      BY <2>2, <3>1
    <3> QED BY <3>2, <3>3
  <2>4. Ids(a) = {Id(s[i]) : i \in places}
    BY <2>1, <2>2 DEF Ids
  <2> QED BY <2>3, <2>4
<1>3. DistinctIds(s) => DistinctIds(a)
  <2> SUFFICES ASSUME DistinctIds(s), NEW k \in 1..Len(a), NEW l \in 1..Len(a), Id(a[k]) = Id(a[l]) PROVE k = l
    BY DEF DistinctIds
  <2>1. o[k] \in 1..Len(s) /\ o[l] \in 1..Len(s) /\ Id(s[o[k]]) = Id(s[o[l]])
    BY <1>1
  <2>2. o[k] = o[l]
    BY <2>1 DEF DistinctIds
  <2> QED BY <1>1, <2>2
<1> QED BY <1>1, <1>2, <1>3 DEF a

\* Of the rows of one role and target dedupeRows keeps one.
LEMMA Deduped ==
  ASSUME NEW s \in Seq(RowSet)
  PROVE  /\ Dedupe(s) \in Seq(RowSet) /\ Len(Dedupe(s)) \in Nat
         /\ DistinctIds(Dedupe(s))
         /\ \A k \in 1..Len(Dedupe(s)) : \E i \in 1..Len(s) : Dedupe(s)[k] = s[i]
         /\ Ids(Dedupe(s)) = Ids(s)
<1> DEFINE places == {i \in 1..Len(s) : \A j \in 1..(i - 1) : Id(s[j]) # Id(s[i])}
           same(i) == {j \in 1..Len(s) : Id(s[j]) = Id(s[i])}
           direct(i) == {j \in same(i) : Direct(s[j])}
           best(i) == At(s, IF direct(i) # {} THEN direct(i) ELSE same(i))[1]
           firsts == InOrder(places)
           d == Dedupe(s)
<1>0. Len(s) \in Nat /\ places \in SUBSET (1..Len(s))
  BY LenProperties
<1>1. d = [k \in 1..Len(firsts) |-> best(firsts[k])]
  BY DEF Dedupe
<1>2. /\ Len(firsts) \in Nat
      /\ \A k \in 1..Len(firsts) : firsts[k] \in places
      /\ \A k, l \in 1..Len(firsts) : k < l => firsts[k] < firsts[l]
      /\ \A i \in places : \E k \in 1..Len(firsts) : firsts[k] = i
  <2> HIDE DEF places
  <2> QED BY <1>0, Ordered
<1>3. ASSUME NEW i \in 1..Len(s) PROVE \E j \in same(i) : best(i) = s[j]
  <2> DEFINE set == IF direct(i) # {} THEN direct(i) ELSE same(i)
  <2>1. i \in same(i) /\ set \subseteq same(i) /\ set \in SUBSET (1..Len(s)) /\ set # {}
    OBVIOUS
  <2> HIDE DEF set, same
  <2>2. Len(At(s, set)) > 0 /\ Len(At(s, set)) \in Nat
        /\ \A k \in 1..Len(At(s, set)) : InOrder(set)[k] \in set /\ At(s, set)[k] = s[InOrder(set)[k]]
    BY <2>1, AtPlaces
  <2>3. 1 \in 1..Len(At(s, set))
    BY <2>2
  <2>4. \E j \in set : At(s, set)[1] = s[j]
    BY <2>2, <2>3
  <2>5. \E j \in same(i) : At(s, set)[1] = s[j]
    BY <2>1, <2>4
  <2> QED BY <2>5 DEF set
<1>4. ASSUME NEW i \in 1..Len(s) PROVE \E f \in places : Id(s[f]) = Id(s[i])
  <2>1. i \in same(i) /\ same(i) \in SUBSET (1..Len(s))
    OBVIOUS
  <2>2. PICK f \in same(i) : \A j \in same(i) : f <= j
    <3> HIDE DEF same
    <3> QED BY <1>0, <2>1, FirstAndLast
  <2>3. f \in 1..Len(s) /\ Id(s[f]) = Id(s[i])
    OBVIOUS
  <2>4. \A j \in 1..(f - 1) : Id(s[j]) # Id(s[f])
    <3> SUFFICES ASSUME NEW j \in 1..(f - 1), Id(s[j]) = Id(s[f]) PROVE FALSE
      OBVIOUS
    <3>1. j \in 1..Len(s) /\ j < f
      BY <1>0, <2>3
    <3>2. j \in same(i)
      BY <2>3, <3>1
    <3> QED BY <1>0, <2>2, <2>3, <3>1, <3>2
  <2> QED BY <2>3, <2>4
<1>5. ASSUME NEW k \in 1..Len(firsts) PROVE \E j \in same(firsts[k]) : d[k] = s[j]
  <2>1. firsts[k] \in 1..Len(s)
    BY <1>2
  <2>2. d[k] = best(firsts[k])
    BY <1>1
  <2> HIDE DEF d, firsts, best
  <2> QED BY <1>3, <2>1, <2>2
<1> HIDE DEF d, firsts, best
<1>6. \A k \in 1..Len(firsts) : Id(d[k]) = Id(s[firsts[k]]) /\ \E i \in 1..Len(s) : d[k] = s[i]
  BY <1>5
<1>7. d \in Seq(RowSet) /\ Len(d) = Len(firsts)
  <2>1. \A k \in 1..Len(firsts) : d[k] \in RowSet
    BY <1>6, ElementOfSeq
  <2>2. d \in [1..Len(firsts) -> RowSet]
    BY <1>1, <2>1
  <2> QED BY <1>2, <2>2, FunctionInSeq
<1>8. ASSUME NEW k \in 1..Len(firsts), NEW l \in 1..Len(firsts), k < l PROVE Id(d[k]) # Id(d[l])
  <2>1. firsts[k] \in places /\ firsts[l] \in places /\ firsts[k] < firsts[l]
    BY <1>2, <1>8
  <2>2. firsts[k] \in 1..(firsts[l] - 1)
    BY <1>0, <2>1
  <2>3. Id(s[firsts[k]]) # Id(s[firsts[l]])
    BY <2>1, <2>2
  <2> HIDE DEF places
  <2> QED BY <1>6, <2>3
<1>9. DistinctIds(d)
  <2> SUFFICES ASSUME NEW k \in 1..Len(firsts), NEW l \in 1..Len(firsts), Id(d[k]) = Id(d[l]), k # l PROVE FALSE
    BY <1>7 DEF DistinctIds
  <2>1. k < l \/ l < k
    BY <1>2
  <2> QED BY <1>8, <2>1
<1>10. Ids(d) = Ids(s)
  <2>1. ASSUME NEW k \in 1..Len(firsts) PROVE Id(d[k]) \in Ids(s)
    BY <1>2, <1>6 DEF Ids
  <2>2. ASSUME NEW i \in 1..Len(s) PROVE Id(s[i]) \in Ids(d)
    <3>1. PICK f \in places : Id(s[f]) = Id(s[i])
      BY <1>4
    <3>2. PICK k \in 1..Len(firsts) : firsts[k] = f
      BY <1>2, <3>1
    <3>3. k \in 1..Len(d) /\ Id(d[k]) = Id(s[i])
      BY <1>6, <1>7, <3>1, <3>2
    <3> QED BY <3>3 DEF Ids
  <2> QED BY <1>7, <2>1, <2>2 DEF Ids
<1> QED BY <1>2, <1>6, <1>7, <1>9, <1>10 DEF d

\* Rows of a set of schedules are of its schedules, each at its scope or at the one asked for.
LEMMA RowsOfSet ==
  ASSUME NEW set, NEW at \in Scopes \union {Nowhere}
  PROVE  /\ RowsOf(set, at) \in Seq(RowSet)
         /\ \A k \in 1..Len(RowsOf(set, at)) :
              LET r == RowsOf(set, at)[k]
              IN  /\ r.sched \in set
                  /\ r.target = IF at = Nowhere THEN SourceScope(r) ELSE at
<1> DEFINE places == {i \in 1..Len(Schedules) : Schedules[i] \in set}
           listed == At(Schedules, places)
           row(s) == Row(s, IF at = Nowhere THEN GrantOf[s].scope ELSE at)
           rs == RowsOf(set, at)
<1>1. rs = [i \in 1..Len(listed) |-> row(listed[i])]
  BY DEF RowsOf
<1>2. /\ listed \in Seq(Grants) /\ Len(listed) \in Nat
      /\ AllOf(listed) = {Schedules[i] : i \in places}
  <2>1. Schedules \in Seq(Grants) /\ places \in SUBSET (1..Len(Schedules))
    BY TenantAssumption DEF Grants
  <2> HIDE DEF places
  <2> QED BY <2>1, RowsAt
<1>3. \A i \in 1..Len(listed) : listed[i] \in Grants /\ listed[i] \in set
  <2>1. \A i \in 1..Len(listed) : listed[i] \in AllOf(listed)
    BY DEF AllOf
  <2> HIDE DEF listed
  <2> QED BY <1>2, <2>1, ElementOfSeq
<1>4. ASSUME NEW s \in Grants
      PROVE  row(s) \in RowSet /\ row(s).sched = s
             /\ row(s).target = IF at = Nowhere THEN SourceScope(row(s)) ELSE at
  <2>1. (IF at = Nowhere THEN GrantOf[s].scope ELSE at) \in Scopes
    BY TenantAssumption DEF Grants
  <2> QED BY <2>1, RowType DEF SourceScope
<1> HIDE DEF listed, row, rs
<1>5. rs \in Seq(RowSet) /\ Len(rs) = Len(listed)
  <2>1. rs \in [1..Len(listed) -> RowSet]
    BY <1>1, <1>3, <1>4
  <2> QED BY <1>2, <2>1, FunctionInSeq
<1>6. \A k \in 1..Len(rs) : rs[k] = row(listed[k]) /\ listed[k] \in Grants /\ listed[k] \in set
  BY <1>1, <1>3, <1>5
<1>7. \A k \in 1..Len(rs) : /\ rs[k].sched \in set
                            /\ rs[k].target = IF at = Nowhere THEN SourceScope(rs[k]) ELSE at
  BY <1>4, <1>6
<1> QED BY <1>5, <1>7 DEF rs

-----------------------------------------------------------------------------
(* An eligibility that is the only one left to choose.                      *)

\* The tenant's schedules are finitely many, each with its place in ARM's order.
LEMMA RankType ==
  /\ IsFiniteSet(Grants)
  /\ \A s \in Grants : Rank(s) \in 1..Len(Schedules) /\ Schedules[Rank(s)] = s
<1>1. Schedules \in Seq(Grants) /\ Len(Schedules) \in Nat
  BY TenantAssumption, LenProperties DEF Grants
<1>2. ASSUME NEW s \in Grants PROVE Rank(s) \in 1..Len(Schedules) /\ Schedules[Rank(s)] = s
  <2>1. \E i \in 1..Len(Schedules) : Schedules[i] = s
    BY DEF Grants, AllOf
  <2> QED BY <2>1 DEF Rank
<1>3. IsFiniteSet(Grants)
  <2>1. IsFiniteSet(1..Len(Schedules))
    BY <1>1, FS_Interval
  <2>2. Schedules \in Surjection(1..Len(Schedules), Grants)
    <3>1. Schedules \in [1..Len(Schedules) -> Grants]
      BY <1>1, LenProperties
    <3>2. \A s \in Grants : \E i \in 1..Len(Schedules) : Schedules[i] = s
      BY DEF Grants, AllOf
    <3> QED BY <3>1, <3>2 DEF Surjection
  <2> QED BY <2>1, <2>2, FS_Surjection
<1> QED BY <1>2, <1>3

\* Of schedules of one grant, one is preferred to every other.
LEMMA PreferredExists ==
  ASSUME NEW set \in SUBSET Grants, set # {}
  PROVE  \E s \in set : \A o \in set \ {s} : Preferred(s, o)
<1> DEFINE direct == {s \in set : GrantOf[s].direct}
           best == IF direct # {} THEN direct ELSE set
           places == {Rank(s) : s \in best}
<1>1. Len(Schedules) \in Nat
  BY TenantAssumption, LenProperties
<1>2. best # {} /\ best \subseteq set
  OBVIOUS
<1> HIDE DEF best
<1>3. places \in SUBSET (1..Len(Schedules)) /\ places # {}
  BY <1>2, RankType
<1>4. PICK i \in places : \A j \in places : i <= j
  <2> HIDE DEF places
  <2> QED BY <1>1, <1>3, FirstAndLast
<1>5. PICK s \in best : Rank(s) = i
  OBVIOUS
<1>6. ASSUME NEW o \in set \ {s} PROVE Preferred(s, o)
  <2>1. GrantOf[s].direct \in BOOLEAN /\ GrantOf[o].direct \in BOOLEAN
    BY <1>2, TenantAssumption DEF Grants
  <2>2. CASE o \in best
    <3>1. Rank(s) <= Rank(o) /\ Rank(s) # Rank(o)
      BY <1>2, <1>4, <1>5, <2>2, RankType
    <3>2. Rank(s) < Rank(o)
      <4>1. Rank(s) \in 1..Len(Schedules) /\ Rank(o) \in 1..Len(Schedules)
        BY <1>2, <2>2, RankType
      <4> HIDE DEF Rank
      <4> QED BY <1>1, <3>1, <4>1
    <3>3. GrantOf[s].direct = GrantOf[o].direct
      BY <2>1, <2>2 DEF best
    <3> QED BY <3>2, <3>3 DEF Preferred
  <2>3. CASE o \notin best
    <3>1. GrantOf[s].direct /\ ~GrantOf[o].direct
      BY <2>1, <2>3 DEF best
    <3> QED BY <3>1 DEF Preferred
  <2> QED BY <2>2, <2>3
<1> QED BY <1>2, <1>5, <1>6

\* If one source is left, whatever else ARM said of the role at the target has ended, is
\* for a scope further out than the target itself, or is the same grant.
LEMMA SoleChoice ==
  ASSUME NEW roles \in SUBSET Grants, NEW role, NEW target, NEW schedule,
         Cardinality(Choose(roles, role, target, schedule)) = 1, env.now \in Int
  PROVE  LET s == Sole(Choose(roles, role, target, schedule))
         IN  /\ s \in roles /\ GrantOf[s].role = role /\ EligibleAt(s, env.now)
             /\ schedule \in {AnySchedule, s}
             /\ schedule = AnySchedule =>
                  \A o \in roles \ {s} :
                    \/ GrantOf[o].role # role \/ GrantOf[o].until <= env.now
                    \/ GrantOf[s].scope = target /\ GrantOf[o].scope # target
                    \/ SameGrant(o, s)
<1> DEFINE s == Sole(Choose(roles, role, target, schedule))
<1> DEFINE cands == {g \in roles : /\ GrantOf[g].role = role /\ EligibleAt(g, env.now)
                                   /\ schedule \in {AnySchedule, g}}
           exact == {g \in cands : GrantOf[g].scope = target}
           pool == IF exact # {} THEN exact ELSE cands
<1>1. Choose(roles, role, target, schedule) = Sources(pool)
  BY DEF Choose
<1>2. Sources(pool) \subseteq pool /\ pool \subseteq cands /\ pool \subseteq Grants
  BY DEF Sources
<1>3. Sources(pool) = {s}
  <2>1. IsFiniteSet(Sources(pool))
    <3> HIDE DEF pool
    <3>1. Sources(pool) \in SUBSET Grants
      BY <1>2
    <3> QED BY <3>1, RankType, FS_Subset
  <2>2. \E x : Sources(pool) = {x}
    <3> HIDE DEF pool
    <3> QED BY <1>1, <2>1, FS_Singleton
  <2> HIDE DEF pool
  <2> QED BY <1>1, <2>2 DEF Sole
<1> HIDE DEF s
<1>4. s \in pool
  BY <1>2, <1>3
<1>5. s \in roles /\ GrantOf[s].role = role /\ EligibleAt(s, env.now) /\ schedule \in {AnySchedule, s}
  BY <1>2, <1>4
<1>6. ASSUME schedule = AnySchedule, NEW o \in roles \ {s}, GrantOf[o].role = role,
             ~(GrantOf[o].until <= env.now), ~(GrantOf[s].scope = target /\ GrantOf[o].scope # target)
      PROVE  SameGrant(o, s)
  <2>1. GrantOf[o].until \in Int
    BY TenantAssumption DEF Grants
  <2>2. o \in cands
    BY <1>6, <2>1 DEF EligibleAt
  <2>3. o \in pool
    BY <1>4, <1>6, <2>2
  <2> DEFINE class == {g \in pool : SameGrant(o, g)}
  <2> HIDE DEF pool
  <2>4. o \in class /\ class \in SUBSET Grants
    BY <1>2, <2>3 DEF SameGrant
  <2>5. PICK g \in class : \A h \in class \ {g} : Preferred(g, h)
    <3> HIDE DEF class
    <3> QED BY <2>4, PreferredExists
  <2>6. g \in Sources(pool)
    BY <2>5 DEF Sources, SameGrant
  <2> QED BY <1>3, <2>5, <2>6
<1>7. \A o \in roles \ {s} : schedule = AnySchedule =>
        \/ GrantOf[o].role # role \/ GrantOf[o].until <= env.now
        \/ GrantOf[s].scope = target /\ GrantOf[o].scope # target
        \/ SameGrant(o, s)
  BY <1>6
<1> HIDE DEF cands, exact, pool
<1> QED BY <1>5, <1>7 DEF s

\* In particular it is one that was answered for, of the role asked for.
LEMMA SoleOfRole ==
  ASSUME NEW roles \in SUBSET Grants, NEW role, NEW target, NEW schedule,
         Cardinality(Choose(roles, role, target, schedule)) = 1
  PROVE  /\ Sole(Choose(roles, role, target, schedule)) \in roles
         /\ GrantOf[Sole(Choose(roles, role, target, schedule))].role = role
<1> DEFINE chosen == Choose(roles, role, target, schedule)
<1>1. /\ chosen \subseteq {g \in roles : GrantOf[g].role = role}
      /\ chosen \in SUBSET Grants
  BY DEF Choose, Sources
<1> HIDE DEF chosen
<1>2. \E x : chosen = {x}
  <2>1. IsFiniteSet(chosen)
    BY <1>1, RankType, FS_Subset
  <2>2. Cardinality(chosen) = 1
    BY DEF chosen
  <2> QED BY <2>1, <2>2, FS_Singleton
<1>3. Sole(chosen) \in chosen
  BY <1>2 DEF Sole
<1>4. Sole(chosen) \in roles /\ GrantOf[Sole(chosen)].role = role
  BY <1>1, <1>3
<1> QED BY <1>4 DEF chosen

\* So an answer that holds only the caller's schedules at or above the target
\* leaves no doubt which one is meant.
LEMMA SoleIsSingle ==
  ASSUME NEW roles \in SUBSET Grants, NEW role, NEW target,
         \A g \in roles : Mine(g) /\ GrantOf[g].scope \in Above[target],
         Cardinality(Choose(roles, role, target, AnySchedule)) = 1, env.now \in Int
  PROVE  Singles(roles, Sole(Choose(roles, role, target, AnySchedule)), role, target)
<1> DEFINE s == Sole(Choose(roles, role, target, AnySchedule))
<1>1. /\ s \in roles /\ GrantOf[s].role = role
      /\ \A o \in roles \ {s} :
           \/ GrantOf[o].role # role \/ GrantOf[o].until <= env.now
           \/ GrantOf[s].scope = target /\ GrantOf[o].scope # target
           \/ SameGrant(o, s)
  BY SoleChoice
<1> HIDE DEF s
<1>2. Singles(roles, s, role, target)
  BY <1>1 DEF Singles, SameGrant
<1> QED BY <1>2 DEF s

-----------------------------------------------------------------------------
(* Types.                                                                   *)

File       == [there : BOOLEAN, fetched : Int, roles : SUBSET Grants]
PolicyFile == [there : BOOLEAN, fetched : Int, policy : Policies]
Known      == UNION {[scopes -> SUBSET Grants] : scopes \in SUBSET Scopes}
SavedSet   == [role : Roles, target : Scopes, source : Scopes]
Reasons    == {"none", "earlier", "typed", "default", "flag"}
Outs       == {"none", "kept", "expired", "failed", "skipped", "sent", "rejected"}
ItemSet    == [row : RowSet, keep : BOOLEAN, looked : BOOLEAN, fresh : BOOLEAN,
               policy : Policies, hours : Nat, error : BOOLEAN, out : Outs]

OptType == opt \in [mode : Modes, tty : BOOLEAN, yes : BOOLEAN, reason : BOOLEAN,
                    refresh : BOOLEAN, at : Scopes \union {Nowhere}]
EnvType == env \in [now : 0..MaxTime, grants : Worlds, changes : 0..MaxChanges, interrupted : BOOLEAN]
FilesType == files \in [listing : File, scoped : [Scopes -> File], policies : [Targets -> PolicyFile]]
TodoType == todo \in [next : Nat \ {0}, failed : BOOLEAN, read : Known, found : Seq(RowSet)]
PlanType == plan \in Seq(ItemSet) /\ \A i \in 1..Len(plan) :
              plan[i].policy # NoPolicy => plan[i].hours \in 1..plan[i].policy.max
MemoryType == memory \in [reason : Reasons, preset : Seq(SavedSet), project : Seq(Targets), created : BOOLEAN]
ConsentType == consent \in [hours : Nat, ticket : BOOLEAN, reason : Reasons, prompted : BOOLEAN,
                            confirmed : Nat, selected : SUBSET Targets, sources : SUBSET Grants]
AnswersType == answers \subseteq (Scopes \union {"all"}) \X SUBSET Grants

\* A picker of one choice is over the scopes, any other over the rows.
ModelType ==
  IF stage = "picking"
    THEN OnScreen(model) /\ Len(model.items) = (IF model.single THEN Len(ScopeList) ELSE Len(rows))
    ELSE model = NoModel

\* What is read at one target is read at a scope.
AtType == stage \in {"narrow", "scope"} => opt.at \in Scopes

Types ==
  /\ stage \in Stages /\ OptType /\ EnvType /\ FilesType /\ TodoType /\ rows \in Seq(RowSet)
  /\ PlanType /\ MemoryType /\ ConsentType /\ AnswersType /\ ModelType /\ AtType

\* What Types says is what the runs check.
LEMMA TypesOK == Types => TypeOK
<1> SUFFICES ASSUME Types PROVE TypeOK
  OBVIOUS
<1> USE DEF Types
<1>1. stage \in Stages /\ opt.mode \in Modes /\ opt.at \in Scopes \union {Nowhere}
  BY DEF OptType
<1>2. env.now \in 0..MaxTime /\ env.grants \in Worlds /\ env.changes \in 0..MaxChanges
  BY DEF EnvType
<1>3. files.listing.roles \subseteq AllOf(Schedules) /\ \A s \in Scopes : files.scoped[s].roles \subseteq AllOf(Schedules)
  BY DEF FilesType, File, Grants
<1>4. \A r \in AllOf(rows) : r.sched \in AllOf(Schedules) /\ r.target \in Scopes
  <2>1. \A i \in 1..Len(rows) : rows[i] \in RowSet
    BY ElementOfSeq
  <2> QED BY <2>1 DEF AllOf, RowSet, Grants
<1>5. \A i \in Items : plan[i].policy # NoPolicy => plan[i].hours \in 1..plan[i].policy.max
  BY DEF PlanType, Items
<1>6. AllOf(memory.project) \subseteq Targets
  <2>1. memory.project \in Seq(Targets)
    BY DEF MemoryType
  <2> QED BY <2>1, ElementOfSeq DEF AllOf
<1>7. model.end = "none" \/ model.selected \subseteq 1..Len(model.items)
  BY DEF ModelType, NoModel, OnScreen, IsPicker
<1> QED BY <1>1, <1>2, <1>3, <1>4, <1>5, <1>6, <1>7 DEF TypeOK

\* A policy that is read is one.
LEMMA PolicyType ==
  ASSUME NEW k \in Targets
  PROVE  RoleSettings(k) \in Policies /\ OldPolicyAt[k] \in Policies \ {NoPolicy} /\ NoPolicy \in Policies
<1>1. NoPolicy \in Policies
  BY DEF Policies, NoPolicy
<1>2. ASSUME NEW rules, "expiration" \in DOMAIN rules => rules.expiration \in Nat \ {0} PROVE ParseRules(rules) \in Policies
  BY <1>1, <1>2 DEF ParseRules, Policies
<1>3. ParseRules(PolicyAt[k].effective) \in Policies /\ ParseRules(PolicyAt[k].document) \in Policies
  BY <1>2, TenantAssumption
<1> QED BY <1>1, <1>3, TenantAssumption DEF RoleSettings

\* A duration is within a policy there is.
LEMMA DurationType ==
  ASSUME NEW hours \in Nat, NEW policy \in Policies
  PROVE  /\ ResolveDuration(hours, policy.max) \in Nat
         /\ policy # NoPolicy => ResolveDuration(hours, policy.max) \in 1..policy.max
BY DEF ResolveDuration, AtMost, Policies

\* What ARM lists are schedules of the tenant.
LEMMA GrantsSubsets ==
  ASSUME EnvType
  PROVE  /\ env.grants \in SUBSET Grants
         /\ \A s : EligibilitiesAtScope(s) \in SUBSET Grants
         /\ {s \in env.grants : Mine(s)} \in SUBSET Grants
BY PlanningAssumption DEF EnvType, EligibilitiesAtScope, Grants

\* So is what a scope is told to hold, by the cache or by ARM.
LEMMA ToldType ==
  ASSUME EnvType, FilesType, NEW s \in Scopes
  PROVE  Told(s) \in SUBSET Grants
BY GrantsSubsets DEF FilesType, File, Told

\* Reading a scope keeps the caches and the answers what they are.
LEMMA ReadsType ==
  ASSUME EnvType, FilesType, AnswersType, NEW s \in Scopes, Reads(s) \/ ReadFails(s)
  PROVE  FilesType' /\ AnswersType'
<1>1. CASE UNCHANGED <<files, answers>>
  BY <1>1 DEF FilesType, AnswersType
<1>2. CASE files' = [files EXCEPT !.scoped[s] = Listing(Told(s))] /\ answers' = answers \union {<<s, Told(s)>>}
  <2>1. Told(s) \in SUBSET Grants /\ env.now \in Int
    BY ToldType, PlanningAssumption DEF EnvType
  <2>2. Listing(Told(s)) \in File
    BY <2>1 DEF Listing, File
  <2>3. FilesType'
    BY <1>2, <2>2 DEF FilesType
  <2>4. AnswersType'
    BY <1>2, <2>1 DEF AnswersType
  <2> QED BY <2>3, <2>4
<1> QED BY <1>1, <1>2 DEF Reads, ReadFails

\* The command starts so.
LEMMA TypeInit == Init => Types
<1> SUFFICES ASSUME Init PROVE Types
  OBVIOUS
<1>1. OptType /\ stage \in Stages
  BY PlanningAssumption DEF Init, OptType, Stages
<1>2. EnvType
  BY PlanningAssumption DEF Init, EnvType
<1>3. TodoType
  <2>1. [s \in {} |-> {}] \in Known
    BY DEF Known
  <2> QED BY <2>1, EmptySeq DEF Init, TodoType, NoTodo
<1>4. rows \in Seq(RowSet) /\ PlanType /\ ModelType /\ AtType
  BY EmptySeq DEF Init, PlanType, ModelType, AtType
<1>5. ConsentType
  BY DEF Init, ConsentType, NoConsent, Reasons
<1>6. MemoryType
  <2>1. \E preset \in (IF opt.mode \in {"preset", "initPreset"} THEN Presets ELSE {<<>>}) :
          memory = [reason |-> "earlier", preset |-> preset, project |-> Requirements, created |-> FALSE]
    BY DEF Init
  <2>2. \A preset \in (IF opt.mode \in {"preset", "initPreset"} THEN Presets ELSE {<<>>}) : preset \in Seq(SavedSet)
    BY PlanningAssumption, EmptySeq DEF SavedSet
  <2> QED BY <2>1, <2>2, PlanningAssumption DEF MemoryType, Reasons
<1>7. FilesType /\ AnswersType
  <2>0. \A k \in Targets : NoPolicy \in Policies /\ OldPolicyAt[k] \in Policies
    BY PolicyType
  <2>1. CASE /\ answers = {}
             /\ files = [listing |-> NoFile, scoped |-> [s \in Scopes |-> NoFile],
                         policies |-> [k \in Targets |-> [there |-> FALSE, fetched |-> 0, policy |-> NoPolicy]]]
    <3>1. NoFile \in File
      BY DEF NoFile, File
    <3>2. \A k \in Targets : [there |-> FALSE, fetched |-> 0, policy |-> NoPolicy] \in PolicyFile
      BY <2>0 DEF PolicyFile
    <3> QED BY <2>1, <3>1, <3>2 DEF FilesType, AnswersType
  <2>2. ASSUME NEW left \in Leftovers, Earlier(left[1], left[2]) PROVE FilesType /\ AnswersType
    <3> DEFINE granted(s) == {g \in left[1] : GrantOf[g].scope \in Above[s] /\ Mine(g)}
               mine == {g \in left[1] : Mine(g)}
               file(set) == [there |-> TRUE, fetched |-> left[2], roles |-> set]
    <3>1. left[1] \subseteq Grants /\ left[2] \in Int
      BY PlanningAssumption DEF Grants
    <3>2. mine \in SUBSET Grants /\ \A s : granted(s) \in SUBSET Grants
      BY <3>1
    <3>3. files = [listing |-> file(mine), scoped |-> [s \in Scopes |-> file(granted(s))],
                   policies |-> [k \in Targets |-> [there |-> TRUE, fetched |-> left[2], policy |-> OldPolicyAt[k]]]]
      BY <2>2 DEF Earlier
    <3>4. answers = {} \/ answers = {<<"all", mine>>} \union {<<s, granted(s)>> : s \in Scopes}
      BY <2>2 DEF Earlier
    <3> HIDE DEF mine, granted
    <3>5. \A set \in SUBSET Grants : file(set) \in File
      BY <3>1 DEF File
    <3> HIDE DEF file
    <3>6. \A k \in Targets : [there |-> TRUE, fetched |-> left[2], policy |-> OldPolicyAt[k]] \in PolicyFile
      BY <2>0, <3>1 DEF PolicyFile
    <3> QED BY <3>2, <3>3, <3>4, <3>5, <3>6 DEF FilesType, AnswersType
  <2> QED BY <2>1, <2>2 DEF Init
<1> QED BY <1>1, <1>2, <1>3, <1>4, <1>5, <1>6, <1>7 DEF Types

\* Rows built from a listing, chosen by a name, by keys or by a saved selection are rows.
LEMMA NamedRows ==
  ASSUME NEW s \in Seq(RowSet), NEW filter
  PROVE  /\ SelectByName(s, filter) \in Seq(RowSet) /\ Len(SelectByName(s, filter)) \in Nat
         /\ AllOf(SelectByName(s, filter)) \subseteq AllOf(s)
         /\ DistinctIds(s) => DistinctIds(SelectByName(s, filter))
<1> DEFINE name(i) == NameOf[GrantOf[s[i].sched].role]
           exact   == {i \in 1..Len(s) : name(i) = filter}
           within  == {i \in 1..Len(s) : Contains(name(i), filter)}
           places  == IF exact # {} THEN exact ELSE within
<1>1. SelectByName(s, filter) = At(s, places) /\ places \in SUBSET (1..Len(s))
  BY DEF SelectByName
<1> HIDE DEF places
<1>2. {s[i] : i \in places} \subseteq AllOf(s)
  BY <1>1 DEF AllOf
<1> QED BY <1>1, <1>2, RowsAt

\* Rows taken by their keys are rows offered, and none twice.
LEMMA KeyedRows ==
  ASSUME NEW s \in Seq(RowSet), NEW keys \in Seq(SUBSET Targets),
         \A k \in 1..Len(keys) : Cardinality(Hits(s, keys[k])) = 1
  PROVE  /\ SelectByKeys(s, keys) \in Seq(RowSet) /\ Len(SelectByKeys(s, keys)) \in Nat
         /\ AllOf(SelectByKeys(s, keys)) \subseteq AllOf(s)
         /\ DistinctIds(s) => DistinctIds(SelectByKeys(s, keys))
<1> DEFINE hit(k) == CHOOSE i \in Hits(s, keys[k]) : TRUE
           places == {k \in 1..Len(keys) : \A j \in 1..(k - 1) : hit(j) # hit(k)}
           firsts == InOrder(places)
           t == SelectByKeys(s, keys)
<1>0. Len(s) \in Nat /\ Len(keys) \in Nat /\ places \in SUBSET (1..Len(keys))
  BY LenProperties
<1>1. t = [n \in 1..Len(firsts) |-> s[hit(firsts[n])]]
  BY DEF SelectByKeys
<1>2. ASSUME NEW k \in 1..Len(keys) PROVE hit(k) \in 1..Len(s)
  <2>1. Hits(s, keys[k]) # {}
    BY FS_EmptySet
  <2> QED BY <2>1 DEF Hits
<1>3. /\ Len(firsts) \in Nat
      /\ \A k \in 1..Len(firsts) : firsts[k] \in places
      /\ \A k, l \in 1..Len(firsts) : k < l => firsts[k] < firsts[l]
  <2> HIDE DEF places
  <2> QED BY <1>0, Ordered
<1> HIDE DEF hit, firsts, t
<1>4. \A n \in 1..Len(firsts) : hit(firsts[n]) \in 1..Len(s)
  BY <1>2, <1>3
<1>5. t \in Seq(RowSet) /\ Len(t) = Len(firsts)
  <2>1. \A n \in 1..Len(firsts) : s[hit(firsts[n])] \in RowSet
    BY <1>4, ElementOfSeq
  <2>2. t \in [1..Len(firsts) -> RowSet]
    BY <1>1, <2>1
  <2> QED BY <1>3, <2>2, FunctionInSeq
<1>6. \A n \in 1..Len(t) : t[n] = s[hit(firsts[n])] /\ hit(firsts[n]) \in 1..Len(s)
  BY <1>1, <1>4, <1>5
<1>7. AllOf(t) \subseteq AllOf(s)
  BY <1>6 DEF AllOf
<1>8. ASSUME NEW k \in 1..Len(firsts), NEW l \in 1..Len(firsts), k < l PROVE hit(firsts[k]) # hit(firsts[l])
  <2>1. firsts[k] \in places /\ firsts[l] \in places /\ firsts[k] < firsts[l]
    BY <1>3, <1>8
  <2>2. firsts[k] \in 1..(firsts[l] - 1)
    BY <1>0, <2>1
  <2> QED BY <2>1, <2>2
<1>9. DistinctIds(s) => DistinctIds(t)
  <2> SUFFICES ASSUME DistinctIds(s), NEW k \in 1..Len(t), NEW l \in 1..Len(t), Id(t[k]) = Id(t[l]), k # l PROVE FALSE
    BY DEF DistinctIds
  <2>1. hit(firsts[k]) = hit(firsts[l])
    BY <1>6 DEF DistinctIds
  <2>2. k < l \/ l < k
    BY <1>3, <1>5
  <2> QED BY <1>5, <1>8, <2>1, <2>2
<1> QED BY <1>3, <1>5, <1>7, <1>9 DEF t

\* A saved entry takes the last of the rows it names; entries differ, so their rows do.
LEMMA PresetRows ==
  ASSUME rows \in Seq(RowSet), memory.preset \in Seq(SavedSet)
  PROVE  /\ SavedRows \in Seq(RowSet) /\ Len(SavedRows) \in Nat
         /\ AllOf(SavedRows) \subseteq AllOf(rows)
         /\ (\A i, j \in 1..Len(memory.preset) :
               <<memory.preset[i].role, memory.preset[i].target>> = <<memory.preset[j].role, memory.preset[j].target>>
                 => i = j) => DistinctIds(SavedRows)
<1> DEFINE p == memory.preset
           of(e) == {i \in 1..Len(rows) : Id(rows[i]) = <<e.role, e.target>>}
           places == {k \in 1..Len(p) : of(p[k]) # {}}
           left == At(p, places)
           last(e) == CHOOSE i \in of(e) : \A j \in of(e) : j <= i
           t == SavedRows
<1>0. Len(rows) \in Nat /\ places \in SUBSET (1..Len(p))
  BY LenProperties
<1>1. t = [k \in 1..Len(left) |-> rows[last(left[k])]]
  BY DEF SavedRows
<1>2. /\ Len(left) \in Nat
      /\ \A k \in 1..Len(left) : InOrder(places)[k] \in places /\ left[k] = p[InOrder(places)[k]]
      /\ \A k, l \in 1..Len(left) : InOrder(places)[k] = InOrder(places)[l] => k = l
  <2> HIDE DEF places
  <2> QED BY <1>0, AtPlaces
<1>3. ASSUME NEW e, of(e) # {} PROVE last(e) \in of(e)
  <2>1. of(e) \in SUBSET (1..Len(rows))
    OBVIOUS
  <2>2. \E i \in of(e) : \A j \in of(e) : j <= i
    <3> HIDE DEF of
    <3> QED BY <1>0, <1>3, <2>1, FirstAndLast
  <2> HIDE DEF of
  <2> QED BY <2>2
<1>4. ASSUME NEW k \in 1..Len(left)
      PROVE  /\ last(left[k]) \in 1..Len(rows) /\ Id(rows[last(left[k])]) = <<left[k].role, left[k].target>>
             /\ InOrder(places)[k] \in 1..Len(p)
  <2>1. InOrder(places)[k] \in places /\ left[k] = p[InOrder(places)[k]]
    BY <1>2
  <2>2. InOrder(places)[k] \in 1..Len(p) /\ of(left[k]) # {}
    BY <2>1
  <2> HIDE DEF left, places, last
  <2>3. last(left[k]) \in of(left[k])
    BY <1>3, <2>2
  <2> QED BY <2>2, <2>3
<1> HIDE DEF t, last, left, places
<1>5. t \in Seq(RowSet) /\ Len(t) = Len(left)
  <2>1. \A k \in 1..Len(left) : rows[last(left[k])] \in RowSet
    BY <1>4, ElementOfSeq
  <2>2. t \in [1..Len(left) -> RowSet]
    BY <1>1, <2>1
  <2> QED BY <1>2, <2>2, FunctionInSeq
<1>6. \A k \in 1..Len(t) : t[k] = rows[last(left[k])] /\ last(left[k]) \in 1..Len(rows)
                           /\ Id(t[k]) = <<left[k].role, left[k].target>>
  BY <1>1, <1>4, <1>5
<1>7. AllOf(t) \subseteq AllOf(rows)
  BY <1>6 DEF AllOf
<1>8. ASSUME \A i, j \in 1..Len(p) : <<p[i].role, p[i].target>> = <<p[j].role, p[j].target>> => i = j
      PROVE  DistinctIds(t)
  <2> SUFFICES ASSUME NEW k \in 1..Len(t), NEW l \in 1..Len(t), Id(t[k]) = Id(t[l]) PROVE k = l
    BY DEF DistinctIds
  <2> DEFINE i == InOrder(places)[k]
             j == InOrder(places)[l]
  <2>1. i \in 1..Len(p) /\ j \in 1..Len(p) /\ left[k] = p[i] /\ left[l] = p[j]
    BY <1>2, <1>4, <1>5
  <2>2. <<p[i].role, p[i].target>> = <<p[j].role, p[j].target>>
    BY <1>6, <2>1
  <2>3. i = j
    BY <1>8, <2>1, <2>2
  <2> QED BY <1>2, <1>5, <2>3
<1> QED BY <1>2, <1>5, <1>7, <1>8 DEF t

-----------------------------------------------------------------------------
(* Every step keeps the types.                                              *)

\* What a step leaves alone keeps its type.
LEMMA Frame ==
  ASSUME Types
  PROVE  /\ opt' = opt => OptType'
         /\ env' = env => EnvType'
         /\ files' = files => FilesType'
         /\ todo' = todo => TodoType'
         /\ rows' = rows => rows' \in Seq(RowSet)
         /\ plan' = plan => PlanType'
         /\ memory' = memory => MemoryType'
         /\ consent' = consent => ConsentType'
         /\ answers' = answers => AnswersType'
         /\ model' = model /\ stage # "picking" /\ stage' # "picking" => ModelType'
<1> USE DEF Types
<1>1. (opt' = opt => OptType') /\ (env' = env => EnvType') /\ (files' = files => FilesType')
  BY DEF OptType, EnvType, FilesType
<1>2. (todo' = todo => TodoType') /\ (rows' = rows => rows' \in Seq(RowSet)) /\ (plan' = plan => PlanType')
  BY DEF TodoType, PlanType
<1>3. (memory' = memory => MemoryType') /\ (consent' = consent => ConsentType') /\ (answers' = answers => AnswersType')
  BY DEF MemoryType, ConsentType, AnswersType
<1>4. model' = model /\ stage # "picking" /\ stage' # "picking" => ModelType'
  BY DEF ModelType
<1> QED BY <1>1, <1>2, <1>3, <1>4

\* Selecting rows notes what they are for.
LEMMA Selecting ==
  ASSUME ConsentType, NEW chosen \in Seq(RowSet), Selects(chosen)
  PROVE  /\ rows' = chosen /\ ConsentType' /\ stage' \in {"refused", "target"}
         /\ consent' = [consent EXCEPT !.selected = Ids(chosen), !.sources = Scheds(chosen)]
<1>1. {Id(r) : r \in AllOf(chosen)} = Ids(chosen) /\ {r.sched : r \in AllOf(chosen)} = Scheds(chosen)
  BY DEF AllOf, Ids, Scheds
<1>2. Ids(chosen) \subseteq Targets /\ Scheds(chosen) \subseteq Grants
  BY IdType, ElementOfSeq DEF Ids, Scheds, RowSet
<1>3. consent' = [consent EXCEPT !.selected = Ids(chosen), !.sources = Scheds(chosen)]
  BY <1>1 DEF Selects
<1>4. rows' = chosen /\ stage' \in {"refused", "target"}
  BY DEF Selects, Go, Refused
<1> QED BY <1>2, <1>3, <1>4 DEF ConsentType

\* The rows chosen are of those offered, and for different targets if those were,
\* or if the saved selection's are.
LEMMA Choosing ==
  ASSUME Types, ChooseRows
  PROVE  \/ stage' = "refused" /\ UNCHANGED <<rows, consent>>
         \/ \E chosen \in Seq(RowSet) :
              /\ Selects(chosen) /\ AllOf(chosen) \subseteq AllOf(rows)
              /\ opt.mode # "preset" /\ DistinctIds(rows) => DistinctIds(chosen)
              /\ opt.mode = "preset" /\ (\A i, j \in 1..Len(memory.preset) :
                   <<memory.preset[i].role, memory.preset[i].target>> = <<memory.preset[j].role, memory.preset[j].target>>
                     => i = j) => DistinctIds(chosen)
<1> DEFINE Goal == \/ stage' = "refused" /\ UNCHANGED <<rows, consent>>
         \/ \E chosen \in Seq(RowSet) :
              /\ Selects(chosen) /\ AllOf(chosen) \subseteq AllOf(rows)
              /\ opt.mode # "preset" /\ DistinctIds(rows) => DistinctIds(chosen)
              /\ opt.mode = "preset" /\ (\A i, j \in 1..Len(memory.preset) :
                   <<memory.preset[i].role, memory.preset[i].target>> = <<memory.preset[j].role, memory.preset[j].target>>
                     => i = j) => DistinctIds(chosen)
<1>0. rows \in Seq(RowSet) /\ memory.preset \in Seq(SavedSet)
  BY DEF Types, MemoryType
<1>1. CASE opt.mode = "all" /\ Selects(rows)
  BY <1>0, <1>1
<1>2. CASE opt.mode = "preset" /\ Selects(SavedRows)
  BY <1>0, <1>2, PresetRows
<1>3. CASE /\ opt.mode = "names"
           /\ \E filter : LET named == SelectByName(rows, filter)
                          IN  (Refused /\ UNCHANGED <<rows, consent>>) \/ Selects(named)
  <2>1. PICK filter : (Refused /\ UNCHANGED <<rows, consent>>) \/ Selects(SelectByName(rows, filter))
    BY <1>3
  <2> QED BY <1>0, <1>3, <2>1, NamedRows DEF Refused
<1>4. CASE /\ opt.mode = "keys"
           /\ \E keys \in TypedKeys :
                IF \E k \in 1..Len(keys) : Cardinality(Hits(rows, keys[k])) # 1
                  THEN Refused /\ UNCHANGED <<rows, consent>>
                  ELSE Selects(SelectByKeys(rows, keys))
  <2>1. PICK keys \in TypedKeys :
          IF \E k \in 1..Len(keys) : Cardinality(Hits(rows, keys[k])) # 1
            THEN Refused /\ UNCHANGED <<rows, consent>>
            ELSE Selects(SelectByKeys(rows, keys))
    BY <1>4
  <2>2. keys \in Seq(SUBSET Targets)
    BY PlanningAssumption
  <2>3. CASE \A k \in 1..Len(keys) : Cardinality(Hits(rows, keys[k])) = 1
    BY <1>0, <1>4, <2>1, <2>2, <2>3, KeyedRows
  <2> QED BY <2>1, <2>3 DEF Refused
<1> QED
  <2>1. \/ opt.mode = "all" /\ Selects(rows)
        \/ opt.mode = "preset" /\ Selects(SavedRows)
        \/ /\ opt.mode = "names"
           /\ \E role \in Roles, c \in Chars, force \in BOOLEAN :
                \E filter \in {NameOf[role], <<c>>} :
                  LET named == SelectByName(rows, filter)
                  IN  IF Len(named) > MaxUnattended /\ ~force
                        THEN Refused /\ UNCHANGED <<rows, consent>>
                        ELSE Selects(named)
        \/ /\ opt.mode = "keys"
           /\ \E keys \in TypedKeys :
                IF \E k \in 1..Len(keys) : Cardinality(Hits(rows, keys[k])) # 1
                  THEN Refused /\ UNCHANGED <<rows, consent>>
                  ELSE Selects(SelectByKeys(rows, keys))
    BY DEF ChooseRows
  <2>2. (\E role \in Roles, c \in Chars, force \in BOOLEAN :
                \E filter \in {NameOf[role], <<c>>} :
                  LET named == SelectByName(rows, filter)
                  IN  IF Len(named) > MaxUnattended /\ ~force
                        THEN Refused /\ UNCHANGED <<rows, consent>>
                        ELSE Selects(named))
        => \E filter : LET named == SelectByName(rows, filter)
                          IN  (Refused /\ UNCHANGED <<rows, consent>>) \/ Selects(named)
    OBVIOUS
  <2> QED BY <2>1, <2>2, <1>1, <1>2, <1>3, <1>4

\* What ARM or the cache lists is offered as rows, one for each role and scope.
LEMMA Offering ==
  ASSUME NEW set \in SUBSET Grants, Offers(set)
  PROVE  /\ rows' = Dedupe(RowsOf(set, Nowhere)) /\ rows' \in Seq(RowSet) /\ DistinctIds(rows')
         /\ \A k \in 1..Len(rows') : rows'[k].sched \in set /\ rows'[k].target = SourceScope(rows'[k])
         /\ stage' = IF rows' = <<>> THEN "refused"
                     ELSE IF opt.mode = "preset" THEN "saved" ELSE IF opt.mode = "pick" THEN "offer" ELSE "choose"
<1>1. /\ RowsOf(set, Nowhere) \in Seq(RowSet)
      /\ \A k \in 1..Len(RowsOf(set, Nowhere)) :
           LET r == RowsOf(set, Nowhere)[k] IN r.sched \in set /\ r.target = SourceScope(r)
  BY RowsOfSet
<1>2. rows' = Dedupe(RowsOf(set, Nowhere))
  BY DEF Offers
<1>3. stage' = IF rows' = <<>> THEN "refused"
               ELSE IF opt.mode = "preset" THEN "saved" ELSE IF opt.mode = "pick" THEN "offer" ELSE "choose"
  BY DEF Offers, Go, Refused
<1> QED BY <1>1, <1>2, <1>3, Deduped

\* A step that reads the eligibilities changes them together with the answers.
LEMMA Listed ==
  ASSUME Types, ReadEligibilities
  PROVE  /\ FilesType' /\ AnswersType' /\ rows' \in Seq(RowSet)
         /\ stage' \in {"saved", "offer", "choose", "refused"}
<1>0. EnvType /\ FilesType /\ AnswersType /\ rows \in Seq(RowSet)
  BY DEF Types
<1> DEFINE live == {s \in env.grants : Mine(s)}
<1>1. live \in SUBSET Grants /\ files.listing.roles \in SUBSET Grants
  BY <1>0, GrantsSubsets DEF FilesType, File
<1>2. CASE UNCHANGED <<files, answers>> /\ (Offers(files.listing.roles) \/ (Refused /\ UNCHANGED rows))
  <2>1. FilesType' /\ AnswersType'
    BY <1>0, <1>2 DEF FilesType, AnswersType
  <2> QED BY <1>0, <1>1, <1>2, <2>1, Offering DEF Refused
<1>3. CASE Offers(live) /\ files' = [files EXCEPT !.listing = Listing(live)] /\ answers' = answers \union {<<"all", live>>}
  <2> HIDE DEF live
  <2>1. Listing(live) \in File
    BY <1>0, <1>1, PlanningAssumption DEF Listing, File, EnvType
  <2>2. FilesType' /\ AnswersType'
    BY <1>0, <1>1, <1>3, <2>1 DEF FilesType, AnswersType
  <2> QED BY <1>1, <1>3, <2>2, Offering
<1> QED BY <1>2, <1>3 DEF ReadEligibilities

\* The rows a selection saved are read again, each at its scope.
LEMMA SavedType ==
  ASSUME Types, ResolveSaved
  PROVE  /\ FilesType' /\ AnswersType' /\ TodoType' /\ rows' \in Seq(RowSet)
         /\ stage' \in {"saved", "refused"}
<1> DEFINE e == memory.preset[todo.next]
           sources == {s \in Told(e.target) : GrantOf[s].scope = e.source}
           chosen  == Choose(sources, e.role, e.target, AnySchedule)
<1>0. EnvType /\ FilesType /\ AnswersType /\ TodoType /\ rows \in Seq(RowSet) /\ MemoryType /\ stage = "saved"
  BY DEF Types, ResolveSaved
<1>1. e \in SavedSet
  <2>1. memory.preset \in Seq(SavedSet) /\ todo.next \in 1..Len(memory.preset)
    BY <1>0 DEF MemoryType, TodoType, ResolveSaved
  <2> QED BY <2>1, ElementOfSeq
<1>2. e.target \in Scopes
  BY <1>1 DEF SavedSet
<1>3. sources \in SUBSET Grants
  BY <1>0, <1>2, ToldType
<1>4. Cardinality(chosen) = 1 => Sole(chosen) \in Grants
  <2> SUFFICES ASSUME Cardinality(chosen) = 1 PROVE Sole(chosen) \in Grants
    OBVIOUS
  <2>1. env.now \in Int
    BY <1>0, PlanningAssumption DEF EnvType
  <2> HIDE DEF e, sources
  <2>2. Sole(chosen) \in sources
    BY <1>3, <2>1, SoleChoice
  <2> QED BY <1>3, <2>2
<1>5. FilesType' /\ AnswersType'
  <2>1. CASE UNCHANGED <<files, answers>>
    BY <1>0, <2>1 DEF FilesType, AnswersType
  <2>2. CASE Reads(e.target) \/ ReadFails(e.target)
    BY <1>0, <1>2, <2>2, ReadsType
  <2> QED BY <2>1, <2>2 DEF ResolveSaved
<1>6. todo' = todo \/ todo' = [todo EXCEPT !.next = todo.next + 1]
  BY DEF ResolveSaved
<1>7. rows' = rows \/ (Cardinality(chosen) = 1 /\ rows' = Append(rows, Row(Sole(chosen), e.target)))
  BY DEF ResolveSaved
<1>8. stage' \in {"saved", "refused"}
  BY <1>0 DEF ResolveSaved, Refused
<1>9. TodoType'
  BY <1>0, <1>6 DEF TodoType
<1> HIDE DEF chosen, e
<1>10. rows' \in Seq(RowSet)
  BY <1>0, <1>2, <1>4, <1>7, RowType, AppendProperties
<1> QED BY <1>5, <1>8, <1>9, <1>10

\* Narrowing turns each row into one for the same role at the target.
LEMMA NarrowType ==
  ASSUME Types, Narrow, opt.at \in Scopes
  PROVE  /\ FilesType' /\ AnswersType' /\ TodoType' /\ rows' \in Seq(RowSet)
         /\ stage' \in {"narrow", "plan", "refused"}
<1>0. EnvType /\ FilesType /\ AnswersType /\ TodoType /\ rows \in Seq(RowSet) /\ stage = "narrow"
  BY DEF Types, Narrow
<1>1. CASE todo.next > Len(rows)
  <2>1. rows' = Dedupe(todo.found) /\ stage' = "plan" /\ UNCHANGED <<todo, files, answers>>
    BY <1>1 DEF Narrow, Narrowed, Go
  <2>2. rows' \in Seq(RowSet)
    BY <1>0, <2>1, Deduped DEF TodoType
  <2> QED BY <1>0, <2>1, <2>2 DEF FilesType, AnswersType, TodoType
<1>2. CASE ~(todo.next > Len(rows))
  <2> DEFINE r == rows[todo.next]
             chosen == Choose(Told(opt.at), GrantOf[r.sched].role, opt.at, r.sched)
  <2>1. /\ rows' = rows
        /\ \/ /\ Reads(opt.at)
              /\ IF Cardinality(chosen) = 1
                   THEN todo' = [todo EXCEPT !.next = @ + 1, !.found = Append(@, Row(Sole(chosen), opt.at))] /\ stage' = stage
                   ELSE Refused /\ UNCHANGED todo
           \/ ReadFails(opt.at) /\ Refused /\ UNCHANGED todo
    BY <1>2 DEF Narrow
  <2>2. Told(opt.at) \in SUBSET Grants /\ FilesType' /\ AnswersType'
    BY <1>0, <2>1, ToldType, ReadsType
  <2>3. Cardinality(chosen) = 1 => Sole(chosen) \in Grants
    <3> SUFFICES ASSUME Cardinality(chosen) = 1 PROVE Sole(chosen) \in Grants
      OBVIOUS
    <3>1. env.now \in Int
      BY <1>0, PlanningAssumption DEF EnvType
    <3> HIDE DEF r
    <3>2. Sole(chosen) \in Told(opt.at)
      BY <2>2, <3>1, SoleChoice
    <3> QED BY <2>2, <3>2
  <2> HIDE DEF chosen
  <2>4. TodoType'
    <3>1. CASE UNCHANGED todo
      BY <1>0, <3>1 DEF TodoType
    <3>2. CASE Cardinality(chosen) = 1 /\ todo' = [todo EXCEPT !.next = @ + 1, !.found = Append(@, Row(Sole(chosen), opt.at))]
      <4>1. Row(Sole(chosen), opt.at) \in RowSet
        BY <2>3, <3>2, RowType
      <4>2. Append(todo.found, Row(Sole(chosen), opt.at)) \in Seq(RowSet)
        BY <1>0, <4>1, AppendProperties DEF TodoType
      <4> DEFINE found == Append(todo.found, Row(Sole(chosen), opt.at))
      <4>3. todo' = [todo EXCEPT !.next = todo.next + 1, !.found = found]
        BY <3>2
      <4>4. found \in Seq(RowSet) /\ todo.next + 1 \in Nat \ {0}
        BY <1>0, <4>2 DEF TodoType
      <4> HIDE DEF found
      <4> QED BY <1>0, <4>3, <4>4 DEF TodoType
    <3> QED BY <2>1, <3>1, <3>2
  <2> QED BY <1>0, <2>1, <2>2, <2>4 DEF Refused
<1> QED BY <1>1, <1>2

\* What a project or a saved selection needs is looked up at its scope.
LEMMA NeedsType ==
  ASSUME Types
  PROVE  /\ Needs \in Seq(Targets) /\ Len(Needs) \in Nat
         /\ \A k \in 1..Len(Needs) : Needs[k][1] \in Roles /\ Needs[k][2] \in Scopes
<1>1. MemoryType
  BY DEF Types
<1>2. ASSUME Project PROVE Needs \in Seq(Targets)
  BY <1>1, <1>2 DEF Needs, MemoryType
<1>3. ASSUME ~Project PROVE Needs \in Seq(Targets)
  <2>1. memory.preset \in Seq(SavedSet)
    BY <1>1 DEF MemoryType
  <2>2. Len(memory.preset) \in Nat /\ \A i \in 1..Len(memory.preset) : memory.preset[i] \in SavedSet
    BY <2>1, LenProperties, ElementOfSeq
  <2>3. \A i \in 1..Len(memory.preset) : <<memory.preset[i].role, memory.preset[i].target>> \in Targets
    BY <2>2 DEF SavedSet, Targets
  <2>4. Needs \in [1..Len(memory.preset) -> Targets]
    BY <1>3, <2>3 DEF Needs
  <2> QED BY <2>2, <2>4, FunctionInSeq
<1>4. Needs \in Seq(Targets) /\ Len(Needs) \in Nat
  BY <1>2, <1>3, LenProperties
<1> HIDE DEF Needs
<1>5. \A k \in 1..Len(Needs) : Needs[k] \in Targets
  BY <1>4, ElementOfSeq
<1> QED BY <1>4, <1>5 DEF Targets

\* What the look-up of one need does, whether its scope was read before or is now.
LEMMA NeedResolved ==
  ASSUME Types, ResolveNeed
  PROVE  \E role \in Roles, scope \in Scopes, roles \in SUBSET Grants :
           LET chosen == Choose(roles, role, scope, AnySchedule)
           IN  /\ Needs[todo.next] = <<role, scope>> /\ todo.next \in 1..Len(Needs)
               /\ UNCHANGED <<rows, stage>>
               /\ \/ /\ \/ scope \in DOMAIN todo.read /\ roles = todo.read[scope] /\ UNCHANGED <<files, answers>>
                        \/ roles = Told(scope) /\ Reads(scope)
                     /\ todo'.next = todo.next + 1 /\ todo'.failed = (todo.failed \/ Cardinality(chosen) # 1)
                     /\ todo'.read = [s \in DOMAIN todo.read \union {scope} |-> IF s = scope THEN roles ELSE todo.read[s]]
                     /\ todo'.found = IF Cardinality(chosen) # 1 THEN todo.found
                                      ELSE Append(todo.found, Row(Sole(chosen), scope))
                     /\ todo' = [next |-> todo'.next, failed |-> todo'.failed, read |-> todo'.read, found |-> todo'.found]
                  \/ /\ UNCHANGED <<files, answers>>
                     /\ todo' = [todo EXCEPT !.next = todo.next + 1, !.failed = TRUE]
<1> DEFINE role  == Needs[todo.next][1]
           scope == Needs[todo.next][2]
           known == scope \in DOMAIN todo.read
           roles == IF known THEN todo.read[scope] ELSE Told(scope)
           chosen == Choose(roles, role, scope, AnySchedule)
<1>0. EnvType /\ FilesType /\ TodoType
  BY DEF Types
<1>1. todo.next \in 1..Len(Needs) /\ UNCHANGED <<rows, stage>>
  BY <1>0, NeedsType DEF ResolveNeed, TodoType
<1>2. role \in Roles /\ scope \in Scopes /\ Needs[todo.next] = <<role, scope>>
  <2>1. Needs[todo.next] \in Targets
    BY <1>1, NeedsType, ElementOfSeq
  <2> QED BY <2>1 DEF Targets
<1>3. roles \in SUBSET Grants
  <2>1. CASE known
    <3>1. todo.read \in Known
      BY <1>0 DEF TodoType
    <3>2. todo.read[scope] \in SUBSET Grants
      BY <2>1, <3>1 DEF Known
    <3> QED BY <2>1, <3>2
  <2>2. CASE ~known
    BY <1>0, <1>2, <2>2, ToldType
  <2> QED BY <2>1, <2>2
<1>4. \/ /\ IF known THEN UNCHANGED <<files, answers>> ELSE Reads(scope)
         /\ todo' = [todo EXCEPT !.next = @ + 1,
                                 !.read = [s \in DOMAIN @ \union {scope} |-> IF s = scope THEN roles ELSE @[s]],
                                 !.failed = Noted(@ \/ Cardinality(chosen) # 1),
                                 !.found = IF Cardinality(chosen) # 1 THEN @
                                           ELSE Append(@, Row(Sole(chosen), scope))]
      \/ /\ ~known /\ ReadFails(scope)
         /\ todo' = [todo EXCEPT !.next = @ + 1, !.failed = Noted(TRUE)]
  BY DEF ResolveNeed
<1>5. todo = [next |-> todo.next, failed |-> todo.failed, read |-> todo.read, found |-> todo.found]
  BY <1>0 DEF TodoType
<1>6. known => roles = todo.read[scope]
  OBVIOUS
<1>7. ~known => roles = Told(scope)
  OBVIOUS
<1> HIDE DEF known, chosen, roles, role, scope
<1> DEFINE read == [s \in DOMAIN todo.read \union {scope} |-> IF s = scope THEN roles ELSE todo.read[s]]
           failed == todo.failed \/ Cardinality(chosen) # 1
           found == IF Cardinality(chosen) # 1 THEN todo.found ELSE Append(todo.found, Row(Sole(chosen), scope))
<1>8. ASSUME todo' = [todo EXCEPT !.next = @ + 1, !.read = read, !.failed = failed, !.found = found]
      PROVE  /\ todo'.next = todo.next + 1 /\ todo'.failed = failed /\ todo'.read = read /\ todo'.found = found
             /\ todo' = [next |-> todo'.next, failed |-> todo'.failed, read |-> todo'.read, found |-> todo'.found]
  <2> HIDE DEF read, failed, found
  <2> QED BY <1>5, <1>8
<1>9. \/ /\ known \/ Reads(scope)
         /\ known => UNCHANGED <<files, answers>>
         /\ todo'.next = todo.next + 1 /\ todo'.failed = failed /\ todo'.read = read /\ todo'.found = found
         /\ todo' = [next |-> todo'.next, failed |-> todo'.failed, read |-> todo'.read, found |-> todo'.found]
      \/ UNCHANGED <<files, answers>> /\ todo' = [todo EXCEPT !.next = todo.next + 1, !.failed = TRUE]
  <2>1. CASE /\ IF known THEN UNCHANGED <<files, answers>> ELSE Reads(scope)
             /\ todo' = [todo EXCEPT !.next = @ + 1,
                                 !.read = [s \in DOMAIN @ \union {scope} |-> IF s = scope THEN roles ELSE @[s]],
                                 !.failed = Noted(@ \/ Cardinality(chosen) # 1),
                                 !.found = IF Cardinality(chosen) # 1 THEN @
                                           ELSE Append(@, Row(Sole(chosen), scope))]
    <3>1. todo' = [todo EXCEPT !.next = @ + 1, !.read = read, !.failed = failed, !.found = found]
      BY <2>1 DEF Noted
    <3> HIDE DEF read, failed, found
    <3> QED BY <2>1, <3>1, <1>8
  <2>2. CASE ReadFails(scope) /\ todo' = [todo EXCEPT !.next = @ + 1, !.failed = Noted(TRUE)]
    BY <2>2 DEF ReadFails, Noted
  <2> QED BY <1>4, <2>1, <2>2
<1>10. \/ /\ \/ scope \in DOMAIN todo.read /\ roles = todo.read[scope] /\ UNCHANGED <<files, answers>>
             \/ roles = Told(scope) /\ Reads(scope)
          /\ todo'.next = todo.next + 1 /\ todo'.failed = failed /\ todo'.read = read /\ todo'.found = found
          /\ todo' = [next |-> todo'.next, failed |-> todo'.failed, read |-> todo'.read, found |-> todo'.found]
       \/ UNCHANGED <<files, answers>> /\ todo' = [todo EXCEPT !.next = todo.next + 1, !.failed = TRUE]
  <2> HIDE DEF read, failed, found
  <2> QED BY <1>6, <1>7, <1>9 DEF known
<1> QED BY <1>1, <1>2, <1>3, <1>10 DEF chosen

\* What the picker returns: the end of its walk, one scope, or the rows it drew as selected.
LEMMA Taking ==
  ASSUME Types, Take
  PROVE  /\ stage = "picking" /\ model' = NoModel
         /\ UNCHANGED <<env, files, todo, plan, memory, answers>>
         /\ \/ stage' = "refused" /\ UNCHANGED <<opt, rows, consent>>
            \/ /\ model.single /\ stage' = "scope" /\ UNCHANGED <<rows, consent>>
               /\ \E scope \in Scopes : opt' = [opt EXCEPT !.at = scope]
            \/ /\ ~model.single /\ rows' \in Seq(RowSet) /\ AllOf(rows') \subseteq AllOf(rows)
               /\ DistinctIds(rows) => DistinctIds(rows')
               /\ consent' = [consent EXCEPT !.selected = Ids(rows'), !.sources = Scheds(rows')]
               /\ Ids(rows') \subseteq Targets /\ Scheds(rows') \subseteq Grants
               /\ stage' = (IF rows' = <<>> THEN "refused" ELSE IF Setup THEN "check" ELSE "target")
               /\ UNCHANGED opt
<1> DEFINE places == {i \in 1..Len(rows) : i \in Picked(model)}
           taken == At(rows, places)
<1>0. /\ stage = "picking" /\ OnScreen(model) /\ rows \in Seq(RowSet) /\ ScopeList \in Seq(Scopes)
      /\ Len(model.items) = (IF model.single THEN Len(ScopeList) ELSE Len(rows))
      /\ model.single \in BOOLEAN /\ model.selected \subseteq 1..Len(model.items)
  BY TenantAssumption DEF Types, ModelType, Take, OnScreen, IsPicker, Pickers
<1>1. model' = NoModel /\ UNCHANGED <<env, files, todo, plan, memory, answers>>
  BY DEF Take
<1>2. CASE model.end = "aborted"
  BY <1>0, <1>1, <1>2 DEF Take, Refused
<1>3. CASE model.end = "confirmed" /\ model.single
  <2>1. PICK x \in 1..Len(ScopeList) : model.selected = {x}
    BY <1>0, <1>3 DEF OnScreen
  <2>2. Sole(Picked(model)) = x
    BY <2>1 DEF Sole, Picked
  <2>3. ScopeList[x] \in Scopes
    BY DEF Scopes
  <2>4. opt' = [opt EXCEPT !.at = ScopeList[x]] /\ stage' = "scope" /\ UNCHANGED <<rows, consent>>
    BY <1>3, <2>2 DEF Take, Go
  <2> QED BY <1>0, <1>1, <1>3, <2>3, <2>4
<1>4. CASE model.end = "confirmed" /\ ~model.single
  <2>1. /\ rows' = taken
        /\ consent' = [consent EXCEPT !.selected = {Id(rows[i]) : i \in model.selected},
                                      !.sources = {rows[i].sched : i \in model.selected}]
        /\ IF taken = <<>> THEN Refused ELSE Go(IF Setup THEN "check" ELSE "target")
        /\ UNCHANGED opt
    BY <1>4 DEF Take
  <2>2. places = model.selected /\ places \in SUBSET (1..Len(rows))
    BY <1>0, <1>4 DEF Picked
  <2> HIDE DEF places
  <2>3. /\ taken \in Seq(RowSet) /\ AllOf(taken) = {rows[i] : i \in places}
        /\ DistinctIds(rows) => DistinctIds(taken)
        /\ Ids(taken) = {Id(rows[i]) : i \in places}
    BY <1>0, <2>2, RowsAt
  <2>7. Scheds(taken) = {r.sched : r \in AllOf(taken)}
    BY DEF Scheds, AllOf
  <2>8. Scheds(taken) = {rows[i].sched : i \in places}
    BY <2>3, <2>7
  <2> HIDE DEF taken
  <2>4. AllOf(taken) \subseteq AllOf(rows)
    BY <2>2, <2>3 DEF AllOf
  <2>5. Ids(taken) \subseteq Targets /\ Scheds(taken) \subseteq Grants
    BY <2>3, IdType, ElementOfSeq DEF Ids, Scheds, RowSet
  <2>6. stage' = (IF rows' = <<>> THEN "refused" ELSE IF Setup THEN "check" ELSE "target")
    BY <2>1 DEF Go, Refused
  <2> QED BY <1>0, <1>1, <1>4, <2>1, <2>2, <2>3, <2>4, <2>5, <2>6, <2>8
<1>5. model.end \in {"aborted", "confirmed"}
  BY <1>0 DEF Take, OnScreen, IsPicker, Pickers
<1> QED BY <1>0, <1>2, <1>3, <1>4, <1>5

\* A picker put on screen is one over the rows, or over the scopes.
LEMMA Offered ==
  ASSUME Types, Offer
  PROVE  ModelType' /\ stage' = "picking" /\ ~model'.single
<1> DEFINE items == [i \in 1..Len(rows) |-> Haystack(rows[i])]
<1>1. rows \in Seq(RowSet) /\ Len(rows) \in Nat
  BY LenProperties DEF Types
<1>2. \A i \in 1..Len(rows) : Haystack(rows[i]) \in Seq(Chars)
  <2> SUFFICES ASSUME NEW i \in 1..Len(rows) PROVE Haystack(rows[i]) \in Seq(Chars)
    OBVIOUS
  <2>0. rows[i] \in RowSet
    BY <1>1, ElementOfSeq
  <2>1. rows[i].sched \in Grants /\ rows[i].target \in Scopes
    BY <2>0 DEF RowSet
  <2>2. GrantOf[rows[i].sched].role \in Roles
    BY <2>1 DEF Roles, Grants
  <2>3. NameOf[GrantOf[rows[i].sched].role] \in Seq(Chars) /\ NameOf[rows[i].target] \in Seq(Chars)
    BY <2>1, <2>2, TenantAssumption
  <2> QED BY <2>3, ConcatProperties DEF Haystack
<1>3. items \in Seq(Seq(Chars)) /\ Len(items) = Len(rows)
  <2>1. items \in [1..Len(rows) -> Seq(Chars)]
    BY <1>2
  <2> HIDE DEF items
  <2> QED BY <1>1, <2>1, FunctionInSeq
<1>4. model' = NewModel(items, FALSE) /\ stage' = "picking" /\ rows' = rows
  BY DEF Offer, Go
<1> HIDE DEF items
<1>5. OnScreen(model') /\ model'.items = items /\ model'.single = FALSE
  <2>1. LET m == NewModel(items, FALSE) IN OnScreen(m) /\ m.items = items /\ m.single = FALSE
    BY <1>3, NewPicker
  <2> QED BY <1>4, <2>1
<1> QED BY <1>3, <1>4, <1>5 DEF ModelType, OnScreen, IsPicker, CursorIsDrawn, ShownItems, HasCursor, Rows

\* The walk through the scopes is in the picker, or --at was given.
LEMMA Browsed ==
  ASSUME Types, Browse
  PROVE  \/ /\ ModelType' /\ stage' = "picking" /\ model'.single /\ rows' = <<>> /\ UNCHANGED opt
         \/ /\ stage' = "scope" /\ UNCHANGED <<rows, model>>
            /\ \E scope \in Scopes : opt' = [opt EXCEPT !.at = scope]
<1> DEFINE items == [i \in 1..Len(ScopeList) |-> NameOf[ScopeList[i]]]
<1>1. ScopeList \in Seq(Scopes) /\ Len(ScopeList) \in Nat
  BY TenantAssumption, LenProperties
<1>2. \A i \in 1..Len(ScopeList) : NameOf[ScopeList[i]] \in Seq(Chars)
  BY TenantAssumption DEF Scopes
<1>3. items \in Seq(Seq(Chars)) /\ Len(items) = Len(ScopeList)
  <2>1. items \in [1..Len(ScopeList) -> Seq(Chars)]
    BY <1>2
  <2> HIDE DEF items
  <2> QED BY <1>1, <2>1, FunctionInSeq
<1>4. CASE opt.tty
  <2>1. model' = NewModel(items, TRUE) /\ stage' = "picking" /\ rows' = <<>> /\ UNCHANGED opt
    BY <1>4 DEF Browse, Go
  <2> HIDE DEF items
  <2>2. OnScreen(model') /\ model'.items = items /\ model'.single = TRUE
    <3>1. LET m == NewModel(items, TRUE) IN OnScreen(m) /\ m.items = items /\ m.single = TRUE
      BY <1>3, NewPicker
    <3> QED BY <2>1, <3>1
  <2> QED BY <1>3, <2>1, <2>2 DEF ModelType, OnScreen, IsPicker, CursorIsDrawn, ShownItems, HasCursor, Rows
<1>5. CASE ~opt.tty
  BY <1>5 DEF Browse, Go
<1> QED BY <1>4, <1>5

\* A key or a resize leaves the picker on screen, over what it was over.
LEMMA PressedOn ==
  ASSUME Types, Press
  PROVE  /\ ModelType' /\ stage' = "picking" /\ model'.single = model.single
         /\ OnScreen(model') /\ KeepsPlace(model, model')
<1>1. /\ stage = "picking" /\ model.end = "open" /\ OnScreen(model) /\ rows' = rows /\ stage' = "picking"
      /\ Len(model.items) = (IF model.single THEN Len(ScopeList) ELSE Len(rows))
  BY DEF Types, Press, ModelType
<1>2. OnScreen(model') /\ model'.items = model.items /\ model'.single = model.single /\ KeepsPlace(model, model')
  <2>1. ASSUME NEW key \in Keys, NEW w, w = Update(model, key)
        PROVE  OnScreen(w) /\ w.items = model.items /\ w.single = model.single /\ KeepsPlace(model, w)
    BY <1>1, <2>1, Pressed
  <2>2. ASSUME NEW height \in Terminals, NEW w, w = Resize(model, height)
        PROVE  OnScreen(w) /\ w.items = model.items /\ w.single = model.single /\ KeepsPlace(model, w)
    <3>1. height \in Nat
      BY PickerAssumption
    <3> QED BY <1>1, <2>2, <3>1, Resized
  <2>3. (\E key \in Keys : model' = Update(model, key)) \/ (\E height \in Terminals : model' = Resize(model, height))
    BY DEF Press
  <2> QED BY <2>1, <2>2, <2>3
<1> QED BY <1>1, <1>2 DEF ModelType, OnScreen, IsPicker, CursorIsDrawn, ShownItems, HasCursor, Rows

\* What the listing and the record say of a row leaves its role and its target alone.
LEMMA Verified ==
  ASSUME Types, Verify
  PROVE  /\ rows' \in Seq(RowSet) /\ Len(rows') = Len(rows)
         /\ \A i \in 1..Len(rows) : rows'[i].sched = rows[i].sched /\ rows'[i].target = rows[i].target
         /\ stage = "verify" /\ stage' \in {"refused", "plan"}
         /\ UNCHANGED <<opt, env, files, todo, plan, model, memory, consent, answers>>
<1>1. rows \in Seq(RowSet) /\ Len(rows) \in Nat /\ \A i \in 1..Len(rows) : rows[i] \in RowSet
  BY LenProperties, ElementOfSeq DEF Types
<1>2. PICK said \in [1..Len(rows) -> Evidence] :
        rows' = [i \in 1..Len(rows) |-> [rows[i] EXCEPT !.held = said[i]]]
  BY DEF Verify
<1>3. \A i \in 1..Len(rows) : said[i] \in Helds
  BY PlanningAssumption DEF Helds
<1>4. \A i \in 1..Len(rows) : /\ [rows[i] EXCEPT !.held = said[i]] \in RowSet
                              /\ [rows[i] EXCEPT !.held = said[i]].sched = rows[i].sched
                              /\ [rows[i] EXCEPT !.held = said[i]].target = rows[i].target
  BY <1>1, <1>3 DEF RowSet
<1>5. rows' \in [1..Len(rows) -> RowSet]
  BY <1>2, <1>4
<1>6. rows' \in Seq(RowSet) /\ Len(rows') = Len(rows)
  BY <1>1, <1>5, FunctionInSeq
<1> QED BY <1>2, <1>4, <1>6 DEF Verify, Go, Refused

\* The plan has an item for each row, with nothing looked up and nothing sent.
LEMMA PlanBegan ==
  ASSUME Types, BeginPlan
  PROVE  /\ PlanType' /\ ConsentType' /\ Len(plan') = Len(rows)
         /\ \A i \in 1..Len(rows) : /\ plan'[i].row = rows[i] /\ plan'[i].out = "none"
                                    /\ plan'[i].looked = plan'[i].keep /\ ~plan'[i].fresh
         /\ stage = "plan" /\ stage' = "looking"
         /\ consent'.reason = consent.reason /\ consent'.prompted = consent.prompted
         /\ consent'.selected = consent.selected /\ consent'.confirmed = consent.confirmed
         /\ UNCHANGED <<opt, env, files, todo, rows, model, memory, answers>>
<1> DEFINE keep(i) == Project /\ ProjectAlreadyHeld(rows[i])
           item(i) == [row |-> rows[i], keep |-> keep(i), looked |-> keep(i), fresh |-> FALSE,
                       policy |-> NoPolicy, hours |-> 0, error |-> FALSE, out |-> "none"]
<1>0. rows \in Seq(RowSet) /\ Len(rows) \in Nat /\ ConsentType /\ \A i \in 1..Len(rows) : rows[i] \in RowSet
  BY LenProperties, ElementOfSeq DEF Types
<1>1. plan' = [i \in 1..Len(rows) |-> item(i)]
  BY DEF BeginPlan
<1>2. ASSUME NEW i \in 1..Len(rows)
      PROVE  /\ item(i) \in ItemSet /\ item(i).row = rows[i] /\ item(i).out = "none"
             /\ item(i).looked = item(i).keep /\ ~item(i).fresh /\ item(i).policy = NoPolicy
  <2>1. keep(i) \in BOOLEAN /\ rows[i] \in RowSet
    BY <1>0 DEF Project, ProjectAlreadyHeld
  <2>2. NoPolicy \in Policies
    BY DEF NoPolicy, Policies
  <2> HIDE DEF keep
  <2> QED BY <2>1, <2>2 DEF ItemSet, Outs
<1> HIDE DEF item
<1>3. plan' \in [1..Len(rows) -> ItemSet]
  BY <1>1, <1>2
<1>4. plan' \in Seq(ItemSet) /\ Len(plan') = Len(rows)
  BY <1>0, <1>3, FunctionInSeq
<1>5. \A i \in 1..Len(rows) : /\ plan'[i].row = rows[i] /\ plan'[i].out = "none" /\ plan'[i].policy = NoPolicy
                              /\ plan'[i].looked = plan'[i].keep /\ ~plan'[i].fresh
  BY <1>1, <1>2
<1>6. PlanType'
  BY <1>4, <1>5 DEF PlanType
<1>7. /\ ConsentType' /\ consent'.reason = consent.reason /\ consent'.prompted = consent.prompted
      /\ consent'.selected = consent.selected /\ consent'.confirmed = consent.confirmed
  <2>1. PICK asked \in Asked : consent' = [consent EXCEPT !.hours = asked.hours, !.ticket = asked.ticket]
    BY DEF BeginPlan
  <2>2. asked.hours \in Nat /\ asked.ticket \in BOOLEAN
    BY PlanningAssumption
  <2> QED BY <1>0, <2>1, <2>2 DEF ConsentType
<1> QED BY <1>4, <1>5, <1>6, <1>7 DEF BeginPlan, Go

\* One item is replaced, the others stay.
LEMMA Replaced ==
  ASSUME PlanType, NEW i \in Items, NEW p \in ItemSet, plan' = [plan EXCEPT ![i] = p],
         p.policy # NoPolicy => p.hours \in 1..p.policy.max
  PROVE  /\ PlanType' /\ Len(plan') = Len(plan) /\ plan'[i] = p
         /\ \A j \in Items : j # i => plan'[j] = plan[j]
<1>1. plan \in [1..Len(plan) -> ItemSet] /\ Len(plan) \in Nat
  BY LenProperties DEF PlanType
<1>2. plan' \in [1..Len(plan) -> ItemSet]
  BY <1>1
<1>3. plan' \in Seq(ItemSet) /\ Len(plan') = Len(plan)
  BY <1>1, <1>2, FunctionInSeq
<1>4. plan'[i] = p /\ \A j \in Items : j # i => plan'[j] = plan[j]
  BY <1>1 DEF Items
<1>5. \A j \in 1..Len(plan') : plan'[j].policy # NoPolicy => plan'[j].hours \in 1..plan'[j].policy.max
  BY <1>3, <1>4 DEF PlanType, Items
<1> QED BY <1>3, <1>4, <1>5 DEF PlanType

\* An item of the plan is one, of a row, under a policy of the tenant.
LEMMA ItemType ==
  ASSUME PlanType, NEW i \in Items
  PROVE  plan[i] \in ItemSet /\ plan[i].row \in RowSet /\ PolicyKey(plan[i].row) \in Targets
<1>1. plan[i] \in ItemSet
  BY ElementOfSeq DEF PlanType, Items
<1>2. plan[i].row \in RowSet
  BY <1>1 DEF ItemSet
<1> QED BY <1>1, <1>2, IdType

\* One look-up settles its item by the cached policy or by ARM's, or marks it.
LEMMA LookedUp ==
  ASSUME Types, NEW i \in Items, LookUp(i)
  PROVE  /\ PlanType' /\ Len(plan') = Len(plan) /\ stage = "looking" /\ stage' = stage
         /\ \A j \in Items : j # i => plan'[j] = plan[j]
         /\ plan'[i].row = plan[i].row /\ plan'[i].keep = plan[i].keep /\ plan'[i].out = plan[i].out
         /\ plan'[i].looked
         /\ LET key  == PolicyKey(plan[i].row)
            IN  \/ plan'[i].error /\ plan'[i].fresh = plan[i].fresh
                \/ /\ \/ ~plan'[i].fresh /\ Usable(files.policies[key], PolicyTTL) /\ plan'[i].policy = files.policies[key].policy
                      \/ plan'[i].fresh /\ RoleSettings(key) # NoPolicy /\ plan'[i].policy = RoleSettings(key)
                   /\ plan'[i].error = (plan'[i].policy.ticket /\ ~consent.ticket)
         /\ UNCHANGED <<opt, env, files, todo, rows, model, memory, consent, answers>>
<1> DEFINE key == PolicyKey(plan[i].row)
           file == files.policies[key]
           marked == [plan[i] EXCEPT !.looked = TRUE, !.error = TRUE]
<1>0. PlanType /\ FilesType /\ ConsentType /\ stage = "looking" /\ stage' = stage
      /\ UNCHANGED <<opt, env, files, todo, rows, model, memory, consent, answers>>
  BY DEF Types, LookUp
<1>1. plan[i] \in ItemSet /\ key \in Targets
  BY <1>0, ItemType
<1>2. file \in PolicyFile /\ file.policy \in Policies /\ RoleSettings(key) \in Policies
  <2>1. file \in PolicyFile
    BY <1>0, <1>1 DEF FilesType
  <2> HIDE DEF file, key
  <2> QED BY <1>1, <2>1, PolicyType DEF PolicyFile
<1>3. ASSUME NEW policy \in Policies, NEW fresh \in BOOLEAN, NEW p, p = Settled(plan[i], policy, fresh)
      PROVE  /\ p \in ItemSet /\ p.row = plan[i].row /\ p.keep = plan[i].keep /\ p.out = plan[i].out
             /\ p.looked /\ p.fresh = fresh /\ p.policy = policy /\ p.error = (policy.ticket /\ ~consent.ticket)
             /\ p.policy # NoPolicy => p.hours \in 1..p.policy.max
  <2> DEFINE hours == ResolveDuration(consent.hours, policy.max)
             error == policy.ticket /\ ~consent.ticket
  <2>1. consent.hours \in Nat /\ error \in BOOLEAN
    BY <1>0 DEF ConsentType
  <2>2. hours \in Nat /\ (policy # NoPolicy => hours \in 1..policy.max)
    BY <2>1, DurationType
  <2>3. p = [plan[i] EXCEPT !.looked = TRUE, !.fresh = fresh, !.policy = policy, !.hours = hours, !.error = error]
    BY <1>3 DEF Settled
  <2> HIDE DEF hours, error
  <2>4. /\ p \in ItemSet /\ p.row = plan[i].row /\ p.keep = plan[i].keep /\ p.out = plan[i].out
        /\ p.looked /\ p.fresh = fresh /\ p.policy = policy /\ p.error = error /\ p.hours = hours
    BY <1>1, <2>1, <2>2, <2>3 DEF ItemSet
  <2> QED BY <2>2, <2>4 DEF error
<1>4. /\ marked \in ItemSet /\ marked.row = plan[i].row /\ marked.keep = plan[i].keep /\ marked.out = plan[i].out
      /\ marked.looked /\ marked.error /\ marked.fresh = plan[i].fresh
      /\ marked.policy = plan[i].policy /\ marked.hours = plan[i].hours
  BY <1>1 DEF ItemSet
<1>5. \/ Usable(file, PolicyTTL) /\ plan' = [plan EXCEPT ![i] = Settled(plan[i], file.policy, FALSE)]
      \/ RoleSettings(key) # NoPolicy /\ plan' = [plan EXCEPT ![i] = Settled(plan[i], RoleSettings(key), TRUE)]
      \/ plan' = [plan EXCEPT ![i] = marked]
  BY DEF LookUp
<1> DEFINE From(policy, fresh) == IF fresh THEN RoleSettings(key) # NoPolicy /\ policy = RoleSettings(key)
                                           ELSE Usable(file, PolicyTTL) /\ policy = file.policy
<1>6. \/ \E policy \in Policies, fresh \in BOOLEAN :
           From(policy, fresh) /\ plan' = [plan EXCEPT ![i] = Settled(plan[i], policy, fresh)]
      \/ plan' = [plan EXCEPT ![i] = marked]
  <2> HIDE DEF file, key, marked
  <2> QED BY <1>2, <1>5
<1>7. CASE \E policy \in Policies, fresh \in BOOLEAN :
             From(policy, fresh) /\ plan' = [plan EXCEPT ![i] = Settled(plan[i], policy, fresh)]
  <2>0. PICK policy \in Policies, fresh \in BOOLEAN :
          From(policy, fresh) /\ plan' = [plan EXCEPT ![i] = Settled(plan[i], policy, fresh)]
    BY <1>7
  <2>1. PICK p : p = Settled(plan[i], policy, fresh)
    OBVIOUS
  <2>2. plan' = [plan EXCEPT ![i] = p]
    BY <2>0, <2>1
  <2> HIDE DEF From, marked
  <2>3. /\ p \in ItemSet /\ p.row = plan[i].row /\ p.keep = plan[i].keep /\ p.out = plan[i].out
        /\ p.looked /\ p.fresh = fresh /\ p.policy = policy /\ p.error = (policy.ticket /\ ~consent.ticket)
        /\ p.policy # NoPolicy => p.hours \in 1..p.policy.max
    BY <1>3, <2>1
  <2>4. /\ PlanType' /\ Len(plan') = Len(plan) /\ plan'[i] = p /\ \A j \in Items : j # i => plan'[j] = plan[j]
    BY <1>0, <2>2, <2>3, Replaced
  <2>5. \/ ~plan'[i].fresh /\ Usable(file, PolicyTTL) /\ plan'[i].policy = file.policy
        \/ plan'[i].fresh /\ RoleSettings(key) # NoPolicy /\ plan'[i].policy = RoleSettings(key)
    <3> HIDE DEF file, key
    <3>1. plan'[i].policy = policy /\ plan'[i].fresh = fresh
      BY <2>3, <2>4
    <3> QED BY <2>0, <3>1 DEF From
  <2>6. plan'[i].error = (plan'[i].policy.ticket /\ ~consent.ticket)
    BY <2>3, <2>4
  <2>7. /\ plan'[i].row = plan[i].row /\ plan'[i].keep = plan[i].keep /\ plan'[i].out = plan[i].out /\ plan'[i].looked
    BY <2>3, <2>4
  <2> QED BY <1>0, <2>4, <2>5, <2>6, <2>7
<1>8. CASE plan' = [plan EXCEPT ![i] = marked]
  <2> HIDE DEF file, key, marked
  <2>1. marked.policy # NoPolicy => marked.hours \in 1..marked.policy.max
    BY <1>0, <1>4 DEF PlanType, Items
  <2>2. /\ PlanType' /\ Len(plan') = Len(plan) /\ plan'[i] = marked /\ \A j \in Items : j # i => plan'[j] = plan[j]
    BY <1>0, <1>4, <1>8, <2>1, Replaced
  <2> QED BY <1>0, <1>4, <2>2
<1> QED BY <1>6, <1>7, <1>8

\* One submission reports its item, and a rejection drops the policy it was planned by.
LEMMA Submitted ==
  ASSUME Types, NEW i \in Items, Submit(i)
  PROVE  /\ PlanType' /\ FilesType' /\ Len(plan') = Len(plan) /\ stage = "submit" /\ stage' = stage
         /\ \A j \in Items : j # i => plan'[j] = plan[j]
         /\ \E o \in Outs : plan'[i] = [plan[i] EXCEPT !.out = o]
         /\ plan'[i].row = plan[i].row /\ plan'[i].keep = plan[i].keep /\ plan'[i].looked = plan[i].looked
         /\ plan'[i].error = plan[i].error /\ plan'[i].policy = plan[i].policy /\ plan'[i].hours = plan[i].hours
         /\ plan'[i].fresh = plan[i].fresh
         /\ plan'[i].out \in {"sent", "rejected"} => ~plan[i].keep /\ ~plan[i].error
         /\ \/ files' = files
            \/ files' = [files EXCEPT !.policies[PolicyKey(plan[i].row)].there = FALSE]
         /\ UNCHANGED <<opt, env, todo, rows, model, memory, consent, answers>>
<1>0. PlanType /\ FilesType /\ stage = "submit" /\ stage' = stage
      /\ UNCHANGED <<opt, env, todo, rows, model, memory, consent, answers>>
  BY DEF Types, Submit
<1>1. plan[i] \in ItemSet /\ PolicyKey(plan[i].row) \in Targets
  BY <1>0, ItemType
<1>2. PICK o \in Outs :
        /\ plan' = [plan EXCEPT ![i].out = o]
        /\ o \in {"sent", "rejected"} => ~plan[i].keep /\ ~plan[i].error
        /\ \/ files' = files
           \/ files' = [files EXCEPT !.policies[PolicyKey(plan[i].row)].there = FALSE]
  BY DEF Submit, Preserved, Outs
<1>3. PICK p : p = [plan[i] EXCEPT !.out = o]
  OBVIOUS
<1>4. /\ p \in ItemSet /\ p.row = plan[i].row /\ p.keep = plan[i].keep /\ p.looked = plan[i].looked
      /\ p.error = plan[i].error /\ p.policy = plan[i].policy /\ p.hours = plan[i].hours /\ p.fresh = plan[i].fresh
      /\ p.out = o
  BY <1>1, <1>3 DEF ItemSet
<1>5. plan' = [plan EXCEPT ![i] = p]
  BY <1>2, <1>3
<1>6. p.policy # NoPolicy => p.hours \in 1..p.policy.max
  BY <1>0, <1>4 DEF PlanType, Items
<1>7. /\ PlanType' /\ Len(plan') = Len(plan) /\ plan'[i] = p /\ \A j \in Items : j # i => plan'[j] = plan[j]
  BY <1>0, <1>4, <1>5, <1>6, Replaced
<1>8. FilesType'
  <2>1. ASSUME NEW k \in Targets, NEW f, f = [files EXCEPT !.policies[k].there = FALSE]
        PROVE  f \in [listing : File, scoped : [Scopes -> File], policies : [Targets -> PolicyFile]]
    <3>1. files.policies \in [Targets -> PolicyFile]
      BY <1>0 DEF FilesType
    <3>2. [files.policies[k] EXCEPT !.there = FALSE] \in PolicyFile
      BY <3>1 DEF PolicyFile
    <3>3. PICK g : g = [files.policies EXCEPT ![k] = [files.policies[k] EXCEPT !.there = FALSE]]
      OBVIOUS
    <3>4. g \in [Targets -> PolicyFile]
      BY <3>1, <3>2, <3>3
    <3>5. f = [files EXCEPT !.policies = g]
      BY <2>1, <3>3
    <3> QED BY <1>0, <3>4, <3>5 DEF FilesType
  <2> QED BY <1>0, <1>1, <1>2, <2>1 DEF FilesType
<1> QED BY <1>0, <1>2, <1>3, <1>4, <1>7, <1>8

\* Setup offers what the scope's answer holds, at the scope.
LEMMA ScopeRead ==
  ASSUME Types, ReadScope
  PROVE  /\ FilesType' /\ AnswersType' /\ TodoType' /\ rows' \in Seq(RowSet) /\ stage = "scope" /\ opt.at \in Scopes
         /\ stage' \in {"offer", "refused"}
         /\ stage' = "offer" =>
              /\ Reads(opt.at) /\ todo' = [todo EXCEPT !.read = [s \in {opt.at} |-> Told(opt.at)]]
              /\ \A k \in 1..Len(rows') : rows'[k].sched \in Told(opt.at) /\ rows'[k].target = opt.at
         /\ todo'.found = todo.found
         /\ UNCHANGED <<opt, env, plan, model, memory, consent>>
<1> DEFINE set == {s \in Told(opt.at) : EligibleAt(s, env.now)}
           offered == Dedupe(RowsOf(set, opt.at))
           read == [s \in {opt.at} |-> Told(opt.at)]
<1>0. /\ EnvType /\ FilesType /\ AnswersType /\ TodoType /\ rows \in Seq(RowSet) /\ stage = "scope" /\ opt.at \in Scopes
      /\ UNCHANGED <<opt, env, plan, model, memory, consent>>
  BY DEF Types, AtType, ReadScope
<1>1. /\ RowsOf(set, opt.at) \in Seq(RowSet)
      /\ \A k \in 1..Len(RowsOf(set, opt.at)) :
           RowsOf(set, opt.at)[k].sched \in set /\ RowsOf(set, opt.at)[k].target = opt.at
  <2> HIDE DEF set
  <2>1. opt.at # Nowhere
    BY <1>0, TenantAssumption
  <2> QED BY <1>0, <2>1, RowsOfSet
<1>2. /\ offered \in Seq(RowSet)
      /\ \A k \in 1..Len(offered) : offered[k].sched \in Told(opt.at) /\ offered[k].target = opt.at
  <2>1. \A k \in 1..Len(offered) : \E i \in 1..Len(RowsOf(set, opt.at)) : offered[k] = RowsOf(set, opt.at)[i]
    <3> HIDE DEF set
    <3> QED BY <1>1, Deduped
  <2>2. offered \in Seq(RowSet)
    <3> HIDE DEF set
    <3> QED BY <1>1, Deduped
  <2>3. \A s \in set : s \in Told(opt.at)
    OBVIOUS
  <2> HIDE DEF set, offered
  <2> QED BY <1>1, <2>1, <2>2, <2>3
<1>3. read \in Known
  <2>1. Told(opt.at) \in SUBSET Grants
    BY <1>0, ToldType
  <2>2. read \in [{opt.at} -> SUBSET Grants]
    BY <2>1
  <2> QED BY <1>0, <2>2 DEF Known
<1>4. Reads(opt.at) \/ ReadFails(opt.at)
  BY DEF ReadScope
<1>5. FilesType' /\ AnswersType'
  BY <1>0, <1>4, ReadsType
<1>6. \/ /\ Reads(opt.at) /\ rows' = offered /\ stage' \in {"offer", "refused"}
         /\ todo' = [todo EXCEPT !.read = read]
      \/ stage' = "refused" /\ UNCHANGED <<rows, todo>>
  <2>1. \/ /\ Reads(opt.at) /\ rows' = offered /\ (IF offered = <<>> THEN Refused ELSE Go("offer"))
           /\ todo' = [todo EXCEPT !.read = read]
        \/ Refused /\ UNCHANGED <<rows, todo>>
    BY DEF ReadScope
  <2> QED BY <2>1 DEF Refused, Go
<1> HIDE DEF offered, read
<1>7. TodoType' /\ todo'.found = todo.found
  BY <1>0, <1>3, <1>6 DEF TodoType
<1> QED BY <1>0, <1>2, <1>5, <1>6, <1>7 DEF read

\* The rows setup keeps by their names are of those offered.
LEMMA Filtered ==
  ASSUME Types, FilterRows
  PROVE  /\ stage = "offer" /\ Setup /\ rows' \in Seq(RowSet) /\ stage' \in {"check", "refused"}
         /\ \A k \in 1..Len(rows') : \E i \in 1..Len(rows) : rows'[k] = rows[i]
         /\ UNCHANGED <<opt, env, files, todo, plan, model, memory, consent, answers>>
<1>0. rows \in Seq(RowSet) /\ stage = "offer" /\ Setup
      /\ UNCHANGED <<opt, env, files, todo, plan, model, memory, consent, answers>>
  BY DEF Types, FilterRows
<1>1. \/ stage' = "refused" /\ UNCHANGED rows
      \/ \E matched \in SUBSET (1..Len(rows)) : rows' = Dedupe(At(rows, matched)) /\ stage' = "check"
  BY DEF FilterRows, Refused, Go
<1>2. ASSUME NEW matched \in SUBSET (1..Len(rows)), rows' = Dedupe(At(rows, matched))
      PROVE  /\ rows' \in Seq(RowSet)
             /\ \A k \in 1..Len(rows') : \E i \in 1..Len(rows) : rows'[k] = rows[i]
  <2> DEFINE kept == At(rows, matched)
  <2>1. kept \in Seq(RowSet) /\ AllOf(kept) = {rows[i] : i \in matched}
    BY <1>0, RowsAt
  <2> HIDE DEF kept
  <2>2. Dedupe(kept) \in Seq(RowSet) /\ \A k \in 1..Len(Dedupe(kept)) : \E i \in 1..Len(kept) : Dedupe(kept)[k] = kept[i]
    BY <2>1, Deduped
  <2>3. rows' = Dedupe(kept)
    BY <1>2 DEF kept
  <2>4. \A i \in 1..Len(kept) : \E j \in 1..Len(rows) : kept[i] = rows[j]
    BY <2>1 DEF AllOf
  <2> QED BY <2>2, <2>3, <2>4
<1> QED BY <1>0, <1>1, <1>2

\* What is written are the roles and scopes of the rows.
LEMMA Written ==
  ASSUME Types, Write
  PROVE  /\ MemoryType' /\ stage = "write"
         /\ UNCHANGED <<opt, env, files, todo, rows, plan, model, consent, answers>>
         /\ \/ stage' = "refused" /\ UNCHANGED memory
            \/ /\ stage' = "done" /\ memory'.created
               /\ AllOf(memory'.project) \subseteq Ids(rows)
<1> DEFINE roles == Dedupe(rows)
           project == [i \in 1..Len(roles) |-> Id(roles[i])]
<1>0. /\ rows \in Seq(RowSet) /\ MemoryType /\ stage = "write"
      /\ UNCHANGED <<opt, env, files, todo, rows, plan, model, consent, answers>>
  BY DEF Types, Write
<1>1. \/ stage' = "refused" /\ UNCHANGED memory
      \/ stage' = "done" /\ memory' = [memory EXCEPT !.project = project, !.created = TRUE]
  BY DEF Write, Refused, Go
<1>2. /\ roles \in Seq(RowSet) /\ Len(roles) \in Nat /\ Ids(roles) = Ids(rows)
  BY <1>0, Deduped
<1> HIDE DEF roles
<1>3. \A i \in 1..Len(roles) : Id(roles[i]) \in Targets /\ Id(roles[i]) \in Ids(rows)
  <2>1. \A i \in 1..Len(roles) : Id(roles[i]) \in Targets
    BY <1>2, ElementOfSeq, IdType
  <2>2. \A i \in 1..Len(roles) : Id(roles[i]) \in Ids(roles)
    BY DEF Ids
  <2> QED BY <1>2, <2>1, <2>2
<1>4. project \in Seq(Targets) /\ Len(project) = Len(roles)
  <2>1. project \in [1..Len(roles) -> Targets]
    BY <1>3
  <2> HIDE DEF project
  <2> QED BY <1>2, <2>1, FunctionInSeq
<1>5. AllOf(project) \subseteq Ids(rows)
  BY <1>3, <1>4 DEF AllOf
<1> HIDE DEF project
<1> QED BY <1>0, <1>1, <1>4, <1>5 DEF MemoryType

\* What is remembered of a run: the justification, and the selection.
LEMMA Remembered ==
  ASSUME Types, Remember
  PROVE  /\ MemoryType' /\ stage = "submit" /\ stage' = "done"
         /\ memory'.project = memory.project /\ memory'.created = memory.created
         /\ UNCHANGED <<opt, env, files, todo, rows, plan, model, consent, answers>>
<1> DEFINE preset == [i \in 1..Len(rows) |->
                        [role |-> Id(rows[i])[1], target |-> rows[i].target, source |-> SourceScope(rows[i])]]
           reason == IF \A i \in Items : plan[i].keep THEN memory.reason ELSE consent.reason
<1>0. /\ rows \in Seq(RowSet) /\ Len(rows) \in Nat /\ MemoryType /\ ConsentType /\ stage = "submit" /\ stage' = "done"
      /\ UNCHANGED <<opt, env, files, todo, rows, plan, model, consent, answers>>
  BY LenProperties DEF Types, Remember, Go
<1>1. preset \in Seq(SavedSet)
  <2>1. \A i \in 1..Len(rows) :
          [role |-> Id(rows[i])[1], target |-> rows[i].target, source |-> SourceScope(rows[i])] \in SavedSet
    <3> SUFFICES ASSUME NEW i \in 1..Len(rows)
                 PROVE  [role |-> Id(rows[i])[1], target |-> rows[i].target, source |-> SourceScope(rows[i])] \in SavedSet
      OBVIOUS
    <3>1. rows[i] \in RowSet
      BY <1>0, ElementOfSeq
    <3>2. Id(rows[i]) \in Targets /\ SourceScope(rows[i]) \in Scopes /\ rows[i].target \in Scopes
      BY <3>1, IdType
    <3> QED BY <3>2 DEF SavedSet, Targets
  <2>2. preset \in [1..Len(rows) -> SavedSet]
    BY <2>1
  <2> HIDE DEF preset
  <2> QED BY <1>0, <2>2, FunctionInSeq
<1>2. reason \in Reasons
  BY <1>0 DEF MemoryType, ConsentType
<1>3. \/ memory' = memory
      \/ memory' = [memory EXCEPT !.reason = reason]
      \/ memory' = [memory EXCEPT !.reason = reason, !.preset = preset]
  BY DEF Remember
<1> HIDE DEF preset, reason
<1> QED BY <1>0, <1>1, <1>2, <1>3 DEF MemoryType

\* A policy that was read is kept with the time it was read at.
LEMMA PlanEnded ==
  ASSUME Types, EndPlan
  PROVE  /\ FilesType' /\ stage = "looking" /\ stage' \in {"justify", "refused"}
         /\ \A i \in Items : plan[i].looked
         /\ files'.listing = files.listing /\ files'.scoped = files.scoped
         /\ \A k \in Targets :
              \/ files'.policies[k] = files.policies[k]
              \/ /\ files'.policies[k].policy = RoleSettings(k)
                 /\ \E i \in Items : plan[i].fresh /\ PolicyKey(plan[i].row) = k
         /\ UNCHANGED <<opt, env, todo, rows, plan, model, memory, consent, answers>>
<1> DEFINE read(k) == \E i \in Items : plan[i].fresh /\ PolicyKey(plan[i].row) = k
           file(k) == [there |-> TRUE, fetched |-> env.now, policy |-> RoleSettings(k)]
           policies == [k \in Targets |-> IF read(k) THEN file(k) ELSE files.policies[k]]
<1>0. /\ EnvType /\ FilesType /\ stage = "looking" /\ \A i \in Items : plan[i].looked
      /\ stage' \in {"justify", "refused"}
      /\ UNCHANGED <<opt, env, todo, rows, plan, model, memory, consent, answers>>
  BY DEF Types, EndPlan, Refused, Go
<1>1. files' = [files EXCEPT !.policies = policies]
  BY DEF EndPlan
<1>2. files.policies \in [Targets -> PolicyFile] /\ env.now \in Int
  BY <1>0, PlanningAssumption DEF FilesType, EnvType
<1>3. \A k \in Targets : file(k) \in PolicyFile
  <2>1. \A k \in Targets : RoleSettings(k) \in Policies
    BY PolicyType
  <2> QED BY <1>2, <2>1 DEF PolicyFile
<1> HIDE DEF file
<1>4. policies \in [Targets -> PolicyFile]
  <2> HIDE DEF read
  <2> QED BY <1>2, <1>3
<1>5. \A k \in Targets : policies[k] = files.policies[k] \/ (policies[k].policy = RoleSettings(k) /\ read(k))
  <2> HIDE DEF read
  <2> QED BY DEF file
<1> HIDE DEF policies
<1>6. FilesType' /\ files'.listing = files.listing /\ files'.scoped = files.scoped /\ files'.policies = policies
  BY <1>0, <1>1, <1>4 DEF FilesType
<1> QED BY <1>0, <1>5, <1>6

\* What is to be submitted can be counted.
LEMMA PlanFits ==
  ASSUME PlanType
  PROVE  IsFiniteSet({i \in Items : ~plan[i].keep}) /\ Submissions \in Nat
<1>1. Len(plan) \in Nat
  BY LenProperties DEF PlanType
<1>2. IsFiniteSet(Items)
  BY <1>1, FS_Interval DEF Items
<1> DEFINE set == {i \in Items : ~plan[i].keep}
<1>3. set \subseteq Items
  OBVIOUS
<1> HIDE DEF set
<1>4. IsFiniteSet(set) /\ Cardinality(set) \in Nat
  BY <1>2, <1>3, FS_Subset, FS_CardinalityType
<1> QED BY <1>4 DEF set, Submissions

\* Every step keeps the types.
LEMMA TypeStep == Types /\ [Next]_vars => Types'
<1> SUFFICES ASSUME Types, [Next]_vars PROVE Types'
  OBVIOUS
<1>0. stage \in Stages
  BY DEF Types
<1>1. CASE CheckFlags
  BY <1>1, Frame DEF CheckFlags, Go, Refused, Types, AtType, Stages
<1>2. CASE Open
  <2>1. UNCHANGED <<opt, env, files, rows, plan, model, memory, consent, answers>> /\ stage = "open"
        /\ stage' \in {"refused", "browse", "resolve", "read"}
    BY <1>2 DEF Open, Go, Refused
  <2>2. TodoType'
    <3>1. PICK failures \in BOOLEAN : todo' = [todo EXCEPT !.failed = failures]
      BY <1>2 DEF Open
    <3> QED BY <3>1 DEF Types, TodoType
  <2> QED BY <2>1, <2>2, Frame DEF Types, AtType, Stages
<1>3. CASE ReadEligibilities
  <2>1. stage = "read" /\ UNCHANGED <<opt, env, todo, plan, model, memory, consent>>
    BY <1>3 DEF ReadEligibilities
  <2> QED BY <1>3, <2>1, Listed, Frame DEF Types, AtType, Stages
<1>4. CASE ResolveSaved
  <2>1. stage = "saved" /\ UNCHANGED <<opt, env, plan, model, memory, consent>>
    BY <1>4 DEF ResolveSaved
  <2> QED BY <1>4, <2>1, SavedType, Frame DEF Types, AtType, Stages
<1>5. CASE ChooseRows
  <2>1. stage \in {"choose", "saved"} /\ UNCHANGED <<opt, env, files, plan, model, memory, answers>>
        /\ todo' = [NoTodo EXCEPT !.failed = todo.failed]
    BY <1>5 DEF ChooseRows, Restart
  <2>2. TodoType'
    <3>1. [s \in {} |-> {}] \in Known
      BY DEF Known
    <3>2. todo' = [next |-> 1, failed |-> todo.failed, read |-> [s \in {} |-> {}], found |-> <<>>]
      BY <2>1 DEF NoTodo
    <3> QED BY <3>1, <3>2, EmptySeq DEF Types, TodoType
  <2>3. rows' \in Seq(RowSet) /\ ConsentType' /\ stage' \in {"refused", "target"}
    <3>1. CASE stage' = "refused" /\ UNCHANGED <<rows, consent>>
      BY <3>1, Frame DEF Types
    <3>2. CASE \E chosen \in Seq(RowSet) : Selects(chosen)
      BY <3>2, Selecting DEF Types
    <3> QED BY <1>5, <3>1, <3>2, Choosing
  <2> QED BY <2>1, <2>2, <2>3, Frame DEF Types, AtType, Stages
<1>6. CASE ChooseTarget
  <2>1. PICK at \in {Nowhere} \union Scopes :
          /\ opt' = [opt EXCEPT !.at = at]
          /\ IF at = Nowhere THEN Go("plan") ELSE IF todo.failed THEN Refused ELSE Go("narrow")
    BY <1>6 DEF ChooseTarget
  <2>2. stage = "target" /\ UNCHANGED <<env, files, todo, rows, plan, model, memory, consent, answers>>
    BY <1>6 DEF ChooseTarget
  <2>3. OptType' /\ opt'.at = at
    BY <2>1 DEF Types, OptType
  <2>4. stage' \in {"plan", "refused", "narrow"} /\ AtType'
    BY <2>1, <2>3 DEF Go, Refused, AtType
  <2> QED BY <2>2, <2>3, <2>4, Frame DEF Types, Stages
<1>7. CASE Narrow
  <2>1. stage = "narrow" /\ UNCHANGED <<opt, env, plan, model, memory, consent>> /\ opt.at \in Scopes
    BY <1>7 DEF Narrow, Types, AtType
  <2> QED BY <1>7, <2>1, NarrowType, Frame DEF Types, AtType, Stages
<1>8. CASE Offer
  <2>1. UNCHANGED <<opt, env, files, todo, rows, plan, memory, consent, answers>>
    BY <1>8 DEF Offer
  <2> QED BY <1>8, <2>1, Offered, Frame DEF Types, AtType, Stages
<1>9. CASE Browse
  <2>1. stage = "browse" /\ UNCHANGED <<env, files, todo, plan, memory, consent, answers>>
    BY <1>9 DEF Browse
  <2>2. CASE ModelType' /\ stage' = "picking" /\ rows' = <<>> /\ UNCHANGED opt
    BY <2>1, <2>2, Frame, EmptySeq DEF Types, AtType, Stages
  <2>3. CASE stage' = "scope" /\ UNCHANGED <<rows, model>> /\ \E scope \in Scopes : opt' = [opt EXCEPT !.at = scope]
    <3>1. OptType' /\ opt'.at \in Scopes
      BY <2>3 DEF Types, OptType
    <3> QED BY <2>1, <2>3, <3>1, Frame DEF Types, AtType, Stages
  <2> QED BY <1>9, <2>2, <2>3, Browsed
<1>10. CASE Press
  <2>1. UNCHANGED <<opt, stage, env, files, todo, rows, plan, memory, consent, answers>>
    BY <1>10 DEF Press
  <2> QED BY <1>10, <2>1, PressedOn, Frame DEF Types, AtType, Stages
<1>11. CASE Take
  <2>1. stage = "picking" /\ model' = NoModel /\ UNCHANGED <<env, files, todo, plan, memory, answers>>
    BY <1>11, Taking
  <2>2. CASE stage' = "refused" /\ UNCHANGED <<opt, rows, consent>>
    BY <2>1, <2>2, Frame DEF Types, AtType, Stages, ModelType
  <2>3. CASE stage' = "scope" /\ UNCHANGED <<rows, consent>> /\ \E scope \in Scopes : opt' = [opt EXCEPT !.at = scope]
    <3>1. OptType' /\ opt'.at \in Scopes
      BY <2>3 DEF Types, OptType
    <3> QED BY <2>1, <2>3, <3>1, Frame DEF Types, AtType, Stages, ModelType
  <2>4. CASE /\ rows' \in Seq(RowSet)
             /\ consent' = [consent EXCEPT !.selected = Ids(rows'), !.sources = Scheds(rows')]
             /\ Ids(rows') \subseteq Targets /\ Scheds(rows') \subseteq Grants
             /\ stage' \in {"refused", "check", "target"}
             /\ UNCHANGED opt
    <3>1. ConsentType'
      <4>1. PICK set \in SUBSET Targets, scheds \in SUBSET Grants :
               consent' = [consent EXCEPT !.selected = set, !.sources = scheds]
        BY <2>4
      <4> QED BY <4>1 DEF Types, ConsentType
    <3> QED BY <2>1, <2>4, <3>1, Frame DEF Types, AtType, Stages, ModelType
  <2> QED BY <1>11, <2>2, <2>3, <2>4, Taking
<1>12. CASE ResolveNeed
  <2>0. UNCHANGED <<opt, stage, env, rows, plan, model, memory, consent>>
    BY <1>12 DEF ResolveNeed
  <2>1. PICK role \in Roles, scope \in Scopes, roles \in SUBSET Grants :
           LET chosen == Choose(roles, role, scope, AnySchedule)
           IN  \/ /\ \/ scope \in DOMAIN todo.read /\ roles = todo.read[scope] /\ UNCHANGED <<files, answers>>
                     \/ roles = Told(scope) /\ Reads(scope)
                  /\ todo'.next = todo.next + 1 /\ todo'.failed = (todo.failed \/ Cardinality(chosen) # 1)
                  /\ todo'.read = [s \in DOMAIN todo.read \union {scope} |-> IF s = scope THEN roles ELSE todo.read[s]]
                  /\ todo'.found = IF Cardinality(chosen) # 1 THEN todo.found
                                   ELSE Append(todo.found, Row(Sole(chosen), scope))
                  /\ todo' = [next |-> todo'.next, failed |-> todo'.failed, read |-> todo'.read, found |-> todo'.found]
               \/ /\ UNCHANGED <<files, answers>>
                  /\ todo' = [todo EXCEPT !.next = todo.next + 1, !.failed = TRUE]
    BY <1>12, NeedResolved
  <2>2. FilesType' /\ AnswersType'
    BY <2>1, ReadsType, Frame DEF Types
  <2>3. TodoType'
    <3> DEFINE chosen == Choose(roles, role, scope, AnySchedule)
    <3>0. TodoType /\ todo.next \in Nat \ {0} /\ todo.failed \in BOOLEAN /\ todo.read \in Known /\ todo.found \in Seq(RowSet)
      BY DEF Types, TodoType
    <3>1. CASE todo' = [todo EXCEPT !.next = todo.next + 1, !.failed = TRUE]
      <4>1. PICK n \in Nat \ {0} : n = todo.next + 1
        BY <3>0
      <4>2. todo' = [todo EXCEPT !.next = n, !.failed = TRUE]
        BY <3>1, <4>1
      <4> QED BY <3>0, <4>2 DEF TodoType
    <3>2. CASE /\ todo'.next = todo.next + 1 /\ todo'.failed = (todo.failed \/ Cardinality(chosen) # 1)
               /\ todo'.read = [s \in DOMAIN todo.read \union {scope} |-> IF s = scope THEN roles ELSE todo.read[s]]
               /\ todo'.found = IF Cardinality(chosen) # 1 THEN todo.found
                                ELSE Append(todo.found, Row(Sole(chosen), scope))
               /\ todo' = [next |-> todo'.next, failed |-> todo'.failed, read |-> todo'.read, found |-> todo'.found]
      <4>1. Cardinality(chosen) = 1 => Sole(chosen) \in Grants
        <5>1. env.now \in Int
          BY PlanningAssumption DEF Types, EnvType
        <5> QED BY <5>1, SoleChoice
      <4> HIDE DEF chosen
      <4>2. todo'.found \in Seq(RowSet)
        BY <3>0, <3>2, <4>1, RowType, AppendProperties
      <4>3. todo'.read \in Known
        <5>1. PICK scopes \in SUBSET Scopes : todo.read \in [scopes -> SUBSET Grants]
          BY <3>0 DEF Known
        <5>2. scopes \union {scope} \in SUBSET Scopes
          OBVIOUS
        <5>3. todo'.read \in [scopes \union {scope} -> SUBSET Grants]
          BY <3>2, <5>1
        <5> QED BY <5>2, <5>3 DEF Known
      <4>4. todo'.next \in Nat \ {0} /\ todo'.failed \in BOOLEAN
        BY <3>0, <3>2
      <4> QED BY <3>2, <4>2, <4>3, <4>4 DEF TodoType
    <3> QED BY <2>1, <3>1, <3>2
  <2> QED BY <2>0, <2>2, <2>3, Frame, <1>12 DEF Types, AtType, ResolveNeed
<1>13. CASE Resolved
  <2>1. /\ rows' = todo.found /\ stage = "resolve" /\ stage' \in {"refused", "verify", "write"}
        /\ UNCHANGED <<opt, env, files, todo, plan, model, memory, consent, answers>>
    BY <1>13 DEF Resolved, Go, Refused
  <2>2. rows' \in Seq(RowSet)
    BY <2>1 DEF Types, TodoType
  <2> QED BY <2>1, <2>2, Frame DEF Types, AtType, Stages
<1>14. CASE Verify
  BY <1>14, Verified, Frame DEF Types, AtType, Stages
<1>15. CASE BeginPlan
  BY <1>15, PlanBegan, Frame DEF Types, AtType, Stages
<1>16. CASE EndPlan
  BY <1>16, PlanEnded, Frame DEF Types, AtType, Stages
<1>17. CASE Justify
  <2>1. /\ stage = "justify" /\ stage' \in {"confirm", "refused"}
        /\ UNCHANGED <<opt, env, files, todo, rows, plan, model, memory, answers>>
    BY <1>17 DEF Justify, Go, Refused
  <2>2. ConsentType'
    <3>1. \/ UNCHANGED consent
          \/ \E reason \in {"flag", "default", "typed", memory.reason} :
               \/ consent' = [consent EXCEPT !.reason = reason]
               \/ consent' = [consent EXCEPT !.reason = reason, !.prompted = TRUE]
      BY <1>17 DEF Justify
    <3>2. {"flag", "default", "typed", memory.reason} \subseteq Reasons
      BY DEF Types, MemoryType, Reasons
    <3> QED BY <3>1, <3>2 DEF Types, ConsentType
  <2> QED BY <2>1, <2>2, Frame DEF Types, AtType, Stages
<1>18. CASE Confirm
  <2>1. /\ stage = "confirm" /\ stage' \in {"submit", "refused"}
        /\ UNCHANGED <<opt, env, files, todo, rows, plan, model, memory, answers>>
        /\ consent' = consent \/ consent' = [consent EXCEPT !.confirmed = Submissions]
    BY <1>18 DEF Confirm, Go, Refused
  <2>2. ConsentType'
    <3>1. Submissions \in Nat
      BY PlanFits DEF Types
    <3> QED BY <2>1, <3>1 DEF Types, ConsentType
  <2> QED BY <2>1, <2>2, Frame DEF Types, AtType, Stages
<1>19. CASE Remember
  BY <1>19, Remembered, Frame DEF Types, AtType, Stages
<1>20. ASSUME NEW i \in Items, LookUp(i) PROVE Types'
  BY <1>20, LookedUp, Frame DEF Types, AtType, Stages
<1>21. ASSUME NEW i \in Items, Submit(i) PROVE Types'
  BY <1>21, Submitted, Frame DEF Types, AtType, Stages
<1>22. CASE ReadScope
  BY <1>22, ScopeRead, Frame DEF Types, AtType, Stages
<1>23. CASE FilterRows
  BY <1>23, Filtered, Frame DEF Types, AtType, Stages
<1>24. CASE CheckPicked
  <2>1. /\ stage = "check" /\ stage' \in {"another", "refused"}
        /\ todo' = [todo EXCEPT !.found = todo.found \o rows, !.next = todo.next + 1]
        /\ UNCHANGED <<opt, env, files, rows, plan, model, memory, consent, answers>>
    BY <1>24 DEF CheckPicked, Go, Refused
  <2>2. TodoType'
    <3>1. PICK found : found = todo.found \o rows
      OBVIOUS
    <3>2. found \in Seq(RowSet)
      BY <3>1, ConcatProperties DEF Types, TodoType
    <3>3. PICK n \in Nat \ {0} : n = todo.next + 1
      BY DEF Types, TodoType
    <3>4. todo' = [todo EXCEPT !.found = found, !.next = n]
      BY <2>1, <3>1, <3>3
    <3> QED BY <3>2, <3>4 DEF Types, TodoType
  <2> QED BY <2>1, <2>2, Frame DEF Types, AtType, Stages
<1>25. CASE Another
  <2>1. /\ stage = "another" /\ stage' \in {"browse", "write"} /\ (rows' = rows \/ rows' = todo.found)
        /\ UNCHANGED <<opt, env, files, todo, plan, model, memory, consent, answers>>
    BY <1>25 DEF Another, Go
  <2>2. rows' \in Seq(RowSet)
    BY <2>1 DEF Types, TodoType
  <2> QED BY <2>1, <2>2, Frame DEF Types, AtType, Stages
<1>26. CASE Write
  BY <1>26, Written, Frame DEF Types, AtType, Stages
<1>27. CASE Tick \/ Regrant \/ Interrupt
  <2>1. /\ stage # "picking" /\ UNCHANGED <<opt, stage, files, todo, rows, plan, model, memory, consent, answers>>
    BY <1>27 DEF Tick, Regrant, Interrupt, Reading
  <2>2. EnvType'
    <3>0. EnvType /\ MaxTime \in Nat /\ MaxChanges \in Nat
      BY PlanningAssumption DEF Types
    <3>1. CASE Tick
      BY <3>0, <3>1 DEF Tick, EnvType
    <3>2. CASE Regrant
      <4>1. PICK grants \in Worlds : env' = [env EXCEPT !.grants = grants, !.changes = env.changes + 1]
        BY <3>2 DEF Regrant
      <4>2. env.changes + 1 \in 0..MaxChanges
        BY <3>0, <3>2 DEF Regrant, EnvType
      <4>3. PICK n \in 0..MaxChanges : n = env.changes + 1
        BY <4>2
      <4>4. env' = [env EXCEPT !.grants = grants, !.changes = n]
        BY <4>1, <4>3
      <4> QED BY <3>0, <4>4 DEF EnvType
    <3>3. CASE Interrupt
      BY <3>0, <3>3 DEF Interrupt, EnvType
    <3> QED BY <1>27, <3>1, <3>2, <3>3
  <2> QED BY <2>1, <2>2, Frame DEF Types, AtType, Stages
<1>28. CASE Finished \/ UNCHANGED vars
  <2>1. UNCHANGED vars
    BY <1>28 DEF Finished
  <2> QED BY <2>1, Frame DEF vars, Types, AtType, ModelType
<1> QED BY <1>1, <1>2, <1>3, <1>4, <1>5, <1>6, <1>7, <1>8, <1>9, <1>10, <1>11, <1>12, <1>13, <1>14, <1>15,
           <1>16, <1>17, <1>18, <1>19, <1>20, <1>21, <1>22, <1>23, <1>24, <1>25, <1>26, <1>27, <1>28 DEF Next

\* The types are invariant.
LEMMA TypesInvariant == Spec => []Types
BY TypeInit, TypeStep, PTL DEF Spec

\* Whatever was chosen, read and cached, the state stays what the code's types and
\* checks make it: every row is of a schedule and a scope of the tenant, a planned
\* duration is within its policy's maximum, and the picker selects rows it has
\* (targetedRow, planItem, scopedEligibilities, resolveDuration, pickerModel).
THEOREM TypeCorrect == Spec => []TypeOK
BY TypesInvariant, TypesOK, PTL

\* Only a key or a resize leaves a picker on screen.
LEMMA PlaceKept ==
  ASSUME Types, [Next]_vars, stage = "picking", stage' = "picking"
  PROVE  /\ CursorIsDrawn(model')
         /\ \A i \in 1..Len(model.items) :
              i \notin ShownItems(model) => (i \in model.selected <=> i \in model'.selected)
         /\ (model.filter # model'.filter \/ model.termRows # model'.termRows) /\ HasCursor(model)
              /\ UnderCursor(model) \in ShownItems(model')
            => HasCursor(model') /\ UnderCursor(model') = UnderCursor(model)
<1>1. Press \/ UNCHANGED vars
  BY DEF Next, CheckFlags, Open, ReadEligibilities, ResolveSaved, ChooseRows, ChooseTarget, Narrow, Offer, Browse,
       Take, ResolveNeed, Resolved, Verify, BeginPlan, EndPlan, Justify, Confirm, Remember, LookUp, Submit,
       ReadScope, FilterRows, CheckPicked, Another, Write, Tick, Regrant, Interrupt, Finished, Reading, Over, Go, Refused
<1>2. CASE Press
  <2>1. OnScreen(model') /\ KeepsPlace(model, model')
    BY <1>2, PressedOn
  <2>2. CursorIsDrawn(model')
    <3>1. ASSUME NEW m, OnScreen(m) PROVE CursorIsDrawn(m)
      BY <3>1 DEF OnScreen
    <3> QED BY <2>1, <3>1
  <2> QED BY <2>1, <2>2 DEF KeepsPlace, StaysOn
<1>3. CASE UNCHANGED vars
  <2>1. model' = model /\ CursorIsDrawn(model)
    BY <1>3 DEF vars, Types, ModelType, OnScreen
  <2> QED BY <2>1
<1> QED BY <1>1, <1>2, <1>3

\* Under every key, every edit of the filter and every resize, of whatever list and
\* terminal, the cursor is drawn, stays on its row while the filter shows it, and a key
\* selects or clears only rows that are shown (Update, refilter, clampWindow,
\* toggleAllShown).
THEOREM PickerKeeps == Spec => PickerKeepsItsPlace
<1>1. Types /\ [Next]_vars =>
        [stage = "picking" /\ stage' = "picking" =>
           /\ CursorIsDrawn(model')
           /\ \A i \in 1..Len(model.items) :
                i \notin ShownItems(model) => (i \in model.selected <=> i \in model'.selected)
           /\ (model.filter # model'.filter \/ model.termRows # model'.termRows) /\ HasCursor(model)
                /\ UnderCursor(model) \in ShownItems(model')
              => HasCursor(model') /\ UnderCursor(model') = UnderCursor(model)]_vars
  BY PlaceKept
<1> QED BY <1>1, TypesInvariant, PTL DEF Spec, PickerKeepsItsPlace

=============================================================================
