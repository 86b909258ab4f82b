------------------------- MODULE Breakpoints_proofs -------------------------
(***************************************************************************)
(* Proofs about the breakpoints, for every set of locations and of stop    *)
(* goroutines and every bound: the types, that the coalesced refresh never *)
(* misses a change of GDB's table (RefreshIsCurrent), and that at rest the *)
(* panes show GDB's table (GuttersFollowGdb).                              *)
(*                                                                         *)
(* The first part is about the list: whatever rows a merge starts from,    *)
(* the enabled rows it ends with are the ones of the reply.                *)
(***************************************************************************)
EXTENDS Breakpoints, FiniteSetTheorems, SequenceTheorems, TLAPS

(* Numbers in order: every number of a finite set is the k-th for one k.   *)
Rank(S, i) == Cardinality({j \in S : j < i})

LEMMA RankGrows ==
    ASSUME NEW S \in SUBSET Nat, IsFiniteSet(S), NEW i \in S
    PROVE  /\ Rank(S, i) \in 0 .. Cardinality(S) - 1
           /\ \A h \in S : h < i => Rank(S, h) < Rank(S, i)
<1> DEFINE L(h) == {j \in S : j < h}
<1>1. ASSUME NEW h \in S
      PROVE  IsFiniteSet(L(h)) /\ Cardinality(L(h)) \in Nat /\ Cardinality(L(h)) < Cardinality(S)
  <2>1. L(h) \in SUBSET S /\ h \notin L(h)
    OBVIOUS
  <2>2. IsFiniteSet(L(h)) /\ Cardinality(L(h)) <= Cardinality(S) /\ Cardinality(L(h)) # Cardinality(S)
    BY <2>1, FS_Subset
  <2>3. Cardinality(L(h)) \in Nat /\ Cardinality(S) \in Nat
    BY <2>2, FS_CardinalityType
  <2> QED
    BY <2>2, <2>3
<1>2. Cardinality(S) \in Nat
  BY FS_CardinalityType
<1>3. ASSUME NEW h \in S, h < i PROVE Cardinality(L(h)) < Cardinality(L(i))
  <2>a. \A j \in S : j < h => j < i
    <3>1. h \in Nat /\ i \in Nat /\ \A j \in S : j \in Nat
      OBVIOUS
    <3> QED
      BY <1>3, <3>1
  <2>b. ~(h < h)
    <3>1. h \in Nat
      OBVIOUS
    <3> QED
      BY <3>1
  <2>1. L(h) \in SUBSET L(i) /\ h \in L(i) /\ h \notin L(h)
    BY <1>3, <2>a, <2>b
  <2>2. Cardinality(L(h)) <= Cardinality(L(i)) /\ Cardinality(L(h)) # Cardinality(L(i))
    BY <2>1, <1>1, FS_Subset
  <2> QED
    BY <2>2, <1>1
<1> QED
  BY <1>1, <1>2, <1>3 DEF Rank

LEMMA RankIsOnto ==
    ASSUME NEW S \in SUBSET Nat, IsFiniteSet(S)
    PROVE  \A k \in 0 .. Cardinality(S) - 1 : \E i \in S : Rank(S, i) = k
<1> DEFINE T == 0 .. Cardinality(S) - 1
           f == [i \in S |-> Rank(S, i)]
<1>1. Cardinality(S) \in Nat
  BY FS_CardinalityType
<1>2. IsFiniteSet(T) /\ Cardinality(T) = Cardinality(S)
  <2>1. PICK n \in Nat : n = Cardinality(S)
    BY <1>1
  <2>2. 0 \in Int /\ n - 1 \in Int
    OBVIOUS
  <2>3. IsFiniteSet(0 .. n - 1) /\ Cardinality(0 .. n - 1) = IF 0 > n - 1 THEN 0 ELSE n - 1 - 0 + 1
    BY <2>2, FS_Interval
  <2>4. Cardinality(0 .. n - 1) = n
    BY <2>3
  <2> QED
    BY <2>1, <2>3, <2>4
<1>3. f \in [S -> T]
  BY RankGrows
<1>4. \A i, h \in S : i # h => f[i] # f[h]
  <2>1. SUFFICES ASSUME NEW i \in S, NEW h \in S, i < h PROVE f[i] # f[h]
    OBVIOUS
  <2>2. Rank(S, i) < Rank(S, h) /\ Rank(S, i) \in Int /\ Rank(S, h) \in Int
    BY <2>1, <1>1, RankGrows
  <2> QED
    BY <2>2
<1>5. f \in Injection(S, T)
  BY <1>3, <1>4 DEF Injection, IsInjective
<1>6. f \in Surjection(S, T)
  BY <1>2, <1>5, FS_Injection
<1> QED
  BY <1>6 DEF Surjection

LEMMA NthIsOnto ==
    ASSUME NEW S \in SUBSET Nat, IsFiniteSet(S)
    PROVE  /\ \A k \in 1 .. Cardinality(S) : Nth(S, k) \in S /\ Rank(S, Nth(S, k)) = k - 1
           /\ \A i \in S : \E k \in 1 .. Cardinality(S) : Nth(S, k) = i
<1>1. Cardinality(S) \in Nat
  BY FS_CardinalityType
<1>2. ASSUME NEW k \in 1 .. Cardinality(S)
      PROVE  Nth(S, k) \in S /\ Rank(S, Nth(S, k)) = k - 1
  <2>1. \E i \in S : Rank(S, i) = k - 1
    BY <1>1, RankIsOnto
  <2> QED
    BY <2>1 DEF Nth, Rank
<1>3. ASSUME NEW i \in S PROVE \E k \in 1 .. Cardinality(S) : Nth(S, k) = i
  <2> DEFINE k == Rank(S, i) + 1
  <2>1. k \in 1 .. Cardinality(S) /\ k - 1 = Rank(S, i)
    BY <1>1, RankGrows
  <2>2. Nth(S, k) \in S /\ Rank(S, Nth(S, k)) = Rank(S, i)
    BY <2>1, <1>2
  <2>3. Nth(S, k) = i
    <3>1. ASSUME NEW h \in S, NEW j \in S, h < j PROVE Rank(S, h) # Rank(S, j)
      <4>1. Rank(S, h) < Rank(S, j) /\ Rank(S, h) \in Int /\ Rank(S, j) \in Int
        BY <3>1, <1>1, RankGrows
      <4> QED
        BY <4>1
    <3> HIDE DEF k
    <3>2. Nth(S, k) \in Nat /\ i \in Nat
      BY <2>2
    <3> QED
      BY <2>2, <3>1, <3>2
  <2> QED
    BY <2>1, <2>3
<1> QED
  BY <1>2, <1>3

LEMMA ExtremeNumbers ==
    ASSUME NEW S \in SUBSET Nat, IsFiniteSet(S), S # {}
    PROVE  /\ \E i \in S : \A j \in S : j <= i
           /\ \E i \in S : \A j \in S : i <= j
<1>1. PICK n \in Nat : n = Cardinality(S)
  BY FS_CardinalityType
<1>2. n # 0
  BY <1>1, FS_EmptySet
<1>3. \A i \in S : i \in Nat /\ Rank(S, i) \in 0 .. n - 1
  BY <1>1, RankGrows
<1>4. \A i, j \in S : i < j => Rank(S, i) < Rank(S, j)
  BY RankGrows
<1>5. \E i \in S : Rank(S, i) = n - 1
  BY <1>1, <1>2, RankIsOnto
<1>6. \E i \in S : Rank(S, i) = 0
  BY <1>1, <1>2, RankIsOnto
<1>7. ASSUME NEW i \in S, NEW j \in S
      PROVE  /\ Rank(S, i) = n - 1 => j <= i
             /\ Rank(S, i) = 0 => i <= j
  <2>1. i \in Nat /\ j \in Nat /\ Rank(S, i) \in 0 .. n - 1 /\ Rank(S, j) \in 0 .. n - 1
    BY <1>3
  <2>2. (i < j => Rank(S, i) < Rank(S, j)) /\ (j < i => Rank(S, j) < Rank(S, i))
    BY <1>4
  <2> QED
    BY <2>1, <2>2
<1> QED
  BY <1>5, <1>6, <1>7

LEMMA KeptRows ==
    ASSUME NEW items, NEW S \in SUBSET Nat, IsFiniteSet(S)
    PROVE  /\ DOMAIN Kept(items, S) = 1 .. Cardinality(S)
           /\ \A k \in DOMAIN Kept(items, S) : \E i \in S : Kept(items, S)[k] = items[i]
           /\ \A i \in S : \E k \in DOMAIN Kept(items, S) : Kept(items, S)[k] = items[i]
  BY NthIsOnto DEF Kept

LEMMA KeptType ==
    ASSUME NEW T, NEW items, NEW S \in SUBSET Nat, IsFiniteSet(S), \A i \in S : items[i] \in T
    PROVE  Kept(items, S) \in Seq(T)
<1>1. PICK n \in Nat : n = Cardinality(S)
  BY FS_CardinalityType
<1>2. \A k \in 1 .. n : Nth(S, k) \in S
  BY <1>1, NthIsOnto
<1>3. Kept(items, S) = [k \in 1 .. n |-> items[Nth(S, k)]]
  BY <1>1 DEF Kept
<1>4. \A k \in 1 .. n : items[Nth(S, k)] \in T
  BY <1>2
<1>5. Kept(items, S) \in [1 .. n -> T]
  BY <1>3, <1>4
<1> QED
  BY <1>5
---------------------------------------------------------------------------
(* Replies, in the order of their numbers *)

Numbered(S) ==
    /\ IsFiniteSet(S)
    /\ \A g \in S : g.num \in Nat
    /\ \A g, h \in S : g.num = h.num => g = h

Nums(S) == {g.num : g \in S}

LEMMA NumsFinite ==
    ASSUME NEW S, Numbered(S)
    PROVE  Nums(S) \in SUBSET Nat /\ IsFiniteSet(Nums(S))
<1> DEFINE f == [g \in S |-> g.num]
<1>1. f \in Surjection(S, Nums(S))
  BY DEF Surjection, Nums
<1>2. IsFiniteSet(Nums(S))
  BY <1>1, FS_Surjection DEF Numbered
<1> QED
  BY <1>2 DEF Nums, Numbered

LEMMA SubsetNumbered ==
    ASSUME NEW S, NEW T, Numbered(S), T \subseteq S
    PROVE  Numbered(T)
  BY FS_Subset DEF Numbered

LEMMA InOrderRows ==
    ASSUME NEW S, Numbered(S)
    PROVE  /\ InOrder(S) \in Seq(S)
           /\ \A g \in S : \E k \in DOMAIN InOrder(S) : InOrder(S)[k] = g
<1>1. Nums(S) \in SUBSET Nat /\ IsFiniteSet(Nums(S))
  BY NumsFinite
<1>2. PICK n \in Nat : n = Cardinality(Nums(S))
  BY <1>1, FS_CardinalityType
<1> DEFINE row(k) == CHOOSE g \in S : g.num = Nth(Nums(S), k)
<1>3. InOrder(S) = [k \in 1 .. n |-> row(k)]
  BY <1>2 DEF InOrder, Nums
<1>4. \A k \in 1 .. n : row(k) \in S /\ row(k).num = Nth(Nums(S), k)
  <2>1. \A k \in 1 .. n : Nth(Nums(S), k) \in Nums(S)
    BY <1>1, <1>2, NthIsOnto
  <2>2. \A k \in 1 .. n : \E g \in S : g.num = Nth(Nums(S), k)
    BY <2>1 DEF Nums
  <2> QED
    BY <2>2
<1>5. \A g \in S : \E k \in 1 .. n : Nth(Nums(S), k) = g.num
  <2>1. \A i \in Nums(S) : \E k \in 1 .. n : Nth(Nums(S), k) = i
    BY <1>1, <1>2, NthIsOnto
  <2> QED
    BY <2>1 DEF Nums
<1> HIDE DEF row
<1>6. InOrder(S) \in [1 .. n -> S]
  BY <1>3, <1>4
<1>7. ASSUME NEW g \in S PROVE \E k \in DOMAIN InOrder(S) : InOrder(S)[k] = g
  <2>1. PICK k \in 1 .. n : Nth(Nums(S), k) = g.num
    BY <1>5
  <2>2. row(k) = g
    BY <2>1, <1>4 DEF Numbered
  <2> QED
    BY <2>1, <2>2, <1>3
<1> QED
  BY <1>6, <1>7

(* A reply that is not empty has a last row and a first one. *)
LEMMA Extremes ==
    ASSUME NEW S, Numbered(S), S # {}
    PROVE  /\ \E g \in S : \A h \in S : h.num <= g.num
           /\ \E g \in S : \A h \in S : g.num <= h.num
<1>1. Nums(S) \in SUBSET Nat /\ IsFiniteSet(Nums(S)) /\ Nums(S) # {}
  BY NumsFinite DEF Nums
<1>2. /\ \E i \in Nums(S) : \A j \in Nums(S) : j <= i
      /\ \E i \in Nums(S) : \A j \in Nums(S) : i <= j
  BY <1>1, ExtremeNumbers
<1> QED
  BY <1>2 DEF Nums
---------------------------------------------------------------------------
(* The merge *)

LEMMA RowFields ==
    ASSUME NEW g \in Row
    PROVE  /\ g.num \in Nat /\ g.en \in BOOLEAN /\ g.cond \in BOOLEAN
           /\ g.loc \in Loc \cup {NoLoc} /\ g.addr \in Addr \cup {NoAddr}
           /\ \A e \in BOOLEAN :
                /\ [g EXCEPT !.en = e] \in Row
                /\ [g EXCEPT !.en = e].en = e
                /\ [g EXCEPT !.en = e].num = g.num
                /\ [g EXCEPT !.en = e].loc = g.loc
                /\ [g EXCEPT !.en = e].addr = g.addr
                /\ [g EXCEPT !.en = e].cond = g.cond
           /\ [g EXCEPT !.num = 0] \in Row
           /\ [g EXCEPT !.num = 0].num = 0
           /\ [g EXCEPT !.num = 0].en = g.en
  BY DEF Row

LEMMA EnabledKey ==
    ASSUME NEW g \in Row
    PROVE  breakKey([g EXCEPT !.en = TRUE]) = breakKey(g)
  BY RowFields DEF breakKey

LEMMA LastOfReported ==
    ASSUME NEW live, Numbered(live), NEW k, reported(live, k) # {}
    PROVE  /\ lastOf(live, k) \in live /\ breakKey(lastOf(live, k)) = k
           /\ \E g \in reported(live, k) : \A h \in reported(live, k) : g.num <= h.num
<1>1. Numbered(reported(live, k))
  BY SubsetNumbered DEF reported
<1>2. \E g \in reported(live, k) : \A h \in reported(live, k) : h.num <= g.num
  BY <1>1, Extremes
<1>3. lastOf(live, k) \in reported(live, k)
  BY <1>2 DEF lastOf
<1>4. \E g \in reported(live, k) : \A h \in reported(live, k) : g.num <= h.num
  BY <1>1, Extremes
<1> QED
  BY <1>3, <1>4 DEF reported

LEMMA MergedRow ==
    ASSUME NEW live \in SUBSET Row, Numbered(live), NEW r \in Row
    PROVE  /\ merged(r, live) \in Row
           /\ reported(live, breakKey(r)) # {} =>
                merged(r, live).en /\ breakKey(merged(r, live)) = breakKey(r)
           /\ reported(live, breakKey(r)) = {} =>
                merged(r, live).en = r.en /\ merged(r, live).num = 0
<1>1. CASE reported(live, breakKey(r)) # {}
  <2>1. lastOf(live, breakKey(r)) \in live /\ breakKey(lastOf(live, breakKey(r))) = breakKey(r)
    BY <1>1, LastOfReported
  <2>2. PICK l \in Row : l = lastOf(live, breakKey(r)) /\ breakKey(l) = breakKey(r)
    BY <2>1
  <2>3. merged(r, live) = [l EXCEPT !.en = TRUE]
    BY <1>1, <2>2 DEF merged
  <2>4. [l EXCEPT !.en = TRUE] \in Row /\ [l EXCEPT !.en = TRUE].en
    BY RowFields
  <2>5. breakKey([l EXCEPT !.en = TRUE]) = breakKey(r)
    BY <2>2, EnabledKey
  <2> QED
    BY <1>1, <2>3, <2>4, <2>5
<1>2. CASE reported(live, breakKey(r)) = {}
  BY <1>2, RowFields DEF merged
<1> QED
  BY <1>1, <1>2

DisabledUnnumbered(rows) == \A i \in DOMAIN rows : ~rows[i].en => rows[i].num = 0

(* The merged list is in two halves: rows that were there, and rows of the *)
(* reply that were not.                                                    *)
Stayed(items, live)   == Kept([i \in DOMAIN items |-> merged(items[i], live)], staying(items, live))
Appended(items, live) == InOrder({[g EXCEPT !.en = TRUE] : g \in unseen(items, live)})

LEMMA StayingRows ==
    ASSUME NEW items \in Seq(Row), NEW live \in SUBSET Row, Numbered(live),
           NEW s, s = Stayed(items, live)
    PROVE  /\ s \in Seq(Row)
           /\ DisabledUnnumbered(s)
           /\ \A k \in DOMAIN s : s[k].en => \E g \in live : breakKey(g) = breakKey(s[k])
           /\ \A i \in DOMAIN items : reported(live, breakKey(items[i])) # {} =>
                \E k \in DOMAIN s : s[k].en /\ breakKey(s[k]) = breakKey(items[i])
<1> DEFINE S == staying(items, live)
           mrg == [i \in DOMAIN items |-> merged(items[i], live)]
<1>1. PICK n \in Nat : DOMAIN items = 1 .. n
  BY LenProperties
<1>2. S \subseteq 1 .. n
  BY <1>1 DEF staying
<1>3. IsFiniteSet(1 .. n)
  <2>1. 1 \in Int /\ n \in Int
    OBVIOUS
  <2> QED
    BY <2>1, FS_Interval
<1>4. IsFiniteSet(S) /\ S \in SUBSET Nat
  BY <1>2, <1>3, FS_Subset
<1>5. \A i \in DOMAIN items : items[i] \in Row
  BY ElementOfSeq, <1>1
<1>6. \A i \in S : i \in DOMAIN items /\ (reported(live, breakKey(items[i])) # {} \/ ~items[i].en)
  BY DEF staying
<1>7. \A i \in S :
        /\ mrg[i] = merged(items[i], live) /\ mrg[i] \in Row
        /\ mrg[i].en => reported(live, breakKey(items[i])) # {} /\ breakKey(mrg[i]) = breakKey(items[i])
        /\ ~mrg[i].en => mrg[i].num = 0
  BY <1>5, <1>6, MergedRow
<1>a. s = Kept(mrg, S)
  BY DEF Stayed
<1>8. s \in Seq(Row)
  BY <1>4, <1>7, <1>a, KeptType
<1> HIDE DEF mrg, S
<1>b. /\ \A k \in DOMAIN Kept(mrg, S) : \E i \in S : Kept(mrg, S)[k] = mrg[i]
      /\ \A i \in S : \E k \in DOMAIN Kept(mrg, S) : Kept(mrg, S)[k] = mrg[i]
  BY <1>4, KeptRows
<1>9. \A k \in DOMAIN s : \E i \in S : s[k] = mrg[i]
  BY <1>a, <1>b
<1>10. \A i \in S : \E k \in DOMAIN s : s[k] = mrg[i]
  BY <1>a, <1>b
<1>11. DisabledUnnumbered(s)
  BY <1>7, <1>9 DEF DisabledUnnumbered
<1>12. \A k \in DOMAIN s : s[k].en => \E g \in live : breakKey(g) = breakKey(s[k])
  BY <1>7, <1>9 DEF reported
<1>13. ASSUME NEW i \in DOMAIN items, reported(live, breakKey(items[i])) # {}
       PROVE  \E k \in DOMAIN s : s[k].en /\ breakKey(s[k]) = breakKey(items[i])
  <2>1. i \in S
    BY <1>13 DEF S, staying
  <2>2. mrg[i].en /\ breakKey(mrg[i]) = breakKey(items[i])
    BY <2>1, <1>5, <1>7, <1>13, MergedRow
  <2> QED
    BY <2>1, <2>2, <1>10
<1> QED
  BY <1>8, <1>11, <1>12, <1>13

LEMMA UnseenRows ==
    ASSUME NEW items, NEW live \in SUBSET Row, Numbered(live),
           NEW t, t = Appended(items, live)
    PROVE  /\ t \in Seq(Row)
           /\ \A k \in DOMAIN t : t[k].en /\ \E g \in live : breakKey(g) = breakKey(t[k])
           /\ \A g \in unseen(items, live) :
                \E k \in DOMAIN t : t[k].en /\ breakKey(t[k]) = breakKey(g)
<1> DEFINE U == unseen(items, live)
           e(g) == [g EXCEPT !.en = TRUE]
           E == {e(g) : g \in U}
           f == [g \in U |-> e(g)]
<1>1. U \subseteq live /\ Numbered(U)
  BY SubsetNumbered DEF unseen
<1>2. \A g \in U : e(g) \in Row /\ e(g).en /\ e(g).num = g.num /\ breakKey(e(g)) = breakKey(g)
  BY <1>1, RowFields, EnabledKey
<1>3. f \in Surjection(U, E)
  BY DEF Surjection
<1>4. IsFiniteSet(E)
  BY <1>1, <1>3, FS_Surjection DEF Numbered
<1> HIDE DEF e, U, f
<1>5. Numbered(E)
  <2>1. \A g \in E : g.num \in Nat
    BY <1>1, <1>2 DEF Numbered
  <2>2. \A g, h \in U : e(g).num = e(h).num => e(g) = e(h)
    BY <1>1, <1>2 DEF Numbered
  <2> QED
    BY <1>4, <2>1, <2>2 DEF Numbered
<1>6. t = InOrder(E)
  BY DEF e, U, Appended
<1>7. InOrder(E) \in Seq(E) /\ \A g \in E : \E k \in DOMAIN InOrder(E) : InOrder(E)[k] = g
  BY <1>5, InOrderRows
<1>8. \A g \in E : /\ g \in Row /\ g.en /\ \E h \in live : breakKey(h) = breakKey(g)
  BY <1>1, <1>2
<1>9. \A k \in DOMAIN t : t[k] \in E
  BY <1>6, <1>7, ElementOfSeq, LenProperties
<1>10. t \in Seq(Row)
  <2>1. E \subseteq Row
    BY <1>8
  <2>2. t \in Seq(E)
    BY <1>6, <1>7
  <2> HIDE DEF E
  <2> QED
    BY <2>1, <2>2
<1>11. \A g \in U : \E k \in DOMAIN t : t[k] = e(g)
  BY <1>6, <1>7
<1> QED
  BY <1>2, <1>8, <1>9, <1>10, <1>11 DEF U

(* Whatever the list was, the enabled rows after a merge are the ones of   *)
(* the reply.                                                              *)
THEOREM MergeMarksReply ==
    ASSUME NEW items \in Seq(Row), NEW live \in SUBSET Row, Numbered(live)
    PROVE  /\ MergeFromGDB(items, live) \in Seq(Row)
           /\ DisabledUnnumbered(MergeFromGDB(items, live))
           /\ Marked(MergeFromGDB(items, live)) = {breakKey(g) : g \in live}
<1>a. PICK s : s = Stayed(items, live)
  OBVIOUS
<1>b. PICK t : t = Appended(items, live)
  OBVIOUS
<1>c. PICK m : m = MergeFromGDB(items, live)
  OBVIOUS
<1>1. m = s \o t
  BY <1>a, <1>b, <1>c DEF MergeFromGDB, Stayed, Appended
<1>2. /\ s \in Seq(Row)
      /\ DisabledUnnumbered(s)
      /\ \A k \in DOMAIN s : s[k].en => \E g \in live : breakKey(g) = breakKey(s[k])
      /\ \A i \in DOMAIN items : reported(live, breakKey(items[i])) # {} =>
           \E k \in DOMAIN s : s[k].en /\ breakKey(s[k]) = breakKey(items[i])
  BY <1>a, StayingRows
<1>3. /\ t \in Seq(Row)
      /\ \A k \in DOMAIN t : t[k].en /\ \E g \in live : breakKey(g) = breakKey(t[k])
      /\ \A g \in unseen(items, live) :
           \E k \in DOMAIN t : t[k].en /\ breakKey(t[k]) = breakKey(g)
  BY <1>b, UnseenRows
<1>4. PICK p \in Nat, q \in Nat : Len(s) = p /\ DOMAIN s = 1 .. p /\ Len(t) = q /\ DOMAIN t = 1 .. q
  BY <1>2, <1>3, LenProperties
<1>5. /\ m \in Seq(Row) /\ DOMAIN m = 1 .. p + q
      /\ \A i \in 1 .. p + q : m[i] = IF i <= p THEN s[i] ELSE t[i - p]
  <2>1. s \o t \in Seq(Row) /\ Len(s \o t) = p + q
    BY <1>2, <1>3, <1>4, ConcatProperties
  <2>2. \A i \in 1 .. p + q : (s \o t)[i] = IF i <= p THEN s[i] ELSE t[i - p]
    BY <1>2, <1>3, <1>4, ConcatProperties
  <2>3. DOMAIN m = 1 .. p + q
    BY <1>1, <2>1, LenProperties
  <2> QED
    BY <1>1, <2>1, <2>2, <2>3
<1>6. \A i \in DOMAIN m : \/ \E k \in DOMAIN s : m[i] = s[k]
                          \/ \E k \in DOMAIN t : m[i] = t[k]
  BY <1>4, <1>5
<1>7. \A k \in DOMAIN s : k \in DOMAIN m /\ m[k] = s[k]
  BY <1>4, <1>5
<1>8. \A k \in DOMAIN t : k + p \in DOMAIN m /\ m[k + p] = t[k]
  BY <1>4, <1>5
<1>9. DisabledUnnumbered(m)
  BY <1>2, <1>3, <1>6 DEF DisabledUnnumbered
<1>10. \A i \in DOMAIN m : m[i].en => \E g \in live : breakKey(g) = breakKey(m[i])
  BY <1>2, <1>3, <1>6
<1>11. ASSUME NEW g \in live
       PROVE  \E i \in DOMAIN m : m[i].en /\ breakKey(m[i]) = breakKey(g)
  <2>1. CASE \E i \in DOMAIN items : breakKey(items[i]) = breakKey(g)
    <3>1. PICK i \in DOMAIN items : breakKey(items[i]) = breakKey(g)
      BY <2>1
    <3>2. reported(live, breakKey(items[i])) # {}
      BY <3>1 DEF reported
    <3>3. PICK k \in DOMAIN s : s[k].en /\ breakKey(s[k]) = breakKey(items[i])
      BY <3>2, <1>2
    <3> QED
      BY <3>1, <3>3, <1>7
  <2>2. CASE ~\E i \in DOMAIN items : breakKey(items[i]) = breakKey(g)
    <3>1. reported(live, breakKey(g)) # {}
      BY DEF reported
    <3>2. PICK h \in reported(live, breakKey(g)) :
                 \A j \in reported(live, breakKey(g)) : h.num <= j.num
      BY <3>1, LastOfReported
    <3>3. h \in live /\ breakKey(h) = breakKey(g)
      BY <3>2 DEF reported
    <3>4. h \in unseen(items, live)
      BY <2>2, <3>2, <3>3 DEF unseen
    <3>5. PICK k \in DOMAIN t : t[k].en /\ breakKey(t[k]) = breakKey(h)
      BY <3>4, <1>3
    <3> QED
      BY <3>3, <3>5, <1>8
  <2> QED
    BY <2>1, <2>2
<1>12. Marked(m) = {breakKey(g) : g \in live}
  BY <1>10, <1>11 DEF Marked
<1> QED
  BY <1>c, <1>5, <1>9, <1>12
---------------------------------------------------------------------------
(* The user's operations on the list *)

Listed(rows) == rows \in Seq(Row) /\ DisabledUnnumbered(rows)

LEMMA EmptyListed == Listed(<<>>)
  BY DEF Listed, DisabledUnnumbered

LEMMA RowsListed ==
    ASSUME NEW rows, Listed(rows)
    PROVE  /\ Len(rows) \in Nat /\ DOMAIN rows = 1 .. Len(rows)
           /\ \A i \in DOMAIN rows : rows[i] \in Row /\ (~rows[i].en => rows[i].num = 0)
  BY LenProperties, ElementOfSeq DEF Listed, DisabledUnnumbered

LEMMA ElementsListed ==
    ASSUME NEW rows \in Seq(Row), \A i \in DOMAIN rows : ~rows[i].en => rows[i].num = 0
    PROVE  Listed(rows)
  BY DEF Listed, DisabledUnnumbered

LEMMA AppendListed ==
    ASSUME NEW rows, Listed(rows), NEW r \in Row, r.en
    PROVE  /\ Listed(Append(rows, r))
           /\ Len(rows) + 1 \in DOMAIN Append(rows, r)
<1>1. rows \in Seq(Row)
  BY DEF Listed
<1>2. /\ Append(rows, r) \in Seq(Row)
      /\ Len(Append(rows, r)) = Len(rows) + 1
      /\ \A i \in 1 .. Len(rows) + 1 : Append(rows, r)[i] = IF i <= Len(rows) THEN rows[i] ELSE r
  BY <1>1, AppendProperties
<1>3. DOMAIN Append(rows, r) = 1 .. Len(rows) + 1 /\ Len(rows) \in Nat
  BY <1>1, <1>2, LenProperties
<1>4. \A i \in DOMAIN rows : ~rows[i].en => rows[i].num = 0
  BY RowsListed
<1>5. \A i \in 1 .. Len(rows) + 1 : \/ Append(rows, r)[i] = r
                                    \/ i \in DOMAIN rows /\ Append(rows, r)[i] = rows[i]
  BY <1>1, <1>2, LenProperties
<1>6. \A i \in DOMAIN Append(rows, r) : ~Append(rows, r)[i].en => Append(rows, r)[i].num = 0
  BY <1>3, <1>4, <1>5
<1>7. Listed(Append(rows, r))
  BY <1>2, <1>6, ElementsListed
<1>8. Len(rows) + 1 \in 1 .. Len(rows) + 1
  BY <1>3
<1> QED
  BY <1>3, <1>7, <1>8

LEMMA RemoveListed ==
    ASSUME NEW rows, Listed(rows), NEW i \in DOMAIN rows
    PROVE  Listed(RemoveRow(rows, i))
<1>1. PICK n \in Nat : n = Len(rows) /\ DOMAIN rows = 1 .. n
  BY RowsListed
<1>2. PICK s : s = SubSeq(rows, 1, i - 1)
  OBVIOUS
<1>3. PICK t : t = SubSeq(rows, i + 1, n)
  OBVIOUS
<1>4. \A k \in 1 .. n : rows[k] \in Row /\ (~rows[k].en => rows[k].num = 0)
  BY <1>1, RowsListed
<1>5. /\ s \in Seq(Row)
      /\ \A k \in DOMAIN s : \E j \in 1 .. n : s[k] = rows[j]
  <2>1. \A k \in 1 .. i - 1 : k \in 1 .. n
    BY <1>1
  <2>2. \A k \in 1 .. i - 1 : rows[k] \in Row
    BY <2>1, <1>4
  <2>3. s \in Seq(Row) /\ Len(s) = i - 1 /\ \A k \in 1 .. i - 1 : s[k] = rows[k]
    BY <1>1, <1>2, <1>4, <2>2, SubSeqProperties DEF Listed
  <2>4. DOMAIN s = 1 .. i - 1
    BY <2>3, LenProperties
  <2> QED
    BY <2>1, <2>3, <2>4
<1>6. /\ t \in Seq(Row)
      /\ \A k \in DOMAIN t : \E j \in 1 .. n : t[k] = rows[j]
  <2>1. \A k \in i + 1 .. n : k \in 1 .. n
    BY <1>1
  <2>2. \A k \in i + 1 .. n : rows[k] \in Row
    BY <2>1, <1>4
  <2>3. /\ t \in Seq(Row)
        /\ Len(t) = n - i
        /\ \A k \in 1 .. n - i : t[k] = rows[i + k]
    BY <1>1, <1>3, <1>4, <2>2, SubSeqProperties DEF Listed
  <2>4. DOMAIN t = 1 .. n - i
    BY <2>3, LenProperties
  <2>5. \A k \in 1 .. n - i : i + k \in 1 .. n
    BY <1>1
  <2> QED
    BY <2>3, <2>4, <2>5
<1>7. PICK m : m = RemoveRow(rows, i)
  OBVIOUS
<1>8. m = s \o t
  BY <1>1, <1>2, <1>3, <1>7 DEF RemoveRow
<1>9. PICK p \in Nat, q \in Nat : Len(s) = p /\ DOMAIN s = 1 .. p /\ Len(t) = q /\ DOMAIN t = 1 .. q
  BY <1>5, <1>6, LenProperties
<1>10. m \in Seq(Row) /\ Len(m) = p + q
  BY <1>5, <1>6, <1>8, <1>9, ConcatProperties
<1>11. \A k \in 1 .. p + q : m[k] = IF k <= p THEN s[k] ELSE t[k - p]
  BY <1>5, <1>6, <1>8, <1>9, ConcatProperties
<1>12. DOMAIN m = 1 .. p + q
  BY <1>10, LenProperties
<1>13. \A k \in DOMAIN m : \/ \E a \in DOMAIN s : m[k] = s[a]
                          \/ \E a \in DOMAIN t : m[k] = t[a]
  <2>1. SUFFICES ASSUME NEW k \in 1 .. p + q
                 PROVE  \/ \E a \in DOMAIN s : m[k] = s[a]
                        \/ \E a \in DOMAIN t : m[k] = t[a]
    BY <1>12
  <2>2. CASE k <= p
    BY <2>2, <1>9, <1>11
  <2>3. CASE ~(k <= p)
    <3>1. k - p \in 1 .. q
      BY <2>3
    <3> QED
      BY <2>3, <3>1, <1>9, <1>11
  <2> QED
    BY <2>2, <2>3
<1>14. \A k \in DOMAIN m : \E j \in 1 .. n : m[k] = rows[j]
  BY <1>5, <1>6, <1>13
<1>15. \A k \in DOMAIN m : ~m[k].en => m[k].num = 0
  BY <1>4, <1>14
<1> QED
  BY <1>7, <1>10, <1>15, ElementsListed

LEMMA KeptListed ==
    ASSUME NEW rows, Listed(rows), NEW S \in SUBSET DOMAIN rows
    PROVE  Listed(Kept(rows, S))
<1>1. PICK n \in Nat : DOMAIN rows = 1 .. n
  BY RowsListed
<1>2. S \in SUBSET Nat /\ IsFiniteSet(S)
  <2>1. 1 \in Int /\ n \in Int
    OBVIOUS
  <2>2. IsFiniteSet(1 .. n)
    BY <2>1, FS_Interval
  <2>3. S \in SUBSET (1 .. n)
    BY <1>1
  <2> QED
    BY <2>2, <2>3, FS_Subset
<1>3. \A i \in S : rows[i] \in Row /\ (~rows[i].en => rows[i].num = 0)
  BY RowsListed
<1>4. Kept(rows, S) \in Seq(Row)
  BY <1>2, <1>3, KeptType
<1>5. \A k \in DOMAIN Kept(rows, S) : \E i \in S : Kept(rows, S)[k] = rows[i]
  BY <1>2, KeptRows
<1>6. \A k \in DOMAIN Kept(rows, S) : ~Kept(rows, S)[k].en => Kept(rows, S)[k].num = 0
  BY <1>3, <1>5
<1> QED
  BY <1>4, <1>6, ElementsListed

(* An operation leaves a list, and an intent or none. *)
Good(d) == Listed(d.items) /\ d.intent \in Intent

LEMMA IntentType ==
    /\ ZeroIntent \in Intent /\ Nothing \in Intent
    /\ \A r \in Row : breakIntentClear(r) \in Intent /\ breakIntentInsert(r) \in Intent
    /\ \A l \in Loc : [kind |-> "clear", loc |-> l, addr |-> NoAddr, num |-> 0] \in Intent
  BY DEF ZeroIntent, Nothing, Intent, breakIntentClear, breakIntentInsert, Row

LEMMA NewRowType ==
    \A l \in Loc \cup {NoLoc}, a \in Addr \cup {NoAddr} : NewRow(l, a) \in Row /\ NewRow(l, a).en
  BY DEF NewRow, Row

LEMMA DoneIsGood ==
    ASSUME NEW rows, Listed(rows), NEW intent \in Intent
    PROVE  Good(Done(rows, intent))
  BY DEF Done, Good

LEMMA IndexIsIn ==
    ASSUME NEW rows, Listed(rows)
    PROVE  /\ \A l : IndexOfFileLine(rows, l) > 0 => IndexOfFileLine(rows, l) \in DOMAIN rows
           /\ \A a : IndexOfAddr(rows, a) > 0 => IndexOfAddr(rows, a) \in DOMAIN rows
           /\ \A a : IndexOfAddr(rows, a) # 0 => IndexOfAddr(rows, a) \in DOMAIN rows
<1>1. PICK n \in Nat : DOMAIN rows = 1 .. n
  BY RowsListed
<1>2. ASSUME NEW S \in SUBSET DOMAIN rows
      PROVE  /\ First(S) > 0 => First(S) \in DOMAIN rows
             /\ First(S) # 0 => First(S) \in DOMAIN rows
  <2>1. CASE S = {}
    BY <2>1 DEF First
  <2>2. CASE S # {}
    <3>1. 1 \in Int /\ n \in Int
      OBVIOUS
    <3>2. IsFiniteSet(1 .. n)
      BY <3>1, FS_Interval
    <3>3. IsFiniteSet(S) /\ S \in SUBSET Nat
      BY <1>1, <3>2, FS_Subset
    <3>4. \E i \in S : \A j \in S : i <= j
      BY <2>2, <3>3, ExtremeNumbers
    <3> QED
      BY <2>2, <3>4 DEF First
  <2> QED
    BY <2>1, <2>2
<1>3. \A l : {i \in DOMAIN rows : SameSourceLoc(rows[i], l)} \in SUBSET DOMAIN rows
  OBVIOUS
<1>4. \A a : {i \in DOMAIN rows : rows[i].addr = a} \in SUBSET DOMAIN rows
  OBVIOUS
<1> QED
  BY <1>2, <1>3, <1>4 DEF IndexOfFileLine, IndexOfAddr

LEMMA ExceptListed ==
    ASSUME NEW rows, Listed(rows), NEW i \in DOMAIN rows, NEW r \in Row, ~r.en => r.num = 0
    PROVE  Listed([rows EXCEPT ![i] = r])
<1>1. /\ Len(rows) \in Nat /\ DOMAIN rows = 1 .. Len(rows) /\ rows \in Seq(Row)
      /\ \A k \in DOMAIN rows : ~rows[k].en => rows[k].num = 0
  BY RowsListed DEF Listed
<1>2. PICK s : s = [rows EXCEPT ![i] = r]
  OBVIOUS
<1>3. s \in Seq(Row)
  BY <1>1, <1>2, ExceptSeq
<1>4. DOMAIN s = DOMAIN rows /\ \A k \in DOMAIN s : s[k] = IF k = i THEN r ELSE rows[k]
  BY <1>2
<1>5. \A k \in DOMAIN s : ~s[k].en => s[k].num = 0
  BY <1>1, <1>4
<1> QED
  BY <1>2, <1>3, <1>5, ElementsListed

LEMMA EnableIsGood ==
    ASSUME NEW rows, Listed(rows), NEW i \in DOMAIN rows
    PROVE  Good(ToggleEnableAt(rows, i))
<1>1. rows[i] \in Row /\ DOMAIN rows[i] = {"loc", "addr", "num", "en", "cond"}
  BY RowsListed DEF Row
<1>2. breakIntentClear(rows[i]) \in Intent /\ breakIntentInsert(rows[i]) \in Intent
  BY <1>1, IntentType
<1>3. CASE rows[i].en
  <2> DEFINE r == [[rows[i] EXCEPT !.en = FALSE] EXCEPT !.num = 0]
  <2>1. r \in Row /\ r.num = 0
    BY <1>1 DEF Row
  <2>2. [rows EXCEPT ![i].en = FALSE, ![i].num = 0] = [rows EXCEPT ![i] = r]
    OBVIOUS
  <2> HIDE DEF r
  <2>3. Listed([rows EXCEPT ![i] = r])
    BY <2>1, ExceptListed
  <2> QED
    BY <1>2, <1>3, <2>2, <2>3, DoneIsGood DEF ToggleEnableAt
<1>4. CASE ~rows[i].en
  <2> DEFINE r == [rows[i] EXCEPT !.en = TRUE]
  <2>1. r \in Row /\ r.en
    BY <1>1 DEF Row
  <2>2. [rows EXCEPT ![i].en = TRUE] = [rows EXCEPT ![i] = r]
    OBVIOUS
  <2> HIDE DEF r
  <2>3. Listed([rows EXCEPT ![i] = r])
    BY <2>1, ExceptListed
  <2> QED
    BY <1>2, <1>4, <2>2, <2>3, DoneIsGood DEF ToggleEnableAt
<1> QED
  BY <1>3, <1>4

LEMMA DeleteIsGood ==
    ASSUME NEW rows, Listed(rows), NEW i \in DOMAIN rows
    PROVE  Good(DeleteAt(rows, i))
  BY RowsListed, RemoveListed, IntentType, DoneIsGood DEF DeleteAt

LEMMA EnableLineIsGood ==
    ASSUME NEW rows, Listed(rows), NEW l \in Loc, NEW e \in BOOLEAN
    PROVE  Good(ToggleEnableAtFileLine(rows, l, e))
<1>1. Listed(Append(rows, NewRow(l, NoAddr))) /\ Len(rows) + 1 \in DOMAIN Append(rows, NewRow(l, NoAddr))
  BY NewRowType, AppendListed
<1>2. Good(ToggleEnableAt(Append(rows, NewRow(l, NoAddr)), Len(rows) + 1))
  BY <1>1, EnableIsGood
<1>3. IndexOfFileLine(rows, l) > 0 => Good(ToggleEnableAt(rows, IndexOfFileLine(rows, l)))
  BY IndexIsIn, EnableIsGood
<1>4. Good(Done(rows, Nothing))
  BY IntentType, DoneIsGood
<1> QED
  BY <1>2, <1>3, <1>4 DEF ToggleEnableAtFileLine

LEMMA EnableAddrIsGood ==
    ASSUME NEW rows, Listed(rows), NEW a \in Addr, NEW e \in BOOLEAN
    PROVE  Good(ToggleEnableAtAddr(rows, a, e))
<1>1. Listed(Append(rows, NewRow(NoLoc, a))) /\ Len(rows) + 1 \in DOMAIN Append(rows, NewRow(NoLoc, a))
  BY NewRowType, AppendListed
<1>2. Good(ToggleEnableAt(Append(rows, NewRow(NoLoc, a)), Len(rows) + 1))
  BY <1>1, EnableIsGood
<1>3. IndexOfAddr(rows, a) > 0 => Good(ToggleEnableAt(rows, IndexOfAddr(rows, a)))
  BY IndexIsIn, EnableIsGood
<1>4. Good(Done(rows, Nothing))
  BY IntentType, DoneIsGood
<1> QED
  BY <1>2, <1>3, <1>4 DEF ToggleEnableAtAddr

LEMMA InsertClearIsGood ==
    ASSUME NEW rows, Listed(rows), NEW l \in Loc
    PROVE  Good(ToggleInsertClear(rows, l))
<1>1. Listed(Append(rows, NewRow(l, NoAddr))) /\ breakIntentInsert(NewRow(l, NoAddr)) \in Intent
  BY NewRowType, AppendListed, IntentType
<1>2. PICK S \in SUBSET DOMAIN rows : S = {i \in DOMAIN rows : ~SameSourceLoc(rows[i], l)}
  OBVIOUS
<1>3. Listed(Kept(rows, S))
  BY KeptListed
<1>4. Good(Done(Append(rows, NewRow(l, NoAddr)), breakIntentInsert(NewRow(l, NoAddr))))
  BY <1>1, DoneIsGood
<1>5. PICK c \in Intent : c = [kind |-> "clear", loc |-> l, addr |-> NoAddr, num |-> 0]
  BY IntentType
<1>6. Good(Done(Kept(rows, S), c))
  BY <1>3, DoneIsGood
<1> QED
  BY <1>2, <1>4, <1>5, <1>6 DEF ToggleInsertClear

LEMMA InsertClearAddrIsGood ==
    ASSUME NEW rows, Listed(rows), NEW a \in Addr
    PROVE  Good(ToggleInsertClearAddr(rows, a))
<1>1. Listed(Append(rows, NewRow(NoLoc, a))) /\ breakIntentInsert(NewRow(NoLoc, a)) \in Intent
  BY NewRowType, AppendListed, IntentType
<1>2. Good(Done(Append(rows, NewRow(NoLoc, a)), breakIntentInsert(NewRow(NoLoc, a))))
  BY <1>1, DoneIsGood
<1>3. PICK i : i = IndexOfAddr(rows, a)
  OBVIOUS
<1>4. CASE i = 0
  BY <1>2, <1>3, <1>4 DEF ToggleInsertClearAddr
<1>5. CASE i # 0
  <2>1. i \in DOMAIN rows /\ rows[i] \in Row
    BY <1>3, <1>5, IndexIsIn, RowsListed
  <2>2. breakIntentClear(rows[i]) \in Intent
    BY <2>1, IntentType
  <2>3. Good(Done(RemoveRow(rows, i), breakIntentClear(rows[i])))
    BY <2>1, <2>2, RemoveListed, DoneIsGood
  <2>4. Good(ToggleEnableAt(rows, i))
    BY <2>1, EnableIsGood
  <2>5. ~rows[i].en => ToggleEnableAt(rows, i)
                         = Done([rows EXCEPT ![i].en = TRUE], breakIntentInsert(rows[i]))
    BY DEF ToggleEnableAt
  <2> QED
    BY <1>3, <1>5, <2>3, <2>4, <2>5 DEF ToggleInsertClearAddr
<1> QED
  BY <1>4, <1>5
---------------------------------------------------------------------------
(* The types *)

TableOK ==
    /\ gdb \subseteq Row /\ lastNum \in Nat /\ Numbered(gdb)
    /\ \A g \in gdb : g.num \in 1 .. lastNum

JobsOK == job \in [Refreshers -> Job] /\ \A r \in Refreshers : Numbered(job[r].items)

ListsOK == Listed(list) /\ shown \in Seq(Row) /\ snapshot \in Seq(Row)

UIOK ==
    /\ ui \in [pc: {"idle", "send", "cond"}, cmd: Intent, cond: BOOLEAN,
               op: {"none", "toggle", "delete", "space"}]
    /\ again \in BOOLEAN /\ notes \in BOOLEAN
    /\ spent \in [{"op", "stop", "exit", "fail"} -> Nat]

(* TypeOK, and that no number is given twice. *)
TypeInv == TableOK /\ JobsOK /\ ListsOK /\ UIOK

LEMMA TypeInvTypes == TypeInv => TypeOK
  BY DEF TypeInv, TypeOK, TableOK, JobsOK, ListsOK, UIOK, Listed, DisabledUnnumbered

(* The steps, named once for the proofs by cases. *)
LEMMA Steps ==
    ASSUME [Next]_vars, ListsOK
    PROVE  \/ \E op \in {"toggle", "delete", "space"}, cond \in BOOLEAN : \E done :
                Good(done) /\ Edit(op, done, cond)
           \/ UISend
           \/ ReapplyCondition
           \/ BreakpointsChanged
           \/ \E r \in Stoppers : OnGdbStopped(r)
           \/ ClearModel
           \/ \E l \in Loc : ConsoleBreak(l)
           \/ \E n : ConsoleDelete(n)
           \/ \E n : ConsoleCondition(n)
           \/ \E r \in Refreshers :
                Fetch(r) \/ FetchFail(r) \/ MergeRead(r) \/ MergeWrite(r) \/ SyncViews(r)
           \/ UNCHANGED vars
<1> DEFINE AnEdit == \E op \in {"toggle", "delete", "space"}, cond \in BOOLEAN : \E done :
                       Good(done) /\ Edit(op, done, cond)
<1>l. Listed(list)
  BY DEF ListsOK
<1>1. ASSUME NEW i \in DOMAIN list, Toggle(i) PROVE AnEdit
  <2>1. Good(ToggleEnableAt(list, i))
    BY <1>l, EnableIsGood
  <2>2. (~list[i].en /\ list[i].cond) \in BOOLEAN
    OBVIOUS
  <2> QED
    BY <1>1, <2>1, <2>2 DEF Toggle
<1>2. ASSUME NEW i \in DOMAIN list, Delete(i) PROVE AnEdit
  <2>1. Good(DeleteAt(list, i))
    BY <1>l, DeleteIsGood
  <2> QED
    BY <1>2, <2>1 DEF Delete
<1>3. ASSUME NEW l \in Loc, ToggleCode(l) PROVE AnEdit
  <2> DEFINE i == IndexOfFileLine(list, l)
             d == ToggleEnableAtFileLine(list, l, HasEnabledAt(shown, l))
  <2>1. HasEnabledAt(shown, l) \in BOOLEAN
    BY DEF HasEnabledAt
  <2>2. Good(d)
    BY <1>l, <2>1, EnableLineIsGood
  <2>3. (i > 0 /\ ~list[i].en /\ list[i].cond) \in BOOLEAN
    OBVIOUS
  <2>4. Edit("toggle", d, i > 0 /\ ~list[i].en /\ list[i].cond)
    BY <1>3 DEF ToggleCode
  <2> HIDE DEF d, i
  <2> QED
    BY <2>2, <2>3, <2>4
<1>4. ASSUME NEW l \in Loc, CodeBreakToggle(l) PROVE AnEdit
  <2>1. Good(ToggleInsertClear(list, l))
    BY <1>l, InsertClearIsGood
  <2> QED
    BY <1>4, <2>1 DEF CodeBreakToggle
<1>5. ASSUME NEW a \in Addr, ToggleAsmEnable(a) PROVE AnEdit
  <2> DEFINE i == IndexOfAddr(list, a)
             e == \E j \in DOMAIN shown : shown[j].en /\ shown[j].addr = a
             d == ToggleEnableAtAddr(list, a, e)
  <2>1. e \in BOOLEAN
    OBVIOUS
  <2> HIDE DEF e
  <2>2. Good(d)
    BY <1>l, <2>1, EnableAddrIsGood
  <2>3. (i > 0 /\ ~list[i].en /\ list[i].cond) \in BOOLEAN
    OBVIOUS
  <2>4. Edit("toggle", d, i > 0 /\ ~list[i].en /\ list[i].cond)
    BY <1>5 DEF ToggleAsmEnable, e
  <2> HIDE DEF d, i
  <2> QED
    BY <2>2, <2>3, <2>4
<1>6. ASSUME NEW a \in Addr, ToggleAsm(a) PROVE AnEdit
  <2>1. Good(ToggleInsertClearAddr(list, a))
    BY <1>l, InsertClearAddrIsGood
  <2> QED
    BY <1>6, <2>1 DEF ToggleAsm
<1> HIDE DEF AnEdit
<1>7. User => AnEdit
  BY <1>1, <1>2, <1>3, <1>4, <1>5, <1>6 DEF User
<1>8. \/ User \/ Handler \/ Console \/ Inferior
      \/ \E r \in Refreshers : Refresh(r)
      \/ UNCHANGED vars
  BY DEF Next
<1> QED
  BY <1>7, <1>8 DEF Handler, Console, Inferior, Refresh, AnEdit

(* What is done to GDB's table *)

LEMMA InsertTable ==
    ASSUME TableOK, NEW l \in Loc \cup {NoLoc}, NEW a \in Addr \cup {NoAddr}, Insert(l, a)
    PROVE  TableOK'
<1> DEFINE new == [loc |-> l, addr |-> a, num |-> lastNum + 1, en |-> TRUE, cond |-> FALSE]
<1>1. new \in Row /\ new.num = lastNum + 1 /\ lastNum \in Nat
  BY DEF TableOK, Row
<1>2. gdb' = gdb \cup {new} /\ lastNum' = lastNum + 1
  BY DEF Insert
<1> HIDE DEF new
<1>3. IsFiniteSet(gdb')
  BY <1>2, FS_AddElement DEF TableOK, Numbered
<1>4. \A g \in gdb : g.num \in Nat /\ g.num # lastNum + 1 /\ g.num \in 1 .. lastNum + 1
  BY <1>1 DEF TableOK
<1>5. Numbered(gdb')
  BY <1>1, <1>2, <1>3, <1>4 DEF TableOK, Numbered
<1>6. lastNum + 1 \in Nat /\ lastNum + 1 \in 1 .. lastNum + 1
  BY <1>1
<1> QED
  BY <1>1, <1>2, <1>4, <1>5, <1>6 DEF TableOK

LEMMA DropTable ==
    ASSUME TableOK, NEW rows, Drop(rows)
    PROVE  TableOK'
<1>1. gdb' \subseteq gdb /\ lastNum' = lastNum
  BY DEF Drop
<1>2. Numbered(gdb')
  BY <1>1, SubsetNumbered DEF TableOK
<1> QED
  BY <1>1, <1>2 DEF TableOK

LEMMA ExecuteTable ==
    ASSUME TableOK, NEW cmd \in Intent, Execute(cmd)
    PROVE  TableOK'
<1>1. /\ cmd.loc \in Loc \cup {NoLoc} /\ cmd.addr \in Addr \cup {NoAddr}
      /\ LocAt(cmd.addr) \in Loc \cup {NoLoc}
      /\ cmd.loc # NoLoc => AddrOf[cmd.loc] \in Addr \cup {NoAddr}
  BY BreakpointListAssumption DEF Intent, LocAt
<1>2. \/ \E l \in Loc \cup {NoLoc}, a \in Addr \cup {NoAddr} : Insert(l, a)
      \/ \E rows : Drop(rows)
      \/ UNCHANGED table
  BY <1>1 DEF Execute
<1>3. CASE UNCHANGED table
  BY <1>3 DEF table, TableOK
<1> QED
  BY <1>2, <1>3, InsertTable, DropTable

(* Setting a condition changes no number and no place. *)
LEMMA ConditionTable ==
    ASSUME TableOK, NEW n, SetCondition(n), UNCHANGED lastNum
    PROVE  TableOK' /\ Ids(gdb') = Ids(gdb) /\ GdbKeys' = GdbKeys
<1> DEFINE c(g) == IF g.num = n THEN [g EXCEPT !.cond = TRUE] ELSE g
           f == [g \in gdb |-> c(g)]
<1>1. gdb' = {c(g) : g \in gdb}
  BY DEF SetCondition
<1>2. \A g \in gdb : /\ c(g).num = g.num /\ c(g).loc = g.loc /\ c(g).addr = g.addr
                     /\ c(g) \in Row
  BY DEF TableOK, Row
<1>3. \A g \in gdb : breakKey(c(g)) = breakKey(g)
  <2> HIDE DEF c
  <2> QED
    BY <1>2 DEF breakKey
<1>4. f \in Surjection(gdb, gdb')
  BY <1>1 DEF Surjection
<1>5. IsFiniteSet(gdb')
  BY <1>4, FS_Surjection DEF TableOK, Numbered
<1> HIDE DEF c, f
<1>6. Numbered(gdb')
  <2>1. \A g, h \in gdb : c(g).num = c(h).num => c(g) = c(h)
    BY <1>2 DEF TableOK, Numbered
  <2>2. \A g \in gdb : c(g).num \in Nat
    BY <1>2 DEF TableOK, Numbered
  <2> QED
    BY <1>1, <1>5, <2>1, <2>2 DEF Numbered
<1>7. TableOK'
  BY <1>1, <1>2, <1>6 DEF TableOK
<1>8. Ids(gdb') = Ids(gdb)
  <2>1. Ids(gdb') = {<<c(g).num, c(g).loc, c(g).addr>> : g \in gdb}
    BY <1>1 DEF Ids
  <2>2. \A g \in gdb : <<c(g).num, c(g).loc, c(g).addr>> = <<g.num, g.loc, g.addr>>
    BY <1>2
  <2> QED
    BY <2>1, <2>2 DEF Ids
<1>9. GdbKeys' = GdbKeys
  BY <1>1, <1>3 DEF GdbKeys
<1> QED
  BY <1>7, <1>8, <1>9

(* What is done to the goroutines *)

LEMMA CoalescedType == Coalesced \in Refreshers /\ \A r \in Stoppers : r \in Refreshers /\ r # Coalesced
  BY BreakpointsAssumption DEF Refreshers

(* A step of goroutine r changes only its record. *)
LEMMA OneJob ==
    ASSUME JobsOK, NEW r \in Refreshers, NEW j \in Job, Numbered(j.items),
           job' = [job EXCEPT ![r] = j]
    PROVE  JobsOK' /\ job'[r] = j /\ \A q \in Refreshers : q # r => job'[q] = job[q]
  BY DEF JobsOK

LEMMA ScheduleJobs ==
    ASSUME JobsOK, again \in BOOLEAN, Schedule
    PROVE  /\ JobsOK' /\ again' \in BOOLEAN
           /\ again' \/ job'[Coalesced].pc = "fetch"
           /\ \A r \in Refreshers : /\ job'[r].items = job[r].items
                                    /\ r # Coalesced => job'[r] = job[r]
<1>1. CASE job[Coalesced].pc = "off"
  <2> DEFINE j == [job[Coalesced] EXCEPT !.pc = "fetch"]
  <2>1. job[Coalesced] \in Job /\ Numbered(job[Coalesced].items) /\ Coalesced \in Refreshers
    BY CoalescedType DEF JobsOK
  <2>2. j \in Job /\ j.items = job[Coalesced].items /\ j.pc = "fetch"
    BY <2>1 DEF Job
  <2>3. job' = [job EXCEPT ![Coalesced] = j] /\ again' = again
    BY <1>1 DEF Schedule
  <2> HIDE DEF j
  <2>4. JobsOK' /\ job'[Coalesced] = j /\ \A q \in Refreshers : q # Coalesced => job'[q] = job[q]
    BY <2>1, <2>2, <2>3, OneJob
  <2> QED
    BY <2>2, <2>3, <2>4
<1>2. CASE job[Coalesced].pc # "off"
  BY <1>2 DEF Schedule, JobsOK
<1> QED
  BY <1>1, <1>2

LEMMA FinishJobs ==
    ASSUME JobsOK, again \in BOOLEAN, NEW r \in Refreshers, Finish(r)
    PROVE  /\ JobsOK' /\ again' \in BOOLEAN
           /\ again => again' \/ job'[Coalesced].pc = "fetch"
           /\ \A q \in Refreshers : /\ job'[q].items = job[q].items
                                    /\ q # r => job'[q] = job[q]
           /\ r # Coalesced => job'[r].pc = "over"
           /\ r = Coalesced /\ ~again => job'[r].pc = "off"
<1>1. 0 \in 0 .. Tries
  BY DEF Tries
<1> QED
  BY <1>1, ZenonT(60) DEF Finish, JobsOK, Job

LEMMA FetchJobs ==
    ASSUME TypeInv, NEW r \in Refreshers, Fetch(r)
    PROVE  /\ JobsOK'
           /\ job'[r].pc = "got" /\ job'[r].items = gdb
           /\ \A q \in Refreshers : q # r => job'[q] = job[q]
<1> DEFINE j == [[job[r] EXCEPT !.pc = "got"] EXCEPT !.items = gdb]
<1>1. job[r] \in Job
  BY DEF TypeInv, JobsOK
<1>2. j \in Job /\ j.items = gdb /\ j.pc = "got"
  BY <1>1 DEF TypeInv, TableOK, Job
<1>3. job' = [job EXCEPT ![r] = j]
  BY DEF Fetch
<1> HIDE DEF j
<1>4. Numbered(j.items)
  BY <1>2 DEF TypeInv, TableOK
<1> QED
  BY <1>2, <1>3, <1>4, OneJob DEF TypeInv

LEMMA MergeReadJobs ==
    ASSUME TypeInv, NEW r \in Refreshers, MergeRead(r)
    PROVE  /\ JobsOK'
           /\ job'[r].pc = "merge" /\ job'[r].items = job[r].items
           /\ \A q \in Refreshers : q # r => job'[q] = job[q]
<1> DEFINE j == [[job[r] EXCEPT !.pc = "merge"] EXCEPT !.seen = list]
<1>1. job[r] \in Job
  BY DEF TypeInv, JobsOK
<1>2. j \in Job /\ j.items = job[r].items /\ j.pc = "merge"
  BY <1>1 DEF TypeInv, ListsOK, Listed, Job
<1>3. job' = [job EXCEPT ![r] = j]
  BY DEF MergeRead
<1> HIDE DEF j
<1>4. Numbered(j.items)
  BY <1>2 DEF TypeInv, JobsOK
<1> QED
  BY <1>2, <1>3, <1>4, OneJob DEF TypeInv

LEMMA MergeWriteJobs ==
    ASSUME TypeInv, NEW r \in Refreshers, MergeWrite(r)
    PROVE  /\ JobsOK'
           /\ job'[r].pc = "sync" /\ job'[r].items = job[r].items
           /\ \A q \in Refreshers : q # r => job'[q] = job[q]
           /\ Listed(list') /\ Marked(list') = {breakKey(g) : g \in job[r].items}
<1>a. PICK none \in Seq(Row) : none = <<>>
  <2>1. <<>> \in Seq(Row)
    OBVIOUS
  <2> QED
    BY <2>1, Zenon
<1> DEFINE j == [[job[r] EXCEPT !.pc = "sync"] EXCEPT !.seen = none]
<1>1. job[r] \in Job /\ Numbered(job[r].items)
  BY DEF TypeInv, JobsOK
<1>2. j \in Job /\ j.items = job[r].items /\ j.pc = "sync"
  BY <1>1 DEF Job
<1>3. job' = [job EXCEPT ![r] = j]
  BY <1>a DEF MergeWrite
<1> HIDE DEF j
<1>4. JobsOK' /\ job'[r] = j /\ \A q \in Refreshers : q # r => job'[q] = job[q]
  BY <1>1, <1>2, <1>3, OneJob DEF TypeInv
<1>5. list' = MergeFromGDB(job[r].seen, job[r].items)
  BY DEF MergeWrite
<1>6. job[r].seen \in Seq(Row) /\ job[r].items \in SUBSET Row
  BY <1>1 DEF Job
<1>7. Listed(list') /\ Marked(list') = {breakKey(g) : g \in job[r].items}
  BY <1>1, <1>5, <1>6, MergeMarksReply DEF Listed
<1> QED
  BY <1>2, <1>4, <1>7

(* A stop starts a goroutine. *)
LEMMA StoppedJobs ==
    ASSUME TypeInv, NEW r \in Stoppers, OnGdbStopped(r)
    PROVE  /\ JobsOK'
           /\ job'[r].pc = "fetch"
           /\ \A q \in Refreshers : q # r => job'[q] = job[q]
<1> DEFINE j == [job[r] EXCEPT !.pc = "fetch"]
<1>1. job[r] \in Job /\ Numbered(job[r].items) /\ r \in Refreshers
  BY CoalescedType DEF TypeInv, JobsOK
<1>2. j \in Job /\ j.items = job[r].items /\ j.pc = "fetch"
  BY <1>1 DEF Job
<1>3. job' = [job EXCEPT ![r] = j]
  BY DEF OnGdbStopped
<1> HIDE DEF j
<1> QED
  BY <1>1, <1>2, <1>3, OneJob DEF TypeInv

(* A query that fails leaves the goroutine asking, or ends it. *)
LEMMA FetchFailJobs ==
    ASSUME TypeInv, NEW r \in Refreshers, FetchFail(r)
    PROVE  /\ JobsOK' /\ again' \in BOOLEAN
           /\ spent' = [spent EXCEPT !["fail"] = @ + 1]
<1>1. CASE r \in Stoppers /\ job[r].tries + 1 < Tries
  <2> DEFINE j == [job[r] EXCEPT !.tries = @ + 1]
  <2>1. job[r] \in Job /\ Numbered(job[r].items)
    BY DEF TypeInv, JobsOK
  <2>2. j \in Job /\ j.items = job[r].items
    BY <1>1, <2>1 DEF Job, Tries
  <2>3. job' = [job EXCEPT ![r] = j] /\ again' = again
    BY <1>1 DEF FetchFail
  <2> HIDE DEF j
  <2>4. JobsOK'
    BY <2>1, <2>2, <2>3, OneJob DEF TypeInv
  <2> QED
    BY <2>3, <2>4 DEF FetchFail, Spend, TypeInv, UIOK
<1>2. CASE ~(r \in Stoppers /\ job[r].tries + 1 < Tries)
  <2>1. Finish(r)
    BY <1>2 DEF FetchFail
  <2> QED
    BY <2>1, FinishJobs DEF FetchFail, Spend, TypeInv, UIOK
<1> QED
  BY <1>1, <1>2

LEMMA SpendType ==
    ASSUME UIOK, NEW k \in {"op", "stop", "exit", "fail"}, NEW bound, Spend(k, bound)
    PROVE  spent' \in [{"op", "stop", "exit", "fail"} -> Nat]
  BY DEF UIOK, Spend
---------------------------------------------------------------------------
(* Each step keeps the types. *)

LEMMA InitTypeInv == Init => TypeInv
<1> SUFFICES ASSUME Init PROVE TypeInv
  OBVIOUS
<1> USE DEF Init
<1>1. Numbered({})
  BY FS_EmptySet DEF Numbered
<1>2. TableOK
  BY <1>1 DEF TableOK
<1>3. off \in Job
  BY DEF off, Job, Tries
<1>4. JobsOK
  BY <1>1, <1>3 DEF JobsOK, off
<1>5. ListsOK
  BY EmptyListed DEF ListsOK, Listed
<1>6. UIOK
  <2>1. spent \in [{"op", "stop", "exit", "fail"} -> Nat]
    OBVIOUS
  <2>2. ui \in [pc: {"idle", "send", "cond"}, cmd: Intent, cond: BOOLEAN,
                op: {"none", "toggle", "delete", "space"}]
    BY IntentType DEF idle
  <2> QED
    BY <2>1, <2>2 DEF UIOK
<1> QED
  BY <1>2, <1>4, <1>5, <1>6 DEF TypeInv

LEMMA NextTypeInv == ASSUME TypeInv, [Next]_vars PROVE TypeInv'
<1> USE DEF TypeInv
<1>1. ASSUME NEW op \in {"toggle", "delete", "space"}, NEW cond \in BOOLEAN, NEW done,
             Good(done), Edit(op, done, cond)
      PROVE  TypeInv'
  <2>1. TableOK' /\ JobsOK'
    BY <1>1 DEF Edit, table, TableOK, JobsOK
  <2>2. ListsOK'
    BY <1>1 DEF Edit, syncViews, Good, ListsOK, Listed
  <2>3. ui' \in [pc: {"idle", "send", "cond"}, cmd: Intent, cond: BOOLEAN,
                 op: {"none", "toggle", "delete", "space"}]
    BY <1>1 DEF Edit, Good
  <2>4. UIOK'
    BY <1>1, <2>3, SpendType DEF Edit, UIOK
  <2> QED
    BY <2>1, <2>2, <2>4
<1>2. CASE UISend
  <2>1. ui.cmd \in Intent
    BY DEF UIOK
  <2>2. TableOK'
    BY <1>2, <2>1, ExecuteTable DEF UISend
  <2>3. JobsOK' /\ again' \in BOOLEAN
    BY <1>2, ScheduleJobs DEF UISend, UIOK
  <2>4. ListsOK'
    BY <1>2 DEF UISend, views, ListsOK
  <2>5. UIOK'
    <3>1. ui' \in [pc: {"idle", "send", "cond"}, cmd: Intent, cond: BOOLEAN,
                   op: {"none", "toggle", "delete", "space"}]
      BY <1>2, IntentType DEF UISend, UIOK, idle
    <3>2. notes' \in BOOLEAN /\ spent' = spent
      BY <1>2 DEF UISend
    <3> QED
      BY <2>3, <3>1, <3>2 DEF UIOK
  <2> QED
    BY <2>2, <2>3, <2>4, <2>5
<1>3. CASE ReapplyCondition
  <2>1. TableOK'
    <3>1. UNCHANGED lastNum
      BY <1>3 DEF ReapplyCondition
    <3>2. \/ UNCHANGED gdb
          \/ \E n : SetCondition(n)
      BY <1>3 DEF ReapplyCondition
    <3>3. CASE UNCHANGED gdb
      BY <3>1, <3>3 DEF TableOK
    <3> QED
      BY <3>1, <3>2, <3>3, ConditionTable
  <2>2. JobsOK' /\ ListsOK'
    BY <1>3 DEF ReapplyCondition, views, JobsOK, ListsOK
  <2>3. UIOK'
    BY <1>3, IntentType DEF ReapplyCondition, UIOK, idle
  <2> QED
    BY <2>1, <2>2, <2>3
<1>4. CASE BreakpointsChanged
  <2>1. JobsOK' /\ again' \in BOOLEAN
    BY <1>4, ScheduleJobs DEF BreakpointsChanged, UIOK
  <2>2. TableOK' /\ ListsOK'
    BY <1>4 DEF BreakpointsChanged, table, views, TableOK, ListsOK
  <2>3. UIOK'
    BY <1>4, <2>1 DEF BreakpointsChanged, UIOK
  <2> QED
    BY <2>1, <2>2, <2>3
<1>5. ASSUME NEW r \in Stoppers, OnGdbStopped(r) PROVE TypeInv'
  <2>1. JobsOK'
    BY <1>5, StoppedJobs
  <2>2. TableOK' /\ ListsOK'
    BY <1>5 DEF OnGdbStopped, table, views, TableOK, ListsOK
  <2>3. UIOK'
    BY <1>5, SpendType DEF OnGdbStopped, UIOK
  <2> QED
    BY <2>1, <2>2, <2>3
<1>6. CASE ClearModel
  <2>1. TableOK' /\ JobsOK'
    BY <1>6 DEF ClearModel, table, TableOK, JobsOK
  <2>2. ListsOK'
    BY <1>6, EmptyListed DEF ClearModel, ListsOK, Listed
  <2>3. UIOK'
    BY <1>6, SpendType DEF ClearModel, UIOK
  <2> QED
    BY <2>1, <2>2, <2>3
<1>7. ASSUME NEW l \in Loc, ConsoleBreak(l) PROVE TypeInv'
  <2>1. AddrOf[l] \in Addr \cup {NoAddr}
    BY BreakpointListAssumption
  <2>2. TableOK'
    BY <1>7, <2>1, InsertTable DEF ConsoleBreak
  <2>3. JobsOK' /\ ListsOK'
    BY <1>7 DEF ConsoleBreak, views, JobsOK, ListsOK
  <2>4. UIOK'
    BY <1>7, SpendType DEF ConsoleBreak, UIOK
  <2> QED
    BY <2>2, <2>3, <2>4
<1>8. ASSUME NEW n, ConsoleDelete(n) PROVE TypeInv'
  <2>1. TableOK'
    BY <1>8, DropTable DEF ConsoleDelete
  <2>2. JobsOK' /\ ListsOK'
    BY <1>8 DEF ConsoleDelete, views, JobsOK, ListsOK
  <2>3. UIOK'
    BY <1>8, SpendType DEF ConsoleDelete, UIOK
  <2> QED
    BY <2>1, <2>2, <2>3
<1>9. ASSUME NEW n, ConsoleCondition(n) PROVE TypeInv'
  <2>1. TableOK'
    BY <1>9, ConditionTable DEF ConsoleCondition
  <2>2. JobsOK' /\ ListsOK'
    BY <1>9 DEF ConsoleCondition, views, JobsOK, ListsOK
  <2>3. UIOK'
    BY <1>9, SpendType DEF ConsoleCondition, UIOK
  <2> QED
    BY <2>1, <2>2, <2>3
<1>10. ASSUME NEW r \in Refreshers, Fetch(r) PROVE TypeInv'
  BY <1>10, FetchJobs DEF Fetch, views, table, TableOK, ListsOK, UIOK
<1>11. ASSUME NEW r \in Refreshers, FetchFail(r) PROVE TypeInv'
  <2>1. JobsOK' /\ again' \in BOOLEAN
    BY <1>11, FetchFailJobs
  <2>2. TableOK' /\ ListsOK'
    BY <1>11 DEF FetchFail, table, views, TableOK, ListsOK
  <2>3. UIOK'
    BY <1>11, <2>1, SpendType DEF FetchFail, UIOK
  <2> QED
    BY <2>1, <2>2, <2>3
<1>12. ASSUME NEW r \in Refreshers, MergeRead(r) PROVE TypeInv'
  BY <1>12, MergeReadJobs DEF MergeRead, views, table, TableOK, ListsOK, UIOK
<1>13. ASSUME NEW r \in Refreshers, MergeWrite(r) PROVE TypeInv'
  <2>1. JobsOK' /\ Listed(list')
    BY <1>13, MergeWriteJobs
  <2> QED
    BY <1>13, <2>1 DEF MergeWrite, table, TableOK, ListsOK, UIOK
<1>14. ASSUME NEW r \in Refreshers, SyncViews(r) PROVE TypeInv'
  <2>1. JobsOK' /\ again' \in BOOLEAN
    BY <1>14, FinishJobs DEF SyncViews, UIOK
  <2>2. ListsOK'
    BY <1>14 DEF SyncViews, syncViews, ListsOK, Listed
  <2>3. TableOK' /\ UIOK'
    BY <1>14, <2>1 DEF SyncViews, table, TableOK, UIOK
  <2> QED
    BY <2>1, <2>2, <2>3
<1>15. CASE UNCHANGED vars
  BY <1>15 DEF vars, TableOK, JobsOK, ListsOK, UIOK
<1> QED
  BY <1>1, <1>2, <1>3, <1>4, <1>5, <1>6, <1>7, <1>8, <1>9, <1>10, <1>11, <1>12, <1>13,
     <1>14, <1>15, Steps

(* The types of the list, the goroutines and GDB's table; a row that is    *)
(* not enabled has no number.                                              *)
THEOREM TypesHold == Spec => []TypeOK
<1>1. Init => TypeInv
  BY InitTypeInv
<1>2. TypeInv /\ [Next]_vars => TypeInv'
  BY NextTypeInv
<1>3. TypeInv => TypeOK
  BY TypeInvTypes
<1> QED
  BY <1>1, <1>2, <1>3, PTL DEF Spec
---------------------------------------------------------------------------
(* The refreshes *)

(* A query is to come, by the coalesced refresh. *)
Due == again \/ notes \/ ui.pc = "send" \/ job[Coalesced].pc = "fetch"

(* A trailing run is asked for only while the coalesced refresh runs. *)
AgainInv ==
    /\ job[Coalesced].pc # "over"
    /\ again => job[Coalesced].pc # "off"

(* Nothing happened that loses a change, and no query is to come. *)
Calm == spent.exit = 0 /\ spent.fail = 0 /\ ~Due

Replied(r) == job[r].pc \in {"got", "merge", "sync", "over"}
Current(r) == Ids(job[r].items) = Ids(gdb)

(* Then the list has GDB's breakpoints, or a merge is to come, unless the  *)
(* reply of a stop's goroutine is out of date.                             *)
ListInv ==
    Calm /\ (\A r \in Stoppers : Replied(r) => Current(r))
    => \/ Marked(list) = GdbKeys
       \/ \E r \in Refreshers : job[r].pc \in {"fetch", "got", "merge"}

(* And the rows shown are the list, or will be. *)
PaintInv ==
    Calm => \/ shown = list
            \/ \E r \in Refreshers : job[r].pc \in {"fetch", "got", "merge", "sync"}

IInv == TypeInv /\ RefreshIsCurrent /\ AgainInv /\ ListInv /\ PaintInv

LEMMA IdsGiveKeys ==
    ASSUME NEW S \in SUBSET Row, NEW T \in SUBSET Row, Ids(S) = Ids(T)
    PROVE  {breakKey(g) : g \in S} = {breakKey(g) : g \in T}
<1>1. ASSUME NEW A \in SUBSET Row, NEW B \in SUBSET Row, Ids(A) = Ids(B), NEW g \in A
      PROVE  \E h \in B : breakKey(h) = breakKey(g)
  <2>1. <<g.num, g.loc, g.addr>> \in Ids(B)
    BY <1>1 DEF Ids
  <2>2. PICK h \in B : <<h.num, h.loc, h.addr>> = <<g.num, g.loc, g.addr>>
    BY <2>1 DEF Ids
  <2>3. h.num = g.num /\ h.loc = g.loc /\ h.addr = g.addr
    BY <2>2
  <2> QED
    BY <2>3 DEF breakKey
<1>2. \A g \in S : \E h \in T : breakKey(h) = breakKey(g)
  BY <1>1
<1>3. \A g \in T : \E h \in S : breakKey(h) = breakKey(g)
  BY <1>1
<1> QED
  BY <1>2, <1>3

LEMMA InitIInv == Init => IInv
<1> SUFFICES ASSUME Init PROVE IInv
  OBVIOUS
<1>1. TypeInv
  BY InitTypeInv
<1>2. RefreshIsCurrent
  BY CoalescedType DEF Init, RefreshIsCurrent, off
<1>3. AgainInv /\ PaintInv
  BY CoalescedType DEF Init, AgainInv, PaintInv, off
<1>4. Marked(list) = GdbKeys
  BY DEF Init, Marked, GdbKeys
<1> QED
  BY <1>1, <1>2, <1>3, <1>4 DEF IInv, ListInv

(* Every step leaves the last reply of the coalesced refresh current, or a *)
(* query due.                                                              *)
LEMMA NextCurrent == ASSUME IInv, [Next]_vars PROVE RefreshIsCurrent'
<1> USE DEF IInv, RefreshIsCurrent
<1>a. /\ TableOK /\ JobsOK /\ ListsOK /\ again \in BOOLEAN
      /\ spent \in [{"op", "stop", "exit", "fail"} -> Nat]
  BY DEF TypeInv, UIOK
<1>1. ASSUME NEW op, NEW done, NEW cond, Edit(op, done, cond) PROVE RefreshIsCurrent'
  BY <1>1, <1>a DEF Edit, Spend, table
<1>2. CASE UISend
  BY <1>2, <1>a, ScheduleJobs DEF UISend
<1>3. CASE ReapplyCondition
  <2>1. UNCHANGED <<lastNum, job, again, notes, spent>>
    BY <1>3 DEF ReapplyCondition
  <2>2. UNCHANGED gdb \/ \E n : SetCondition(n)
    BY <1>3 DEF ReapplyCondition
  <2>3. Ids(gdb') = Ids(gdb)
    BY <1>a, <2>1, <2>2, ConditionTable
  <2> QED
    BY <2>1, <2>3
<1>4. CASE BreakpointsChanged
  BY <1>4, <1>a, ScheduleJobs DEF BreakpointsChanged
<1>5. ASSUME NEW r \in Stoppers, OnGdbStopped(r) PROVE RefreshIsCurrent'
  <2>1. job'[Coalesced] = job[Coalesced]
    BY <1>5, StoppedJobs, CoalescedType
  <2> QED
    BY <1>5, <1>a, <2>1 DEF OnGdbStopped, Spend, table
<1>6. CASE ClearModel
  BY <1>6, <1>a DEF ClearModel, Spend, table
<1>7. ASSUME NEW l \in Loc, ConsoleBreak(l) PROVE RefreshIsCurrent'
  BY <1>7 DEF ConsoleBreak
<1>8. ASSUME NEW n, ConsoleDelete(n) PROVE RefreshIsCurrent'
  BY <1>8 DEF ConsoleDelete
<1>9. ASSUME NEW n, ConsoleCondition(n) PROVE RefreshIsCurrent'
  <2>1. Ids(gdb') = Ids(gdb)
    BY <1>9, <1>a, ConditionTable DEF ConsoleCondition
  <2> QED
    BY <1>9, <1>a, <2>1 DEF ConsoleCondition, Spend
<1>10. ASSUME NEW r \in Refreshers, Fetch(r) PROVE RefreshIsCurrent'
  <2>1. /\ job'[r].items = gdb
        /\ r # Coalesced => job'[Coalesced] = job[Coalesced]
    BY <1>10, FetchJobs, CoalescedType
  <2>2. UNCHANGED <<spent, again, notes, gdb>>
    BY <1>10 DEF Fetch, table
  <2> QED
    BY <2>1, <2>2
<1>11. ASSUME NEW r \in Refreshers, FetchFail(r) PROVE RefreshIsCurrent'
  BY <1>11, <1>a, FetchFailJobs
<1>12. ASSUME NEW r \in Refreshers, MergeRead(r) PROVE RefreshIsCurrent'
  <2>1. /\ job'[r].items = job[r].items /\ job[r].pc # "fetch"
        /\ r # Coalesced => job'[Coalesced] = job[Coalesced]
    BY <1>12, MergeReadJobs, CoalescedType DEF MergeRead
  <2>2. UNCHANGED <<spent, again, notes, gdb>>
    BY <1>12 DEF MergeRead, table
  <2> QED
    BY <2>1, <2>2
<1>13. ASSUME NEW r \in Refreshers, MergeWrite(r) PROVE RefreshIsCurrent'
  <2>1. /\ job'[r].items = job[r].items /\ job[r].pc # "fetch"
        /\ r # Coalesced => job'[Coalesced] = job[Coalesced]
    BY <1>13, MergeWriteJobs, CoalescedType DEF MergeWrite
  <2>2. UNCHANGED <<spent, again, notes, gdb>>
    BY <1>13 DEF MergeWrite, table
  <2> QED
    BY <2>1, <2>2
<1>14. ASSUME NEW r \in Refreshers, SyncViews(r) PROVE RefreshIsCurrent'
  <2>1. /\ job'[Coalesced].items = job[Coalesced].items
        /\ again => again' \/ job'[Coalesced].pc = "fetch"
        /\ r # Coalesced => job'[Coalesced] = job[Coalesced]
        /\ job[r].pc # "fetch"
    BY <1>14, <1>a, FinishJobs, CoalescedType DEF SyncViews
  <2>2. UNCHANGED <<spent, notes, gdb>>
    BY <1>14 DEF SyncViews, table
  <2> QED
    BY <2>1, <2>2
<1>15. CASE UNCHANGED vars
  BY <1>15 DEF vars
<1> QED
  BY <1>a, <1>1, <1>2, <1>3, <1>4, <1>5, <1>6, <1>7, <1>8, <1>9, <1>10, <1>11, <1>12, <1>13,
     <1>14, <1>15, Steps

LEMMA NextAgain == ASSUME IInv, [Next]_vars PROVE AgainInv'
<1> USE DEF IInv, AgainInv
<1>a. /\ TableOK /\ JobsOK /\ ListsOK /\ again \in BOOLEAN
  BY DEF TypeInv, UIOK
<1>1. ASSUME UNCHANGED <<job, again>> PROVE AgainInv'
  BY <1>1
<1>2. ASSUME Schedule PROVE AgainInv'
  BY <1>2, <1>a, CoalescedType DEF Schedule, JobsOK, Job
<1>3. ASSUME NEW r \in Refreshers, Finish(r) PROVE AgainInv'
  BY <1>3, <1>a, CoalescedType DEF Finish, JobsOK, Job
<1>4. ASSUME NEW r \in Refreshers, again' = again, job'[r].pc \in {"fetch", "got", "merge", "sync"},
             \A q \in Refreshers : q # r => job'[q] = job[q]
      PROVE  AgainInv'
  BY <1>4, CoalescedType
<1>5. ASSUME NEW r \in Refreshers, FetchFail(r) PROVE AgainInv'
  <2>1. CASE r \in Stoppers /\ job[r].tries + 1 < Tries
    <3>1. job'[Coalesced] = job[Coalesced] /\ again' = again
      BY <1>5, <2>1, <1>a, CoalescedType DEF FetchFail, JobsOK
    <3> QED
      BY <3>1
  <2>2. CASE ~(r \in Stoppers /\ job[r].tries + 1 < Tries)
    BY <1>5, <2>2, <1>3 DEF FetchFail
  <2> QED
    BY <2>1, <2>2
<1>6. ASSUME NEW r \in Refreshers, SyncViews(r) PROVE AgainInv'
  BY <1>6, <1>3 DEF SyncViews
<1>7. ASSUME NEW r \in Refreshers, Fetch(r) PROVE AgainInv'
  <2>1. again' = again /\ job'[r].pc = "got" /\ \A q \in Refreshers : q # r => job'[q] = job[q]
    BY <1>7, FetchJobs DEF Fetch
  <2> QED
    BY <2>1, <1>4
<1>8. ASSUME NEW r \in Refreshers, MergeRead(r) PROVE AgainInv'
  <2>1. again' = again /\ job'[r].pc = "merge" /\ \A q \in Refreshers : q # r => job'[q] = job[q]
    BY <1>8, MergeReadJobs DEF MergeRead
  <2> QED
    BY <2>1, <1>4
<1>9. ASSUME NEW r \in Refreshers, MergeWrite(r) PROVE AgainInv'
  <2>1. again' = again /\ job'[r].pc = "sync" /\ \A q \in Refreshers : q # r => job'[q] = job[q]
    BY <1>9, MergeWriteJobs DEF MergeWrite
  <2> QED
    BY <2>1, <1>4
<1>10. ASSUME NEW r \in Stoppers, OnGdbStopped(r) PROVE AgainInv'
  <2>1. /\ again' = again /\ job'[r].pc = "fetch" /\ r \in Refreshers
        /\ \A q \in Refreshers : q # r => job'[q] = job[q]
    BY <1>10, StoppedJobs, CoalescedType DEF OnGdbStopped
  <2> QED
    BY <2>1, <1>4
<1>11. CASE UISend \/ BreakpointsChanged
  BY <1>11, <1>2 DEF UISend, BreakpointsChanged
<1>12. CASE ReapplyCondition \/ ClearModel \/ UNCHANGED vars
  BY <1>12, <1>1 DEF ReapplyCondition, ClearModel, vars
<1>13. ASSUME NEW n, ConsoleBreak(n) \/ ConsoleDelete(n) \/ ConsoleCondition(n) PROVE AgainInv'
  BY <1>13, <1>1 DEF ConsoleBreak, ConsoleDelete, ConsoleCondition
<1>14. ASSUME NEW op, NEW done, NEW cond, Edit(op, done, cond) PROVE AgainInv'
  BY <1>14, <1>1 DEF Edit
<1> QED
  BY <1>a, <1>5, <1>6, <1>7, <1>8, <1>9, <1>10, <1>11, <1>12, <1>13, <1>14, Steps

(* A step that leaves a query due, or after which something was lost, owes *)
(* nothing.                                                                *)
LEMMA NotCalm == ASSUME ~Calm' PROVE ListInv' /\ PaintInv'
  BY DEF ListInv, PaintInv

(* A step that starts or goes on with a goroutine that is to merge.        *)
LEMMA ToMerge ==
    ASSUME NEW r \in Refreshers, job'[r].pc \in {"fetch", "got", "merge"}
    PROVE  ListInv' /\ PaintInv'
  BY DEF ListInv, PaintInv

(* A step that changes no list, no goroutine, and no place in the table.   *)
LEMMA NothingMoves ==
    ASSUME IInv, UNCHANGED <<list, shown, job, again, notes>>,
           spent'.exit = spent.exit, spent'.fail = spent.fail,
           ui'.pc = "send" <=> ui.pc = "send",
           Ids(gdb') = Ids(gdb), GdbKeys' = GdbKeys
    PROVE  ListInv' /\ PaintInv'
<1>1. Calm' = Calm
  BY DEF Calm, Due
<1>2. Marked(list') = Marked(list)
  BY DEF Marked
<1>3. (\A r \in Stoppers : Replied(r) => Current(r))' => \A r \in Stoppers : Replied(r) => Current(r)
  BY DEF Replied, Current
<1>4. ListInv'
  BY <1>1, <1>2, <1>3 DEF IInv, ListInv, Marked
<1>5. PaintInv'
  BY <1>1 DEF IInv, PaintInv
<1> QED
  BY <1>4, <1>5

(* A merge of a reply that is current gives the list GDB's breakpoints.    *)
LEMMA MergeWriteKeeps ==
    ASSUME IInv, NEW r \in Refreshers, MergeWrite(r)
    PROVE  ListInv' /\ PaintInv'
<1>1. /\ JobsOK'
      /\ job[r].pc = "merge" /\ job'[r].pc = "sync" /\ job'[r].items = job[r].items
      /\ \A q \in Refreshers : q # r => job'[q] = job[q]
      /\ Marked(list') = {breakKey(g) : g \in job[r].items}
      /\ UNCHANGED <<ui, again, notes, gdb, spent>>
  BY MergeWriteJobs DEF IInv, MergeWrite, table
<1>2. PaintInv'
  BY <1>1 DEF PaintInv
<1>3. ASSUME Calm', (\A s \in Stoppers : Replied(s) => Current(s))'
      PROVE  Marked(list') = GdbKeys'
  <2>1. Ids(job[r].items) = Ids(gdb)
    <3>1. CASE r = Coalesced
      <4>1. spent.fail = 0 /\ ~again /\ ~notes /\ job[Coalesced].pc # "fetch"
        BY <3>1, <1>1, <1>3 DEF Calm, Due
      <4> QED
        BY <3>1, <4>1 DEF IInv, RefreshIsCurrent
    <3>2. CASE r \in Stoppers
      <4>1. Replied(r)'
        BY <1>1 DEF Replied
      <4>2. Current(r)'
        BY <3>2, <4>1, <1>3
      <4> QED
        BY <4>2, <1>1 DEF Current
    <3> QED
      BY <3>1, <3>2 DEF Refreshers
  <2>2. job[r].items \in SUBSET Row /\ gdb \in SUBSET Row
    BY DEF IInv, TypeInv, JobsOK, Job, TableOK
  <2>3. {breakKey(g) : g \in job[r].items} = {breakKey(g) : g \in gdb}
    BY <2>1, <2>2, IdsGiveKeys
  <2> QED
    BY <1>1, <2>3 DEF GdbKeys
<1>4. ListInv'
  BY <1>3 DEF ListInv, Marked
<1> QED
  BY <1>2, <1>4

LEMMA SyncViewsKeeps ==
    ASSUME IInv, NEW r \in Refreshers, SyncViews(r)
    PROVE  ListInv' /\ PaintInv'
<1>1. /\ job[r].pc = "sync"
      /\ UNCHANGED <<list, ui, notes, gdb, spent>> /\ shown' = list
  BY DEF SyncViews, syncViews, table
<1>2. /\ again => again' \/ job'[Coalesced].pc = "fetch"
      /\ \A q \in Refreshers : /\ job'[q].items = job[q].items
                               /\ q # r => job'[q] = job[q]
      /\ r # Coalesced => job'[r].pc = "over"
  BY FinishJobs DEF IInv, TypeInv, UIOK, SyncViews
<1>3. PaintInv'
  BY <1>1 DEF PaintInv
<1>4. ASSUME Calm', (\A s \in Stoppers : Replied(s) => Current(s))'
      PROVE  \/ Marked(list) = GdbKeys
             \/ \E q \in Refreshers : job'[q].pc \in {"fetch", "got", "merge"}
  <2>1. Calm
    BY <1>1, <1>2, <1>4, CoalescedType DEF Calm, Due
  <2>2. ASSUME NEW s \in Stoppers, Replied(s) PROVE Current(s)
    <3>1. s \in Refreshers /\ s # Coalesced
      BY CoalescedType
    <3>2. Replied(s)'
      <4>1. CASE s = r
        BY <3>1, <4>1, <1>2 DEF Replied
      <4>2. CASE s # r
        BY <3>1, <4>2, <1>2, <2>2 DEF Replied
      <4> QED
        BY <4>1, <4>2
    <3>3. Current(s)'
      BY <3>2, <1>4
    <3> QED
      BY <3>1, <3>3, <1>1, <1>2 DEF Current
  <2>3. \/ Marked(list) = GdbKeys
        \/ \E q \in Refreshers : job[q].pc \in {"fetch", "got", "merge"}
    BY <2>1, <2>2 DEF IInv, ListInv
  <2>4. ASSUME NEW q \in Refreshers, job[q].pc \in {"fetch", "got", "merge"}
        PROVE  job'[q].pc \in {"fetch", "got", "merge"}
    BY <2>4, <1>1, <1>2
  <2> QED
    BY <2>3, <2>4
<1>5. ListInv'
  BY <1>1, <1>4 DEF ListInv, Marked, GdbKeys
<1> QED
  BY <1>3, <1>5

LEMMA NextPanes == ASSUME IInv, [Next]_vars PROVE ListInv' /\ PaintInv'
<1>a. /\ TableOK /\ JobsOK /\ ListsOK /\ again \in BOOLEAN
      /\ spent \in [{"op", "stop", "exit", "fail"} -> Nat]
  BY DEF IInv, TypeInv, UIOK
<1>1. ASSUME NEW op, NEW done, NEW cond, Edit(op, done, cond) PROVE ListInv' /\ PaintInv'
  <2>1. ~Calm'
    BY <1>1 DEF Edit, Calm, Due
  <2> QED
    BY <2>1, NotCalm
<1>2. CASE UISend \/ BreakpointsChanged
  <2>1. Schedule
    BY <1>2 DEF UISend, BreakpointsChanged
  <2>2. ~Calm'
    BY <1>a, <2>1, ScheduleJobs DEF Calm, Due
  <2> QED
    BY <2>2, NotCalm
<1>3. CASE ReapplyCondition
  <2>1. /\ UNCHANGED <<lastNum, list, shown, job, again, notes, spent>>
        /\ ui.pc = "cond" /\ ui'.pc = "idle"
    BY <1>3 DEF ReapplyCondition, views, idle
  <2>2. UNCHANGED gdb \/ \E n : SetCondition(n)
    BY <1>3 DEF ReapplyCondition
  <2>3. Ids(gdb') = Ids(gdb) /\ GdbKeys' = GdbKeys
    <3>1. CASE UNCHANGED gdb
      BY <3>1 DEF Ids, GdbKeys
    <3> QED
      BY <1>a, <2>1, <2>2, <3>1, ConditionTable
  <2> QED
    BY <2>1, <2>3, NothingMoves
<1>4. ASSUME NEW r \in Stoppers, OnGdbStopped(r) PROVE ListInv' /\ PaintInv'
  <2>1. r \in Refreshers /\ job'[r].pc = "fetch"
    BY <1>4, StoppedJobs, CoalescedType DEF IInv
  <2> QED
    BY <2>1, ToMerge
<1>5. CASE ClearModel
  <2>1. spent'.exit # 0
    BY <1>5, <1>a DEF ClearModel, Spend
  <2> QED
    BY <2>1, NotCalm DEF Calm
<1>6. ASSUME NEW n, ConsoleBreak(n) \/ ConsoleDelete(n) PROVE ListInv' /\ PaintInv'
  <2>1. ~Calm'
    BY <1>6 DEF ConsoleBreak, ConsoleDelete, Calm, Due
  <2> QED
    BY <2>1, NotCalm
<1>7. ASSUME NEW n, ConsoleCondition(n) PROVE ListInv' /\ PaintInv'
  <2>1. /\ UNCHANGED <<lastNum, list, shown, job, again, notes, ui>>
        /\ spent'.exit = spent.exit /\ spent'.fail = spent.fail
    BY <1>7, <1>a DEF ConsoleCondition, Spend, views
  <2>2. Ids(gdb') = Ids(gdb) /\ GdbKeys' = GdbKeys
    BY <1>7, <1>a, <2>1, ConditionTable DEF ConsoleCondition
  <2> QED
    BY <2>1, <2>2, NothingMoves
<1>8. ASSUME NEW r \in Refreshers, Fetch(r) \/ MergeRead(r) PROVE ListInv' /\ PaintInv'
  <2>1. job'[r].pc \in {"got", "merge"}
    BY <1>8, FetchJobs, MergeReadJobs DEF IInv
  <2> QED
    BY <2>1, ToMerge
<1>9. ASSUME NEW r \in Refreshers, FetchFail(r) PROVE ListInv' /\ PaintInv'
  <2>1. spent'.fail # 0
    BY <1>9, <1>a, FetchFailJobs DEF IInv
  <2> QED
    BY <2>1, NotCalm DEF Calm
<1>10. CASE UNCHANGED vars
  BY <1>10, NothingMoves DEF vars, Ids, GdbKeys
<1> QED
  BY <1>a, <1>1, <1>2, <1>3, <1>4, <1>5, <1>6, <1>7, <1>8, <1>9, <1>10, Steps,
     MergeWriteKeeps, SyncViewsKeeps
---------------------------------------------------------------------------
LEMMA NextIInv == IInv /\ [Next]_vars => IInv'
  BY NextTypeInv, NextCurrent, NextAgain, NextPanes DEF IInv

(* Whatever changes GDB's table, in the panes or in the console, is        *)
(* followed by a query of the coalesced refresh: its last reply names the  *)
(* breakpoints GDB has, or another query is due.                           *)
THEOREM RefreshIsAlwaysCurrent == Spec => []RefreshIsCurrent
<1>1. IInv => RefreshIsCurrent
  BY DEF IInv
<1> QED
  BY <1>1, InitIInv, NextIInv, PTL DEF Spec

(* At rest the panes show GDB's breakpoints, whatever panes, console and   *)
(* stops did meanwhile, unless an exit, a timeout or a reply of a stop's   *)
(* goroutine that is out of date came in between.                          *)
THEOREM GuttersFollow == Spec => []GuttersFollowGdb
<1>1. ASSUME IInv, Quiet, Undisturbed
      PROVE  Marked(shown) = GdbKeys /\ shown = list
  <2>1. \A r \in Refreshers : job[r].pc \in {"off", "over"}
    BY <1>1 DEF Quiet
  <2>2. job[Coalesced].pc = "off" /\ ~again
    BY <1>1, <2>1, CoalescedType DEF IInv, AgainInv
  <2>3. Calm
    BY <1>1, <2>2 DEF Quiet, Undisturbed, Calm, Due
  <2>4. \A r \in Stoppers : Replied(r) => Current(r)
    BY <1>1, <2>1, CoalescedType DEF Undisturbed, Overtaken, Replied, Current
  <2>5. Marked(list) = GdbKeys
    BY <1>1, <2>1, <2>3, <2>4 DEF IInv, ListInv
  <2>6. shown = list
    BY <1>1, <2>1, <2>3 DEF IInv, PaintInv
  <2> QED
    BY <2>5, <2>6
<1>2. IInv => GuttersFollowGdb
  BY <1>1 DEF GuttersFollowGdb
<1> QED
  BY <1>2, InitIInv, NextIInv, PTL DEF Spec
=============================================================================
