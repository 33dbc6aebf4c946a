----------------------------- MODULE DataLemmas -----------------------------
(***************************************************************************)
(* What the operators on data do, for lists of any length and sets of any  *)
(* size: pushing to an enumerable set adds, swap-and-pop removes, and both *)
(* keep the array and the position mapping each other's inverse; a sum     *)
(* moves with its summands.  The inductions are over sets: a set of        *)
(* naturals, or of subsets, that is closed under a step is all of them.    *)
(***************************************************************************)
EXTENDS IndexedList, Functions, FiniteSets, SequenceTheorems, FiniteSetTheorems,
        WellFoundedInduction, TLAPS

\* A fresh list is empty and consistent.
LEMMA EmptyListFacts ==
    ASSUME NEW S
    PROVE  /\ EmptyList(S) \in IndexedListsOf(S)
           /\ Consistent(EmptyList(S))
           /\ Members(EmptyList(S)) = {}
BY DEF EmptyList, IndexedListsOf, Consistent, Members

\* A record of an array and a mapping is a list.
LEMMA ListOf ==
    ASSUME NEW S, NEW items \in Seq(S), NEW index \in [S -> Nat]
    PROVE  [items |-> items, index |-> index] \in IndexedListsOf(S)
BY DEF IndexedListsOf

\* Members come from the set the list is over.
LEMMA MembersWithin ==
    ASSUME NEW S, NEW l \in IndexedListsOf(S)
    PROVE  Members(l) \subseteq S
<1>1. l.items \in Seq(S)
  BY DEF IndexedListsOf
<1>2. \A i \in DOMAIN l.items : l.items[i] \in S
  BY <1>1, ElementOfSeq
<1> QED
  BY <1>2 DEF Members

\* A member is exactly what the position mapping knows.
LEMMA MembersAreIndexed ==
    ASSUME NEW S, NEW l \in IndexedListsOf(S), Consistent(l), NEW x \in S
    PROVE  x \in Members(l) <=> l.index[x] # 0
BY DEF IndexedListsOf, Consistent, Members

\* Pushing an absent item adds it and nothing else.
LEMMA PushItemFacts ==
    ASSUME NEW S, NEW l \in IndexedListsOf(S), Consistent(l),
           NEW x \in S, x \notin Members(l)
    PROVE  /\ PushItem(l, x) \in IndexedListsOf(S)
           /\ Consistent(PushItem(l, x))
           /\ Members(PushItem(l, x)) = Members(l) \cup {x}
<1> DEFINE m == PushItem(l, x)
<1> DEFINE n == Len(l.items)
<1>1. /\ n \in Nat
      /\ l.items \in Seq(S)
      /\ DOMAIN l.items = 1..n
      /\ l.index \in [S -> Nat]
  BY DEF IndexedListsOf
<1>2. /\ m.items = Append(l.items, x)
      /\ m.index = [l.index EXCEPT ![x] = n + 1]
  BY DEF PushItem
<1>3. /\ m.items \in Seq(S)
      /\ DOMAIN m.items = 1..(n+1)
      /\ m.items[n+1] = x
      /\ \A i \in 1..n : m.items[i] = l.items[i]
      /\ m.index \in [S -> Nat]
  BY <1>1, <1>2
<1>4. m \in IndexedListsOf(S)
  BY <1>3 DEF IndexedListsOf, PushItem
<1>5. l.index[x] = 0
  BY MembersAreIndexed
<1>6. \A i \in 1..n : l.items[i] \in S /\ l.items[i] # x
  BY <1>1 DEF Members
<1>7. \A i \in 1..(n+1) : m.index[m.items[i]] = i
  BY <1>1, <1>2, <1>3, <1>6 DEF Consistent
<1>8. \A y \in S : m.index[y] # 0 => m.index[y] \in 1..(n+1) /\ m.items[m.index[y]] = y
  BY <1>1, <1>2, <1>3 DEF Consistent
<1>9. Consistent(m)
  BY <1>1, <1>2, <1>3, <1>7, <1>8 DEF Consistent
<1>10. ASSUME NEW y \in S
       PROVE  y \in Members(m) <=> y \in Members(l) \cup {x}
  <2>1. y \in Members(m) <=> m.index[y] # 0
    BY <1>4, <1>9, MembersAreIndexed
  <2>2. y \in Members(l) <=> l.index[y] # 0
    BY MembersAreIndexed
  <2>3. m.index[y] # 0 <=> l.index[y] # 0 \/ y = x
    BY <1>1, <1>2
  <2> QED
    BY <2>1, <2>2, <2>3
<1>11. Members(m) \subseteq S /\ Members(l) \subseteq S
  BY <1>4, MembersWithin
<1>12. Members(m) = Members(l) \cup {x}
  BY <1>10, <1>11
<1> QED
  BY <1>4, <1>9, <1>12

\* Swap-and-pop of a member removes it and nothing else.
LEMMA SwapAndPopFacts ==
    ASSUME NEW S, NEW l \in IndexedListsOf(S), Consistent(l),
           NEW x \in S, x \in Members(l)
    PROVE  /\ SwapAndPop(l, x) \in IndexedListsOf(S)
           /\ Consistent(SwapAndPop(l, x))
           /\ Members(SwapAndPop(l, x)) = Members(l) \ {x}
<1> DEFINE m == SwapAndPop(l, x)
<1> DEFINE n == Len(l.items)
<1> DEFINE last == l.items[n]
<1> DEFINE at == l.index[x]
<1> DEFINE moved == [l.items EXCEPT ![at] = last]
<1>1. /\ n \in Nat
      /\ l.items \in Seq(S)
      /\ DOMAIN l.items = 1..n
      /\ l.items \in [1..n -> S]
      /\ l.index \in [S -> Nat]
  BY DEF IndexedListsOf
<1>2. /\ at \in 1..n
      /\ l.items[at] = x
      /\ n \in 1..n
      /\ last \in S
  BY <1>1, MembersAreIndexed DEF Consistent
<1>3. /\ m.items = SubSeq(moved, 1, n-1)
      /\ m.index = [[l.index EXCEPT ![last] = at] EXCEPT ![x] = 0]
      /\ m = [items |-> m.items, index |-> m.index]
  BY DEF SwapAndPop
<1> HIDE DEF m
<1>4. /\ moved \in [1..n -> S]
      /\ moved \in Seq(S)
      /\ Len(moved) = n
  <2>1. moved \in [1..n -> S]
    BY <1>1, <1>2
  <2>2. moved \in Seq(S) /\ Len(moved) = n
    BY <1>1, <2>1
  <2> QED
    BY <2>1, <2>2
<1>5. /\ m.items \in Seq(S)
      /\ DOMAIN m.items = 1..(n-1)
      /\ \A i \in 1..(n-1) : m.items[i] = (IF i = at THEN last ELSE l.items[i])
  <2>1. \A i \in 1..n : moved[i] = (IF i = at THEN last ELSE l.items[i])
    BY <1>1
  <2> HIDE DEF moved, at, last
  <2>2. /\ SubSeq(moved, 1, n-1) \in Seq(S)
        /\ Len(SubSeq(moved, 1, n-1)) = n-1
        /\ \A i \in 1..(n-1) : SubSeq(moved, 1, n-1)[i] = moved[i]
    <3>1. n \in Nat \ {0} /\ \A i \in 1..(n-1) : moved[i] \in S
      BY <1>1, <1>2, <1>4
    <3> HIDE DEF n
    <3>2. /\ SubSeq(moved, 1, n-1) \in Seq(S)
          /\ Len(SubSeq(moved, 1, n-1)) = IF 1 <= n-1 THEN (n-1)-1+1 ELSE 0
          /\ \A i \in 1..(n-1)-1+1 : SubSeq(moved, 1, n-1)[i] = moved[1+i-1]
      BY <3>1, SubSeqProperties
    <3>3. (IF 1 <= n-1 THEN (n-1)-1+1 ELSE 0) = n-1 /\ (n-1)-1+1 = n-1
      BY <3>1
    <3>4. \A i \in 1..(n-1) : 1+i-1 = i
      BY <3>1
    <3> QED
      BY <3>2, <3>3, <3>4
  <2> QED
    BY <1>1, <1>3, <2>1, <2>2
<1>6. m.index \in [S -> Nat]
  <2>1. at \in Nat /\ last \in S
    BY <1>1, <1>2
  <2> HIDE DEF at, last
  <2>2. [l.index EXCEPT ![last] = at] \in [S -> Nat]
    BY <1>1, <2>1
  <2> QED
    BY <1>3, <2>2
<1>7. m \in IndexedListsOf(S)
  <2>1. m = [items |-> m.items, index |-> m.index]
    BY <1>3
  <2>2. m.items \in Seq(S)
    BY <1>5
  <2> QED
    BY <2>1, <2>2, <1>6, ListOf
<1>8. \A i, j \in 1..n : l.items[i] = l.items[j] => i = j
  BY <1>1 DEF Consistent
<1>9. \A i \in 1..(n-1) : m.index[m.items[i]] = i
  <2> TAKE i \in 1..(n-1)
  <2>1. CASE i = at
    <3>1. at # n /\ l.items[n] # x
      BY <2>1, <1>1, <1>2, <1>8
    <3>2. m.items[i] = last /\ last # x
      BY <3>1, <2>1, <1>5
    <3>3. m.index[last] = at
      BY <3>2, <1>1, <1>2, <1>3
    <3> QED
      BY <3>2, <3>3, <2>1
  <2>2. CASE i # at
    <3>1. /\ m.items[i] = l.items[i]
          /\ l.items[i] \in S
          /\ l.items[i] # x
          /\ l.items[i] # last
          /\ l.index[l.items[i]] = i
      <4>1. i \in 1..n /\ i # n
        BY <1>1
      <4>2. m.items[i] = l.items[i]
        BY <2>2, <1>5
      <4>3. l.items[i] \in S /\ l.index[l.items[i]] = i
        BY <4>1, <1>1 DEF Consistent
      <4>4. l.items[i] # x /\ l.items[i] # last
        BY <4>1, <2>2, <1>2, <1>8
      <4> QED
        BY <4>2, <4>3, <4>4
    <3>2. m.index[l.items[i]] = l.index[l.items[i]]
      BY <3>1, <1>1, <1>2, <1>3
    <3> QED
      BY <3>1, <3>2
  <2> QED
    BY <2>1, <2>2
<1>10. \A y \in S : m.index[y] # 0 => m.index[y] \in 1..(n-1) /\ m.items[m.index[y]] = y
  <2> TAKE y \in S
  <2> HAVE m.index[y] # 0
  <2>1. y # x
    BY <1>1, <1>2, <1>3
  <2>2. CASE y = last
    <3>1. m.index[y] = at /\ at # n
      BY <2>1, <2>2, <1>1, <1>2, <1>3
    <3>2. at \in 1..(n-1)
      BY <3>1, <1>1, <1>2
    <3>3. m.items[at] = last
      BY <3>2, <1>5
    <3> QED
      BY <3>1, <3>2, <3>3, <2>2
  <2>3. CASE y # last
    <3>1. m.index[y] = l.index[y]
      BY <2>1, <2>3, <1>1, <1>3
    <3>2. l.index[y] \in 1..n /\ l.items[l.index[y]] = y
      BY <3>1, <1>1 DEF Consistent
    <3>3. l.index[y] # n /\ l.index[y] # at
      BY <3>2, <2>1, <2>3, <1>2
    <3>4. l.index[y] \in 1..(n-1)
      BY <3>2, <3>3, <1>1
    <3>5. m.items[l.index[y]] = l.items[l.index[y]]
      BY <3>3, <3>4, <1>5
    <3> QED
      BY <3>1, <3>2, <3>4, <3>5
  <2> QED
    BY <2>2, <2>3
<1>11. Consistent(m)
  BY <1>5, <1>6, <1>9, <1>10 DEF Consistent
<1>12. ASSUME NEW y \in S
       PROVE  m.index[y] # 0 <=> l.index[y] # 0 /\ y # x
  <2>1. at # 0 /\ l.index[last] = n /\ n # 0
    BY <1>1, <1>2 DEF Consistent
  <2>2. m.index[y] = IF y = x THEN 0 ELSE IF y = last THEN at ELSE l.index[y]
    BY <1>1, <1>3
  <2> QED
    BY <2>1, <2>2
<1>13. Members(m) \subseteq S /\ Members(l) \subseteq S
  BY <1>7, MembersWithin
<1>14. ASSUME NEW y \in S
       PROVE  y \in Members(m) <=> y \in Members(l) \ {x}
  <2>1. y \in Members(m) <=> m.index[y] # 0
    BY <1>7, <1>11, MembersAreIndexed
  <2>2. y \in Members(l) <=> l.index[y] # 0
    BY MembersAreIndexed
  <2> QED
    BY <2>1, <2>2, <1>12
<1>15. Members(m) = Members(l) \ {x}
  BY <1>13, <1>14
<1> QED
  BY <1>7, <1>11, <1>15 DEF m

\* Pushing lengthens the array by one, swap-and-pop shortens it by one.
LEMMA ListLengths ==
    ASSUME NEW S, NEW l \in IndexedListsOf(S), Consistent(l), NEW x \in S
    PROVE  /\ Len(PushItem(l, x).items) = Len(l.items) + 1
           /\ x \in Members(l) => Len(SwapAndPop(l, x).items) = Len(l.items) - 1
<1> DEFINE n == Len(l.items)
           filled == [l.items EXCEPT ![l.index[x]] = l.items[n]]
<1>1. /\ n \in Nat /\ l.items \in Seq(S) /\ DOMAIN l.items = 1 .. n
      /\ l.items \in [1 .. n -> S]
  BY DEF IndexedListsOf
<1>2. Len(PushItem(l, x).items) = n + 1
  BY <1>1 DEF PushItem
<1>3. ASSUME x \in Members(l) PROVE Len(SwapAndPop(l, x).items) = n - 1
  <2>1. n \in 1 .. n /\ n - 1 \in Nat
    BY <1>1, <1>3 DEF Members
  <2>2. filled \in Seq(S) /\ Len(filled) = n
    <3>1. l.items[n] \in S
      BY <1>1, <2>1
    <3>2. filled \in [1 .. n -> S]
      BY <1>1, <3>1
    <3> QED
      BY <1>1, <3>2
  <2>3. SwapAndPop(l, x).items = SubSeq(filled, 1, n - 1)
    BY DEF SwapAndPop
  <2> HIDE DEF filled, n
  <2>4. Len(SubSeq(filled, 1, n - 1)) = n - 1
    BY <1>1, <2>1, <2>2
  <2> QED
    BY <2>3, <2>4
<1> QED
  BY <1>2, <1>3

-----------------------------------------------------------------------------
(* Induction.                                                              *)

\* Induction over the naturals, about a set of them.
LEMMA InductiveSetIsNat ==
    ASSUME NEW T \in SUBSET Nat, 0 \in T, \A n \in T : n + 1 \in T
    PROVE  T = Nat
<1> SUFFICES ASSUME Nat \ T # {} PROVE FALSE
  OBVIOUS
<1>1. PICK n \in Nat \ T : \A m \in Nat \ T : <<m, n>> \notin OpToRel(<, Nat)
  BY NatLessThanWellFounded, WFMin
<1>2. \A m \in Nat \ T : ~(m < n)
  BY <1>1 DEF OpToRel
<1>3. n # 0 /\ n - 1 \in Nat /\ n - 1 < n /\ (n - 1) + 1 = n
  OBVIOUS
<1>4. n - 1 \in T
  BY <1>2, <1>3
<1> QED
  BY <1>1, <1>3, <1>4

\* The element the fold over a set takes first.
Chosen(s) == CHOOSE x \in s : TRUE

\* Induction over the subsets of a finite set, along the elements the fold takes.
LEMMA ChoiceInduction ==
    ASSUME NEW S, IsFiniteSet(S), NEW G, {} \in G,
           \A s \in SUBSET S : s # {} /\ s \ {Chosen(s)} \in G => s \in G
    PROVE  \A s \in SUBSET S : s \in G
<1> DEFINE T == {n \in Nat : \A s \in SUBSET S : Cardinality(s) = n => s \in G}
<1>1. \A s \in SUBSET S : IsFiniteSet(s) /\ Cardinality(s) \in Nat
  BY FS_Subset, FS_CardinalityType
<1>2. 0 \in T
  BY <1>1, FS_EmptySet
<1>3. ASSUME NEW n \in T PROVE n + 1 \in T
  <2> SUFFICES ASSUME NEW s \in SUBSET S, Cardinality(s) = n + 1 PROVE s \in G
    OBVIOUS
  <2>1. s # {}
    BY FS_EmptySet
  <2> DEFINE x == Chosen(s)
  <2>2. x \in s
    BY <2>1 DEF Chosen
  <2>3. Cardinality(s \ {x}) = n
    <3> HIDE DEF x
    <3>1. Cardinality(s \ {x}) = Cardinality(s) - 1
      BY <1>1, <2>2, FS_RemoveElement
    <3> QED
      BY <3>1
  <2>4. s \ {x} \in G
    BY <2>3
  <2> QED
    BY <2>1, <2>4, Zenon
<1>4. T = Nat
  <2> HIDE DEF T
  <2> QED BY <1>2, <1>3, InductiveSetIsNat DEF T
<1> QED
  BY <1>1, <1>4

\* f is computed from base by n steps.
ComputedBy(f, base, step, n) ==
    f[0] = base /\ \A i \in 1 .. n : f[i] = step[<<i, f[i - 1]>>]

\* A function defined by recursion over the first n numbers exists.
LEMMA PrimitiveRecursion ==
    ASSUME NEW V, NEW base \in V, NEW step \in [Nat \X V -> V], NEW n \in Nat
    PROVE  \E f \in [0 .. n -> V] : ComputedBy(f, base, step, n)
<1> DEFINE IsRun(f, m) == f[0] = base /\ \A i \in 1 .. m : f[i] = step[<<i, f[i - 1]>>]
<1> DEFINE T == {m \in Nat : \E f \in [0 .. m -> V] : IsRun(f, m)}
<1>1. 0 \in T
  <2>1. [i \in 0 .. 0 |-> base] \in [0 .. 0 -> V] /\ IsRun([i \in 0 .. 0 |-> base], 0)
    OBVIOUS
  <2> QED
    BY <2>1
<1>2. ASSUME NEW m \in T PROVE m + 1 \in T
  <2>1. PICK f \in [0 .. m -> V] : IsRun(f, m)
    OBVIOUS
  <2> DEFINE g == [i \in 0 .. m + 1 |-> IF i = m + 1 THEN step[<<m + 1, f[m]>>] ELSE f[i]]
  <2>2. f[m] \in V /\ <<m + 1, f[m]>> \in Nat \X V
    OBVIOUS
  <2>3. g \in [0 .. m + 1 -> V]
    BY <2>2
  <2>4. g[0] = base
    BY <2>1
  <2>5. ASSUME NEW i \in 1 .. m + 1 PROVE g[i] = step[<<i, g[i - 1]>>]
    <3>1. CASE i = m + 1
      <4>1. m + 1 \in 0 .. m + 1 /\ m \in 0 .. m + 1 /\ m # m + 1 /\ i - 1 = m
        BY <3>1
      <4>2. g[m + 1] = step[<<m + 1, f[m]>>] /\ g[m] = f[m]
        BY <4>1
      <4> QED
        BY <3>1, <4>1, <4>2
    <3>2. CASE i # m + 1
      <4>1. i \in 1 .. m /\ i \in 0 .. m /\ i - 1 \in 0 .. m /\ i - 1 # m + 1 /\ i - 1 \in 0 .. m + 1
        BY <3>2
      <4> QED
        BY <2>1, <3>2, <4>1
    <3> QED
      BY <3>1, <3>2
  <2> HIDE DEF g
  <2>6. IsRun(g, m + 1)
    BY <2>4, <2>5
  <2> HIDE DEF IsRun
  <2> QED
    BY <2>3, <2>6
<1>3. T = Nat
  <2> HIDE DEF T
  <2> QED BY <1>1, <1>2, InductiveSetIsNat DEF T
<1>4. PICK f \in [0 .. n -> V] : IsRun(f, n)
  BY <1>3
<1>5. ComputedBy(f, base, step, n)
  BY <1>4 DEF ComputedBy
<1> QED
  BY <1>5

-----------------------------------------------------------------------------
(* Lists without an index.                                                 *)

\* A list that does not name x yet names it once after an append.
LEMMA AppendedFacts ==
    ASSUME NEW S, NEW list \in Seq(S), IsInjective(list), NEW x \in S, x \notin Range(list)
    PROVE  /\ Append(list, x) \in Seq(S)
           /\ IsInjective(Append(list, x))
           /\ Range(Append(list, x)) = Range(list) \cup {x}
<1> DEFINE n == Len(list)
<1>1. /\ Append(list, x) \in Seq(S)
      /\ n \in Nat /\ DOMAIN list = 1 .. n
      /\ DOMAIN Append(list, x) = 1 .. n + 1
      /\ Append(list, x)[n + 1] = x
      /\ \A i \in 1 .. n : Append(list, x)[i] = list[i]
  OBVIOUS
<1> HIDE DEF n
<1>2. Range(Append(list, x)) = Range(list) \cup {x}
  BY <1>1 DEF Range
<1>3. IsInjective(Append(list, x))
  <2> SUFFICES ASSUME NEW i \in 1 .. n + 1, NEW j \in 1 .. n + 1,
                      Append(list, x)[i] = Append(list, x)[j]
               PROVE  i = j
    BY <1>1 DEF IsInjective
  <2>1. CASE i \in 1 .. n /\ j \in 1 .. n
    BY <1>1, <2>1 DEF IsInjective
  <2>2. CASE ~(i \in 1 .. n /\ j \in 1 .. n)
    BY <1>1, <2>2 DEF Range
  <2> QED
    BY <2>1, <2>2
<1> QED
  BY <1>1, <1>2, <1>3

\* The loop's intermediate lists.
KeptUpTo(list, x) ==
    CHOOSE kept : kept = [i \in 0 .. Len(list) |->
            IF i = 0 THEN << >>
            ELSE IF list[i] = x THEN kept[i - 1]
            ELSE Append(kept[i - 1], list[i])]

\* The loop ends with the whole list looked at.
LEMMA WithoutItemUnfolds ==
  ASSUME NEW list, NEW x PROVE WithoutItem(list, x) = KeptUpTo(list, x)[Len(list)]
BY DEF WithoutItem, KeptUpTo

\* Each round of the loop keeps the member it looks at, or skips it.
LEMMA KeptUpToFacts ==
    ASSUME NEW S, NEW list \in Seq(S), NEW x
    PROVE  /\ \A i \in 0 .. Len(list) : KeptUpTo(list, x)[i] \in Seq(S)
           /\ KeptUpTo(list, x)[0] = << >>
           /\ \A i \in 1 .. Len(list) :
                 KeptUpTo(list, x)[i] =
                    IF list[i] = x THEN KeptUpTo(list, x)[i - 1]
                    ELSE Append(KeptUpTo(list, x)[i - 1], list[i])
<1> DEFINE n == Len(list)
<1> DEFINE step == [p \in Nat \X Seq(S) |->
                      IF p[1] \in 1 .. n /\ list[p[1]] # x
                      THEN Append(p[2], list[p[1]]) ELSE p[2]]
<1>1. n \in Nat /\ \A i \in 1 .. n : list[i] \in S
  OBVIOUS
<1>2. step \in [Nat \X Seq(S) -> Seq(S)]
  <2>1. ASSUME NEW p \in Nat \X Seq(S), p[1] \in 1 .. n PROVE Append(p[2], list[p[1]]) \in Seq(S)
    BY <1>1, <2>1
  <2> QED
    BY <2>1
<1>3. << >> \in Seq(S)
  OBVIOUS
<1>4. \A i \in 1 .. n, q \in Seq(S) :
         step[<<i, q>>] = IF list[i] = x THEN q ELSE Append(q, list[i])
  <2> TAKE i \in 1 .. n, q \in Seq(S)
  <2>1. <<i, q>> \in Nat \X Seq(S) /\ <<i, q>>[1] = i /\ <<i, q>>[2] = q
    OBVIOUS
  <2> QED
    BY <2>1
<1> HIDE DEF step, n
<1> DEFINE V == Seq(S)
<1> DEFINE base == << >>
<1>5. PICK f \in [0 .. n -> V] : ComputedBy(f, base, step, n)
  <2>1. base \in V /\ step \in [Nat \X V -> V] /\ n \in Nat
    BY <1>1, <1>2, <1>3
  <2> HIDE DEF V, base
  <2> QED
    BY <2>1, PrimitiveRecursion
<1>6. \A i \in 1 .. n : f[i] = IF list[i] = x THEN f[i - 1] ELSE Append(f[i - 1], list[i])
  <2> TAKE i \in 1 .. n
  <2>1. i - 1 \in 0 .. n
    BY <1>1
  <2> QED
    BY <1>4, <1>5, <2>1 DEF ComputedBy
<1>7. f = [i \in 0 .. n |-> IF i = 0 THEN << >>
                            ELSE IF list[i] = x THEN f[i - 1] ELSE Append(f[i - 1], list[i])]
  <2>1. \A i \in 0 .. n : f[i] = IF i = 0 THEN << >>
                                 ELSE IF list[i] = x THEN f[i - 1] ELSE Append(f[i - 1], list[i])
    <3> TAKE i \in 0 .. n
    <3>1. CASE i = 0
      BY <1>5, <3>1 DEF ComputedBy
    <3>2. CASE i # 0
      <4>1. i \in 1 .. n
        BY <1>1, <3>2
      <4> QED
        BY <1>6, <3>2, <4>1
    <3> QED
      BY <3>1, <3>2
  <2> QED
    BY <2>1
<1>8. KeptUpTo(list, x) = [i \in 0 .. n |-> IF i = 0 THEN << >>
                            ELSE IF list[i] = x THEN KeptUpTo(list, x)[i - 1]
                            ELSE Append(KeptUpTo(list, x)[i - 1], list[i])]
  BY ONLY <1>7, Zenon DEF KeptUpTo, n
<1> DEFINE k == KeptUpTo(list, x)
<1> DEFINE Kept(i) == IF list[i] = x THEN k[i - 1] ELSE Append(k[i - 1], list[i])
<1>9. /\ DOMAIN k = 0 .. n
      /\ k[0] = << >>
      /\ \A i \in 1 .. n : k[i] = Kept(i)
  <2> HIDE DEF k, Kept
  <2>1. k = [i \in 0 .. n |-> IF i = 0 THEN << >> ELSE Kept(i)]
    BY <1>8 DEF k, Kept
  <2>2. 0 \in 0 .. n /\ \A i \in 1 .. n : i \in 0 .. n /\ i # 0
    BY <1>1
  <2> QED
    BY <2>1, <2>2
<1> DEFINE T == {m \in Nat : m \in 0 .. n => k[m] \in Seq(S)}
<1>10. \A i \in 0 .. n : k[i] \in Seq(S)
  <2>1. 0 \in T
    BY <1>3, <1>9
  <2>2. ASSUME NEW m \in T PROVE m + 1 \in T
    <3> SUFFICES ASSUME m + 1 \in 0 .. n PROVE k[m + 1] \in Seq(S)
      OBVIOUS
    <3>1. m \in 0 .. n /\ m + 1 \in 1 .. n /\ (m + 1) - 1 = m
      BY <1>1
    <3>2. k[m] \in Seq(S) /\ list[m + 1] \in S
      BY <1>1, <3>1
    <3> HIDE DEF k
    <3>3. k[m + 1] = IF list[m + 1] = x THEN k[m] ELSE Append(k[m], list[m + 1])
      BY <1>9, <3>1
    <3> QED
      BY <3>2, <3>3
  <2>3. T = Nat
    <3> HIDE DEF T
    <3> QED BY <2>1, <2>2, InductiveSetIsNat DEF T
  <2> QED
    BY <1>1, <2>3
<1> QED
  BY <1>9, <1>10 DEF n

\* Filtering x out of a list that names nobody twice loses x and nobody else.
LEMMA WithoutItemFacts ==
    ASSUME NEW S, NEW list \in Seq(S), IsInjective(list), NEW x
    PROVE  /\ WithoutItem(list, x) \in Seq(S)
           /\ IsInjective(WithoutItem(list, x))
           /\ Range(WithoutItem(list, x)) = Range(list) \ {x}
           /\ x \in Range(list) => Len(WithoutItem(list, x)) = Len(list) - 1
<1> DEFINE n == Len(list)
           k == KeptUpTo(list, x)
           Seen(m) == {list[j] : j \in 1 .. m}
           Good(m) == /\ IsInjective(k[m])
                      /\ Range(k[m]) = Seen(m) \ {x}
                      /\ Len(k[m]) = IF x \in Seen(m) THEN m - 1 ELSE m
           T == {m \in Nat : m \in 0 .. n => Good(m)}
<1>1. /\ n \in Nat /\ DOMAIN list = 1 .. n
      /\ \A i \in 1 .. n : list[i] \in S
      /\ \A i, j \in 1 .. n : list[i] = list[j] => i = j
  BY DEF IsInjective
<1>2. /\ \A i \in 0 .. n : k[i] \in Seq(S)
      /\ k[0] = << >>
      /\ \A i \in 1 .. n : k[i] = IF list[i] = x THEN k[i - 1] ELSE Append(k[i - 1], list[i])
  BY KeptUpToFacts
<1> HIDE DEF k, n
<1>3. 0 \in T
  BY <1>2 DEF IsInjective, Range
<1>4. ASSUME NEW m \in T PROVE m + 1 \in T
  <2> SUFFICES ASSUME m + 1 \in 0 .. n PROVE Good(m + 1)
    OBVIOUS
  <2> DEFINE q == k[m]
             y == list[m + 1]
  <2>1. m \in 0 .. n /\ m + 1 \in 1 .. n /\ (m + 1) - 1 = m /\ m \in Nat
    BY <1>1
  <2>2. Good(m) /\ q \in Seq(S) /\ y \in S
    BY <1>1, <1>2, <2>1
  <2>3. k[m + 1] = IF y = x THEN q ELSE Append(q, y)
    BY <1>2, <2>1
  <2>4. y \notin Seen(m) /\ Seen(m + 1) = Seen(m) \cup {y}
    <3>1. \A j \in 1 .. m : j \in 1 .. n /\ j # m + 1
      BY <1>1, <2>1
    <3> QED
      BY <1>1, <2>1, <3>1
  <2> HIDE DEF Seen, q, y
  <2>5. CASE y = x
    BY <2>1, <2>2, <2>3, <2>4, <2>5 DEF q
  <2>6. CASE y # x
    <3>1. /\ k[m + 1] = Append(q, y)
          /\ IsInjective(q) /\ Range(q) = Seen(m) \ {x}
          /\ Len(q) = IF x \in Seen(m) THEN m - 1 ELSE m
      BY <2>2, <2>3, <2>6 DEF q
    <3>2. q \in Seq(S) /\ y \in S /\ y \notin Range(q)
      BY <2>2, <2>4, <3>1
    <3>3. /\ IsInjective(Append(q, y)) /\ Range(Append(q, y)) = Range(q) \cup {y}
          /\ Len(Append(q, y)) = Len(q) + 1
      BY <3>1, <3>2, AppendedFacts
    <3> QED
      BY <2>1, <2>4, <2>6, <3>1, <3>3
  <2> QED
    BY <2>5, <2>6
<1>5. T = Nat
  <2> HIDE DEF T
  <2> QED BY <1>3, <1>4, InductiveSetIsNat DEF T
<1>6. Good(n)
  <2>1. n \in T
    BY <1>1, <1>5
  <2>2. n \in 0 .. n
    BY <1>1
  <2> HIDE DEF Good
  <2> QED
    BY <2>1, <2>2
<1>7. Seen(n) = Range(list)
  BY <1>1 DEF Range
<1>8. WithoutItem(list, x) = k[n]
  BY WithoutItemUnfolds DEF k, n
<1>9. k[n] \in Seq(S)
  BY <1>1, <1>2
<1> QED
  BY <1>6, <1>7, <1>8, <1>9 DEF n

\* A list that names nobody twice loses the member found by the search, and
\* nobody else.
LEMMA RemovedFromListFacts ==
    ASSUME NEW S, NEW list \in Seq(S), IsInjective(list), NEW x \in Range(list)
    PROVE  /\ RemovedFromList(list, x) \in Seq(S)
           /\ IsInjective(RemovedFromList(list, x))
           /\ Range(RemovedFromList(list, x)) = Range(list) \ {x}
<1> DEFINE n == Len(list)
           at == CHOOSE k \in DOMAIN list :
                    list[k] = x /\ \A j \in 1 .. k - 1 : list[j] # x
           filled == [list EXCEPT ![at] = list[n]]
           m == SubSeq(filled, 1, n - 1)
<1>1. /\ n \in Nat /\ DOMAIN list = 1 .. n
      /\ \A i \in 1 .. n : list[i] \in S
      /\ \A i, j \in 1 .. n : list[i] = list[j] => i = j
  BY DEF IsInjective
<1>2. at \in 1 .. n /\ list[at] = x
  <2>1. PICK k \in 1 .. n : list[k] = x
    BY <1>1 DEF Range
  <2>2. \A j \in 1 .. k - 1 : list[j] # x
    BY <1>1, <2>1
  <2> QED
    BY <1>1, <2>1, <2>2
<1> HIDE DEF n, at
<1>3. n - 1 \in Nat /\ n \in 1 .. n
  BY <1>1, <1>2
<1>4. /\ filled \in Seq(S) /\ Len(filled) = n
      /\ \A i \in 1 .. n : filled[i] = IF i = at THEN list[n] ELSE list[i]
  BY <1>1, <1>2, <1>3 DEF n
<1> HIDE DEF filled
<1>5. /\ m \in Seq(S) /\ Len(m) = n - 1 /\ DOMAIN m = 1 .. n - 1
      /\ \A i \in 1 .. n - 1 : m[i] = IF i = at THEN list[n] ELSE list[i]
  <2>1. /\ m \in Seq(S) /\ Len(m) = n - 1
        /\ \A i \in 1 .. n - 1 : m[i] = filled[i]
    BY <1>3, <1>4
  <2> QED
    BY <1>3, <1>4, <2>1
<1> HIDE DEF m
<1>6. IsInjective(m)
  BY <1>1, <1>3, <1>5 DEF IsInjective
<1>7. Range(m) = Range(list) \ {x}
  <2>1. ASSUME NEW y \in Range(m) PROVE y \in Range(list) \ {x}
    <3>1. PICK i \in 1 .. n - 1 : m[i] = y
      BY <1>5 DEF Range
    <3> QED
      BY <1>1, <1>2, <1>3, <1>5, <3>1 DEF Range
  <2>2. ASSUME NEW y \in Range(list), y # x PROVE y \in Range(m)
    <3>1. PICK i \in 1 .. n : list[i] = y /\ i # at
      BY <1>1, <1>2, <2>2 DEF Range
    <3>2. CASE i = n
      <4>1. at \in 1 .. n - 1 /\ m[at] = y
        BY <1>2, <1>3, <1>5, <3>1, <3>2
      <4> QED
        BY <1>5, <4>1 DEF Range
    <3>3. CASE i # n
      <4>1. i \in 1 .. n - 1 /\ m[i] = y
        BY <1>3, <1>5, <3>1, <3>3
      <4> QED
        BY <1>5, <4>1 DEF Range
    <3> QED
      BY <3>2, <3>3
  <2> QED
    BY <2>1, <2>2
<1>8. RemovedFromList(list, x) = m
  BY DEF RemovedFromList, m, filled, at, n
<1> QED
  BY <1>5, <1>6, <1>7, <1>8

-----------------------------------------------------------------------------
(* Sums.                                                                   *)

\* One step of the fold over the set s, given the sums of smaller sets.
SumStep(f, g, s) ==
    IF s = {} THEN 0 ELSE f[Chosen(s)] + g[s \ {Chosen(s)}]

\* The sums of f over every subset of S.
SumsOf(f, S) == CHOOSE sums : sums = [s \in SUBSET S |-> SumStep(f, sums, s)]

\* The community module's fold is the recursive function above.
LEMMA SumUnfolds ==
  ASSUME NEW f PROVE SumFunction(f) = SumsOf(f, DOMAIN f)[DOMAIN f]
BY DEF SumFunction, SumFunctionOnSet, FoldFunctionOnSet, MapThenFoldSet, SumsOf, SumStep, Chosen

\* What a step of the fold takes and leaves.
LEMMA SumStepFacts ==
    ASSUME NEW S, IsFiniteSet(S), NEW s \in SUBSET S
    PROVE  /\ \A f, g : s = {} => SumStep(f, g, s) = 0
           /\ s # {} => /\ Chosen(s) \in s
                        /\ s \ {Chosen(s)} \in SUBSET S
                        /\ Cardinality(s \ {Chosen(s)}) = Cardinality(s) - 1
                        /\ \A f, g : SumStep(f, g, s) = f[Chosen(s)] + g[s \ {Chosen(s)}]
<1>1. IsFiniteSet(s)
  BY FS_Subset
<1>2. s # {} => Chosen(s) \in s
  BY DEF Chosen
<1>3. s # {} => Cardinality(s \ {Chosen(s)}) = Cardinality(s) - 1
  BY <1>1, <1>2, FS_RemoveElement
<1>4. \A f, g : /\ s = {} => SumStep(f, g, s) = 0
                /\ s # {} => SumStep(f, g, s) = f[Chosen(s)] + g[s \ {Chosen(s)}]
  BY DEF SumStep
<1> QED
  BY <1>2, <1>3, <1>4

\* The recursion has a solution: built by induction on the size of the sets.
LEMMA SumsExist ==
    ASSUME NEW S, IsFiniteSet(S), NEW f \in [S -> Int]
    PROVE \E g \in [SUBSET S -> Int] : \A s \in SUBSET S : g[s] = SumStep(f, g, s)
<1> DEFINE L(n) == {s \in SUBSET S : Cardinality(s) <= n}
<1> DEFINE IsSums(g, n) == g = [s \in L(n) |-> SumStep(f, g, s)]
<1> DEFINE T == {n \in Nat : \E g \in [L(n) -> Int] : IsSums(g, n)}
<1>1. \A s \in SUBSET S : IsFiniteSet(s) /\ Cardinality(s) \in Nat /\ Cardinality(s) <= Cardinality(S)
  BY FS_Subset, FS_CardinalityType
<1>3. 0 \in T
  <2>1. L(0) = {{}}
    BY <1>1, FS_EmptySet
  <2> DEFINE g == [s \in L(0) |-> 0]
  <2>2. IsSums(g, 0) /\ g \in [L(0) -> Int]
    <3>1. \A s \in L(0) : SumStep(f, g, s) = 0
      BY <2>1, SumStepFacts
    <3> QED
      BY <3>1
  <2> HIDE DEF g, L, IsSums
  <2>3. \E k \in [L(0) -> Int] : IsSums(k, 0)
    BY <2>2
  <2> QED
    BY <2>3
<1>4. ASSUME NEW n \in T PROVE n + 1 \in T
  <2>1. PICK g \in [L(n) -> Int] : IsSums(g, n)
    OBVIOUS
  <2> DEFINE h == [s \in L(n+1) |-> SumStep(f, g, s)]
  <2>2. ASSUME NEW s \in L(n+1)
        PROVE  SumStep(f, g, s) \in Int /\ SumStep(f, h, s) = SumStep(f, g, s)
    <3>1. CASE s = {}
      BY <3>1, SumStepFacts
    <3>2. CASE s # {}
      <4> DEFINE x == Chosen(s)
      <4>1. /\ x \in s /\ f[x] \in Int
            /\ SumStep(f, g, s) = f[x] + g[s \ {x}]
            /\ s \ {x} \in SUBSET S
            /\ Cardinality(s \ {x}) = Cardinality(s) - 1
        BY <3>2, SumStepFacts
      <4>2. SumStep(f, h, s) = f[x] + h[s \ {x}]
        BY <3>2 DEF SumStep
      <4>3. s \ {x} \in L(n) /\ s \ {x} \in L(n+1)
        BY <1>1, <4>1
      <4>4. g[s \ {x}] \in Int /\ g[s \ {x}] = SumStep(f, g, s \ {x})
        BY <2>1, <4>3
      <4>5. h[s \ {x}] = SumStep(f, g, s \ {x})
        BY <4>3
      <4> QED
        BY <4>1, <4>2, <4>4, <4>5
    <3> QED
      BY <3>1, <3>2
  <2> HIDE DEF L
  <2>3. h \in [L(n+1) -> Int]
    BY <2>2
  <2>5. IsSums(h, n+1)
    BY <2>2
  <2> HIDE DEF h, IsSums
  <2>6. \E k \in [L(n+1) -> Int] : IsSums(k, n+1)
    BY <2>3, <2>5
  <2> QED
    BY <2>6
<1>5. T = Nat
  <2> HIDE DEF T
  <2> QED BY <1>3, <1>4, InductiveSetIsNat DEF T
<1>6. PICK g \in [L(Cardinality(S)) -> Int] : IsSums(g, Cardinality(S))
  BY <1>1, <1>5, FS_CardinalityType
<1>7. L(Cardinality(S)) = SUBSET S
  BY <1>1
<1> QED
  BY <1>6, <1>7

\* Hence the sums satisfy their recursion, and are integers.
LEMMA SumsUnfold ==
    ASSUME NEW S, IsFiniteSet(S), NEW f \in [S -> Int]
    PROVE  /\ SumsOf(f, S) \in [SUBSET S -> Int]
           /\ \A s \in SUBSET S : SumsOf(f, S)[s] = SumStep(f, SumsOf(f, S), s)
<1>1. SumsOf(f, S) = [s \in SUBSET S |-> SumStep(f, SumsOf(f, S), s)]
  <2>1. PICK g \in [SUBSET S -> Int] : \A s \in SUBSET S : g[s] = SumStep(f, g, s)
    BY SumsExist
  <2>2. g = [s \in SUBSET S |-> SumStep(f, g, s)]
    BY <2>1
  <2> QED
    BY ONLY <2>2, Zenon DEF SumsOf
<1>2. \A s \in SUBSET S : SumsOf(f, S)[s] = SumStep(f, SumsOf(f, S), s)
  BY ONLY <1>1, Zenon
<1> DEFINE G == {s \in SUBSET S : SumsOf(f, S)[s] \in Int}
<1>3. {} \in G
  <2>1. SumStep(f, SumsOf(f, S), {}) = 0
    BY DEF SumStep
  <2> QED
    BY <1>2, <2>1
<1>4. ASSUME NEW s \in SUBSET S, s # {}, s \ {Chosen(s)} \in G
      PROVE  s \in G
  <2> DEFINE x == Chosen(s)
  <2>1. /\ x \in s /\ f[x] \in Int
        /\ SumStep(f, SumsOf(f, S), s) = f[x] + SumsOf(f, S)[s \ {x}]
    BY <1>4, SumStepFacts
  <2>2. SumsOf(f, S)[s \ {x}] \in Int
    BY <1>4, <2>1
  <2> QED
    BY <1>2, <2>1, <2>2
<1>5. \A s \in SUBSET S : s \in G
  <2> HIDE DEF G
  <2> QED BY <1>3, <1>4, ChoiceInduction
<1> QED
  BY <1>1, <1>2, <1>5

\* A sum of integers is an integer.
LEMMA SumIsInteger ==
    ASSUME NEW S, IsFiniteSet(S), NEW f \in [S -> Int]
    PROVE  SumFunction(f) \in Int
<1>1. SumsOf(f, S) \in [SUBSET S -> Int]
  BY SumsUnfold
<1>2. SumFunction(f) = SumsOf(f, S)[S]
  BY SumUnfolds
<1> QED
  BY <1>1, <1>2

\* The sum of a function of naturals is a natural number.
LEMMA SumIsNatural ==
    ASSUME NEW S, IsFiniteSet(S), NEW f \in [S -> Nat]
    PROVE  SumFunction(f) \in Nat
<1> DEFINE g == SumsOf(f, S)
<1> DEFINE G == {s \in SUBSET S : g[s] \in Nat}
<1>0. f \in [S -> Int]
  OBVIOUS
<1>1. g \in [SUBSET S -> Int] /\ \A s \in SUBSET S : g[s] = SumStep(f, g, s)
  BY <1>0, SumsUnfold
<1>2. SumFunction(f) = g[S]
  BY SumUnfolds
<1>3. {} \in G
  <2>1. SumStep(f, g, {}) = 0
    BY DEF SumStep
  <2> QED
    BY <1>1, <2>1
<1>4. ASSUME NEW s \in SUBSET S, s # {}, s \ {Chosen(s)} \in G
      PROVE  s \in G
  <2> HIDE DEF g
  <2> DEFINE x == Chosen(s)
  <2>1. /\ x \in s /\ f[x] \in Int
        /\ SumStep(f, g, s) = f[x] + g[s \ {x}]
    BY <1>0, <1>4, SumStepFacts
  <2> QED
    BY <1>1, <1>4, <2>1
<1>5. \A s \in SUBSET S : s \in G
  <2> HIDE DEF G
  <2> QED BY <1>3, <1>4, ChoiceInduction
<1> QED
  BY <1>2, <1>5

\* A sum moves with the one summand that changes.
LEMMA SumChanged ==
    ASSUME NEW S, IsFiniteSet(S), NEW f \in [S -> Int], NEW e \in [S -> Int],
           NEW w \in S, \A x \in S \ {w} : e[x] = f[x]
    PROVE  SumFunction(e) = SumFunction(f) - f[w] + e[w]
<1> DEFINE g == SumsOf(f, S)
<1> DEFINE h == SumsOf(e, S)
<1> DEFINE d == e[w] - f[w]
<1> DEFINE G == {s \in SUBSET S : h[s] = g[s] + (IF w \in s THEN d ELSE 0)}
<1>0. d \in Int /\ \A x \in S : x # w => e[x] = f[x]
  OBVIOUS
<1>1. g \in [SUBSET S -> Int] /\ \A s \in SUBSET S : g[s] = SumStep(f, g, s)
  BY SumsUnfold
<1>2. h \in [SUBSET S -> Int] /\ \A s \in SUBSET S : h[s] = SumStep(e, h, s)
  BY SumsUnfold
<1>3. SumFunction(f) = g[S] /\ SumFunction(e) = h[S]
  BY SumUnfolds
<1> HIDE DEF g, h
<1>4. {} \in G
  <2>1. SumStep(f, g, {}) = 0 /\ SumStep(e, h, {}) = 0
    BY DEF SumStep
  <2> QED
    BY <1>0, <1>1, <1>2, <2>1
<1>5. ASSUME NEW s \in SUBSET S, s # {}, s \ {Chosen(s)} \in G
      PROVE  s \in G
  <2> DEFINE x == Chosen(s)
  <2>1. /\ x \in s /\ f[x] \in Int
        /\ SumStep(f, g, s) = f[x] + g[s \ {x}]
    BY <1>5, SumStepFacts
  <2>2. /\ e[x] \in Int
        /\ SumStep(e, h, s) = e[x] + h[s \ {x}]
    BY <1>0, <1>5, SumStepFacts
  <2>3. h[s \ {x}] = g[s \ {x}] + (IF w \in s \ {x} THEN d ELSE 0)
    BY <1>5, <2>1
  <2>4. g[s] = f[x] + g[s \ {x}] /\ h[s] = e[x] + h[s \ {x}] /\ g[s \ {x}] \in Int
    BY <1>1, <1>2, <2>1, <2>2
  <2>5. CASE x = w
    BY <1>0, <2>1, <2>3, <2>4, <2>5
  <2>6. CASE x # w
    <3>1. e[x] = f[x] /\ (w \in s \ {x} <=> w \in s)
      BY <1>0, <2>1, <2>6
    <3> QED
      BY <1>0, <2>1, <2>3, <2>4, <3>1
  <2> QED
    BY <2>5, <2>6
<1>6. \A s \in SUBSET S : s \in G
  <2> HIDE DEF G
  <2> QED BY <1>4, <1>5, ChoiceInduction
<1>7. h[S] = g[S] + d /\ g[S] \in Int
  BY <1>1, <1>6
<1> QED
  BY <1>0, <1>3, <1>7

\* A sum of zeros.
LEMMA SumOfZeros ==
    ASSUME NEW S, IsFiniteSet(S)
    PROVE  SumFunction([x \in S |-> 0]) = 0
<1> DEFINE f == [x \in S |-> 0]
<1> DEFINE g == SumsOf(f, S)
<1> DEFINE G == {s \in SUBSET S : g[s] = 0}
<1>0. f \in [S -> Int] /\ \A x \in S : f[x] = 0
  OBVIOUS
<1>1. g \in [SUBSET S -> Int] /\ \A s \in SUBSET S : g[s] = SumStep(f, g, s)
  BY <1>0, SumsUnfold
<1>2. SumFunction(f) = g[S]
  <2>1. DOMAIN f = S
    OBVIOUS
  <2> HIDE DEF f
  <2> QED BY <2>1, SumUnfolds
<1> HIDE DEF f, g
<1>3. {} \in G
  <2>1. SumStep(f, g, {}) = 0
    BY DEF SumStep
  <2> QED
    BY <1>1, <2>1
<1>4. ASSUME NEW s \in SUBSET S, s # {}, s \ {Chosen(s)} \in G
      PROVE  s \in G
  <2> DEFINE x == Chosen(s)
  <2>1. /\ x \in s /\ f[x] \in Int
        /\ SumStep(f, g, s) = f[x] + g[s \ {x}]
    BY <1>0, <1>4, SumStepFacts
  <2> QED
    BY <1>0, <1>1, <1>4, <2>1
<1>5. \A s \in SUBSET S : s \in G
  <2> HIDE DEF G
  <2> QED BY <1>3, <1>4, ChoiceInduction
<1> QED
  BY <1>2, <1>5 DEF f

\* No summand of a sum of naturals is above the sum.
LEMMA SummandBelowSum ==
    ASSUME NEW S, IsFiniteSet(S), NEW f \in [S -> Nat], NEW w \in S
    PROVE  f[w] <= SumFunction(f)
<1> DEFINE e == [f EXCEPT ![w] = 0]
<1>0. /\ f \in [S -> Int] /\ e \in [S -> Nat] /\ e \in [S -> Int]
      /\ e[w] = 0 /\ \A x \in S \ {w} : e[x] = f[x]
  OBVIOUS
<1> HIDE DEF e
<1>1. SumFunction(e) = SumFunction(f) - f[w] + e[w]
  BY <1>0, SumChanged
<1>2. SumFunction(e) \in Nat
  BY <1>0, SumIsNatural
<1>3. SumFunction(f) \in Int
  BY <1>0, SumIsInteger
<1> QED
  BY <1>0, <1>1, <1>2, <1>3

\* Two functions whose values move alike have sums that move alike.
LEMMA SumsMoveTogether ==
    ASSUME NEW S, IsFiniteSet(S),
           NEW f \in [S -> Int], NEW e \in [S -> Int],
           NEW p \in [S -> Int], NEW q \in [S -> Int],
           \A x \in S : e[x] - f[x] = q[x] - p[x]
    PROVE  SumFunction(e) - SumFunction(f) = SumFunction(q) - SumFunction(p)
<1> DEFINE a == SumsOf(f, S)
<1> DEFINE b == SumsOf(e, S)
<1> DEFINE c == SumsOf(p, S)
<1> DEFINE d == SumsOf(q, S)
<1> DEFINE G == {s \in SUBSET S : b[s] - a[s] = d[s] - c[s]}
<1>1. /\ a \in [SUBSET S -> Int] /\ \A s \in SUBSET S : a[s] = SumStep(f, a, s)
      /\ b \in [SUBSET S -> Int] /\ \A s \in SUBSET S : b[s] = SumStep(e, b, s)
      /\ c \in [SUBSET S -> Int] /\ \A s \in SUBSET S : c[s] = SumStep(p, c, s)
      /\ d \in [SUBSET S -> Int] /\ \A s \in SUBSET S : d[s] = SumStep(q, d, s)
  BY SumsUnfold
<1>2. /\ SumFunction(f) = a[S] /\ SumFunction(e) = b[S]
      /\ SumFunction(p) = c[S] /\ SumFunction(q) = d[S]
  BY SumUnfolds
<1> HIDE DEF a, b, c, d
<1>3. {} \in G
  <2>1. /\ SumStep(f, a, {}) = 0 /\ SumStep(e, b, {}) = 0
        /\ SumStep(p, c, {}) = 0 /\ SumStep(q, d, {}) = 0
    BY DEF SumStep
  <2> QED
    BY <1>1, <2>1
<1>4. ASSUME NEW s \in SUBSET S, s # {}, s \ {Chosen(s)} \in G
      PROVE  s \in G
  <2> DEFINE x == Chosen(s)
  <2>1. x \in s
    BY <1>4, SumStepFacts
  <2>2. /\ SumStep(f, a, s) = f[x] + a[s \ {x}] /\ SumStep(e, b, s) = e[x] + b[s \ {x}]
        /\ SumStep(p, c, s) = p[x] + c[s \ {x}] /\ SumStep(q, d, s) = q[x] + d[s \ {x}]
    BY <1>4 DEF SumStep
  <2> HIDE DEF x
  <2>3. /\ f[x] \in Int /\ e[x] \in Int /\ p[x] \in Int /\ q[x] \in Int
        /\ e[x] - f[x] = q[x] - p[x]
    BY <2>1
  <2>4. /\ a[s \ {x}] \in Int /\ b[s \ {x}] \in Int /\ c[s \ {x}] \in Int /\ d[s \ {x}] \in Int
        /\ b[s \ {x}] - a[s \ {x}] = d[s \ {x}] - c[s \ {x}]
    BY <1>1, <1>4 DEF x
  <2> QED
    BY <1>1, <2>2, <2>3, <2>4
<1>5. \A s \in SUBSET S : s \in G
  <2> HIDE DEF G
  <2> QED BY <1>3, <1>4, ChoiceInduction
<1> QED
  BY <1>2, <1>5

\* The sum over a set is any one of its summands and the sum of the others: the
\* order in which the fold takes them is of no matter.
LEMMA SumTakesAny ==
    ASSUME NEW S, IsFiniteSet(S), NEW f \in [S -> Int]
    PROVE  \A s \in SUBSET S : \A x \in s :
              SumsOf(f, S)[s] = f[x] + SumsOf(f, S)[s \ {x}]
<1> DEFINE g == SumsOf(f, S)
<1> DEFINE Any(s) == \A x \in s : g[s] = f[x] + g[s \ {x}]
<1> DEFINE T == {n \in Nat : \A s \in SUBSET S : Cardinality(s) = n => Any(s)}
<1>1. g \in [SUBSET S -> Int] /\ \A s \in SUBSET S : g[s] = SumStep(f, g, s)
  BY SumsUnfold
<1>2. \A s \in SUBSET S : IsFiniteSet(s) /\ Cardinality(s) \in Nat
  BY FS_Subset, FS_CardinalityType
<1> HIDE DEF g
<1>3. 0 \in T
  BY <1>2, FS_EmptySet
<1>4. ASSUME NEW n \in T PROVE n + 1 \in T
  <2> SUFFICES ASSUME NEW s \in SUBSET S, Cardinality(s) = n + 1, NEW x \in s
               PROVE  g[s] = f[x] + g[s \ {x}]
    OBVIOUS
  <2> DEFINE c == Chosen(s)
             rest == s \ {c}
             others == s \ {x}
  <2>1. /\ c \in s /\ g[s] = f[c] + g[rest]
        /\ rest \in SUBSET S /\ others \in SUBSET S
    <3>1. s # {} /\ SumStep(f, g, s) = f[c] + g[rest]
      BY DEF SumStep
    <3>2. c \in s
      BY <3>1, SumStepFacts
    <3> HIDE DEF c
    <3> QED
      BY <1>1, <3>1, <3>2
  <2> HIDE DEF c
  <2>2. Cardinality(rest) = n /\ Cardinality(others) = n
    <3>1. IsFiniteSet(s) /\ c \in s /\ x \in s /\ n \in Nat
      BY <1>2, <2>1
    <3>2. Cardinality(rest) = Cardinality(s) - 1 /\ Cardinality(others) = Cardinality(s) - 1
      BY <3>1, FS_RemoveElement
    <3> QED
      BY <3>1, <3>2
  <2>3. Any(rest) /\ Any(others)
    BY <2>1, <2>2
  <2>4. CASE c = x
    BY <2>1, <2>4
  <2>5. CASE c # x
    <3>1. rest \ {x} = others \ {c} /\ x \in rest /\ c \in others
      BY <2>1, <2>5
    <3>2. g[rest] = f[x] + g[rest \ {x}] /\ g[others] = f[c] + g[others \ {c}]
      BY <2>3, <3>1
    <3> DEFINE both == rest \ {x}
    <3>3. f[x] \in Int /\ f[c] \in Int /\ g[both] \in Int
      BY <1>1, <2>1
    <3>4. g[s] = f[c] + g[rest] /\ g[rest] = f[x] + g[both] /\ g[others] = f[c] + g[both]
      BY <2>1, <3>1, <3>2
    <3> HIDE DEF rest, others, both
    <3>5. g[s] = f[x] + g[others]
      BY <3>3, <3>4
    <3> QED
      BY <3>5 DEF others
  <2> QED
    BY <2>4, <2>5
<1>5. T = Nat
  <2> HIDE DEF T
  <2> QED BY <1>3, <1>4, InductiveSetIsNat DEF T
<1> QED
  BY <1>2, <1>5 DEF g

\* The sums of a function over the subsets of a part of its domain are those of
\* its restriction to the part.
LEMMA SumsOfPart ==
    ASSUME NEW S, IsFiniteSet(S), NEW f \in [S -> Int],
           NEW P \in SUBSET S, NEW e \in [P -> Int], \A x \in P : e[x] = f[x]
    PROVE  SumsOf(f, S)[P] = SumFunction(e)
<1> DEFINE g == SumsOf(f, S)
<1> DEFINE h == SumsOf(e, P)
<1> DEFINE G == {s \in SUBSET P : g[s] = h[s]}
<1>1. g \in [SUBSET S -> Int] /\ \A s \in SUBSET S : g[s] = SumStep(f, g, s)
  BY SumsUnfold
<1>2. IsFiniteSet(P)
  BY FS_Subset
<1>3. h \in [SUBSET P -> Int] /\ \A s \in SUBSET P : h[s] = SumStep(e, h, s)
  BY <1>2, SumsUnfold
<1>4. SumFunction(e) = h[P]
  BY SumUnfolds
<1> HIDE DEF g, h
<1>5. {} \in G
  <2>1. SumStep(f, g, {}) = 0 /\ SumStep(e, h, {}) = 0
    BY DEF SumStep
  <2> QED
    BY <1>1, <1>3, <2>1
<1>6. ASSUME NEW s \in SUBSET P, s # {}, s \ {Chosen(s)} \in G
      PROVE  s \in G
  <2> DEFINE x == Chosen(s)
  <2>1. x \in s
    BY <1>2, <1>6, SumStepFacts
  <2>2. SumStep(f, g, s) = f[x] + g[s \ {x}] /\ SumStep(e, h, s) = e[x] + h[s \ {x}]
    BY <1>6 DEF SumStep
  <2> QED
    BY <1>1, <1>3, <1>6, <2>1, <2>2
<1>7. \A s \in SUBSET P : s \in G
  <2> HIDE DEF G
  <2> QED BY <1>2, <1>5, <1>6, ChoiceInduction
<1> QED
  BY <1>4, <1>7 DEF g

\* The sum over two sets that share nothing is the two sums together.
LEMMA SumOfParts ==
    ASSUME NEW S, IsFiniteSet(S), NEW f \in [S -> Int],
           NEW A \in SUBSET S, NEW B \in SUBSET S, A \cap B = {}, A \cup B = S
    PROVE  SumFunction(f) = SumsOf(f, S)[A] + SumsOf(f, S)[B]
<1> DEFINE g == SumsOf(f, S)
<1>1. /\ g \in [SUBSET S -> Int] /\ g[{}] = SumStep(f, g, {})
      /\ \A s \in SUBSET S : \A x \in s : g[s] = f[x] + g[s \ {x}]
  <2>0. IsFiniteSet(S) /\ f \in [S -> Int]
    OBVIOUS
  <2>1. g \in [SUBSET S -> Int] /\ \A s \in SUBSET S : g[s] = SumStep(f, g, s)
    BY ONLY <2>0, SumsUnfold
  <2>2. \A s \in SUBSET S : \A x \in s : g[s] = f[x] + g[s \ {x}]
    BY ONLY <2>0, SumTakesAny
  <2> HIDE DEF g
  <2> QED
    BY <2>1, <2>2
<1>2. SumFunction(f) = g[S]
  BY SumUnfolds
<1> HIDE DEF g
<1> DEFINE G == {s \in SUBSET B : g[A \cup s] = g[A] + g[s]}
<1>3. g[{}] = 0
  BY <1>1 DEF SumStep
<1>4. {} \in G
  <2>1. A \cup {} = A /\ g[A] \in Int
    BY <1>1
  <2> QED
    BY <1>3, <2>1
<1>5. ASSUME NEW s \in SUBSET B, s # {}, s \ {Chosen(s)} \in G
      PROVE  s \in G
  <2> DEFINE x == Chosen(s)
  <2>1. x \in s
    BY <1>5 DEF Chosen
  <2>2. g[A \cup (s \ {x})] = g[A] + g[s \ {x}]
    BY <1>5
  <2> HIDE DEF x
  <2>3. (A \cup s) \ {x} = A \cup (s \ {x}) /\ A \cup s \in SUBSET S /\ s \in SUBSET S
    BY <2>1
  <2>4. g[A \cup s] = f[x] + g[A \cup (s \ {x})] /\ g[s] = f[x] + g[s \ {x}]
    <3> DEFINE u == A \cup s
    <3>1. x \in u /\ u \in SUBSET S
      BY <2>1, <2>3
    <3> HIDE DEF u
    <3>2. g[u] = f[x] + g[u \ {x}] /\ g[s] = f[x] + g[s \ {x}]
      BY <1>1, <2>1, <2>3, <3>1
    <3> QED
      BY <2>3, <3>2 DEF u
  <2>5. g[A] \in Int /\ g[s \ {x}] \in Int /\ f[x] \in Int
    BY <1>1, <2>1
  <2> QED
    BY <2>2, <2>4, <2>5
<1>6. \A s \in SUBSET B : s \in G
  <2>1. IsFiniteSet(B)
    BY FS_Subset
  <2> HIDE DEF G
  <2> QED BY <2>1, <1>4, <1>5, ChoiceInduction
<1>7. g[A \cup B] = g[A] + g[B]
  BY <1>6
<1> QED
  BY <1>2, <1>7 DEF g

\* The sum of the first n numbers is that of the first m and that of the rest.
LEMMA SumOfIntervals ==
    ASSUME NEW h, h \in [Nat -> Int], NEW m \in Nat, NEW n \in Nat, m <= n
    PROVE  SumFunction([i \in 1 .. n |-> h[i]])
              = SumFunction([i \in 1 .. m |-> h[i]]) + SumFunction([i \in m + 1 .. n |-> h[i]])
<1> DEFINE S == 1 .. n
           A == 1 .. m
           B == m + 1 .. n
           f == [i \in S |-> h[i]]
           a == [i \in A |-> h[i]]
           b == [i \in B |-> h[i]]
<1>1. A \in SUBSET S /\ B \in SUBSET S /\ A \cap B = {} /\ A \cup B = S
  OBVIOUS
<1>2. IsFiniteSet(S)
  BY FS_Interval
<1>3. A \in SUBSET S /\ a \in [A -> Int] /\ \A i \in A : a[i] = f[i]
  OBVIOUS
<1>4. B \in SUBSET S /\ b \in [B -> Int] /\ \A i \in B : b[i] = f[i]
  OBVIOUS
<1>5. f \in [S -> Int]
  OBVIOUS
<1> HIDE DEF S, A, B, f, a, b
<1>6. SumFunction(f) = SumsOf(f, S)[A] + SumsOf(f, S)[B]
  BY ONLY <1>1, <1>2, <1>5, SumOfParts
<1>7. SumsOf(f, S)[A] = SumFunction(a)
  BY ONLY <1>2, <1>3, <1>5, SumsOfPart
<1>8. SumsOf(f, S)[B] = SumFunction(b)
  BY ONLY <1>2, <1>4, <1>5, SumsOfPart
<1>9. SumFunction(f) = SumFunction(a) + SumFunction(b)
  BY ONLY <1>6, <1>7, <1>8
<1> QED
  BY ONLY <1>9 DEF S, A, B, f, a, b

\* One more number adds itself.
LEMMA SumOfOneMore ==
    ASSUME NEW h, h \in [Nat -> Int], NEW n \in Nat
    PROVE  SumFunction([i \in 1 .. n + 1 |-> h[i]])
              = SumFunction([i \in 1 .. n |-> h[i]]) + h[n + 1]
<1> DEFINE N == n + 1
           S == 1 .. N
           A == 1 .. n
           f == [i \in S |-> h[i]]
           e == [i \in A |-> h[i]]
           g == SumsOf(f, S)
<1>1. A = S \ {N} /\ N \in S /\ S \in SUBSET S /\ f[N] = h[N]
  OBVIOUS
<1>2. A \in SUBSET S /\ e \in [A -> Int] /\ \A i \in A : e[i] = f[i]
  OBVIOUS
<1>3. f \in [S -> Int]
  OBVIOUS
<1>4. IsFiniteSet(S)
  BY FS_Interval
<1> HIDE DEF A, S, N, f, e
<1>5. g \in [SUBSET S -> Int] /\ \A s \in SUBSET S : \A x \in s : g[s] = f[x] + g[s \ {x}]
  <2>1. g \in [SUBSET S -> Int]
    BY ONLY <1>3, <1>4, SumsUnfold
  <2>2. \A s \in SUBSET S : \A x \in s : g[s] = f[x] + g[s \ {x}]
    BY ONLY <1>3, <1>4, SumTakesAny
  <2> QED
    BY ONLY <2>1, <2>2
<1>6. g[A] = SumFunction(e)
  BY ONLY <1>2, <1>3, <1>4, SumsOfPart
<1>7. SumFunction(f) = g[S]
  BY ONLY <1>3, SumUnfolds
<1> HIDE DEF g
<1>8. g[S] = f[N] + g[A] /\ g[A] \in Int /\ f[N] \in Int
  BY ONLY <1>1, <1>2, <1>3, <1>5
<1>9. SumFunction(f) = SumFunction(e) + h[N]
  BY ONLY <1>1, <1>6, <1>7, <1>8
<1> QED
  BY ONLY <1>9 DEF S, A, N, f, e

\* The sum of sums is the sum of both sums.
LEMMA SumsAdd ==
    ASSUME NEW S, IsFiniteSet(S), NEW f \in [S -> Int], NEW e \in [S -> Int],
           NEW q \in [S -> Int], \A x \in S : e[x] = f[x] + q[x]
    PROVE  SumFunction(e) = SumFunction(f) + SumFunction(q)
<1> DEFINE zeros == [x \in S |-> 0]
<1>1. zeros \in [S -> Int] /\ \A x \in S : e[x] - f[x] = q[x] - zeros[x]
  OBVIOUS
<1>2. SumFunction(zeros) = 0
  BY SumOfZeros
<1> HIDE DEF zeros
<1>3. SumFunction(e) - SumFunction(f) = SumFunction(q) - SumFunction(zeros)
  BY <1>1, SumsMoveTogether
<1>4. SumFunction(e) \in Int /\ SumFunction(f) \in Int /\ SumFunction(q) \in Int
  BY SumIsInteger
<1> QED
  BY <1>2, <1>3, <1>4

\* More summands make no smaller sum.
LEMMA LongerSumIsLarger ==
    ASSUME NEW h, h \in [Nat -> Nat], NEW m \in Nat, NEW n \in Nat, m <= n
    PROVE  SumFunction([i \in 1 .. m |-> h[i]]) <= SumFunction([i \in 1 .. n |-> h[i]])
<1> DEFINE f == [i \in 1 .. n |-> h[i]]
           a == [i \in 1 .. m |-> h[i]]
           b == [i \in m + 1 .. n |-> h[i]]
<1>1. h \in [Nat -> Int] /\ m \in Nat /\ n \in Nat /\ m <= n
  OBVIOUS
<1>2. a \in [1 .. m -> Int] /\ b \in [m + 1 .. n -> Nat]
  OBVIOUS
<1>3. IsFiniteSet(1 .. m) /\ IsFiniteSet(m + 1 .. n)
  BY FS_Interval
<1>4. SumFunction(f) = SumFunction(a) + SumFunction(b)
  BY ONLY <1>1, SumOfIntervals
<1> HIDE DEF f, a, b
<1>5. SumFunction(a) \in Int
  BY ONLY <1>2, <1>3, SumIsInteger
<1>6. SumFunction(b) \in Nat
  BY ONLY <1>2, <1>3, SumIsNatural
<1>7. SumFunction(a) <= SumFunction(f)
  BY ONLY <1>4, <1>5, <1>6
<1> QED
  BY <1>7 DEF a, f

\* A sum that goes on by one summand or more gains that summand.
LEMMA SumGoesOn ==
    ASSUME NEW h, h \in [Nat -> Nat],
           NEW m \in Nat, NEW k \in Nat, NEW n \in Nat, m <= k, k + 1 <= n
    PROVE  SumFunction([i \in m + 1 .. k |-> h[i]]) + h[k + 1]
              <= SumFunction([i \in m + 1 .. n |-> h[i]])
<1> DEFINE a == SumFunction([i \in 1 .. m |-> h[i]])
           b == SumFunction([i \in 1 .. k |-> h[i]])
           c == SumFunction([i \in 1 .. k + 1 |-> h[i]])
           d == SumFunction([i \in 1 .. n |-> h[i]])
           f == SumFunction([i \in m + 1 .. k |-> h[i]])
           g == SumFunction([i \in m + 1 .. n |-> h[i]])
<1>1. h \in [Nat -> Nat] /\ h \in [Nat -> Int]
  OBVIOUS
<1>2. m \in Nat /\ k \in Nat /\ n \in Nat /\ k + 1 \in Nat /\ m <= k /\ k + 1 <= n /\ m <= n
  OBVIOUS
<1>3. \A i, j \in Nat : SumFunction([x \in i .. j |-> h[x]]) \in Int
  <2> TAKE i, j \in Nat
  <2> DEFINE S == i .. j
             e == [x \in S |-> h[x]]
  <2>1. IsFiniteSet(S)
    BY FS_Interval
  <2>2. e \in [S -> Int]
    BY <1>1
  <2> HIDE DEF S, e
  <2>3. SumFunction(e) \in Int
    BY ONLY <2>1, <2>2, SumIsInteger
  <2> QED
    BY <2>3 DEF e, S
<1>4. a \in Int /\ b \in Int /\ f \in Int /\ g \in Int /\ h[k + 1] \in Nat
  <2>1. 1 \in Nat /\ m + 1 \in Nat
    OBVIOUS
  <2>2. a \in Int /\ b \in Int
    BY ONLY <1>2, <1>3, <2>1
  <2>3. f \in Int /\ g \in Int
    BY ONLY <1>2, <1>3, <2>1
  <2>4. h[k + 1] \in Nat
    BY ONLY <1>1, <1>2
  <2> QED
    BY ONLY <2>2, <2>3, <2>4
<1>5. b = a + f
  BY ONLY <1>1, <1>2, SumOfIntervals
<1>6. d = a + g
  BY ONLY <1>1, <1>2, SumOfIntervals
<1>7. c = b + h[k + 1]
  BY ONLY <1>1, <1>2, SumOfOneMore
<1>8. c <= d
  BY ONLY <1>1, <1>2, LongerSumIsLarger
<1> HIDE DEF a, b, c, d, f, g
<1>9. f + h[k + 1] <= g
  BY ONLY <1>4, <1>5, <1>6, <1>7, <1>8
<1> QED
  BY <1>9 DEF f, g

\* No smaller summand makes no smaller sum.
LEMMA SumsOrdered ==
    ASSUME NEW S, IsFiniteSet(S), NEW f \in [S -> Int], NEW e \in [S -> Int],
           \A x \in S : f[x] <= e[x]
    PROVE  SumFunction(f) <= SumFunction(e)
<1> DEFINE zeros == [x \in S |-> 0]
           gaps == [x \in S |-> e[x] - f[x]]
<1>1. /\ zeros \in [S -> Int] /\ gaps \in [S -> Int] /\ gaps \in [S -> Nat]
      /\ \A x \in S : e[x] - f[x] = gaps[x] - zeros[x]
  OBVIOUS
<1>2. SumFunction(zeros) = 0
  BY SumOfZeros
<1> HIDE DEF zeros, gaps
<1>3. SumFunction(e) - SumFunction(f) = SumFunction(gaps) - SumFunction(zeros)
  BY <1>1, SumsMoveTogether
<1>4. SumFunction(gaps) \in Nat
  BY <1>1, SumIsNatural
<1>5. SumFunction(e) \in Int /\ SumFunction(f) \in Int
  BY SumIsInteger
<1> QED
  BY <1>2, <1>3, <1>4, <1>5

\* What a function never makes more of by taking two numbers apart, it never
\* makes more of by taking any number of them apart.
LEMMA ApartAtMostTogether ==
    ASSUME NEW S, IsFiniteSet(S), NEW f \in [S -> Int], NEW e \in [S -> Int],
           NEW worth \in [Int -> Int], worth[0] = 0,
           \A a, b \in Int : worth[a] + worth[b] <= worth[a + b],
           \A x \in S : e[x] = worth[f[x]]
    PROVE  SumFunction(e) <= worth[SumFunction(f)]
<1> DEFINE g == SumsOf(f, S)
<1> DEFINE h == SumsOf(e, S)
<1> DEFINE G == {s \in SUBSET S : h[s] <= worth[g[s]]}
<1>1. g \in [SUBSET S -> Int] /\ \A s \in SUBSET S : g[s] = SumStep(f, g, s)
  BY SumsUnfold
<1>2. h \in [SUBSET S -> Int] /\ \A s \in SUBSET S : h[s] = SumStep(e, h, s)
  BY SumsUnfold
<1>3. SumFunction(f) = g[S] /\ SumFunction(e) = h[S]
  BY SumUnfolds
<1> HIDE DEF g, h
<1>4. {} \in G
  <2>1. SumStep(f, g, {}) = 0 /\ SumStep(e, h, {}) = 0
    BY DEF SumStep
  <2>2. g[{}] = 0 /\ h[{}] = 0
    BY <1>1, <1>2, <2>1
  <2> QED
    BY <2>2
<1>5. ASSUME NEW s \in SUBSET S, s # {}, s \ {Chosen(s)} \in G
      PROVE  s \in G
  <2> DEFINE x == Chosen(s)
             r == s \ {x}
  <2>1. x \in s
    BY <1>5, SumStepFacts
  <2>2. g[s] = f[x] + g[r] /\ h[s] = e[x] + h[r]
    <3>1. SumStep(f, g, s) = f[x] + g[r] /\ SumStep(e, h, s) = e[x] + h[r]
      BY <1>5 DEF SumStep
    <3> QED
      BY <1>1, <1>2, <3>1
  <2>3. h[r] <= worth[g[r]]
    BY <1>5
  <2> HIDE DEF x
  <2>4. f[x] \in Int /\ g[r] \in Int /\ h[r] \in Int /\ e[x] = worth[f[x]]
    BY <1>1, <1>2, <2>1
  <2> DEFINE one == f[x]
             rest == g[r]
             single == worth[one]
             others == worth[rest]
             together == worth[one + rest]
  <2>5. worth[g[s]] = together /\ h[s] = single + h[r] /\ h[r] <= others /\ one \in Int /\ rest \in Int
    BY <2>2, <2>3, <2>4
  <2> HIDE DEF one, rest
  <2>6. single \in Int /\ others \in Int /\ together \in Int /\ single + others <= together
    <3>1. /\ worth \in [Int -> Int] /\ one + rest \in Int
          /\ \A a, b \in Int : worth[a] + worth[b] <= worth[a + b]
      BY <2>5
    <3> QED
      BY ONLY <2>5, <3>1
  <2> HIDE DEF single, others, together
  <2>7. h[s] <= together
    <3>1. h[s] = single + h[r] /\ h[r] <= others /\ h[r] \in Int
      BY <2>4, <2>5
    <3>2. single \in Int /\ others \in Int /\ together \in Int /\ single + others <= together
      BY <2>6
    <3> QED
      BY ONLY <3>1, <3>2
  <2> QED
    BY <2>5, <2>7
<1>6. \A s \in SUBSET S : s \in G
  <2> HIDE DEF G
  <2> QED BY <1>4, <1>5, ChoiceInduction
<1> QED
  BY <1>3, <1>6

-----------------------------------------------------------------------------
(* Rounding down.                                                          *)

\* What a rounded quotient leaves is less than the divisor.
LEMMA DivisionBounds ==
    ASSUME NEW n \in Int, NEW u \in Nat \ {0}
    PROVE  /\ n \div u \in Int
           /\ u * (n \div u) <= n
           /\ n < u * ((n \div u) + 1)
  OBVIOUS

\* The rounded quotient is the largest number that fits.
LEMMA QuotientAtMost ==
    ASSUME NEW n \in Int, NEW u \in Nat \ {0}, NEW q \in Int, u * q <= n
    PROVE  q <= n \div u
  OBVIOUS

\* Two numbers divided apart make at most what they make together.
LEMMA QuotientsOfParts ==
    ASSUME NEW x \in Int, NEW y \in Int, NEW u \in Nat \ {0}
    PROVE  (x \div u) + (y \div u) <= (x + y) \div u
<1> DEFINE p == x \div u
           q == y \div u
<1>1. p \in Int /\ q \in Int /\ u * p <= x /\ u * q <= y
  BY DivisionBounds
<1> HIDE DEF p, q
<1>2. u * (p + q) = u * p + u * q /\ u * p \in Int /\ u * q \in Int
  BY <1>1
<1>3. u * (p + q) <= x + y
  BY <1>1, <1>2
<1>4. p + q <= (x + y) \div u
  BY <1>1, <1>3, QuotientAtMost
<1> QED
  BY <1>4 DEF p, q

\* A smaller number has no larger quotient.
LEMMA QuotientsOrdered ==
    ASSUME NEW x \in Int, NEW y \in Int, x <= y, NEW u \in Nat \ {0}
    PROVE  x \div u <= y \div u
<1> DEFINE p == x \div u
<1>1. p \in Int /\ u * p <= x
  BY DivisionBounds
<1> HIDE DEF p
<1>2. u * p \in Int
  BY <1>1
<1>3. u * p <= y
  BY <1>1, <1>2
<1>4. p <= y \div u
  BY <1>1, <1>3, QuotientAtMost
<1> QED
  BY <1>4 DEF p
=============================================================================
