------------------ MODULE SMARTTrustedIssuersRegistryProofs ------------------
(***************************************************************************)
(* The three records of trust agree for any issuers, any topics and calls  *)
(* that repeat a topic.  An issuer may be listed twice for a topic, so a   *)
(* position is not the only one it stands at; what a removal needs, and    *)
(* what is inductive, is that an issuer whose topics were given once each  *)
(* is listed once.                                                         *)
(***************************************************************************)
EXTENDS SMARTTrustedIssuersRegistry, DataLemmas

\* Whoever is listed has a position, and stands there.
Located(l) ==
    \A x \in DOMAIN l.index :
        /\ l.index[x] # 0 <=> x \in Members(l)
        /\ l.index[x] # 0 => l.index[x] \in DOMAIN l.items /\ l.items[l.index[x]] = x

OnceIn(l, x) ==
    \A j, k \in DOMAIN l.items : l.items[j] = x /\ l.items[k] = x => j = k

\* The lists of issuers by topic agree with the topics of each issuer.
ListsAgree(lists, topicsOf) ==
    /\ topicsOf \in [Issuers -> Seq(Topics)]
    /\ \A t \in Topics :
          /\ lists[t] \in IndexedListsOf(Issuers)
          /\ Located(lists[t])
          /\ Members(lists[t]) = {i \in Issuers : t \in Range(topicsOf[i])}
          /\ \A i \in Issuers : IsInjective(topicsOf[i]) => OnceIn(lists[t], i)

\* The array of all issuers lists those trusted.
AddressesExact ==
    /\ issuerAddresses \in Seq(Issuers)
    /\ IsInjective(issuerAddresses)
    /\ Range(issuerAddresses) = trusted

IssuersInv ==
    /\ trusted \subseteq Issuers
    /\ \A i \in Issuers \ trusted : claimTopics[i] = << >>
    /\ AddressesExact
    /\ ListsAgree(issuersByClaimTopic, claimTopics)

USE IssuersAssumption

-----------------------------------------------------------------------------
(* One list.                                                               *)

\* The fields of a list.
LEMMA ListFields ==
    ASSUME NEW l \in IndexedListsOf(Issuers)
    PROVE  /\ l.items \in Seq(Issuers)
           /\ l.index \in [Issuers -> Nat]
           /\ Len(l.items) \in Nat
           /\ DOMAIN l.items = 1 .. Len(l.items)
           /\ \A k \in 1 .. Len(l.items) : l.items[k] \in Issuers
           /\ Members(l) = {l.items[k] : k \in 1 .. Len(l.items)}
BY DEF IndexedListsOf, Members

\* Pushing an issuer that is not listed.
LEMMA PushTimesFacts ==
    ASSUME NEW l \in IndexedListsOf(Issuers), Located(l),
           NEW i \in Issuers, i \notin Members(l), NEW n \in Nat
    PROVE  /\ PushTimes(l, i, n) \in IndexedListsOf(Issuers)
           /\ Located(PushTimes(l, i, n))
           /\ Members(PushTimes(l, i, n)) = Members(l) \cup (IF n = 0 THEN {} ELSE {i})
           /\ \A x \in Issuers \ {i} : OnceIn(l, x) => OnceIn(PushTimes(l, i, n), x)
           /\ n <= 1 => OnceIn(PushTimes(l, i, n), i)
<1> DEFINE size == Len(l.items)
           pushed == [k \in 1 .. n |-> i]
           m == PushTimes(l, i, n)
<1>1. /\ l.items \in Seq(Issuers) /\ l.index \in [Issuers -> Nat] /\ size \in Nat
      /\ DOMAIN l.items = 1 .. size
      /\ \A k \in 1 .. size : l.items[k] \in Issuers /\ l.items[k] # i
      /\ Members(l) = {l.items[k] : k \in 1 .. size}
  BY ListFields
<1>2. /\ pushed \in Seq(Issuers) /\ Len(pushed) = n
      /\ \A k \in 1 .. n : pushed[k] = i
  OBVIOUS
<1>3. /\ m.items = l.items \o pushed
      /\ m.index = IF n = 0 THEN l.index ELSE [l.index EXCEPT ![i] = size + n]
      /\ m = [items |-> m.items, index |-> m.index]
  BY DEF PushTimes
<1> HIDE DEF m, pushed, size
<1>4. /\ m.items \in Seq(Issuers)
      /\ DOMAIN m.items = 1 .. size + n
      /\ \A k \in 1 .. size : m.items[k] = l.items[k]
      /\ \A k \in size + 1 .. size + n : m.items[k] = i
  <2>1. /\ m.items \in Seq(Issuers) /\ Len(m.items) = size + n
        /\ \A k \in 1 .. size + n :
              m.items[k] = IF k <= size THEN l.items[k] ELSE pushed[k - size]
    BY <1>1, <1>2, <1>3, ConcatProperties DEF size
  <2>2. ASSUME NEW k \in size + 1 .. size + n PROVE m.items[k] = i
    <3>1. k \in 1 .. size + n /\ ~(k <= size) /\ k - size \in 1 .. n
      BY <1>1
    <3> QED
      BY <1>2, <2>1, <3>1
  <2>3. ASSUME NEW k \in 1 .. size PROVE m.items[k] = l.items[k]
    <3>1. k \in 1 .. size + n /\ k <= size
      BY <1>1
    <3> QED
      BY <2>1, <3>1
  <2>4. DOMAIN m.items = 1 .. Len(m.items)
    BY <2>1
  <2> QED
    BY <2>1, <2>2, <2>3, <2>4
<1>5. m.index \in [Issuers -> Nat]
  BY <1>1, <1>3
<1>6. m \in IndexedListsOf(Issuers)
  <2>1. m = [items |-> m.items, index |-> m.index]
    BY <1>3
  <2>2. m.items \in Seq(Issuers)
    BY <1>4
  <2> QED
    BY <1>5, <2>1, <2>2, ListOf
<1>7. Members(m) = Members(l) \cup (IF n = 0 THEN {} ELSE {i})
  <2>1. Members(m) = {m.items[k] : k \in 1 .. size + n}
    BY <1>4 DEF Members
  <2>2. \A k \in 1 .. size : k \in 1 .. size + n
    BY <1>1
  <2>3. \A k \in 1 .. size + n : k \in 1 .. size \/ k \in size + 1 .. size + n
    BY <1>1
  <2>4. n # 0 => size + n \in 1 .. size + n /\ size + n \in size + 1 .. size + n
    BY <1>1
  <2>5. n = 0 => size + 1 .. size + n = {}
    BY <1>1
  <2> QED
    BY <1>1, <1>4, <2>1, <2>2, <2>3, <2>4, <2>5
<1>8. Located(m)
  <2> SUFFICES ASSUME NEW x \in Issuers
               PROVE  /\ m.index[x] # 0 <=> x \in Members(m)
                      /\ m.index[x] # 0 => m.index[x] \in 1 .. size + n /\ m.items[m.index[x]] = x
    BY <1>4, <1>5 DEF Located
  <2>1. /\ l.index[x] # 0 <=> x \in Members(l)
        /\ l.index[x] # 0 => l.index[x] \in 1 .. size /\ l.items[l.index[x]] = x
    BY <1>1 DEF Located
  <2>2. CASE x = i /\ n # 0
    <3>1. m.index[x] = size + n /\ size + n \in size + 1 .. size + n /\ size + n # 0
      BY <1>1, <1>3, <2>2
    <3> QED
      BY <1>1, <1>4, <1>7, <2>2, <3>1
  <2>3. CASE ~(x = i /\ n # 0)
    <3>1. m.index[x] = l.index[x]
      BY <1>1, <1>3, <2>3
    <3>2. \A k \in 1 .. size : k \in 1 .. size + n
      BY <1>1
    <3> QED
      BY <1>4, <1>7, <2>1, <2>3, <3>1, <3>2
  <2> QED
    BY <2>2, <2>3
<1>9. ASSUME NEW x \in Issuers \ {i}, OnceIn(l, x) PROVE OnceIn(m, x)
  <2> SUFFICES ASSUME NEW j \in 1 .. size + n, NEW k \in 1 .. size + n,
                      m.items[j] = x, m.items[k] = x
               PROVE  j = k
    BY <1>4 DEF OnceIn
  <2>1. j \in 1 .. size /\ k \in 1 .. size
    BY <1>1, <1>4
  <2> QED
    BY <1>1, <1>4, <1>9, <2>1 DEF OnceIn
<1>10. ASSUME n <= 1 PROVE OnceIn(m, i)
  <2> SUFFICES ASSUME NEW j \in 1 .. size + n, NEW k \in 1 .. size + n,
                      m.items[j] = i, m.items[k] = i
               PROVE  j = k
    BY <1>4 DEF OnceIn
  <2>1. j \notin 1 .. size /\ k \notin 1 .. size
    BY <1>1, <1>4
  <2> QED
    BY <1>1, <1>10, <2>1
<1> QED
  BY <1>6, <1>7, <1>8, <1>9, <1>10 DEF m

\* Swap-and-pop of an issuer listed once.
LEMMA SwapAndPopLocated ==
    ASSUME NEW l \in IndexedListsOf(Issuers), Located(l),
           NEW i \in Members(l), OnceIn(l, i)
    PROVE  /\ SwapAndPop(l, i) \in IndexedListsOf(Issuers)
           /\ Located(SwapAndPop(l, i))
           /\ Members(SwapAndPop(l, i)) = Members(l) \ {i}
           /\ \A x \in Issuers : OnceIn(l, x) => OnceIn(SwapAndPop(l, i), x)
<1> DEFINE n == Len(l.items)
           last == l.items[n]
           at == l.index[i]
           filled == [l.items EXCEPT ![at] = last]
           m == SwapAndPop(l, i)
<1>1. /\ l.items \in Seq(Issuers) /\ l.index \in [Issuers -> Nat] /\ n \in Nat
      /\ DOMAIN l.items = 1 .. n /\ l.items \in [1 .. n -> Issuers]
      /\ Members(l) = {l.items[k] : k \in 1 .. n}
      /\ i \in Issuers
  BY ListFields
<1>2. /\ at \in 1 .. n /\ l.items[at] = i
      /\ n \in 1 .. n /\ n - 1 \in Nat /\ last \in Issuers
      /\ l.index[last] # 0
      /\ \A k \in 1 .. n : l.items[k] = i => k = at
  <2>1. at \in 1 .. n /\ l.items[at] = i
    BY <1>1 DEF Located
  <2>2. n \in 1 .. n /\ n - 1 \in Nat
    BY <1>1, <2>1
  <2>3. last \in Issuers /\ last \in Members(l)
    BY <1>1, <2>2
  <2> HIDE DEF last
  <2> QED
    BY <1>1, <2>1, <2>2, <2>3 DEF Located, OnceIn
<1>3. /\ m.items = SubSeq(filled, 1, n - 1)
      /\ m.index = [[l.index EXCEPT ![last] = at] EXCEPT ![i] = 0]
      /\ m = [items |-> m.items, index |-> m.index]
  BY DEF SwapAndPop
<1> HIDE DEF m, at, last, n
<1>4. /\ filled \in Seq(Issuers) /\ Len(filled) = n
      /\ \A k \in 1 .. n : filled[k] = IF k = at THEN last ELSE l.items[k]
  <2>1. filled \in [1 .. n -> Issuers]
    BY <1>1, <1>2
  <2> QED
    BY <1>1, <1>2, <2>1
<1> HIDE DEF filled
<1>5. /\ m.items \in Seq(Issuers) /\ DOMAIN m.items = 1 .. n - 1
      /\ \A k \in 1 .. n - 1 : m.items[k] = IF k = at THEN last ELSE l.items[k]
  <2>1. /\ SubSeq(filled, 1, n - 1) \in Seq(Issuers) /\ Len(SubSeq(filled, 1, n - 1)) = n - 1
        /\ \A k \in 1 .. n - 1 : SubSeq(filled, 1, n - 1)[k] = filled[k]
    BY <1>2, <1>4
  <2>2. \A k \in 1 .. n - 1 : k \in 1 .. n
    BY <1>1
  <2> QED
    BY <1>3, <1>4, <2>1, <2>2
<1>6. m.index \in [Issuers -> Nat]
      /\ \A x \in Issuers : m.index[x] = IF x = i THEN 0 ELSE IF x = last THEN at ELSE l.index[x]
  <2> DEFINE first == [l.index EXCEPT ![last] = at]
  <2>1. at \in Nat /\ last \in Issuers
    BY <1>1, <1>2
  <2>2. first \in [Issuers -> Nat]
        /\ \A x \in Issuers : first[x] = IF x = last THEN at ELSE l.index[x]
    BY <1>1, <2>1
  <2>3. m.index = [first EXCEPT ![i] = 0]
    BY <1>3
  <2> HIDE DEF first
  <2> QED
    BY <1>1, <2>2, <2>3
<1>7. m \in IndexedListsOf(Issuers)
  <2>1. m = [items |-> m.items, index |-> m.index]
    BY <1>3
  <2>2. m.items \in Seq(Issuers) /\ m.index \in [Issuers -> Nat]
    BY <1>5, <1>6
  <2> QED
    BY <2>1, <2>2, ListOf
<1>8. at # n => last # i
  BY <1>2 DEF last
<1>9. Members(m) = {m.items[k] : k \in 1 .. n - 1}
  BY <1>5 DEF Members
<1>10. Members(m) = Members(l) \ {i}
  <2>1. ASSUME NEW k \in 1 .. n - 1 PROVE m.items[k] \in Members(l) /\ m.items[k] # i
    <3>1. k \in 1 .. n /\ k # n
      BY <1>1
    <3> QED
      BY <1>1, <1>2, <1>5, <1>8, <3>1 DEF last
  <2>2. ASSUME NEW k \in 1 .. n, l.items[k] # i
        PROVE  \E j \in 1 .. n - 1 : m.items[j] = l.items[k]
    <3>1. CASE k = n
      <4>1. at \in 1 .. n - 1 /\ m.items[at] = last
        BY <1>2, <1>5, <2>2, <3>1
      <4> QED
        BY <3>1, <4>1 DEF last
    <3>2. CASE k # n
      <4>1. k \in 1 .. n - 1 /\ k # at
        BY <1>2, <2>2, <3>2
      <4> QED
        BY <1>5, <4>1
    <3> QED
      BY <3>1, <3>2
  <2>3. Members(m) \subseteq Members(l) \ {i}
    BY <1>9, <2>1
  <2>4. ASSUME NEW y \in Members(l), y # i PROVE y \in Members(m)
    <3>1. PICK k \in 1 .. n : l.items[k] = y
      BY <1>1
    <3> QED
      BY <1>9, <2>2, <2>4, <3>1
  <2> QED
    BY <2>3, <2>4
<1>11. Located(m)
  <2> SUFFICES ASSUME NEW x \in Issuers
               PROVE  /\ m.index[x] # 0 <=> x \in Members(m)
                      /\ m.index[x] # 0 => m.index[x] \in 1 .. n - 1 /\ m.items[m.index[x]] = x
    BY <1>5, <1>6 DEF Located
  <2>1. /\ l.index[x] # 0 <=> x \in Members(l)
        /\ l.index[x] # 0 => l.index[x] \in 1 .. n /\ l.items[l.index[x]] = x
    BY <1>1 DEF Located
  <2>2. CASE x = i
    BY <1>6, <1>10, <2>2
  <2>3. CASE x # i /\ x = last
    <3>1. at # n /\ at \in 1 .. n - 1 /\ at # 0
      BY <1>2, <2>3 DEF last
    <3> QED
      BY <1>2, <1>5, <1>6, <1>10, <2>1, <2>3, <3>1
  <2>4. CASE x # i /\ x # last
    <3>1. m.index[x] = l.index[x]
      BY <1>6, <2>4
    <3>2. ASSUME l.index[x] # 0
          PROVE  l.index[x] \in 1 .. n - 1 /\ m.items[l.index[x]] = x
      <4>1. l.index[x] \in 1 .. n - 1 /\ l.index[x] # at
        BY <1>2, <2>1, <2>4, <3>2 DEF last
      <4> QED
        BY <1>5, <2>1, <3>2, <4>1
    <3> QED
      BY <1>10, <2>1, <2>4, <3>1, <3>2
  <2> QED
    BY <2>2, <2>3, <2>4
<1>12. ASSUME NEW x \in Issuers, OnceIn(l, x) PROVE OnceIn(m, x)
  <2> SUFFICES ASSUME NEW j \in 1 .. n - 1, NEW k \in 1 .. n - 1, m.items[j] = x, m.items[k] = x
               PROVE  j = k
    BY <1>5 DEF OnceIn
  <2> DEFINE from(p) == IF p = at THEN n ELSE p
  <2>1. \A p \in 1 .. n - 1 : from(p) \in 1 .. n /\ l.items[from(p)] = m.items[p]
    BY <1>2, <1>5 DEF last
  <2>2. from(j) = from(k)
    <3>1. from(j) \in DOMAIN l.items /\ from(k) \in DOMAIN l.items
      BY <1>1, <2>1
    <3>2. l.items[from(j)] = x /\ l.items[from(k)] = x
      BY <2>1
    <3> HIDE DEF from
    <3> QED
      BY <1>12, <3>1, <3>2 DEF OnceIn
  <2> QED
    BY <1>2, <2>2
<1> QED
  BY <1>7, <1>10, <1>11, <1>12 DEF m

-----------------------------------------------------------------------------
(* All lists.                                                              *)

\* How often a topic is given: never, once, or more often if it is repeated.
LEMMA TimesFacts ==
    ASSUME NEW topics \in Seq(Topics), NEW t \in Topics
    PROVE  /\ Times(topics, t) \in Nat
           /\ Times(topics, t) = 0 <=> t \notin Range(topics)
           /\ IsInjective(topics) => Times(topics, t) <= 1
<1> DEFINE ks == {k \in DOMAIN topics : topics[k] = t}
<1>1. IsFiniteSet(ks) /\ Cardinality(ks) \in Nat
  <2>1. DOMAIN topics = 1 .. Len(topics) /\ Len(topics) \in Nat
    OBVIOUS
  <2>2. IsFiniteSet(DOMAIN topics)
    BY <2>1, FS_Interval
  <2>3. IsFiniteSet(ks)
    BY <2>2, FS_Subset
  <2> QED
    BY <2>3, FS_CardinalityType
<1>2. Cardinality(ks) = 0 <=> ks = {}
  BY <1>1, FS_EmptySet
<1>3. t \notin Range(topics) <=> ks = {}
  BY DEF Range
<1>4. ASSUME IsInjective(topics) PROVE Cardinality(ks) <= 1
  <2>1. CASE ks = {}
    BY <1>2, <2>1
  <2>2. CASE ks # {}
    <3>1. PICK k \in ks : TRUE
      BY <2>2
    <3>2. ks = {k}
      BY <1>4, <3>1 DEF IsInjective
    <3>3. Cardinality({k}) = 1
      BY FS_Singleton
    <3> HIDE DEF ks
    <3> QED
      BY <3>2, <3>3
  <2> QED
    BY <2>1, <2>2
<1> QED
  BY <1>1, <1>2, <1>3, <1>4 DEF Times

\* An issuer without topics is given some.
LEMMA AddedAgree ==
    ASSUME NEW lists, NEW topicsOf, ListsAgree(lists, topicsOf),
           NEW i \in Issuers, topicsOf[i] = << >>, NEW topics \in Seq(Topics)
    PROVE  ListsAgree(AddedToTopics(lists, i, topics), [topicsOf EXCEPT ![i] = topics])
<1> DEFINE after == AddedToTopics(lists, i, topics)
           topicsAfter == [topicsOf EXCEPT ![i] = topics]
<1>1. /\ topicsOf \in [Issuers -> Seq(Topics)]
      /\ topicsAfter \in [Issuers -> Seq(Topics)]
      /\ topicsAfter[i] = topics
      /\ \A j \in Issuers \ {i} : topicsAfter[j] = topicsOf[j]
  BY DEF ListsAgree
<1> HIDE DEF topicsAfter
<1>2. ASSUME NEW t \in Topics
      PROVE  /\ after[t] \in IndexedListsOf(Issuers)
             /\ Located(after[t])
             /\ Members(after[t]) = {j \in Issuers : t \in Range(topicsAfter[j])}
             /\ \A j \in Issuers : IsInjective(topicsAfter[j]) => OnceIn(after[t], j)
  <2> DEFINE l == lists[t]
             n == Times(topics, t)
  <2>1. /\ l \in IndexedListsOf(Issuers) /\ Located(l)
        /\ Members(l) = {j \in Issuers : t \in Range(topicsOf[j])}
        /\ \A j \in Issuers : IsInjective(topicsOf[j]) => OnceIn(l, j)
    BY DEF ListsAgree
  <2>2. i \notin Members(l)
    BY <2>1 DEF Range
  <2>3. /\ n \in Nat /\ (n = 0 <=> t \notin Range(topics))
        /\ IsInjective(topics) => n <= 1
    BY TimesFacts
  <2>4. after[t] = PushTimes(l, i, n)
    BY DEF AddedToTopics
  <2> HIDE DEF l, n, after
  <2>5. /\ after[t] \in IndexedListsOf(Issuers)
        /\ Located(after[t])
        /\ Members(after[t]) = Members(l) \cup (IF n = 0 THEN {} ELSE {i})
        /\ \A x \in Issuers \ {i} : OnceIn(l, x) => OnceIn(after[t], x)
        /\ n <= 1 => OnceIn(after[t], i)
    BY <2>1, <2>2, <2>3, <2>4, PushTimesFacts
  <2>6. Members(after[t]) = {j \in Issuers : t \in Range(topicsAfter[j])}
    BY <1>1, <2>1, <2>2, <2>3, <2>5
  <2>7. \A j \in Issuers : IsInjective(topicsAfter[j]) => OnceIn(after[t], j)
    BY <1>1, <2>1, <2>3, <2>5
  <2> QED
    BY <2>5, <2>6, <2>7
<1> HIDE DEF after
<1> QED
  BY <1>1, <1>2 DEF ListsAgree, after, topicsAfter

\* An issuer with its topics once each loses them all.
LEMMA RemovedAgree ==
    ASSUME NEW lists, NEW topicsOf, ListsAgree(lists, topicsOf), NEW i \in Issuers,
           CanRemoveFromTopics(lists, i, topicsOf[i])
    PROVE  ListsAgree(RemovedFromTopics(lists, i, topicsOf[i]), [topicsOf EXCEPT ![i] = << >>])
<1> DEFINE after == RemovedFromTopics(lists, i, topicsOf[i])
           topicsAfter == [topicsOf EXCEPT ![i] = << >>]
<1>1. /\ topicsOf \in [Issuers -> Seq(Topics)]
      /\ topicsAfter \in [Issuers -> Seq(Topics)]
      /\ topicsAfter[i] = << >>
      /\ \A j \in Issuers \ {i} : topicsAfter[j] = topicsOf[j]
  BY DEF ListsAgree
<1> HIDE DEF topicsAfter
<1>2. ASSUME NEW t \in Topics
      PROVE  /\ after[t] \in IndexedListsOf(Issuers)
             /\ Located(after[t])
             /\ Members(after[t]) = {j \in Issuers : t \in Range(topicsAfter[j])}
             /\ \A j \in Issuers : IsInjective(topicsAfter[j]) => OnceIn(after[t], j)
  <2> DEFINE l == lists[t]
  <2>1. /\ l \in IndexedListsOf(Issuers) /\ Located(l)
        /\ Members(l) = {j \in Issuers : t \in Range(topicsOf[j])}
        /\ \A j \in Issuers : IsInjective(topicsOf[j]) => OnceIn(l, j)
    BY DEF ListsAgree
  <2>2. after[t] = IF t \in Range(topicsOf[i]) THEN SwapAndPop(l, i) ELSE l
    BY DEF RemovedFromTopics
  <2>3. IsInjective(topicsOf[i])
    BY DEF CanRemoveFromTopics
  <2> HIDE DEF l, after
  <2>4. /\ after[t] \in IndexedListsOf(Issuers)
        /\ Located(after[t])
        /\ Members(after[t]) = Members(l) \ {i}
        /\ \A x \in Issuers : OnceIn(l, x) => OnceIn(after[t], x)
    <3>1. CASE t \in Range(topicsOf[i])
      <4>1. i \in Members(l) /\ OnceIn(l, i)
        BY <2>1, <2>3, <3>1
      <4> QED
        BY <2>1, <2>2, <3>1, <4>1, SwapAndPopLocated
    <3>2. CASE t \notin Range(topicsOf[i])
      BY <2>1, <2>2, <3>2
    <3> QED
      BY <3>1, <3>2
  <2>5. t \notin Range(topicsAfter[i])
    BY <1>1 DEF Range
  <2>6. Members(after[t]) = {j \in Issuers : t \in Range(topicsAfter[j])}
    BY <1>1, <2>1, <2>4, <2>5
  <2>7. \A j \in Issuers : IsInjective(topicsAfter[j]) => OnceIn(after[t], j)
    BY <1>1, <2>1, <2>3, <2>4
  <2> QED
    BY <2>4, <2>6, <2>7
<1> HIDE DEF after
<1> QED
  BY <1>1, <1>2 DEF ListsAgree, after, topicsAfter

-----------------------------------------------------------------------------
(* The transactions.                                                       *)

\* A new issuer has no topics to begin with.
LEMMA AddTrustedIssuerInv ==
    ASSUME IssuersInv, NEW i \in Issuers, NEW topics \in Seq(Topics),
           AddTrustedIssuer(i, topics)
    PROVE  IssuersInv'
<1>1. /\ i \notin trusted
      /\ trusted' = trusted \cup {i}
      /\ claimTopics' = [claimTopics EXCEPT ![i] = topics]
      /\ issuerAddresses' = Append(issuerAddresses, i)
      /\ issuersByClaimTopic' = AddedToTopics(issuersByClaimTopic, i, topics)
  BY DEF AddTrustedIssuer
<1>2. ListsAgree(issuersByClaimTopic', claimTopics')
  BY <1>1, AddedAgree DEF IssuersInv
<1>3. AddressesExact'
  BY <1>1, AppendedFacts DEF IssuersInv, AddressesExact
<1>4. \A j \in Issuers \ trusted' : claimTopics'[j] = << >>
  BY <1>1 DEF IssuersInv, ListsAgree
<1> QED
  BY <1>1, <1>2, <1>3, <1>4 DEF IssuersInv

\* A removed issuer has none left.
LEMMA RemoveTrustedIssuerInv ==
    ASSUME IssuersInv, NEW i \in Issuers, RemoveTrustedIssuer(i)
    PROVE  IssuersInv'
<1>1. /\ i \in trusted
      /\ CanRemoveFromTopics(issuersByClaimTopic, i, claimTopics[i])
      /\ trusted' = trusted \ {i}
      /\ claimTopics' = [claimTopics EXCEPT ![i] = << >>]
      /\ issuerAddresses' = RemovedFromList(issuerAddresses, i)
      /\ issuersByClaimTopic' = RemovedFromTopics(issuersByClaimTopic, i, claimTopics[i])
  BY DEF RemoveTrustedIssuer, CanRemoveTrustedIssuer
<1>2. ListsAgree(issuersByClaimTopic', claimTopics')
  BY <1>1, RemovedAgree DEF IssuersInv
<1>3. AddressesExact'
  BY <1>1, RemovedFromListFacts DEF IssuersInv, AddressesExact
<1>4. \A j \in Issuers \ trusted' : claimTopics'[j] = << >>
  BY <1>1 DEF IssuersInv, ListsAgree
<1> QED
  BY <1>1, <1>2, <1>3, <1>4 DEF IssuersInv

\* An update removes all topics before it adds the new ones.
LEMMA UpdateIssuerClaimTopicsInv ==
    ASSUME IssuersInv, NEW i \in Issuers, NEW topics \in Seq(Topics),
           UpdateIssuerClaimTopics(i, topics)
    PROVE  IssuersInv'
<1> DEFINE removed == RemovedFromTopics(issuersByClaimTopic, i, claimTopics[i])
           none == [claimTopics EXCEPT ![i] = << >>]
<1>1. /\ i \in trusted
      /\ CanRemoveFromTopics(issuersByClaimTopic, i, claimTopics[i])
      /\ issuersByClaimTopic' = AddedToTopics(removed, i, topics)
      /\ claimTopics' = [claimTopics EXCEPT ![i] = topics]
      /\ UNCHANGED <<trusted, issuerAddresses>>
  BY DEF UpdateIssuerClaimTopics
<1>2. ListsAgree(removed, none)
  BY <1>1, RemovedAgree DEF IssuersInv
<1>3. claimTopics \in [Issuers -> Seq(Topics)]
  BY DEF IssuersInv, ListsAgree
<1>4. none[i] = << >> /\ [none EXCEPT ![i] = topics] = claimTopics'
  BY <1>1, <1>3
<1> HIDE DEF removed, none
<1>5. ListsAgree(AddedToTopics(removed, i, topics), [none EXCEPT ![i] = topics])
  BY <1>2, <1>4, AddedAgree
<1>6. ListsAgree(issuersByClaimTopic', claimTopics')
  BY <1>1, <1>4, <1>5
<1>7. AddressesExact'
  BY <1>1 DEF IssuersInv, AddressesExact
<1>8. \A j \in Issuers \ trusted' : claimTopics'[j] = << >>
  BY <1>1, <1>3 DEF IssuersInv
<1> QED
  BY <1>1, <1>6, <1>7, <1>8 DEF IssuersInv

-----------------------------------------------------------------------------
(* The theorems.                                                           *)

\* The registry of trusted issuers, through any transactions.
THEOREM IssuersInvariant == IssuersSpec => []IssuersInv
<1>1. IssuersInit => IssuersInv
  <2> SUFFICES ASSUME IssuersInit PROVE IssuersInv
    OBVIOUS
  <2>1. /\ claimTopics = [i \in Issuers |-> << >>]
        /\ \A t \in Topics : issuersByClaimTopic[t] = EmptyList(Issuers)
        /\ trusted = {} /\ issuerAddresses = << >>
    BY DEF IssuersInit
  <2>2. Located(EmptyList(Issuers)) /\ \A i \in Issuers : OnceIn(EmptyList(Issuers), i)
    BY DEF Located, OnceIn, EmptyList, Members
  <2>3. \A i \in Issuers, t \in Topics : t \notin Range(claimTopics[i])
    BY <2>1 DEF Range
  <2>4. ListsAgree(issuersByClaimTopic, claimTopics)
    BY <2>1, <2>2, <2>3, EmptyListFacts DEF ListsAgree
  <2>5. AddressesExact
    BY <2>1 DEF AddressesExact, IsInjective, Range
  <2> QED
    BY <2>1, <2>4, <2>5 DEF IssuersInv
<1>2. IssuersInv /\ [IssuersNext]_issuersVars => IssuersInv'
  <2> SUFFICES ASSUME IssuersInv, [IssuersNext]_issuersVars PROVE IssuersInv'
    OBVIOUS
  <2>1. CASE IssuersNext
    <3>1. PICK i \in Issuers \cup {None} :
             \/ RemoveTrustedIssuer(i)
             \/ \E n \in 0 .. MaxTopics : \E topics \in [1 .. n -> Topics] :
                   AddTrustedIssuer(i, topics) \/ UpdateIssuerClaimTopics(i, topics)
      BY <2>1 DEF IssuersNext
    <3>2. trusted \subseteq Issuers
      BY DEF IssuersInv
    <3>3. CASE RemoveTrustedIssuer(i)
      BY <3>2, <3>3, RemoveTrustedIssuerInv DEF RemoveTrustedIssuer, CanRemoveTrustedIssuer
    <3>4. ASSUME NEW n \in 0 .. MaxTopics, NEW topics \in [1 .. n -> Topics],
                 AddTrustedIssuer(i, topics) \/ UpdateIssuerClaimTopics(i, topics)
          PROVE  IssuersInv'
      <4>1. i \in Issuers
        BY <3>2, <3>4 DEF AddTrustedIssuer, UpdateIssuerClaimTopics
      <4>2. topics \in Seq(Topics)
        <5>1. n \in Nat
          OBVIOUS
        <5> QED
          BY <5>1
      <4> QED
        BY <3>4, <4>1, <4>2, AddTrustedIssuerInv, UpdateIssuerClaimTopicsInv
    <3> QED
      BY <3>1, <3>3, <3>4
  <2>2. CASE UNCHANGED issuersVars
    BY <2>2 DEF issuersVars, IssuersInv, AddressesExact
  <2> QED
    BY <2>1, <2>2
<1> QED
  BY <1>1, <1>2, PTL DEF IssuersSpec

\* The topics of an issuer, its place in their arrays and hasClaimTopic agree.
THEOREM TrustAlwaysAgrees == IssuersSpec => []TrustAgrees
<1>1. ASSUME IssuersInv PROVE TrustAgrees
  <2> SUFFICES ASSUME NEW i \in Issuers, NEW t \in Topics
               PROVE  /\ HasClaimTopic(i, t) <=> t \in Range(claimTopics[i])
                      /\ i \in TrustedIssuersFor(t) <=> t \in Range(claimTopics[i])
                      /\ LET l == issuersByClaimTopic[t]
                         IN l.index[i] # 0 => l.index[i] \in DOMAIN l.items /\ l.items[l.index[i]] = i
    BY DEF TrustAgrees
  <2> DEFINE l == issuersByClaimTopic[t]
  <2>1. /\ l \in IndexedListsOf(Issuers) /\ Located(l)
        /\ Members(l) = {j \in Issuers : t \in Range(claimTopics[j])}
    BY <1>1 DEF IssuersInv, ListsAgree
  <2>2. l.index \in [Issuers -> Nat]
    BY <2>1, ListFields
  <2>3. /\ l.index[i] # 0 <=> i \in Members(l)
        /\ l.index[i] # 0 => l.index[i] \in DOMAIN l.items /\ l.items[l.index[i]] = i
        /\ l.index[i] > 0 <=> l.index[i] # 0
    BY <2>1, <2>2 DEF Located
  <2> QED
    BY <2>1, <2>3 DEF HasClaimTopic, TrustedIssuersFor
<1> QED
  BY <1>1, IssuersInvariant, PTL

\* An issuer whose topics were given once each can be removed.
THEOREM DistinctTopicsStayRemovable == IssuersSpec => []DistinctTopicsRemovable
<1>1. ASSUME IssuersInv PROVE DistinctTopicsRemovable
  <2> SUFFICES ASSUME NEW i \in trusted, IsInjective(claimTopics[i])
               PROVE  CanRemoveTrustedIssuer(i)
    BY DEF DistinctTopicsRemovable
  <2>1. i \in Issuers /\ claimTopics[i] \in Seq(Topics)
    BY <1>1 DEF IssuersInv, ListsAgree
  <2>2. ASSUME NEW t \in Range(claimTopics[i])
        PROVE  issuersByClaimTopic[t].index[i] # 0
    <3>1. t \in Topics
      BY <2>1 DEF Range
    <3>2. /\ issuersByClaimTopic[t] \in IndexedListsOf(Issuers)
          /\ Located(issuersByClaimTopic[t]) /\ i \in Members(issuersByClaimTopic[t])
      BY <1>1, <2>1, <3>1 DEF IssuersInv, ListsAgree
    <3>3. i \in DOMAIN issuersByClaimTopic[t].index
      BY <2>1, <3>2, ListFields
    <3> QED
      BY <3>2, <3>3 DEF Located
  <2> QED
    BY <2>2 DEF CanRemoveTrustedIssuer, CanRemoveFromTopics
<1> QED
  BY <1>1, IssuersInvariant, PTL

\* The array of all issuers lists exactly those trusted, each once, so that the
\* search of a removal always finds the issuer.
THEOREM IssuerAddressesExact == IssuersSpec => []AddressesExact
<1>1. IssuersInv => AddressesExact
  BY DEF IssuersInv
<1> QED
  BY <1>1, IssuersInvariant, PTL
=============================================================================
