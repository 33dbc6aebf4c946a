--------------------------- MODULE OnboardingProofs ---------------------------
(***************************************************************************)
(* The onboarding, for any token types and implementations, any number of  *)
(* processes and faults, and every interleaving of the tasks, the miner,   *)
(* crashes and restarts.  The order of the transactions is not in any one  *)
(* guard: it follows from where main stands, what its Promise.alls waited  *)
(* for and what the tasks did, so the invariants say where each task is    *)
(* (FlowInv), what that means for the chain (DoneInv, DeployInv), what came*)
(* first (DeployedFirst, IdentitiesFirst) and, of a run that nothing       *)
(* disturbed, that the chain has no more than what its tasks did (CleanInv).*)
(* The index follows the chain by IndexInv.                                *)
(***************************************************************************)
EXTENDS SubgraphSystem, SequenceTheorems, TLAPS

-----------------------------------------------------------------------------
(* The tasks and their steps.                                              *)

RegisteredActors == {"owner", "investorA", "investorB"}

\* What a create function sends.
AssetTransactions == {"create", "grantRole", "addAssetClaim", "mint", "transfer", "burn"}

\* The actors whose identities main asks for first.
LEMMA RegisteredFacts ==
    /\ ToSet(Registered) = RegisteredActors
    /\ Actors = RegisteredActors \cup {"claimIssuer"}
    /\ "claimIssuer" \notin RegisteredActors
<1>1. DOMAIN Registered = 1 .. 3
  BY DEF Registered
<1>2. ToSet(Registered) = {Registered[i] : i \in 1 .. 3}
  BY <1>1 DEF ToSet
<1> QED
  BY <1>2 DEF Registered, RegisteredActors, Actors

\* The tasks are told apart by what they are for and for whom.
LEMMA TaskFacts ==
    /\ Main \in Tasks
    /\ \A a \in Actors : Identity(a) \in Tasks
    /\ \A a \in RegisteredActors : Verification(a) \in Tasks
    /\ \A t \in Tasks : \/ t = Main
                        \/ \E a \in Actors : t = Identity(a)
                        \/ \E a \in RegisteredActors : t = Verification(a)
    /\ Main[1] = "main"
    /\ \A a : Identity(a)[1] = "identity" /\ Identity(a)[2] = a
    /\ \A a : Verification(a)[1] = "verification" /\ Verification(a)[2] = a
BY RegisteredFacts DEF Tasks, Main, Identity, Verification

\* The steps of every task.
LEMMA StepsFacts ==
    /\ Steps[Main] = MainSteps
    /\ \A a \in Actors : Steps[Identity(a)] = << <<"createIdentity", a>> >>
    /\ \A a \in RegisteredActors : Steps[Verification(a)] = VerificationSteps(a)
<1>1. Steps[Main] = MainSteps
  BY TaskFacts DEF Steps
<1>2. ASSUME NEW a \in Actors PROVE Steps[Identity(a)] = << <<"createIdentity", a>> >>
  BY TaskFacts DEF Steps
<1>3. ASSUME NEW a \in RegisteredActors PROVE Steps[Verification(a)] = VerificationSteps(a)
  BY TaskFacts DEF Steps
<1> QED
  BY <1>1, <1>2, <1>3

-----------------------------------------------------------------------------
(* The steps of the assets come in an order that suits the contracts.      *)

\* What may be done with an asset of the kind k.
AssetStep(k) ==
    { <<"create", k>>, <<"grantRole", k, "claimManager">>, <<"grantRole", k, "supplyManagement">>,
      <<"mint", k>>, <<"transfer", k>>, <<"burn", k>> }
    \cup {<<"addAssetClaim", k, topic>> : topic \in Topics}

\* What the contracts want of earlier steps with assets.
Needed(s) ==
    CASE s[1] = "create" -> IF s[2] = "bond" THEN {<<"create", "deposit">>} ELSE {}
      [] s[1] = "grantRole" -> {<<"create", s[2]>>}
      [] s[1] = "addAssetClaim" -> {<<"grantRole", s[2], "claimManager">>}
      [] s[1] = "mint" ->
            {<<"grantRole", s[2], "supplyManagement">>}
            \cup IF s[2] \in Collateralised THEN {<<"addAssetClaim", s[2], "collateral">>} ELSE {}
      [] s[1] = "transfer" -> {<<"mint", s[2]>>}
      [] s[1] = "burn" -> {<<"transfer", s[2]>>}
      [] OTHER -> {}

\* The steps of p before the i-th.
Before(p, i) == {p[j] : j \in 1 .. i - 1}

\* After the steps done, those of p find what they need and create nothing twice.
InOrder(p, done) ==
    \A i \in 1 .. Len(p) :
        /\ Needed(p[i]) \subseteq done \cup Before(p, i)
        /\ p[i][1] = "create" => p[i] \notin done \cup Before(p, i)

\* What is needed by each thing that may be done with an asset.
LEMMA NeededFacts ==
    ASSUME NEW s
    PROVE  /\ s[1] = "create" => Needed(s) = IF s[2] = "bond" THEN {<<"create", "deposit">>} ELSE {}
           /\ s[1] = "grantRole" => Needed(s) = {<<"create", s[2]>>}
           /\ s[1] = "addAssetClaim" => Needed(s) = {<<"grantRole", s[2], "claimManager">>}
           /\ s[1] = "mint" =>
                 Needed(s) = {<<"grantRole", s[2], "supplyManagement">>}
                    \cup IF s[2] \in Collateralised THEN {<<"addAssetClaim", s[2], "collateral">>} ELSE {}
           /\ s[1] = "transfer" => Needed(s) = {<<"mint", s[2]>>}
           /\ s[1] = "burn" => Needed(s) = {<<"transfer", s[2]>>}
<1>1. CASE s[1] = "create"
  BY <1>1 DEF Needed
<1>2. CASE s[1] = "grantRole"
  BY <1>2 DEF Needed
<1>3. CASE s[1] = "addAssetClaim"
  BY <1>3 DEF Needed
<1>4. CASE s[1] = "mint"
  BY <1>4 DEF Needed
<1>5. CASE s[1] = "transfer"
  BY <1>5 DEF Needed
<1>6. CASE s[1] = "burn"
  BY <1>6 DEF Needed
<1> QED
  BY <1>1, <1>2, <1>3, <1>4, <1>5, <1>6

\* Where the elements of a concatenation come from.
LEMMA ConcatFacts ==
    ASSUME NEW S, NEW p \in Seq(S), NEW q \in Seq(S)
    PROVE  /\ p \o q \in Seq(S)
           /\ Len(p) \in Nat /\ Len(q) \in Nat
           /\ Len(p \o q) = Len(p) + Len(q)
           /\ \A i \in 1 .. Len(p) : (p \o q)[i] = p[i]
           /\ \A i \in 1 .. Len(q) : (p \o q)[Len(p) + i] = q[i]
OBVIOUS

\* Sequences in order one after the other are in order.
LEMMA InOrderConcat ==
    ASSUME NEW S, NEW p \in Seq(S), NEW q \in Seq(S), NEW done,
           InOrder(p, done), InOrder(q, done \cup ToSet(p))
    PROVE  /\ p \o q \in Seq(S)
           /\ ToSet(p \o q) = ToSet(p) \cup ToSet(q)
           /\ InOrder(p \o q, done)
<1> DEFINE r == p \o q
<1>1. /\ r \in Seq(S)
      /\ Len(r) = Len(p) + Len(q)
      /\ Len(p) \in Nat /\ Len(q) \in Nat
      /\ \A i \in 1 .. Len(p) : r[i] = p[i]
      /\ \A i \in 1 .. Len(q) : r[Len(p) + i] = q[i]
      /\ \A i \in 1 .. Len(r) : i \in 1 .. Len(p) \/ i - Len(p) \in 1 .. Len(q)
      /\ DOMAIN p = 1 .. Len(p) /\ DOMAIN q = 1 .. Len(q) /\ DOMAIN r = 1 .. Len(r)
  OBVIOUS
<1> HIDE DEF r
<1>2. ToSet(r) = ToSet(p) \cup ToSet(q)
  <2>1. \A i \in 1 .. Len(q) : Len(p) + i \in 1 .. Len(r)
    BY <1>1
  <2>2. \A i \in 1 .. Len(r) : r[i] \in ToSet(p) \cup ToSet(q)
    <3> TAKE i \in 1 .. Len(r)
    <3>1. CASE i \in 1 .. Len(p)
      BY <1>1, <3>1 DEF ToSet
    <3>2. CASE i - Len(p) \in 1 .. Len(q)
      <4>1. r[i] = q[i - Len(p)]
        <5>1. Len(p) + (i - Len(p)) = i
          BY <1>1
        <5> QED
          BY <1>1, <3>2, <5>1
      <4> QED
        BY <1>1, <3>2, <4>1 DEF ToSet
    <3> QED
      BY <1>1, <3>1, <3>2
  <2>3. \A i \in 1 .. Len(p) : i \in 1 .. Len(r)
    BY <1>1
  <2>4. ToSet(p) \subseteq ToSet(r)
    BY <1>1, <2>3 DEF ToSet
  <2>5. ToSet(q) \subseteq ToSet(r)
    BY <1>1, <2>1 DEF ToSet
  <2>6. ToSet(r) \subseteq ToSet(p) \cup ToSet(q)
    BY <1>1, <2>2 DEF ToSet
  <2> QED
    BY <2>4, <2>5, <2>6
<1>3. InOrder(r, done)
  <2> SUFFICES ASSUME NEW i \in 1 .. Len(r)
               PROVE  /\ Needed(r[i]) \subseteq done \cup Before(r, i)
                      /\ r[i][1] = "create" => r[i] \notin done \cup Before(r, i)
    BY DEF InOrder
  <2>1. CASE i \in 1 .. Len(p)
    <3>1. r[i] = p[i]
      BY <1>1, <2>1
    <3>2. Before(r, i) = Before(p, i)
      <4>1. \A j \in 1 .. i - 1 : r[j] = p[j]
        BY <1>1, <2>1
      <4> QED
        BY <4>1 DEF Before
    <3> QED
      BY <2>1, <3>1, <3>2 DEF InOrder
  <2>2. CASE i - Len(p) \in 1 .. Len(q)
    <3> DEFINE k == i - Len(p)
    <3>1. k \in 1 .. Len(q) /\ Len(p) + k = i
      BY <1>1, <2>2
    <3>2. r[i] = q[k]
      BY <1>1, <3>1
    <3>3. Before(r, i) = ToSet(p) \cup Before(q, k)
      <4>1. \A j \in 1 .. i - 1 : \/ j \in 1 .. Len(p) /\ r[j] = p[j]
                                  \/ j - Len(p) \in 1 .. k - 1 /\ r[j] = q[j - Len(p)]
        <5> TAKE j \in 1 .. i - 1
        <5>1. CASE j <= Len(p)
          <6>1. j \in 1 .. Len(p)
            BY <1>1, <5>1
          <6> QED
            BY <1>1, <6>1
        <5>2. CASE j > Len(p)
          <6>1. j - Len(p) \in 1 .. k - 1 /\ j - Len(p) \in 1 .. Len(q) /\ Len(p) + (j - Len(p)) = j
            BY <1>1, <3>1, <5>2
          <6> QED
            BY <1>1, <6>1
        <5> QED
          BY <1>1, <5>1, <5>2
      <4>2. \A j \in 1 .. Len(p) : j \in 1 .. i - 1
        BY <1>1, <3>1
      <4>3. \A j \in 1 .. k - 1 : Len(p) + j \in 1 .. i - 1 /\ j \in 1 .. Len(q)
        BY <1>1, <3>1
      <4>4. Before(r, i) \subseteq ToSet(p) \cup Before(q, k)
        BY <1>1, <4>1 DEF Before, ToSet
      <4>5. ToSet(p) \subseteq Before(r, i)
        BY <1>1, <4>2 DEF Before, ToSet
      <4>6. Before(q, k) \subseteq Before(r, i)
        BY <1>1, <4>3 DEF Before
      <4> QED
        BY <4>4, <4>5, <4>6
    <3>4. /\ Needed(q[k]) \subseteq done \cup ToSet(p) \cup Before(q, k)
          /\ q[k][1] = "create" => q[k] \notin done \cup ToSet(p) \cup Before(q, k)
      BY <3>1 DEF InOrder
    <3> QED
      BY <3>2, <3>3, <3>4
  <2> QED
    BY <1>1, <2>1, <2>2
<1> QED
  BY <1>1, <1>2, <1>3 DEF r

\* The tokens that mint only what is collateralised get a collateral claim.
Suits(k, topics) == k \in Collateralised => "collateral" \in ToSet(topics)

\* What is done with one asset is in order, if it was not created before and
\* a bond's deposit was.
LEMMA AssetStepsInOrder ==
    ASSUME NEW k, NEW topics \in Seq(Topics), Suits(k, topics),
           NEW done, <<"create", k>> \notin done,
           k \in AssetKinds /\ k = "bond" => <<"create", "deposit">> \in done
    PROVE  /\ AssetSteps(k, topics) \in Seq(AssetStep(k))
           /\ InOrder(AssetSteps(k, topics), done)
           /\ k \in AssetKinds => <<"create", k>> \in ToSet(AssetSteps(k, topics))
           /\ k \notin AssetKinds => AssetSteps(k, topics) = << >>
<1> DEFINE p == AssetSteps(k, topics)
           n == Len(topics)
           first == << <<"create", k>>, <<"grantRole", k, "claimManager">> >>
           claims == [i \in 1 .. n |-> <<"addAssetClaim", k, topics[i]>>]
           last == << <<"grantRole", k, "supplyManagement">>,
                      <<"mint", k>>, <<"transfer", k>>, <<"burn", k>> >>
<1>1. n \in Nat /\ DOMAIN topics = 1 .. n /\ \A i \in 1 .. n : topics[i] \in Topics
  OBVIOUS
<1>2. CASE k \notin AssetKinds
  <2>1. p = << >>
    BY <1>2 DEF AssetSteps
  <2>2. << >> \in Seq(AssetStep(k)) /\ Len(<< >>) = 0 /\ DOMAIN << >> = {}
    OBVIOUS
  <2>3. InOrder(<< >>, done)
    BY <2>2 DEF InOrder
  <2> QED
    BY <1>2, <2>1, <2>2, <2>3
<1>3. CASE k \in AssetKinds
  <2>1. p = first \o claims \o last
    BY <1>1, <1>3 DEF AssetSteps
  <2>2. /\ first \in Seq(AssetStep(k)) /\ Len(first) = 2
        /\ first[1] = <<"create", k>> /\ first[2] = <<"grantRole", k, "claimManager">>
    BY DEF AssetStep
  <2>3. claims \in Seq(AssetStep(k)) /\ Len(claims) = n
    <3>1. \A i \in 1 .. n : <<"addAssetClaim", k, topics[i]>> \in AssetStep(k)
      BY <1>1 DEF AssetStep
    <3> QED
      BY <1>1, <3>1
  <2>4. /\ last \in Seq(AssetStep(k)) /\ Len(last) = 4
        /\ last[1] = <<"grantRole", k, "supplyManagement">>
        /\ last[2] = <<"mint", k>> /\ last[3] = <<"transfer", k>> /\ last[4] = <<"burn", k>>
    BY DEF AssetStep
  <2>5. \A i \in 1 .. n : claims[i] = <<"addAssetClaim", k, topics[i]>>
    OBVIOUS
  <2> HIDE DEF first, claims, last, n
  <2> DEFINE m == first \o claims
             S == AssetStep(k)
  <2>6. /\ m \in Seq(AssetStep(k)) /\ Len(m) = n + 2
        /\ m[1] = first[1] /\ m[2] = first[2]
        /\ \A i \in 1 .. n : m[2 + i] = claims[i]
    <3>0. first \in Seq(S) /\ claims \in Seq(S)
      BY <2>2, <2>3
    <3> HIDE DEF S
    <3>1. /\ first \o claims \in Seq(S)
          /\ Len(first \o claims) = Len(first) + Len(claims)
          /\ \A i \in 1 .. Len(first) : (first \o claims)[i] = first[i]
          /\ \A i \in 1 .. Len(claims) : (first \o claims)[Len(first) + i] = claims[i]
      BY ONLY <3>0, ConcatFacts
    <3> HIDE DEF m
    <3>2. m = first \o claims
      BY DEF m
    <3> QED
      BY ONLY <1>1, <2>2, <2>3, <3>1, <3>2 DEF S
  <2> HIDE DEF m
  <2>7. /\ p \in Seq(AssetStep(k)) /\ Len(p) = n + 6
        /\ \A i \in 1 .. n + 2 : p[i] = m[i]
        /\ \A i \in 1 .. 4 : p[n + 2 + i] = last[i]
    <3>1. p = m \o last
      BY <2>1 DEF m
    <3>0. m \in Seq(S) /\ last \in Seq(S)
      BY <2>4, <2>6
    <3> HIDE DEF S
    <3>2. /\ m \o last \in Seq(S)
          /\ Len(m \o last) = Len(m) + Len(last)
          /\ \A i \in 1 .. Len(m) : (m \o last)[i] = m[i]
          /\ \A i \in 1 .. Len(last) : (m \o last)[Len(m) + i] = last[i]
      BY ONLY <3>0, ConcatFacts
    <3> HIDE DEF p
    <3> QED
      BY ONLY <1>1, <2>4, <2>6, <3>1, <3>2 DEF S
  <2> HIDE DEF p
  <2>8. /\ p[1] = <<"create", k>> /\ p[2] = <<"grantRole", k, "claimManager">>
        /\ p[n + 3] = <<"grantRole", k, "supplyManagement">>
        /\ p[n + 4] = <<"mint", k>> /\ p[n + 5] = <<"transfer", k>> /\ p[n + 6] = <<"burn", k>>
    BY <1>1, <2>2, <2>4, <2>6, <2>7
  <2>9. \A i \in 3 .. n + 2 : i - 2 \in 1 .. n /\ p[i] = <<"addAssetClaim", k, topics[i - 2]>>
    <3> TAKE i \in 3 .. n + 2
    <3>1. i - 2 \in 1 .. n /\ 2 + (i - 2) = i /\ i \in 1 .. n + 2
      BY <1>1
    <3> QED
      BY <3>1, <2>5, <2>6, <2>7
  <2>10. InOrder(p, done)
    <3> SUFFICES ASSUME NEW i \in 1 .. n + 6
                 PROVE  /\ Needed(p[i]) \subseteq done \cup Before(p, i)
                        /\ p[i][1] = "create" => p[i] \notin done \cup Before(p, i)
      BY <2>7 DEF InOrder
    <3>1. CASE i = 1
      <4>1. Before(p, i) = {}
        BY <3>1 DEF Before
      <4>2. p[i] = <<"create", k>> /\ p[i][1] = "create" /\ p[i][2] = k
        BY <2>8, <3>1
      <4>3. Needed(p[i]) = IF k = "bond" THEN {<<"create", "deposit">>} ELSE {}
        BY ONLY <4>2, NeededFacts
      <4> QED
        BY <1>3, <4>1, <4>2, <4>3
    <3>2. CASE i = 2
      <4>1. p[1] \in Before(p, i)
        BY <3>2 DEF Before
      <4>2. p[i][1] = "grantRole" /\ p[i][2] = k
        BY <2>8, <3>2
      <4>3. Needed(p[i]) = {<<"create", k>>}
        BY ONLY <4>2, NeededFacts
      <4>4. p[i][1] # "create"
        BY ONLY <4>2
      <4> QED
        BY ONLY <2>8, <4>1, <4>3, <4>4
    <3>3. CASE i \in 3 .. n + 2
      <4>1. p[2] \in Before(p, i)
        BY <1>1, <3>3 DEF Before
      <4>2. p[i][1] = "addAssetClaim" /\ p[i][2] = k
        BY <2>9, <3>3
      <4>3. Needed(p[i]) = {<<"grantRole", k, "claimManager">>}
        BY ONLY <4>2, NeededFacts
      <4>4. p[i][1] # "create"
        BY ONLY <4>2
      <4> QED
        BY ONLY <2>8, <4>1, <4>3, <4>4
    <3>4. CASE i = n + 3
      <4>1. p[1] \in Before(p, i)
        BY <1>1, <3>4 DEF Before
      <4>2. p[i][1] = "grantRole" /\ p[i][2] = k
        BY <2>8, <3>4
      <4>3. Needed(p[i]) = {<<"create", k>>}
        BY ONLY <4>2, NeededFacts
      <4>4. p[i][1] # "create"
        BY ONLY <4>2
      <4> QED
        BY ONLY <2>8, <4>1, <4>3, <4>4
    <3>5. CASE i = n + 4
      <4>1. p[n + 3] \in Before(p, i)
        BY <1>1, <3>5 DEF Before
      <4>2. k \in Collateralised => <<"addAssetClaim", k, "collateral">> \in Before(p, i)
        <5> HAVE k \in Collateralised
        <5>1. PICK j \in 1 .. n : topics[j] = "collateral"
          BY <1>1 DEF Suits, ToSet
        <5>2. j + 2 \in 3 .. n + 2 /\ (j + 2) - 2 = j /\ j + 2 \in 1 .. i - 1
          BY <1>1, <3>5
        <5>3. p[j + 2] = <<"addAssetClaim", k, "collateral">>
          BY <2>9, <5>1, <5>2
        <5> QED
          BY <5>2, <5>3 DEF Before
      <4>3. p[i][1] = "mint" /\ p[i][2] = k
        BY <2>8, <3>5
      <4>4. Needed(p[i]) = {<<"grantRole", k, "supplyManagement">>}
                \cup IF k \in Collateralised THEN {<<"addAssetClaim", k, "collateral">>} ELSE {}
        BY ONLY <4>3, NeededFacts
      <4>5. p[i][1] # "create"
        BY ONLY <4>3
      <4> QED
        BY ONLY <2>8, <4>1, <4>2, <4>4, <4>5
    <3>6. CASE i = n + 5
      <4>1. p[n + 4] \in Before(p, i)
        BY <1>1, <3>6 DEF Before
      <4>2. p[i][1] = "transfer" /\ p[i][2] = k
        BY <2>8, <3>6
      <4>3. Needed(p[i]) = {<<"mint", k>>}
        BY ONLY <4>2, NeededFacts
      <4>4. p[i][1] # "create"
        BY ONLY <4>2
      <4> QED
        BY ONLY <2>8, <4>1, <4>3, <4>4
    <3>7. CASE i = n + 6
      <4>1. p[n + 5] \in Before(p, i)
        BY <1>1, <3>7 DEF Before
      <4>2. p[i][1] = "burn" /\ p[i][2] = k
        BY <2>8, <3>7
      <4>3. Needed(p[i]) = {<<"transfer", k>>}
        BY ONLY <4>2, NeededFacts
      <4>4. p[i][1] # "create"
        BY ONLY <4>2
      <4> QED
        BY ONLY <2>8, <4>1, <4>3, <4>4
    <3> QED
      BY <1>1, <3>1, <3>2, <3>3, <3>4, <3>5, <3>6, <3>7
  <2>11. <<"create", k>> \in ToSet(p)
    <3>1. 1 \in DOMAIN p
      BY <1>1, <2>7
    <3> QED
      BY <2>8, <3>1 DEF ToSet
  <2> QED
    BY <1>3, <2>7, <2>10, <2>11 DEF p
<1> QED
  BY <1>2, <1>3

\* Everything that may be done with assets.
AnyAssetStep == UNION {AssetStep(k) : k \in AssetKinds}

\* What such a step is made of.
LEMMA AssetStepFacts ==
    /\ \A k : \A s \in AssetStep(k) :
          /\ s[1] \in AssetTransactions
          /\ s[2] = k
          /\ s[1] = "create" => s = <<"create", k>>
          /\ s[1] = "addAssetClaim" => s[3] \in Topics
    /\ \A s \in AnyAssetStep :
          /\ s[1] \in AssetTransactions
          /\ s[2] \in AssetKinds
          /\ s[1] = "create" => s = <<"create", s[2]>>
          /\ s[1] = "addAssetClaim" => s[3] \in Topics
<1>1. ASSUME NEW k, NEW s \in AssetStep(k)
      PROVE  /\ s[1] \in AssetTransactions
             /\ s[2] = k
             /\ s[1] = "create" => s = <<"create", k>>
             /\ s[1] = "addAssetClaim" => s[3] \in Topics
  BY DEF AssetStep, AssetTransactions
<1> QED
  BY <1>1 DEF AnyAssetStep

\* Steps with assets of the kinds K only, in order.
StepsOf(p, K) ==
    /\ p \in Seq(AnyAssetStep)
    /\ InOrder(p, {})
    /\ \A s \in ToSet(p) : s[2] \in K

\* One more asset keeps the order.
LEMMA AddAsset ==
    ASSUME NEW p, NEW K, StepsOf(p, K),
           NEW k, k \notin K, NEW topics \in Seq(Topics), Suits(k, topics),
           k \in AssetKinds /\ k = "bond" => <<"create", "deposit">> \in ToSet(p)
    PROVE  LET q == p \o AssetSteps(k, topics) IN
           /\ StepsOf(q, K \cup {k})
           /\ ToSet(p) \subseteq ToSet(q)
           /\ k \in AssetKinds => <<"create", k>> \in ToSet(q)
<1> DEFINE a == AssetSteps(k, topics)
           c == <<"create", k>>
<1>0. /\ p \in Seq(AnyAssetStep)
      /\ InOrder(p, {})
      /\ \A s \in ToSet(p) : s[2] \in K
  BY DEF StepsOf
<1>1. c \notin ToSet(p)
  <2>1. c[2] = k
    OBVIOUS
  <2> HIDE DEF c
  <2> QED
    BY <1>0, <2>1
<1>2. /\ a \in Seq(AssetStep(k))
      /\ InOrder(a, ToSet(p))
      /\ k \in AssetKinds => c \in ToSet(a)
      /\ k \notin AssetKinds => a = << >>
  BY <1>1, AssetStepsInOrder
<1> HIDE DEF a, c
<1>3. \A i \in 1 .. Len(a) : a[i] \in AssetStep(k)
  BY <1>2
<1>4. \A s \in ToSet(a) : s[2] = k
  <2>1. \A s \in ToSet(a) : s \in AssetStep(k)
    BY <1>2, <1>3 DEF ToSet
  <2> QED
    BY <2>1, AssetStepFacts
<1>5. a \in Seq(AnyAssetStep)
  <2>1. CASE k \in AssetKinds
    <3>1. AssetStep(k) \subseteq AnyAssetStep
      BY <2>1 DEF AnyAssetStep
    <3> QED
      BY <1>2, <3>1
  <2>2. CASE k \notin AssetKinds
    BY <1>2, <2>2
  <2> QED
    BY <2>1, <2>2
<1>6. InOrder(a, {} \cup ToSet(p))
  <2>1. {} \cup ToSet(p) = ToSet(p)
    OBVIOUS
  <2> QED
    BY <1>2, <2>1
<1>7. /\ p \o a \in Seq(AnyAssetStep)
      /\ ToSet(p \o a) = ToSet(p) \cup ToSet(a)
      /\ InOrder(p \o a, {})
  BY <1>0, <1>5, <1>6, InOrderConcat
<1> QED
  BY <1>0, <1>2, <1>4, <1>7 DEF a, c, StepsOf

\* Whichever kinds of assets there are, the script's steps with them are in order.
LEMMA CreateAssetsInOrder ==
    CreateAssets \in Seq(AnyAssetStep) /\ InOrder(CreateAssets, {})
<1> DEFINE Two(x, y) == <<x, y>>
           One(x) == <<x>>
<1>1. /\ Two("isin", "collateral") \in Seq(Topics)
      /\ Two("isin", "assetClassification") \in Seq(Topics)
      /\ One("isin") \in Seq(Topics)
      /\ "collateral" \in ToSet(Two("isin", "collateral"))
  <2>1. Two("isin", "collateral") \in Seq(Topics) /\ Two("isin", "assetClassification") \in Seq(Topics)
    BY DEF Topics
  <2>2. One("isin") \in Seq(Topics)
    BY DEF Topics
  <2>3. 2 \in DOMAIN Two("isin", "collateral") /\ Two("isin", "collateral")[2] = "collateral"
    OBVIOUS
  <2> HIDE DEF Two
  <2>4. "collateral" \in ToSet(Two("isin", "collateral"))
    BY <2>3 DEF ToSet
  <2> QED
    BY <2>1, <2>2, <2>4
<1>2. /\ CreateDeposit = AssetSteps("deposit", Two("isin", "collateral"))
      /\ CreateEquity = AssetSteps("equity", Two("isin", "assetClassification"))
      /\ CreateBond = AssetSteps("bond", One("isin"))
      /\ CreateFund = AssetSteps("fund", Two("isin", "assetClassification"))
      /\ CreateStablecoin = AssetSteps("stablecoin", Two("isin", "collateral"))
  BY DEF CreateDeposit, CreateEquity, CreateBond, CreateFund, CreateStablecoin
<1>3. /\ \A topics : "collateral" \in ToSet(topics) => \A k : Suits(k, topics)
      /\ \A topics : \A k \in {"equity", "bond", "fund"} : Suits(k, topics)
  BY DEF Suits, Collateralised
<1> HIDE DEF Two, One
<1>4. ASSUME NEW p, NEW K, NEW k, NEW topics, StepsOf(p, K), k \notin K, topics \in Seq(Topics),
             Suits(k, topics),
             k \in AssetKinds /\ k = "bond" => <<"create", "deposit">> \in ToSet(p)
      PROVE  /\ StepsOf(p \o AssetSteps(k, topics), K \cup {k})
             /\ ToSet(p) \subseteq ToSet(p \o AssetSteps(k, topics))
             /\ k \in AssetKinds => <<"create", k>> \in ToSet(p \o AssetSteps(k, topics))
  BY <1>4, AddAsset
<1>5. ASSUME NEW p, NEW K, StepsOf(p, K), "deposit" \notin K
      PROVE  /\ StepsOf(p \o CreateDeposit, K \cup {"deposit"})
             /\ "deposit" \in AssetKinds => <<"create", "deposit">> \in ToSet(p \o CreateDeposit)
  <2>1. "deposit" # "bond"
    OBVIOUS
  <2> QED
    BY <1>1, <1>2, <1>3, <1>4, <1>5, <2>1
<1>6. ASSUME NEW p, NEW K, StepsOf(p, K), "equity" \notin K
      PROVE  /\ StepsOf(p \o CreateEquity, K \cup {"equity"})
             /\ ToSet(p) \subseteq ToSet(p \o CreateEquity)
  <2>1. "equity" # "bond" /\ "equity" \in {"equity", "bond", "fund"}
    OBVIOUS
  <2> QED
    BY <1>1, <1>2, <1>3, <1>4, <1>6, <2>1
<1>7. ASSUME NEW p, NEW K, StepsOf(p, K), "bond" \notin K,
             "deposit" \in AssetKinds => <<"create", "deposit">> \in ToSet(p)
      PROVE  StepsOf(p \o CreateBond, K \cup {"bond"})
  <2>1. "bond" \in {"equity", "bond", "fund"}
    OBVIOUS
  <2> QED
    BY <1>1, <1>2, <1>3, <1>4, <1>7, <2>1, OnboardingAssumption
<1>8. ASSUME NEW p, NEW K, StepsOf(p, K), "fund" \notin K
      PROVE  StepsOf(p \o CreateFund, K \cup {"fund"})
  <2>1. "fund" # "bond" /\ "fund" \in {"equity", "bond", "fund"}
    OBVIOUS
  <2> QED
    BY <1>1, <1>2, <1>3, <1>4, <1>8, <2>1
<1>9. ASSUME NEW p, NEW K, StepsOf(p, K), "stablecoin" \notin K
      PROVE  StepsOf(p \o CreateStablecoin, K \cup {"stablecoin"})
  <2>1. "stablecoin" # "bond"
    OBVIOUS
  <2> QED
    BY <1>1, <1>2, <1>3, <1>4, <1>9, <2>1
<1>10. StepsOf(<< >>, {})
  <2>1. << >> \in Seq(AnyAssetStep) /\ Len(<< >>) = 0 /\ DOMAIN << >> = {}
    OBVIOUS
  <2> QED
    BY <2>1 DEF InOrder, ToSet, StepsOf
<1>11. << >> \o CreateDeposit = CreateDeposit
  <2> DEFINE topics == Two("isin", "collateral")
             done == {}
  <2>1. /\ topics \in Seq(Topics) /\ Suits("deposit", topics)
        /\ <<"create", "deposit">> \notin done /\ "deposit" # "bond"
    BY <1>1, <1>3
  <2> HIDE DEF topics, done
  <2>2. AssetSteps("deposit", topics) \in Seq(AssetStep("deposit"))
    BY ONLY <2>1, AssetStepsInOrder
  <2>3. CreateDeposit \in Seq(AssetStep("deposit"))
    BY <1>2, <2>2 DEF topics
  <2> QED
    BY <2>3
<1> DEFINE p1 == CreateDeposit
           p2 == p1 \o CreateEquity
           p3 == p2 \o CreateBond
           p4 == p3 \o CreateFund
           p5 == p4 \o CreateStablecoin
<1>12. /\ StepsOf(p1, {} \cup {"deposit"})
       /\ "deposit" \in AssetKinds => <<"create", "deposit">> \in ToSet(p1)
  <2>1. "deposit" \notin {}
    OBVIOUS
  <2>2. StepsOf(<< >> \o CreateDeposit, {} \cup {"deposit"})
    BY <1>5, <1>10, <2>1
  <2>3. "deposit" \in AssetKinds => <<"create", "deposit">> \in ToSet(<< >> \o CreateDeposit)
    BY <1>5, <1>10, <2>1
  <2> QED
    BY <1>11, <2>2, <2>3
<1>13. {} \cup {"deposit"} = {"deposit"}
  OBVIOUS
<1> HIDE DEF p1
<1>14. /\ StepsOf(p2, {"deposit"} \cup {"equity"})
       /\ ToSet(p1) \subseteq ToSet(p2)
  BY <1>6, <1>12, <1>13
<1> HIDE DEF p2
<1>15. StepsOf(p3, ({"deposit"} \cup {"equity"}) \cup {"bond"})
  BY <1>7, <1>12, <1>14
<1> HIDE DEF p3
<1>16. StepsOf(p4, (({"deposit"} \cup {"equity"}) \cup {"bond"}) \cup {"fund"})
  BY <1>8, <1>15
<1> HIDE DEF p4
<1>17. StepsOf(p5, ((({"deposit"} \cup {"equity"}) \cup {"bond"}) \cup {"fund"}) \cup {"stablecoin"})
  BY <1>9, <1>16
<1>18. CreateAssets = p5
  BY DEF CreateAssets, p1, p2, p3, p4
<1> HIDE DEF p5
<1> QED
  BY <1>17, <1>18 DEF StepsOf

\* The steps of main: eight of its own, then those with the assets.
LEMMA MainStepsFacts ==
    /\ Len(MainSteps) \in Nat /\ Len(MainSteps) >= 8
    /\ DOMAIN MainSteps = 1 .. Len(MainSteps)
    /\ MainSteps[1] = <<"setUp">> /\ MainSteps[2] = <<"initialize">>
    /\ MainSteps[3] = <<"getIdentities", Registered>>
    /\ MainSteps[4] = <<"batchRegisterIdentity">>
    /\ MainSteps[5] = <<"loadTopics">>
    /\ MainSteps[6] = <<"getIdentities", <<"claimIssuer">> >>
    /\ MainSteps[7] = <<"addTrustedIssuer">> /\ MainSteps[8] = <<"verify">>
    /\ \A i \in 9 .. Len(MainSteps) :
          /\ MainSteps[i] \in AnyAssetStep
          /\ Needed(MainSteps[i]) \subseteq {MainSteps[j] : j \in 9 .. i - 1}
          /\ MainSteps[i][1] = "create" => \A j \in 9 .. i - 1 : MainSteps[j] # MainSteps[i]
<1> DEFINE own == << <<"setUp">>, <<"initialize">>,
                     <<"getIdentities", Registered>>, <<"batchRegisterIdentity">>,
                     <<"loadTopics">>,
                     <<"getIdentities", <<"claimIssuer">> >>, <<"addTrustedIssuer">>,
                     <<"verify">> >>
           Own == { <<"setUp">>, <<"initialize">>,
                    <<"getIdentities", Registered>>, <<"batchRegisterIdentity">>,
                    <<"loadTopics">>,
                    <<"getIdentities", <<"claimIssuer">> >>, <<"addTrustedIssuer">>,
                    <<"verify">> }
           S == Own \cup AnyAssetStep
           n == Len(CreateAssets)
<1>1. /\ own \in Seq(Own) /\ Len(own) = 8
      /\ own[1] = <<"setUp">> /\ own[2] = <<"initialize">>
      /\ own[3] = <<"getIdentities", Registered>> /\ own[4] = <<"batchRegisterIdentity">>
      /\ own[5] = <<"loadTopics">> /\ own[6] = <<"getIdentities", <<"claimIssuer">> >>
      /\ own[7] = <<"addTrustedIssuer">> /\ own[8] = <<"verify">>
  OBVIOUS
<1>2. MainSteps = own \o CreateAssets
  BY DEF MainSteps
<1>3. /\ CreateAssets \in Seq(AnyAssetStep) /\ n \in Nat
      /\ \A i \in 1 .. n : CreateAssets[i] \in AnyAssetStep
  BY CreateAssetsInOrder
<1>4. own \in Seq(S) /\ CreateAssets \in Seq(S)
  <2>1. Own \subseteq S /\ AnyAssetStep \subseteq S
    OBVIOUS
  <2> HIDE DEF own, Own, S
  <2> QED
    BY <1>1, <1>3, <2>1
<1> HIDE DEF own, Own, S, n
<1>5. /\ own \o CreateAssets \in Seq(S)
      /\ Len(own \o CreateAssets) = Len(own) + Len(CreateAssets)
      /\ \A i \in 1 .. Len(own) : (own \o CreateAssets)[i] = own[i]
      /\ \A i \in 1 .. Len(CreateAssets) : (own \o CreateAssets)[Len(own) + i] = CreateAssets[i]
  BY ONLY <1>4, ConcatFacts
<1>6. /\ MainSteps \in Seq(S) /\ Len(MainSteps) = 8 + n
      /\ \A i \in 1 .. 8 : MainSteps[i] = own[i]
      /\ \A i \in 1 .. n : MainSteps[8 + i] = CreateAssets[i]
  BY ONLY <1>1, <1>2, <1>5 DEF n
<1>7. /\ Len(MainSteps) \in Nat /\ Len(MainSteps) >= 8
      /\ DOMAIN MainSteps = 1 .. Len(MainSteps)
  BY ONLY <1>3, <1>6
<1>8. /\ MainSteps[1] = own[1] /\ MainSteps[2] = own[2] /\ MainSteps[3] = own[3]
      /\ MainSteps[4] = own[4] /\ MainSteps[5] = own[5] /\ MainSteps[6] = own[6]
      /\ MainSteps[7] = own[7] /\ MainSteps[8] = own[8]
  BY ONLY <1>6
<1>9. ASSUME NEW i \in 9 .. Len(MainSteps)
      PROVE  /\ MainSteps[i] \in AnyAssetStep
             /\ Needed(MainSteps[i]) \subseteq {MainSteps[j] : j \in 9 .. i - 1}
             /\ MainSteps[i][1] = "create" => \A j \in 9 .. i - 1 : MainSteps[j] # MainSteps[i]
  <2> DEFINE k == i - 8
  <2>1. k \in 1 .. n /\ 8 + k = i
    BY ONLY <1>3, <1>6, i \in 9 .. Len(MainSteps)
  <2>2. MainSteps[i] = CreateAssets[k] /\ CreateAssets[k] \in AnyAssetStep
    BY ONLY <1>3, <1>6, <2>1
  <2>3. Before(CreateAssets, k) = {MainSteps[j] : j \in 9 .. i - 1}
    <3>1. \A j \in 1 .. k - 1 : 8 + j \in 9 .. i - 1 /\ MainSteps[8 + j] = CreateAssets[j]
      BY ONLY <1>3, <1>6, <2>1
    <3>2. \A j \in 9 .. i - 1 : j - 8 \in 1 .. k - 1 /\ 8 + (j - 8) = j
      BY ONLY <1>3, <2>1
    <3>3. \A j \in 9 .. i - 1 : j - 8 \in 1 .. k - 1 /\ MainSteps[j] = CreateAssets[j - 8]
      <4> TAKE j \in 9 .. i - 1
      <4> QED
        BY <3>1, <3>2
    <3> QED
      BY <3>1, <3>3 DEF Before
  <2>4. /\ Needed(CreateAssets[k]) \subseteq {} \cup Before(CreateAssets, k)
        /\ CreateAssets[k][1] = "create" => CreateAssets[k] \notin {} \cup Before(CreateAssets, k)
    BY <2>1, CreateAssetsInOrder DEF InOrder, n
  <2> HIDE DEF k
  <2> QED
    BY <2>2, <2>3, <2>4
<1> QED
  BY <1>1, <1>7, <1>8, <1>9

\* How long the tasks are, and which of their steps await something else
\* than a transaction.
LEMMA TaskStepsFacts ==
    /\ \A t \in Tasks : Len(Steps[t]) \in Nat /\ Len(Steps[t]) >= 1
                        /\ DOMAIN Steps[t] = 1 .. Len(Steps[t])
    /\ Len(Steps[Main]) >= 8
    /\ \A i \in DOMAIN Steps[Main] : Steps[Main][i][1] \in Waits <=> i \in {1, 2, 3, 5, 6, 8}
    /\ \A a \in Actors :
          /\ Len(Steps[Identity(a)]) = 1
          /\ Steps[Identity(a)][1] = <<"createIdentity", a>>
    /\ \A a \in RegisteredActors :
          /\ Len(Steps[Verification(a)]) = 3
          /\ Steps[Verification(a)][1] = <<"addClaim", a, "kyc">>
          /\ Steps[Verification(a)][2] = <<"addClaim", a, "aml">>
          /\ Steps[Verification(a)][3] = <<"isVerified", a>>
<1>1. ASSUME NEW i \in DOMAIN Steps[Main]
      PROVE  Steps[Main][i][1] \in Waits <=> i \in {1, 2, 3, 5, 6, 8}
  <2>1. Steps[Main] = MainSteps /\ i \in 1 .. Len(MainSteps)
    BY StepsFacts, MainStepsFacts
  <2>2. CASE i \in 9 .. Len(MainSteps)
    <3>1. MainSteps[i][1] \in AssetTransactions
      BY <2>2, MainStepsFacts, AssetStepFacts
    <3>2. MainSteps[i][1] \notin Waits /\ i \notin {1, 2, 3, 5, 6, 8}
      BY <2>2, <3>1 DEF AssetTransactions, Waits
    <3> QED
      BY <2>1, <3>2
  <2>3. CASE i = 1
    BY <2>1, <2>3, MainStepsFacts DEF Waits
  <2>4. CASE i = 2
    BY <2>1, <2>4, MainStepsFacts DEF Waits
  <2>5. CASE i = 3
    BY <2>1, <2>5, MainStepsFacts DEF Waits
  <2>6. CASE i = 4
    BY <2>1, <2>6, MainStepsFacts DEF Waits
  <2>7. CASE i = 5
    BY <2>1, <2>7, MainStepsFacts DEF Waits
  <2>8. CASE i = 6
    BY <2>1, <2>8, MainStepsFacts DEF Waits
  <2>9. CASE i = 7
    BY <2>1, <2>9, MainStepsFacts DEF Waits
  <2>10. CASE i = 8
    BY <2>1, <2>10, MainStepsFacts DEF Waits
  <2>11. i \in 1 .. 8 \/ i \in 9 .. Len(MainSteps)
    BY <2>1, MainStepsFacts
  <2> QED
    BY <2>2, <2>3, <2>4, <2>5, <2>6, <2>7, <2>8, <2>9, <2>10, <2>11
<1>2. ASSUME NEW a \in Actors
      PROVE  /\ Len(Steps[Identity(a)]) = 1
             /\ DOMAIN Steps[Identity(a)] = 1 .. 1
             /\ Steps[Identity(a)][1] = <<"createIdentity", a>>
  <2>1. Steps[Identity(a)] = << <<"createIdentity", a>> >>
    BY StepsFacts
  <2> QED
    BY ONLY <2>1
<1>3. ASSUME NEW a \in RegisteredActors
      PROVE  /\ Len(Steps[Verification(a)]) = 3
             /\ DOMAIN Steps[Verification(a)] = 1 .. 3
             /\ Steps[Verification(a)][1] = <<"addClaim", a, "kyc">>
             /\ Steps[Verification(a)][2] = <<"addClaim", a, "aml">>
             /\ Steps[Verification(a)][3] = <<"isVerified", a>>
  <2>1. Steps[Verification(a)] =
           << <<"addClaim", a, "kyc">>, <<"addClaim", a, "aml">>, <<"isVerified", a>> >>
    BY StepsFacts DEF VerificationSteps
  <2> QED
    BY ONLY <2>1
<1>4. /\ Len(Steps[Main]) \in Nat /\ Len(Steps[Main]) >= 8
      /\ DOMAIN Steps[Main] = 1 .. Len(Steps[Main])
  BY StepsFacts, MainStepsFacts
<1>5. ASSUME NEW t \in Tasks
      PROVE  Len(Steps[t]) \in Nat /\ Len(Steps[t]) >= 1 /\ DOMAIN Steps[t] = 1 .. Len(Steps[t])
  BY <1>2, <1>3, <1>4, TaskFacts
<1> QED
  BY <1>1, <1>2, <1>3, <1>4, <1>5

-----------------------------------------------------------------------------
(* How the tasks of a process go along with one another.                   *)

AllActors == Registered \o <<"claimIssuer">>

\* A task is at one of its steps, or before or after them; it sends at a step
\* that is a transaction, in its turn; and one that failed is over.
TasksWellFormed ==
    /\ pc \in [Tasks -> Nat]
    /\ \A t \in Tasks : pc[t] <= Len(Steps[t]) + 1
    /\ tx \in [Tasks -> {"none", "sent", "success", "reverted"}]
    /\ rejected \subseteq Tasks
    /\ \A t \in rejected : pc[t] = 0
    /\ \A t \in Tasks :
          tx[t] # "none" => pc[t] \in DOMAIN Steps[t] /\ Step(t)[1] \notin Waits /\ Turn(t)

\* Nothing is left of a process that ended.
NothingLeft ==
    process # "running" =>
        /\ \A t \in Tasks : pc[t] = 0 /\ t \notin rejected
        /\ identityCreationQueue = << >>

RegisteredResolved == \A a \in RegisteredActors : Resolved(Identity(a))

\* Main asks for the registered actors' identities, then for the claim issuer's.
QueueFollowsMain ==
    /\ identityCreationQueue \in {<< >>, Registered, AllActors}
    /\ pc[Main] \in {1, 2} => identityCreationQueue = << >>
    /\ pc[Main] \in {3, 4, 5} => identityCreationQueue # AllActors
    /\ \A a \in Actors :
          pc[Identity(a)] # 0 \/ Identity(a) \in rejected => a \in ToSet(identityCreationQueue)
    /\ identityCreationQueue = AllActors => RegisteredResolved

\* Main goes on from a Promise.all, and verifications begin, when what they
\* wait for is done.
MainAwaits ==
    /\ pc[Main] > 3 => RegisteredResolved
    /\ pc[Main] > 6 => Resolved(Identity("claimIssuer"))
    /\ \A a \in RegisteredActors :
          /\ pc[Main] \in 1 .. 7 => pc[Verification(a)] = 0
          /\ pc[Verification(a)] # 0 => \A b \in Actors : Resolved(Identity(b))
          /\ pc[Main] > 8 => Resolved(Verification(a))

FlowInv ==
    /\ TasksWellFormed
    /\ NothingLeft
    /\ QueueFollowsMain
    /\ MainAwaits

\* The queue has an actor at most once.
LEMMA QueueFacts ==
    /\ ToSet(<< >>) = {}
    /\ DOMAIN << >> = {}
    /\ DOMAIN Registered = 1 .. 3
    /\ Registered[1] = "owner" /\ Registered[2] = "investorA" /\ Registered[3] = "investorB"
    /\ DOMAIN AllActors = 1 .. 4
    /\ \A i \in 1 .. 3 : AllActors[i] = Registered[i]
    /\ AllActors[4] = "claimIssuer"
    /\ ToSet(AllActors) = Actors
    /\ Registered # << >> /\ AllActors # << >> /\ Registered # AllActors
<1>1. /\ DOMAIN Registered = 1 .. 3 /\ Len(Registered) = 3
      /\ Registered[1] = "owner" /\ Registered[2] = "investorA" /\ Registered[3] = "investorB"
  BY DEF Registered
<1>2. /\ DOMAIN AllActors = 1 .. 4 /\ Len(AllActors) = 4
      /\ \A i \in 1 .. 3 : AllActors[i] = Registered[i]
      /\ AllActors[4] = "claimIssuer"
  <2> DEFINE last == <<"claimIssuer">>
             S == Actors
  <2>1. Registered \in Seq(S)
    BY DEF Registered, Actors
  <2>2. last \in Seq(S)
    BY DEF Actors
  <2>5. Len(last) = 1 /\ last[1] = "claimIssuer"
    OBVIOUS
  <2> HIDE DEF last, S
  <2>3. /\ Registered \o last \in Seq(S)
        /\ Len(Registered \o last) = Len(Registered) + Len(last)
        /\ \A i \in 1 .. Len(Registered) : (Registered \o last)[i] = Registered[i]
        /\ \A i \in 1 .. Len(last) : (Registered \o last)[Len(Registered) + i] = last[i]
    BY ONLY <2>1, <2>2, ConcatFacts
  <2>4. AllActors = Registered \o last
    BY DEF AllActors, last
  <2> QED
    BY ONLY <1>1, <2>3, <2>4, <2>5
<1>3. ToSet(AllActors) = Actors
  <2>1. ToSet(AllActors) = {AllActors[i] : i \in 1 .. 4}
    BY <1>2 DEF ToSet
  <2>2. /\ AllActors[1] = "owner" /\ AllActors[2] = "investorA"
        /\ AllActors[3] = "investorB" /\ AllActors[4] = "claimIssuer"
    BY <1>1, <1>2
  <2>3. 1 .. 4 = {1, 2, 3, 4}
    OBVIOUS
  <2> QED
    BY <2>1, <2>2, <2>3 DEF Actors
<1>4. DOMAIN << >> = {}
  OBVIOUS
<1>5. ToSet(<< >>) = {}
  BY <1>4 DEF ToSet
<1>6. Registered # << >> /\ AllActors # << >> /\ Registered # AllActors
  <2>1. 1 \in DOMAIN Registered /\ 1 \in DOMAIN AllActors /\ 4 \in DOMAIN AllActors /\ 4 \notin DOMAIN Registered
    BY <1>1, <1>2
  <2> QED
    BY <1>4, <2>1
<1> QED
  BY <1>1, <1>2, <1>3, <1>4, <1>5, <1>6

\* A task whose turn it is keeps it while others settle.
LEMMA TurnKept ==
    ASSUME UNCHANGED identityCreationQueue,
           \A a \in Actors : Settled(Identity(a)) => Settled(Identity(a))',
           ToSet(identityCreationQueue) \subseteq Actors,
           NEW t, Turn(t)
    PROVE  Turn(t)'
<1>1. \A i \in DOMAIN identityCreationQueue : identityCreationQueue[i] \in Actors
  BY DEF ToSet
<1> DEFINE q == identityCreationQueue
<1> SUFFICES ASSUME t[1] = "identity", NEW i \in DOMAIN q
             PROVE  \/ Settled(Identity(q[i]))'
                    \/ \E j \in 1 .. i : q[j] = t[2]
  BY DEF Turn
<1> QED
  BY <1>1 DEF Turn

\* Nothing of the tasks changes but what one knows of its transaction.
LEMMA TxKeepsFlow ==
    ASSUME FlowInv, UNCHANGED <<process, pc, rejected, identityCreationQueue>>,
           NEW t \in Tasks, NEW x \in {"none", "sent", "success", "reverted"},
           pc[t] \in DOMAIN Steps[t], Step(t)[1] \notin Waits, Turn(t),
           tx' = [tx EXCEPT ![t] = x]
    PROVE  FlowInv'
<1>1. TasksWellFormed'
  <2>1. \A u \in Tasks : Step(u)' = Step(u) /\ Turn(u)' = Turn(u)
    BY DEF Step, Turn, Settled, Resolved
  <2> QED
    BY <2>1 DEF FlowInv, TasksWellFormed
<1>2. NothingLeft' /\ QueueFollowsMain' /\ MainAwaits'
  BY DEF FlowInv, NothingLeft, QueueFollowsMain, MainAwaits, RegisteredResolved, Resolved
<1> QED
  BY <1>1, <1>2 DEF FlowInv

\* A task goes on to its next step, for main when what it waits for is done.
LEMMA AdvanceKeepsFlow ==
    ASSUME FlowInv, process = "running", UNCHANGED <<process, rejected, identityCreationQueue>>,
           NEW t \in Tasks, pc[t] \in DOMAIN Steps[t],
           pc' = Advanced(t), tx' = [tx EXCEPT ![t] = "none"],
           t = Main /\ pc[t] = 3 => RegisteredResolved,
           t = Main /\ pc[t] = 6 => Resolved(Identity("claimIssuer")),
           t = Main /\ pc[t] = 8 => \A a \in RegisteredActors : Resolved(Verification(a))
    PROVE  FlowInv'
<1>1. /\ pc \in [Tasks -> Nat] /\ pc' \in [Tasks -> Nat]
      /\ pc'[t] = pc[t] + 1
      /\ \A u \in Tasks : u # t => pc'[u] = pc[u]
      /\ pc[t] >= 1 /\ pc[t] <= Len(Steps[t])
      /\ \A u \in Tasks : Len(Steps[u]) \in Nat
      /\ t \notin rejected
  BY TaskStepsFacts DEF FlowInv, TasksWellFormed, Advanced
<1>2. \A u \in Tasks : Resolved(u) => Resolved(u)'
  BY <1>1 DEF Resolved
<1>3. \A u \in Tasks : Settled(u) => Settled(u)'
  BY <1>2 DEF Settled
<1>4. \A u \in Tasks : Turn(u) => Turn(u)'
  <2>1. \A a \in Actors : Settled(Identity(a)) => Settled(Identity(a))'
    BY <1>3, TaskFacts
  <2>2. ToSet(identityCreationQueue) \subseteq Actors
    BY QueueFacts, RegisteredFacts DEF FlowInv, QueueFollowsMain
  <2> QED
    BY <2>1, <2>2, TurnKept
<1>5. TasksWellFormed'
  <2>1. /\ pc' \in [Tasks -> Nat]
        /\ \A u \in Tasks : pc'[u] <= Len(Steps[u]) + 1
        /\ tx' \in [Tasks -> {"none", "sent", "success", "reverted"}]
        /\ rejected \subseteq Tasks
        /\ \A u \in rejected : pc'[u] = 0
    <3>1. /\ \A u \in Tasks : pc[u] <= Len(Steps[u]) + 1
          /\ tx \in [Tasks -> {"none", "sent", "success", "reverted"}]
          /\ rejected \subseteq Tasks
          /\ \A u \in rejected : pc[u] = 0
      BY DEF FlowInv, TasksWellFormed
    <3>2. ASSUME NEW u \in Tasks PROVE pc'[u] <= Len(Steps[u]) + 1
      <4>1. CASE u = t
        BY <1>1, <4>1
      <4>2. CASE u # t
        BY <1>1, <3>1, <4>2
      <4> QED
        BY <4>1, <4>2
    <3>3. tx' \in [Tasks -> {"none", "sent", "success", "reverted"}]
      BY <3>1
    <3>4. \A u \in rejected : u # t /\ u \in Tasks /\ pc'[u] = 0
      BY <1>1, <3>1
    <3> QED
      BY <1>1, <3>1, <3>2, <3>3, <3>4
  <2>2. ASSUME NEW u \in Tasks, tx'[u] # "none"
        PROVE  pc'[u] \in DOMAIN Steps[u] /\ Step(u)'[1] \notin Waits /\ Turn(u)'
    <3>1. u # t /\ tx'[u] = tx[u] /\ pc'[u] = pc[u]
      BY <1>1, <2>2 DEF FlowInv, TasksWellFormed
    <3>2. pc[u] \in DOMAIN Steps[u] /\ Step(u)[1] \notin Waits /\ Turn(u)
      BY <2>2, <3>1 DEF FlowInv, TasksWellFormed
    <3> QED
      BY <1>4, <3>1, <3>2 DEF Step
  <2> QED
    BY <2>1, <2>2 DEF TasksWellFormed
<1>6. NothingLeft'
  BY DEF NothingLeft
<1>7. RegisteredResolved => RegisteredResolved'
  BY <1>2, TaskFacts, RegisteredFacts DEF RegisteredResolved
<1>8. \A a \in Actors : pc'[Identity(a)] # 0 => pc[Identity(a)] # 0
  BY <1>1, TaskFacts
<1>9. QueueFollowsMain'
  <2>1. \/ pc'[Main] = pc[Main]
        \/ t = Main /\ pc'[Main] = pc[Main] + 1 /\ pc[Main] >= 1
    BY <1>1, TaskFacts
  <2>2. pc[Main] \in Nat
    BY <1>1, TaskFacts
  <2>3. /\ pc'[Main] \in {1, 2} => identityCreationQueue = << >>
        /\ pc'[Main] \in {3, 4, 5} => identityCreationQueue # AllActors
    BY <2>1, <2>2, QueueFacts DEF FlowInv, QueueFollowsMain
  <2> QED
    BY <1>7, <1>8, <2>3 DEF FlowInv, QueueFollowsMain
<1>10. MainAwaits'
  <2>1. \/ pc'[Main] = pc[Main]
        \/ t = Main /\ pc'[Main] = pc[Main] + 1 /\ pc[Main] >= 1
    BY <1>1, TaskFacts
  <2>2. pc[Main] \in Nat
    BY <1>1, TaskFacts
  <2>3. pc'[Main] > 3 => RegisteredResolved'
    BY <1>7, <2>1, <2>2 DEF FlowInv, MainAwaits
  <2>4. pc'[Main] > 6 => Resolved(Identity("claimIssuer"))'
    <3>1. pc'[Main] > 6 => Resolved(Identity("claimIssuer"))
      BY <2>1, <2>2 DEF FlowInv, MainAwaits
    <3> QED
      BY <1>2, <3>1, TaskFacts, RegisteredFacts
  <2>5. ASSUME NEW a \in RegisteredActors
        PROVE  /\ pc'[Main] \in 1 .. 7 => pc'[Verification(a)] = 0
               /\ pc'[Verification(a)] # 0 => \A b \in Actors : Resolved(Identity(b))'
               /\ pc'[Main] > 8 => Resolved(Verification(a))'
    <3>1. Verification(a) \in Tasks /\ Verification(a) # Main
      BY TaskFacts
    <3>2. pc'[Verification(a)] # 0 => pc[Verification(a)] # 0
      BY <1>1, <3>1
    <3>3. pc'[Verification(a)] # 0 => \A b \in Actors : Resolved(Identity(b))'
      <4> HAVE pc'[Verification(a)] # 0
      <4>1. \A b \in Actors : Resolved(Identity(b))
        BY <3>2 DEF FlowInv, MainAwaits
      <4> QED
        BY <1>2, <4>1, TaskFacts
    <3>4. pc'[Main] \in 1 .. 7 => pc'[Verification(a)] = 0
      <4> HAVE pc'[Main] \in 1 .. 7
      <4>1. pc[Main] \in 1 .. 7
        BY <2>1, <2>2
      <4>2. pc[Verification(a)] = 0
        BY <4>1 DEF FlowInv, MainAwaits
      <4> QED
        BY <3>2, <4>2
    <3>5. pc'[Main] > 8 => Resolved(Verification(a))
      BY <2>1, <2>2 DEF FlowInv, MainAwaits
    <3> QED
      BY <1>2, <3>1, <3>3, <3>4, <3>5
  <2> QED
    BY <2>3, <2>4, <2>5 DEF MainAwaits, RegisteredResolved
<1> QED
  BY <1>5, <1>6, <1>9, <1>10 DEF FlowInv

\* A task fails.
LEMMA FailKeepsFlow ==
    ASSUME FlowInv, process = "running", UNCHANGED process,
           NEW t \in Tasks, pc[t] \in DOMAIN Steps[t], Fail(t)
    PROVE  FlowInv'
<1>1. /\ pc \in [Tasks -> Nat] /\ pc' \in [Tasks -> Nat]
      /\ pc'[t] = 0 /\ rejected' = rejected \cup {t}
      /\ \A u \in Tasks : u # t => pc'[u] = pc[u]
      /\ pc[t] >= 1 /\ pc[t] <= Len(Steps[t])
      /\ \A u \in Tasks : Len(Steps[u]) \in Nat
      /\ tx' = [tx EXCEPT ![t] = "none"]
      /\ UNCHANGED identityCreationQueue
  BY TaskStepsFacts DEF FlowInv, TasksWellFormed, Fail
<1>2. \A u \in Tasks : Resolved(u) => Resolved(u)'
  BY <1>1 DEF Resolved
<1>3. \A u \in Tasks : Settled(u) => Settled(u)'
  BY <1>1, <1>2 DEF Settled
<1>4. \A u \in Tasks : Turn(u) => Turn(u)'
  <2>1. \A a \in Actors : Settled(Identity(a)) => Settled(Identity(a))'
    BY <1>3, TaskFacts
  <2>2. ToSet(identityCreationQueue) \subseteq Actors
    BY QueueFacts, RegisteredFacts DEF FlowInv, QueueFollowsMain
  <2> QED
    BY <1>1, <2>1, <2>2, TurnKept
<1>5. TasksWellFormed'
  <2>1. /\ pc' \in [Tasks -> Nat]
        /\ \A u \in Tasks : pc'[u] <= Len(Steps[u]) + 1
        /\ tx' \in [Tasks -> {"none", "sent", "success", "reverted"}]
        /\ rejected' \subseteq Tasks
        /\ \A u \in rejected' : pc'[u] = 0
    BY <1>1 DEF FlowInv, TasksWellFormed
  <2>2. ASSUME NEW u \in Tasks, tx'[u] # "none"
        PROVE  pc'[u] \in DOMAIN Steps[u] /\ Step(u)'[1] \notin Waits /\ Turn(u)'
    <3>1. u # t /\ tx'[u] = tx[u] /\ pc'[u] = pc[u]
      BY <1>1, <2>2 DEF FlowInv, TasksWellFormed
    <3>2. pc[u] \in DOMAIN Steps[u] /\ Step(u)[1] \notin Waits /\ Turn(u)
      BY <2>2, <3>1 DEF FlowInv, TasksWellFormed
    <3> QED
      BY <1>4, <3>1, <3>2 DEF Step
  <2> QED
    BY <2>1, <2>2 DEF TasksWellFormed
<1>6. NothingLeft'
  BY DEF NothingLeft
<1>7. RegisteredResolved => RegisteredResolved'
  BY <1>2, TaskFacts, RegisteredFacts DEF RegisteredResolved
<1>8. pc'[Main] = pc[Main] \/ pc'[Main] = 0
  BY <1>1, TaskFacts
<1>9. QueueFollowsMain'
  <2>1. ASSUME NEW a \in Actors, pc'[Identity(a)] # 0 \/ Identity(a) \in rejected'
        PROVE  a \in ToSet(identityCreationQueue)
    <3>1. pc[Identity(a)] # 0 \/ Identity(a) \in rejected
      BY <1>1, <2>1, TaskFacts
    <3> QED
      BY <3>1 DEF FlowInv, QueueFollowsMain
  <2> QED
    BY <1>1, <1>7, <1>8, <2>1 DEF FlowInv, QueueFollowsMain
<1>10. MainAwaits'
  <2>1. pc'[Main] > 3 => RegisteredResolved'
    BY <1>7, <1>8 DEF FlowInv, MainAwaits
  <2>2. pc'[Main] > 6 => Resolved(Identity("claimIssuer"))'
    BY <1>2, <1>8, TaskFacts, RegisteredFacts DEF FlowInv, MainAwaits
  <2>3. ASSUME NEW a \in RegisteredActors
        PROVE  /\ pc'[Main] \in 1 .. 7 => pc'[Verification(a)] = 0
               /\ pc'[Verification(a)] # 0 => \A b \in Actors : Resolved(Identity(b))'
               /\ pc'[Main] > 8 => Resolved(Verification(a))'
    <3>1. Verification(a) \in Tasks
      BY TaskFacts
    <3>2. pc'[Verification(a)] # 0 => pc[Verification(a)] # 0
      BY <1>1, <3>1
    <3>3. pc'[Main] \in 1 .. 7 => pc[Verification(a)] = 0
      BY <1>8 DEF FlowInv, MainAwaits
    <3>4. pc[Verification(a)] # 0 => \A b \in Actors : Resolved(Identity(b))'
      BY <1>2, TaskFacts DEF FlowInv, MainAwaits
    <3>5. pc'[Main] > 8 => Resolved(Verification(a))
      BY <1>8 DEF FlowInv, MainAwaits
    <3> QED
      BY <1>2, <3>1, <3>2, <3>3, <3>4, <3>5
  <2> QED
    BY <2>1, <2>2, <2>3 DEF MainAwaits, RegisteredResolved
<1> QED
  BY <1>5, <1>6, <1>9, <1>10 DEF FlowInv

\* Where in main a step stands.
LEMMA MainStepNames ==
    ASSUME NEW i \in DOMAIN Steps[Main]
    PROVE  /\ Steps[Main][i][1] = "setUp" <=> i = 1
           /\ Steps[Main][i][1] = "initialize" <=> i = 2
           /\ Steps[Main][i][1] = "getIdentities" <=> i \in {3, 6}
           /\ Steps[Main][i][1] = "batchRegisterIdentity" <=> i = 4
           /\ Steps[Main][i][1] = "loadTopics" <=> i = 5
           /\ Steps[Main][i][1] = "addTrustedIssuer" <=> i = 7
           /\ Steps[Main][i][1] = "verify" <=> i = 8
           /\ Steps[Main][i][1] \in AssetTransactions <=> i >= 9
           /\ Steps[Main][i][1] \notin {"isVerified", "createIdentity", "addClaim"}
<1>1. Steps[Main] = MainSteps /\ i \in 1 .. Len(MainSteps) /\ Len(MainSteps) \in Nat
  BY StepsFacts, MainStepsFacts
<1>2. CASE i >= 9
  <2>1. i \in 9 .. Len(MainSteps)
    BY <1>1, <1>2
  <2>2. MainSteps[i] \in AnyAssetStep
    BY <2>1, MainStepsFacts
  <2>3. MainSteps[i][1] \in AssetTransactions
    BY <2>2, AssetStepFacts
  <2> DEFINE name == Steps[Main][i][1]
  <2>4. name \in AssetTransactions
    BY <1>1, <2>3
  <2> HIDE DEF name
  <2>5. name \notin {"setUp", "initialize", "getIdentities", "batchRegisterIdentity", "loadTopics",
                     "addTrustedIssuer", "verify", "isVerified", "createIdentity", "addClaim"}
    BY <2>4 DEF AssetTransactions
  <2>6. i \notin {1, 2, 3, 4, 5, 6, 7, 8}
    BY <1>2
  <2> QED
    BY <1>2, <2>4, <2>5, <2>6 DEF name
<1>3. ASSUME i \in 1 .. 8 PROVE i \in {1, 2, 3, 4, 5, 6, 7, 8} /\ ~(i >= 9)
  BY <1>3
<1>4. CASE i = 1
  BY <1>1, <1>3, <1>4, MainStepsFacts DEF AssetTransactions
<1>5. CASE i = 2
  BY <1>1, <1>3, <1>5, MainStepsFacts DEF AssetTransactions
<1>6. CASE i = 3
  BY <1>1, <1>3, <1>6, MainStepsFacts DEF AssetTransactions
<1>7. CASE i = 4
  BY <1>1, <1>3, <1>7, MainStepsFacts DEF AssetTransactions
<1>8. CASE i = 5
  BY <1>1, <1>3, <1>8, MainStepsFacts DEF AssetTransactions
<1>9. CASE i = 6
  BY <1>1, <1>3, <1>9, MainStepsFacts DEF AssetTransactions
<1>10. CASE i = 7
  BY <1>1, <1>3, <1>10, MainStepsFacts DEF AssetTransactions
<1>11. CASE i = 8
  BY <1>1, <1>3, <1>11, MainStepsFacts DEF AssetTransactions
<1>12. i >= 9 \/ i \in 1 .. 8
  BY <1>1
<1> QED
  BY <1>2, <1>3, <1>4, <1>5, <1>6, <1>7, <1>8, <1>9, <1>10, <1>11, <1>12

\* Main asks for the identities of a list.
LEMMA GetIdentitiesKeepsFlow ==
    ASSUME FlowInv, GetIdentities
    PROVE  FlowInv'
<1> DEFINE q == identityCreationQueue
           asked == Step(Main)[2]
<1>1. /\ process = "running"
      /\ pc[Main] \in DOMAIN Steps[Main]
      /\ Steps[Main][pc[Main]][1] = "getIdentities"
      /\ asked = Steps[Main][pc[Main]][2]
      /\ ToSet(asked) \cap ToSet(q) = {}
      /\ q' = q \o asked
      /\ pc' = [t \in Tasks |-> IF t \in {Identity(a) : a \in ToSet(asked)} THEN 1 ELSE pc[t]]
      /\ UNCHANGED <<tx, rejected, process>>
  BY DEF GetIdentities, AtStep, Active, Step, runVars
<1>2. \/ pc[Main] = 3 /\ asked = Registered /\ q = << >> /\ q' = Registered
      \/ pc[Main] = 6 /\ asked = <<"claimIssuer">> /\ q = Registered /\ q' = AllActors
  <2>1. pc[Main] \in {3, 6}
    BY <1>1, MainStepNames
  <2>2. pc[Main] = 3 => asked = Registered
    BY <1>1, StepsFacts, MainStepsFacts
  <2>3. pc[Main] = 6 => asked = <<"claimIssuer">>
    BY <1>1, StepsFacts, MainStepsFacts
  <2> HIDE DEF asked
  <2>4. q \in {<< >>, Registered, AllActors}
    BY DEF FlowInv, QueueFollowsMain
  <2>5. CASE pc[Main] = 3
    <3>1. q # AllActors
      BY <2>5 DEF FlowInv, QueueFollowsMain
    <3>2. q # Registered
      <4>1. "owner" \in ToSet(Registered)
        BY RegisteredFacts DEF RegisteredActors
      <4> QED
        BY <1>1, <2>2, <2>5, <4>1
    <3>3. << >> \o Registered = Registered
      BY DEF Registered
    <3> QED
      BY <1>1, <2>2, <2>4, <2>5, <3>1, <3>2, <3>3
  <2>6. CASE pc[Main] = 6
    <3>1. q # << >>
      <4>1. Resolved(Identity("owner"))
        BY <2>6 DEF FlowInv, MainAwaits, RegisteredResolved, RegisteredActors
      <4>2. "owner" \in Actors
        BY DEF Actors
      <4>3. pc[Identity("owner")] # 0
        BY <4>1, <4>2, TaskFacts, TaskStepsFacts DEF Resolved
      <4>4. "owner" \in ToSet(q)
        BY <4>2, <4>3 DEF FlowInv, QueueFollowsMain
      <4> QED
        BY <4>4, QueueFacts
    <3>2. q # AllActors
      <4>1. "claimIssuer" \in ToSet(AllActors)
        BY QueueFacts, RegisteredFacts
      <4>2. "claimIssuer" \in ToSet(<<"claimIssuer">>)
        <5> DEFINE one == <<"claimIssuer">>
        <5>1. 1 \in DOMAIN one /\ one[1] = "claimIssuer"
          OBVIOUS
        <5> HIDE DEF one
        <5>2. "claimIssuer" \in ToSet(one)
          BY <5>1 DEF ToSet
        <5> QED
          BY <5>2 DEF one
      <4> QED
        BY <1>1, <2>3, <2>6, <4>1, <4>2
    <3> QED
      BY <1>1, <2>3, <2>4, <2>6, <3>1, <3>2 DEF AllActors
  <2> QED
    BY <2>1, <2>5, <2>6
<1> HIDE DEF asked
<1>3. /\ ToSet(asked) \subseteq Actors
      /\ ToSet(q') = ToSet(q) \cup ToSet(asked)
      /\ ToSet(q) \subseteq Actors
      /\ DOMAIN q \subseteq DOMAIN q'
      /\ \A i \in DOMAIN q : q'[i] = q[i]
      /\ q' \in {Registered, AllActors}
      /\ q' = AllActors => pc[Main] = 6
  <2>1. ToSet(<<"claimIssuer">>) = {"claimIssuer"}
    <3> DEFINE one == <<"claimIssuer">>
    <3>1. DOMAIN one = {1} /\ one[1] = "claimIssuer"
      OBVIOUS
    <3> HIDE DEF one
    <3>2. ToSet(one) = {"claimIssuer"}
      BY <3>1 DEF ToSet
    <3> QED
      BY <3>2 DEF one
  <2>2. 1 .. 3 \subseteq 1 .. 4
    OBVIOUS
  <2> QED
    BY <1>2, <2>1, <2>2, QueueFacts, RegisteredFacts
<1>4. /\ \A a \in ToSet(asked) : /\ Identity(a) \in Tasks
                                 /\ pc[Identity(a)] = 0 /\ pc'[Identity(a)] = 1
                                 /\ tx[Identity(a)] = "none" /\ Identity(a) \notin rejected
      /\ \A t \in Tasks : pc'[t] = pc[t] \/ \E a \in ToSet(asked) : t = Identity(a)
      /\ pc'[Main] = pc[Main]
      /\ \A a \in RegisteredActors : pc'[Verification(a)] = pc[Verification(a)]
  <2>1. ASSUME NEW a \in ToSet(asked)
        PROVE  /\ Identity(a) \in Tasks
               /\ pc[Identity(a)] = 0 /\ pc'[Identity(a)] = 1
               /\ tx[Identity(a)] = "none" /\ Identity(a) \notin rejected
    <3>1. a \in Actors /\ a \notin ToSet(q) /\ Identity(a) \in Tasks
      BY <1>1, <1>3, TaskFacts
    <3>2. pc[Identity(a)] = 0 /\ Identity(a) \notin rejected
      BY <3>1 DEF FlowInv, QueueFollowsMain
    <3>3. pc'[Identity(a)] = 1
      BY <1>1, <3>1
    <3>4. tx[Identity(a)] = "none"
      BY <3>1, <3>2, TaskStepsFacts DEF FlowInv, TasksWellFormed
    <3> QED
      BY <3>1, <3>2, <3>3, <3>4
  <2>2. Main \notin {Identity(a) : a \in ToSet(asked)} /\ Main \in Tasks
    BY TaskFacts
  <2>3. \A a \in RegisteredActors : Verification(a) \notin {Identity(b) : b \in ToSet(asked)}
                                    /\ Verification(a) \in Tasks
    BY TaskFacts
  <2>4. \A t \in Tasks : pc'[t] = pc[t] \/ \E a \in ToSet(asked) : t = Identity(a)
    BY <1>1
  <2>5. pc'[Main] = pc[Main]
    BY <1>1, <2>2
  <2>6. \A a \in RegisteredActors : pc'[Verification(a)] = pc[Verification(a)]
    BY <1>1, <2>3
  <2> QED
    BY <2>1, <2>4, <2>5, <2>6
<1>5. \A u \in Tasks : /\ Resolved(u) => Resolved(u)'
                       /\ Settled(u) => Settled(u)'
  <2> TAKE u \in Tasks
  <2>1. CASE pc'[u] = pc[u]
    BY <1>1, <2>1 DEF Settled, Resolved
  <2>2. CASE \E a \in ToSet(asked) : u = Identity(a)
    <3>1. pc[u] = 0 /\ u \notin rejected
      BY <1>4, <2>2
    <3> QED
      BY <3>1, TaskStepsFacts DEF Settled, Resolved
  <2> QED
    BY <1>4, <2>1, <2>2
<1>6. ASSUME NEW u \in Tasks, tx[u] # "none", Turn(u) PROVE Turn(u)'
  <2> DEFINE Over(x) == pc'[x] > Len(Steps[x]) \/ x \in rejected'
  <2>1. ASSUME u[1] = "identity", NEW i \in DOMAIN q'
        PROVE  Over(Identity(q'[i])) \/ \E j \in 1 .. i : q'[j] = u[2]
    <3>1. PICK a \in Actors : u = Identity(a)
      BY <2>1, TaskFacts
    <3>2. u[2] = a
      BY <3>1, TaskFacts
    <3>3. a \in ToSet(q)
      <4>1. pc[u] # 0
        BY <1>6, TaskStepsFacts DEF FlowInv, TasksWellFormed
      <4> QED
        BY <3>1, <4>1 DEF FlowInv, QueueFollowsMain
    <3>4. CASE i \in DOMAIN q
      <4>1. q[i] \in Actors /\ q'[i] = q[i]
        BY <1>3, <3>4 DEF ToSet
      <4>2. \/ Settled(Identity(q[i]))
            \/ \E j \in 1 .. i : q[j] = u[2]
        BY <1>6, <2>1, <3>4 DEF Turn
      <4>3. CASE Settled(Identity(q[i]))
        <5> DEFINE x == Identity(q[i])
        <5>1. x \in Tasks /\ Settled(x)
          BY <4>1, <4>3, TaskFacts
        <5> HIDE DEF x
        <5>2. Over(x)
          BY <1>5, <5>1 DEF Settled, Resolved
        <5> QED
          BY <4>1, <5>2 DEF x
      <4>4. CASE \E j \in 1 .. i : q[j] = u[2]
        <5>1. PICK j \in 1 .. i : q[j] = u[2]
          BY <4>4
        <5>2. j \in DOMAIN q
          BY <1>2, <3>4, QueueFacts
        <5> QED
          BY <1>3, <5>1, <5>2
      <4> QED
        BY <4>2, <4>3, <4>4
    <3>5. CASE i \notin DOMAIN q
      <4>1. PICK j \in DOMAIN q : q[j] = a
        BY <3>3 DEF ToSet
      <4>2. j \in 1 .. i
        BY <1>2, <2>1, <3>5, <4>1, QueueFacts
      <4>3. q'[j] = a
        BY <1>3, <4>1
      <4> QED
        BY <3>2, <4>2, <4>3
    <3> QED
      BY <3>4, <3>5
  <2> QED
    BY <2>1 DEF Turn, Settled, Resolved
<1>7. TasksWellFormed'
  <2>1. ASSUME NEW t \in Tasks
        PROVE  /\ pc'[t] \in Nat /\ pc'[t] <= Len(Steps[t]) + 1
               /\ t \in rejected => pc'[t] = 0
               /\ tx[t] # "none" => pc'[t] = pc[t]
    <3>1. CASE pc'[t] = pc[t]
      BY <3>1 DEF FlowInv, TasksWellFormed
    <3>2. CASE \E a \in ToSet(asked) : t = Identity(a)
      <4>1. pc'[t] = 1 /\ t \notin rejected /\ tx[t] = "none"
        BY <1>4, <3>2
      <4> QED
        BY <4>1, TaskStepsFacts
    <3> QED
      BY <1>4, <3>1, <3>2
  <2>2. pc' \in [Tasks -> Nat]
    BY <1>1, <2>1
  <2>3. ASSUME NEW t \in Tasks, tx[t] # "none"
        PROVE  pc'[t] \in DOMAIN Steps[t] /\ Step(t)'[1] \notin Waits /\ Turn(t)'
    <3>1. pc[t] \in DOMAIN Steps[t] /\ Step(t)[1] \notin Waits /\ Turn(t)
      BY <2>3 DEF FlowInv, TasksWellFormed
    <3>2. pc'[t] = pc[t]
      BY <2>1, <2>3
    <3>3. Turn(t)'
      BY <1>6, <2>3, <3>1
    <3> QED
      BY <3>1, <3>2, <3>3 DEF Step
  <2> QED
    BY <1>1, <2>1, <2>2, <2>3 DEF FlowInv, TasksWellFormed
<1>8. NothingLeft'
  BY <1>1 DEF NothingLeft
<1>9. RegisteredResolved => RegisteredResolved'
  BY <1>5, TaskFacts, RegisteredFacts DEF RegisteredResolved
<1>10. QueueFollowsMain'
  <2>1. ASSUME NEW a \in Actors, pc'[Identity(a)] # 0 \/ Identity(a) \in rejected
        PROVE  a \in ToSet(q')
    <3>1. CASE a \in ToSet(asked)
      BY <1>3, <3>1
    <3>2. CASE a \notin ToSet(asked)
      <4>1. \A b \in ToSet(asked) : Identity(a) # Identity(b)
        BY <3>2, TaskFacts
      <4>2. pc'[Identity(a)] = pc[Identity(a)]
        BY <1>4, <4>1, TaskFacts
      <4> QED
        BY <1>3, <2>1, <4>2 DEF FlowInv, QueueFollowsMain
    <3> QED
      BY <3>1, <3>2
  <2>2. q' = AllActors => RegisteredResolved'
    <3>1. pc[Main] = 6 => RegisteredResolved
      BY DEF FlowInv, MainAwaits
    <3> QED
      BY <1>3, <1>9, <3>1
  <2>3. /\ pc'[Main] \in {1, 2} => q' = << >>
        /\ pc'[Main] \in {3, 4, 5} => q' # AllActors
    BY <1>2, <1>3, <1>4
  <2>4. q' \in {<< >>, Registered, AllActors}
    BY <1>3
  <2>5. \A a \in Actors : pc'[Identity(a)] # 0 \/ Identity(a) \in rejected' => a \in ToSet(q')
    BY <1>1, <2>1
  <2> QED
    BY <2>2, <2>3, <2>4, <2>5 DEF QueueFollowsMain
<1>11. MainAwaits'
  <2>1. Resolved(Identity("claimIssuer")) => Resolved(Identity("claimIssuer"))'
    BY <1>5, TaskFacts, RegisteredFacts
  <2>2. \A a \in RegisteredActors : Resolved(Verification(a)) => Resolved(Verification(a))'
    BY <1>5, TaskFacts
  <2>3. \A b \in Actors : Resolved(Identity(b)) => Resolved(Identity(b))'
    BY <1>5, TaskFacts
  <2> QED
    BY <1>4, <1>9, <2>1, <2>2, <2>3 DEF FlowInv, MainAwaits
<1> QED
  BY <1>7, <1>8, <1>10, <1>11 DEF FlowInv

\* The verifications begin together.
LEMMA StartVerificationKeepsFlow ==
    ASSUME FlowInv, StartVerification
    PROVE  FlowInv'
<1>1. /\ process = "running"
      /\ pc[Main] \in DOMAIN Steps[Main]
      /\ Steps[Main][pc[Main]][1] = "verify"
      /\ \A a \in RegisteredActors : pc[Verification(a)] = 0 /\ Verification(a) \notin rejected
      /\ pc' = [t \in Tasks |-> IF t[1] = "verification" THEN 1 ELSE pc[t]]
      /\ UNCHANGED <<tx, rejected, identityCreationQueue, process>>
  BY RegisteredFacts DEF StartVerification, AtStep, Active, Step, runVars
<1>2. pc[Main] = 8
  BY <1>1, MainStepNames
<1>3. /\ pc'[Main] = 8
      /\ \A a \in Actors : pc'[Identity(a)] = pc[Identity(a)]
      /\ \A a \in RegisteredActors : pc'[Verification(a)] = 1
      /\ \A t \in Tasks : \/ pc'[t] = pc[t]
                          \/ pc'[t] = 1 /\ pc[t] = 0 /\ t \notin rejected /\ tx[t] = "none"
  <2>1. /\ pc'[Main] = 8
        /\ \A a \in Actors : pc'[Identity(a)] = pc[Identity(a)]
        /\ \A a \in RegisteredActors : pc'[Verification(a)] = 1
    BY <1>1, <1>2, TaskFacts
  <2>2. ASSUME NEW a \in RegisteredActors
        PROVE  pc[Verification(a)] = 0 /\ Verification(a) \notin rejected /\ tx[Verification(a)] = "none"
    <3>1. Verification(a) \in Tasks /\ 0 \notin DOMAIN Steps[Verification(a)]
      BY TaskFacts, TaskStepsFacts
    <3> QED
      BY <1>1, <3>1 DEF FlowInv, TasksWellFormed
  <2>3. ASSUME NEW t \in Tasks
        PROVE  \/ pc'[t] = pc[t]
               \/ pc'[t] = 1 /\ pc[t] = 0 /\ t \notin rejected /\ tx[t] = "none"
    BY <1>2, <2>1, <2>2, TaskFacts
  <2> QED
    BY <2>1, <2>3
<1>4. \A a \in Actors : /\ Resolved(Identity(a))' <=> Resolved(Identity(a))
                        /\ Settled(Identity(a))' <=> Settled(Identity(a))
  BY <1>1, <1>3 DEF Settled, Resolved
<1>5. \A t \in Tasks : Turn(t) => Turn(t)'
  <2>1. ToSet(identityCreationQueue) \subseteq Actors
    BY QueueFacts, RegisteredFacts DEF FlowInv, QueueFollowsMain
  <2> QED
    BY <1>1, <1>4, <2>1, TurnKept
<1>6. TasksWellFormed'
  <2>1. ASSUME NEW t \in Tasks
        PROVE  /\ pc'[t] \in Nat /\ pc'[t] <= Len(Steps[t]) + 1
               /\ t \in rejected => pc'[t] = 0
               /\ tx[t] # "none" => pc'[t] = pc[t]
    <3>1. CASE pc'[t] = pc[t]
      BY <3>1 DEF FlowInv, TasksWellFormed
    <3>2. CASE pc'[t] = 1 /\ pc[t] = 0 /\ t \notin rejected /\ tx[t] = "none"
      BY <3>2, TaskStepsFacts
    <3> QED
      BY <1>3, <3>1, <3>2
  <2>2. pc' \in [Tasks -> Nat]
    BY <1>1, <2>1
  <2>3. ASSUME NEW t \in Tasks, tx[t] # "none"
        PROVE  pc'[t] \in DOMAIN Steps[t] /\ Step(t)'[1] \notin Waits /\ Turn(t)'
    <3>1. pc[t] \in DOMAIN Steps[t] /\ Step(t)[1] \notin Waits /\ Turn(t)
      BY <2>3 DEF FlowInv, TasksWellFormed
    <3>2. pc'[t] = pc[t]
      BY <2>1, <2>3
    <3> QED
      BY <1>5, <3>1, <3>2 DEF Step
  <2> QED
    BY <1>1, <2>1, <2>2, <2>3 DEF FlowInv, TasksWellFormed
<1>7. NothingLeft'
  BY <1>1 DEF NothingLeft
<1>8. RegisteredResolved' <=> RegisteredResolved
  BY <1>4, RegisteredFacts DEF RegisteredResolved
<1>9. QueueFollowsMain'
  <2>1. \A a \in Actors : pc'[Identity(a)] # 0 \/ Identity(a) \in rejected'
                             => a \in ToSet(identityCreationQueue)
    BY <1>1, <1>3 DEF FlowInv, QueueFollowsMain
  <2> QED
    BY <1>1, <1>2, <1>3, <1>8, <2>1 DEF FlowInv, QueueFollowsMain
<1>10. MainAwaits'
  <2>1. RegisteredResolved /\ Resolved(Identity("claimIssuer"))
    BY <1>2 DEF FlowInv, MainAwaits
  <2>2. \A b \in Actors : Resolved(Identity(b))
    BY <2>1, RegisteredFacts DEF RegisteredResolved
  <2> QED
    BY <1>3, <1>4, <1>8, <2>1, <2>2, RegisteredFacts DEF MainAwaits
<1> QED
  BY <1>6, <1>7, <1>9, <1>10 DEF FlowInv

\* A process ends and leaves nothing.
LEMMA EndedKeepsFlow ==
    ASSUME FlowInv, NEW how, how # "running", Ended(how)
    PROVE  FlowInv'
<1>1. /\ pc' = [t \in Tasks |-> 0] /\ tx' = [t \in Tasks |-> "none"]
      /\ rejected' = {} /\ identityCreationQueue' = << >> /\ process' = how
  BY DEF Ended
<1>2. \A t \in Tasks : pc'[t] = 0 /\ tx'[t] = "none"
  BY <1>1
<1>3. TasksWellFormed'
  BY <1>1, <1>2, TaskStepsFacts DEF TasksWellFormed
<1>4. NothingLeft'
  BY <1>1, <1>2 DEF NothingLeft
<1>5. \A t \in Tasks : pc'[t] = 0
  BY <1>2
<1>6. /\ pc'[Main] = 0
      /\ \A a \in Actors : pc'[Identity(a)] = 0
      /\ \A a \in RegisteredActors : pc'[Verification(a)] = 0
  BY <1>5, TaskFacts
<1>7. QueueFollowsMain'
  BY <1>1, <1>6, QueueFacts DEF QueueFollowsMain
<1>8. MainAwaits'
  BY <1>6 DEF MainAwaits
<1> QED
  BY <1>3, <1>4, <1>7, <1>8 DEF FlowInv

\* A process starts.
LEMMA StartKeepsFlow ==
    ASSUME FlowInv, NEW reset \in BOOLEAN, Start(reset)
    PROVE  FlowInv'
<1>1. /\ process # "running" /\ process' = "running"
      /\ pc' = [pc EXCEPT ![Main] = 1]
      /\ UNCHANGED <<tx, rejected, identityCreationQueue>>
  BY DEF Start
<1>2. /\ pc \in [Tasks -> Nat] /\ \A t \in Tasks : pc[t] = 0
      /\ rejected = {} /\ identityCreationQueue = << >>
      /\ tx \in [Tasks -> {"none", "sent", "success", "reverted"}]
  BY <1>1 DEF FlowInv, NothingLeft, TasksWellFormed
<1>3. \A t \in Tasks : tx[t] = "none"
  <2> TAKE t \in Tasks
  <2>1. 0 \notin DOMAIN Steps[t]
    BY TaskStepsFacts
  <2> QED
    BY <1>2, <2>1 DEF FlowInv, TasksWellFormed
<1>4. /\ pc' \in [Tasks -> Nat] /\ pc'[Main] = 1
      /\ \A t \in Tasks : t # Main => pc'[t] = 0
      /\ \A t \in Tasks : pc'[t] <= 1
  BY <1>1, <1>2, TaskFacts
<1>5. /\ \A a \in Actors : pc'[Identity(a)] = 0
      /\ \A a \in RegisteredActors : pc'[Verification(a)] = 0
  BY <1>4, TaskFacts
<1>6. TasksWellFormed'
  BY <1>1, <1>2, <1>3, <1>4, TaskStepsFacts DEF TasksWellFormed
<1>7. NothingLeft'
  BY <1>1 DEF NothingLeft
<1>8. QueueFollowsMain'
  BY <1>1, <1>2, <1>4, <1>5, QueueFacts DEF QueueFollowsMain
<1>9. MainAwaits'
  BY <1>4, <1>5 DEF MainAwaits
<1> QED
  BY <1>6, <1>7, <1>8, <1>9 DEF FlowInv

\* What main waits for at a Promise.all, and where that is.
LEMMA AwaitedFacts ==
    ASSUME Awaited # {}
    PROVE  /\ process = "running" /\ pc[Main] \in DOMAIN Steps[Main]
           /\ pc[Main] \in {3, 6, 8}
           /\ pc[Main] = 3 => Awaited = {Identity(a) : a \in RegisteredActors}
           /\ pc[Main] = 6 => Awaited = {Identity("claimIssuer")}
           /\ pc[Main] = 8 => Awaited = {Verification(a) : a \in RegisteredActors}
<1>1. AtStep(Main, "getIdentities") \/ AtStep(Main, "verify")
  BY DEF Awaited
<1>2. /\ process = "running" /\ pc[Main] \in DOMAIN Steps[Main]
      /\ Step(Main) = Steps[Main][pc[Main]]
  BY <1>1 DEF AtStep, Active, Step
<1>3. /\ AtStep(Main, "getIdentities") => pc[Main] \in {3, 6}
      /\ AtStep(Main, "verify") => pc[Main] = 8
  BY <1>2, MainStepNames DEF AtStep
<1>4. CASE AtStep(Main, "getIdentities")
  <2>1. Awaited = {Identity(a) : a \in ToSet(Step(Main)[2])}
    BY <1>4 DEF Awaited
  <2>2. pc[Main] = 3 => Step(Main)[2] = Registered
    BY <1>2, StepsFacts, MainStepsFacts
  <2>3. pc[Main] = 6 => Step(Main)[2] = <<"claimIssuer">>
    BY <1>2, StepsFacts, MainStepsFacts
  <2>4. ToSet(<<"claimIssuer">>) = {"claimIssuer"}
    <3> DEFINE one == <<"claimIssuer">>
    <3>1. DOMAIN one = {1} /\ one[1] = "claimIssuer"
      OBVIOUS
    <3> HIDE DEF one
    <3>2. ToSet(one) = {"claimIssuer"}
      BY <3>1 DEF ToSet
    <3> QED
      BY <3>2 DEF one
  <2>5. pc[Main] = 3 => Awaited = {Identity(a) : a \in RegisteredActors}
    BY <2>1, <2>2, RegisteredFacts
  <2>6. pc[Main] = 6 => Awaited = {Identity(a) : a \in {"claimIssuer"}}
    BY <2>1, <2>3, <2>4
  <2> QED
    BY <1>2, <1>3, <1>4, <2>5, <2>6
<1>5. CASE ~AtStep(Main, "getIdentities")
  <2>1. pc[Main] = 8
    BY <1>1, <1>3, <1>5
  <2>2. Awaited = {Verification(a) : a \in RegisteredActors}
    BY <1>1, <1>5, RegisteredFacts DEF Awaited
  <2> QED
    BY <1>2, <2>1, <2>2
<1> QED
  BY <1>4, <1>5

\* What a task that waits for something else than a transaction knows of one.
LEMMA WaitingHasNoTx ==
    ASSUME FlowInv, NEW t \in Tasks, pc[t] \notin DOMAIN Steps[t] \/ Step(t)[1] \in Waits
    PROVE  tx[t] = "none" /\ tx = [tx EXCEPT ![t] = "none"]
BY DEF FlowInv, TasksWellFormed

\* Main goes on from a step that is not a transaction.
LEMMA MainGoesOn ==
    ASSUME FlowInv, process = "running", UNCHANGED process,
           pc[Main] \in {1, 2, 3, 5, 6, 8}, pc' = Advanced(Main),
           UNCHANGED <<tx, rejected, identityCreationQueue>>,
           pc[Main] = 3 => RegisteredResolved,
           pc[Main] = 6 => Resolved(Identity("claimIssuer")),
           pc[Main] = 8 => \A a \in RegisteredActors : Resolved(Verification(a))
    PROVE  FlowInv'
<1>1. Main \in Tasks /\ pc[Main] \in DOMAIN Steps[Main]
  BY TaskFacts, TaskStepsFacts
<1>2. Step(Main)[1] \in Waits
  BY <1>1, TaskStepsFacts DEF Step
<1>3. tx' = [tx EXCEPT ![Main] = "none"]
  BY <1>1, <1>2, WaitingHasNoTx
<1> QED
  BY <1>1, <1>3, AdvanceKeepsFlow

\* When all that main waits for is resolved, the invariant's conditions hold.
LEMMA AwaitSucceedsKeepsFlow ==
    ASSUME FlowInv, AwaitSucceeds
    PROVE  FlowInv'
<1>1. Awaited # {} /\ \A t \in Awaited : Resolved(t)
  BY DEF AwaitSucceeds, AllResolved
<1>2. /\ pc' = Advanced(Main)
      /\ UNCHANGED <<tx, rejected, identityCreationQueue, process>>
  BY DEF AwaitSucceeds, Goto, runVars
<1>3. /\ process = "running" /\ pc[Main] \in {3, 6, 8}
      /\ pc[Main] = 3 => RegisteredResolved
      /\ pc[Main] = 6 => Resolved(Identity("claimIssuer"))
      /\ pc[Main] = 8 => \A a \in RegisteredActors : Resolved(Verification(a))
  BY <1>1, AwaitedFacts DEF RegisteredResolved
<1> QED
  BY <1>2, <1>3, MainGoesOn

\* Where a task is that reads something.
LEMMA ReadFacts ==
    ASSUME FlowInv, NEW t \in Tasks, AtStep(t, "initialize") \/ AtStep(t, "isVerified")
    PROVE  /\ process = "running" /\ pc[t] \in DOMAIN Steps[t] /\ Step(t)[1] \in Waits
           /\ t = Main => pc[t] = 2
<1>1. process = "running" /\ pc[t] \in DOMAIN Steps[t] /\ Step(t) = Steps[t][pc[t]]
  BY DEF AtStep, Active, Step
<1>2. Step(t)[1] \in {"initialize", "isVerified"}
  BY DEF AtStep
<1>3. t = Main => pc[t] = 2
  BY <1>1, <1>2, MainStepNames
<1>4. Step(t)[1] \in Waits
  BY <1>2 DEF Waits
<1> QED
  BY <1>1, <1>3, <1>4

\* The steps of one task that may advance or fail it.
LEMMA TaskStepKeepsFlow ==
    ASSUME FlowInv, NEW t \in Tasks, TaskStep(t)
    PROVE  FlowInv'
<1>1. CASE Send(t)
  <2>1. /\ pc[t] \in DOMAIN Steps[t] /\ Step(t)[1] \notin Waits /\ Turn(t)
        /\ tx' = [tx EXCEPT ![t] = "sent"]
        /\ UNCHANGED <<process, pc, rejected, identityCreationQueue>>
    BY <1>1 DEF Send, AtTransaction, Active, runVars
  <2> QED
    BY <2>1, TxKeepsFlow
<1>2. CASE SendFails(t)
  <2>1. /\ process = "running" /\ pc[t] \in DOMAIN Steps[t] /\ Fail(t) /\ UNCHANGED process
    BY <1>2 DEF SendFails, AtTransaction, Active, Fail, runVars
  <2> QED
    BY <2>1, FailKeepsFlow
<1>3. CASE Succeed(t)
  <2>1. /\ process = "running" /\ tx[t] = "success"
        /\ pc' = Advanced(t) /\ tx' = [tx EXCEPT ![t] = "none"]
        /\ UNCHANGED <<process, rejected, identityCreationQueue>>
    BY <1>3 DEF Succeed, runVars
  <2>2. pc[t] \in DOMAIN Steps[t] /\ Step(t)[1] \notin Waits
    BY <2>1 DEF FlowInv, TasksWellFormed
  <2>3. ~(t = Main /\ pc[t] = 3) /\ ~(t = Main /\ pc[t] = 6) /\ ~(t = Main /\ pc[t] = 8)
    BY <2>2, TaskStepsFacts DEF Step
  <2>4. /\ t = Main /\ pc[t] = 3 => RegisteredResolved
        /\ t = Main /\ pc[t] = 6 => Resolved(Identity("claimIssuer"))
        /\ t = Main /\ pc[t] = 8 => \A a \in RegisteredActors : Resolved(Verification(a))
    BY <2>3
  <2>5. process = "running" /\ pc[t] \in DOMAIN Steps[t]
    BY <2>1, <2>2
  <2>6. pc' = Advanced(t) /\ tx' = [tx EXCEPT ![t] = "none"]
    BY <2>1
  <2>7. UNCHANGED <<process, rejected, identityCreationQueue>>
    BY <2>1
  <2> QED
    BY ONLY FlowInv, t \in Tasks, <2>4, <2>5, <2>6, <2>7, AdvanceKeepsFlow
<1>4. CASE ReceiptFails(t)
  <2>1. process = "running" /\ tx[t] # "none" /\ Fail(t) /\ UNCHANGED process
    BY <1>4 DEF ReceiptFails, Fail, runVars
  <2>2. pc[t] \in DOMAIN Steps[t]
    BY <2>1 DEF FlowInv, TasksWellFormed
  <2> QED
    BY <2>1, <2>2, FailKeepsFlow
<1>5. CASE ReadSucceeds(t)
  <2>1. /\ AtStep(t, "initialize") \/ AtStep(t, "isVerified")
        /\ pc' = Advanced(t)
        /\ UNCHANGED <<process, tx, rejected, identityCreationQueue>>
    BY <1>5 DEF ReadSucceeds, Goto, runVars
  <2>2. /\ process = "running" /\ pc[t] \in DOMAIN Steps[t] /\ Step(t)[1] \in Waits
        /\ t = Main => pc[t] = 2
    BY <2>1, ReadFacts
  <2>3. tx' = [tx EXCEPT ![t] = "none"]
    BY <2>1, <2>2, WaitingHasNoTx
  <2>4. /\ t = Main /\ pc[t] = 3 => RegisteredResolved
        /\ t = Main /\ pc[t] = 6 => Resolved(Identity("claimIssuer"))
        /\ t = Main /\ pc[t] = 8 => \A a \in RegisteredActors : Resolved(Verification(a))
    BY <2>2
  <2>5. process = "running" /\ pc[t] \in DOMAIN Steps[t]
    BY <2>2
  <2>6. pc' = Advanced(t) /\ UNCHANGED <<process, rejected, identityCreationQueue>>
    BY <2>1
  <2> QED
    BY ONLY FlowInv, t \in Tasks, <2>3, <2>4, <2>5, <2>6, AdvanceKeepsFlow
<1>6. CASE ReadFails(t)
  <2>1. (AtStep(t, "initialize") \/ AtStep(t, "isVerified")) /\ Fail(t) /\ UNCHANGED process
    BY <1>6 DEF ReadFails, Fail, runVars
  <2>2. process = "running" /\ pc[t] \in DOMAIN Steps[t]
    BY <2>1, ReadFacts
  <2> QED
    BY <2>1, <2>2, FailKeepsFlow
<1> QED
  BY <1>1, <1>2, <1>3, <1>4, <1>5, <1>6 DEF TaskStep

\* Every step keeps the tasks in order.
LEMMA FlowStep ==
    ASSUME FlowInv, [ScriptNext]_scriptVars
    PROVE  FlowInv'
<1>1. ASSUME UNCHANGED <<process, taskVars>> PROVE FlowInv'
  BY <1>1 DEF FlowInv, TasksWellFormed, NothingLeft, QueueFollowsMain, MainAwaits, taskVars,
              Turn, Step, Settled, Resolved, RegisteredResolved
<1>2. CASE UNCHANGED scriptVars
  BY <1>1, <1>2 DEF scriptVars, runVars
<1>3. ASSUME NEW t \in Tasks, TaskStep(t) PROVE FlowInv'
  BY <1>3, TaskStepKeepsFlow
<1>4. CASE MainStep
  <2>1. CASE Deploy
    BY <1>1, <2>1 DEF Deploy, runVars
  <2>2. CASE DeploySucceeds
    <3>1. /\ process = "running" /\ pc[Main] = 1
          /\ pc' = Advanced(Main) /\ UNCHANGED <<process, tx, rejected, identityCreationQueue>>
      BY <2>2, MainStepNames DEF DeploySucceeds, AtStep, Active, Step, Goto, runVars
    <3> QED
      BY <3>1, MainGoesOn
  <2>3. CASE DeployFails \/ LoadTopicsFails \/ AwaitFails
    <3>1. /\ process = "running" /\ pc[Main] \in DOMAIN Steps[Main] /\ Fail(Main) /\ UNCHANGED process
      <4>1. CASE AwaitFails
        BY <4>1, AwaitedFacts DEF AwaitFails, Fail, runVars
      <4>2. CASE DeployFails \/ LoadTopicsFails
        BY <4>2 DEF DeployFails, LoadTopicsFails, AtStep, Active, Fail, runVars
      <4> QED
        BY <2>3, <4>1, <4>2
    <3> QED
      BY <3>1, FailKeepsFlow, TaskFacts
  <2>4. CASE LoadTopics
    <3>1. /\ process = "running" /\ pc[Main] = 5
          /\ pc' = Advanced(Main) /\ UNCHANGED <<process, tx, rejected, identityCreationQueue>>
      BY <2>4, MainStepNames DEF LoadTopics, AtStep, Active, Step, runVars
    <3> QED
      BY <3>1, MainGoesOn
  <2>5. CASE GetIdentities
    BY <2>5, GetIdentitiesKeepsFlow
  <2>6. CASE StartVerification
    BY <2>6, StartVerificationKeepsFlow
  <2>7. CASE AwaitSucceeds
    BY <2>7, AwaitSucceedsKeepsFlow
  <2>8. CASE Exit
    <3>1. Ended("exit 0") \/ Ended("exit 1")
      BY <2>8 DEF Exit
    <3>2. "exit 0" # "running" /\ "exit 1" # "running"
      OBVIOUS
    <3> QED
      BY <3>1, <3>2, EndedKeepsFlow
  <2> QED
    BY <1>4, <2>1, <2>2, <2>3, <2>4, <2>5, <2>6, <2>7, <2>8 DEF MainStep
<1>5. CASE Mining
  <2>1. CASE MineFuture \/ \E s \in orphans : MineOrphan(s)
    BY <1>1, <2>1 DEF MineFuture, MineOrphan, runVars
  <2>2. ASSUME NEW t \in Tasks, Mine(t) PROVE FlowInv'
    <3>1. /\ tx[t] = "sent" /\ UNCHANGED <<process, pc, rejected, identityCreationQueue>>
          /\ tx' = [tx EXCEPT ![t] = "success"] \/ tx' = [tx EXCEPT ![t] = "reverted"]
      BY <2>2 DEF Mine, runVars
    <3>2. pc[t] \in DOMAIN Steps[t] /\ Step(t)[1] \notin Waits /\ Turn(t)
      BY <3>1 DEF FlowInv, TasksWellFormed
    <3> QED
      BY <3>1, <3>2, TxKeepsFlow
  <2> QED
    BY <1>5, <2>1, <2>2 DEF Mining
<1>6. CASE Crash
  <2>1. Ended("crashed") /\ "crashed" # "running"
    BY <1>6 DEF Crash
  <2> QED
    BY <2>1, EndedKeepsFlow
<1>7. ASSUME NEW reset \in BOOLEAN, Start(reset) PROVE FlowInv'
  BY <1>7, StartKeepsFlow
<1> QED
  BY <1>2, <1>3, <1>4, <1>5, <1>6, <1>7 DEF ScriptNext

\* It holds when nothing has been run.
LEMMA FlowInit == ScriptInit => FlowInv
<1> SUFFICES ASSUME ScriptInit PROVE FlowInv
  OBVIOUS
<1>1. /\ pc = [t \in Tasks |-> 0] /\ tx = [t \in Tasks |-> "none"] /\ process = "not started"
      /\ rejected = {} /\ identityCreationQueue = << >>
  BY DEF ScriptInit
<1>2. \A t \in Tasks : pc[t] = 0 /\ tx[t] = "none"
  BY <1>1
<1>3. /\ pc[Main] = 0
      /\ \A a \in Actors : pc[Identity(a)] = 0
      /\ \A a \in RegisteredActors : pc[Verification(a)] = 0
  BY <1>2, TaskFacts
<1>4. TasksWellFormed
  <2>1. pc \in [Tasks -> Nat] /\ tx \in [Tasks -> {"none", "sent", "success", "reverted"}]
    BY <1>1
  <2>2. \A t \in Tasks : pc[t] <= Len(Steps[t]) + 1
    BY <1>2, TaskStepsFacts
  <2> QED
    BY <1>1, <1>2, <2>1, <2>2 DEF TasksWellFormed
<1>5. NothingLeft
  BY <1>1, <1>2 DEF NothingLeft
<1>6. QueueFollowsMain
  BY <1>1, <1>3, QueueFacts DEF QueueFollowsMain
<1>7. MainAwaits
  BY <1>3 DEF MainAwaits
<1> QED
  BY <1>4, <1>5, <1>6, <1>7 DEF FlowInv

\* Whatever fails, crashes and is run again, the tasks of a process keep to the
\* order main and the queue of identities give them.
THEOREM TasksInOrder == ScriptSpec => []FlowInv
<1>1. FlowInv /\ [ScriptNext]_scriptVars => FlowInv'
  BY FlowStep
<1> QED
  BY <1>1, FlowInit, PTL DEF ScriptSpec

-----------------------------------------------------------------------------
(* No wallet sends twice at once.                                          *)

\* Identities are created one at a time.
LEMMA IdentitiesOneByOne ==
    ASSUME FlowInv, NEW a \in Actors, NEW b \in Actors,
           tx[Identity(a)] # "none", tx[Identity(b)] # "none"
    PROVE  a = b
<1> DEFINE q == identityCreationQueue
<1>1. ASSUME NEW c \in Actors, tx[Identity(c)] # "none"
      PROVE  c \in ToSet(q) /\ ~Settled(Identity(c)) /\ Turn(Identity(c))
  <2>1. Identity(c) \in Tasks
    BY TaskFacts
  <2>2. pc[Identity(c)] \in DOMAIN Steps[Identity(c)] /\ Turn(Identity(c))
    BY <1>1, <2>1 DEF FlowInv, TasksWellFormed
  <2>3. pc[Identity(c)] >= 1 /\ ~Resolved(Identity(c))
    BY <2>1, <2>2, TaskStepsFacts DEF Resolved
  <2>4. Identity(c) \notin rejected
    BY <2>3 DEF FlowInv, TasksWellFormed
  <2>5. c \in ToSet(q)
    BY <2>3 DEF FlowInv, QueueFollowsMain
  <2> QED
    BY <2>2, <2>3, <2>4, <2>5 DEF Settled
<1>2. PICK i \in DOMAIN q : q[i] = a
  BY <1>1 DEF ToSet
<1>3. PICK j \in DOMAIN q : q[j] = b
  BY <1>1 DEF ToSet
<1>4. i \in 1 .. 4 /\ j \in 1 .. 4
  BY QueueFacts, <1>2, <1>3 DEF FlowInv, QueueFollowsMain
<1>5. \A k \in DOMAIN q, l \in DOMAIN q : q[k] = q[l] => k = l
  <2>1. ASSUME q = Registered PROVE \A k \in DOMAIN q, l \in DOMAIN q : q[k] = q[l] => k = l
    <3>1. \A k \in DOMAIN q : k \in {1, 2, 3}
      BY <2>1, QueueFacts
    <3> QED
      BY <2>1, <3>1, QueueFacts
  <2>2. ASSUME q = AllActors PROVE \A k \in DOMAIN q, l \in DOMAIN q : q[k] = q[l] => k = l
    <3>1. \A k \in DOMAIN q : k \in {1, 2, 3, 4}
      BY <2>2, QueueFacts
    <3>2. q[1] = "owner" /\ q[2] = "investorA" /\ q[3] = "investorB" /\ q[4] = "claimIssuer"
      BY <2>2, QueueFacts
    <3> QED
      BY <3>1, <3>2
  <2> QED
    BY <2>1, <2>2, QueueFacts DEF FlowInv, QueueFollowsMain
<1>6. \E k \in 1 .. i : q[k] = b
  <2>1. Settled(Identity(q[i])) \/ \E k \in 1 .. i : q[k] = Identity(b)[2]
    BY <1>1, <1>2, TaskFacts DEF Turn
  <2> QED
    BY <1>1, <1>2, <2>1, TaskFacts
<1>7. \E k \in 1 .. j : q[k] = a
  <2>1. Settled(Identity(q[j])) \/ \E k \in 1 .. j : q[k] = Identity(a)[2]
    BY <1>1, <1>3, TaskFacts DEF Turn
  <2> QED
    BY <1>1, <1>3, <2>1, TaskFacts
<1>8. \A m \in DOMAIN q : \A k \in 1 .. m : k \in DOMAIN q
  BY QueueFacts DEF FlowInv, QueueFollowsMain
<1>9. j <= i
  BY <1>2, <1>3, <1>4, <1>5, <1>6, <1>8
<1>10. i <= j
  BY <1>2, <1>3, <1>4, <1>5, <1>7, <1>8
<1> QED
  BY <1>2, <1>3, <1>4, <1>9, <1>10

\* While a task awaits a transaction, no other awaits one of the same wallet.
LEMMA NoClash ==
    ASSUME FlowInv, NEW t \in Tasks, NEW u \in Tasks, tx[t] = "sent", tx[u] = "sent", t # u
    PROVE  Sender(Step(t)) # Sender(Step(u))
<1>1. ASSUME NEW s \in Tasks, tx[s] # "none"
      PROVE  /\ pc[s] \in DOMAIN Steps[s] /\ Step(s)[1] \notin Waits
             /\ ~Resolved(s) /\ pc[s] >= 1
  BY <1>1, TaskStepsFacts DEF FlowInv, TasksWellFormed, Resolved
<1>2. tx[Main] # "none" => \A a \in Actors : tx[Identity(a)] = "none"
  <2> SUFFICES ASSUME tx[Main] # "none", NEW a \in Actors, tx[Identity(a)] # "none" PROVE FALSE
    OBVIOUS
  <2>1. pc[Main] >= 4 /\ pc[Main] # 5 /\ pc[Main] # 6
    BY <1>1, TaskFacts, TaskStepsFacts DEF Step
  <2>2. ~Resolved(Identity(a)) /\ pc[Identity(a)] >= 1
    BY <1>1, TaskFacts
  <2>3. a = "claimIssuer" /\ pc[Main] = 4
    <3>1. pc[Main] \in Nat /\ pc[Main] > 3
      BY <2>1, TaskFacts DEF FlowInv, TasksWellFormed
    <3>2. a \notin RegisteredActors
      BY <2>2, <3>1 DEF FlowInv, MainAwaits, RegisteredResolved
    <3>3. a = "claimIssuer"
      BY <3>2, RegisteredFacts
    <3>4. ~(pc[Main] > 6)
      BY <2>2, <3>3 DEF FlowInv, MainAwaits
    <3> QED
      BY <2>1, <3>1, <3>3, <3>4
  <2>4. a \in ToSet(identityCreationQueue)
    BY <2>2 DEF FlowInv, QueueFollowsMain
  <2>5. identityCreationQueue # AllActors
    BY <2>3 DEF FlowInv, QueueFollowsMain
  <2> QED
    BY <2>3, <2>4, <2>5, QueueFacts, RegisteredFacts DEF FlowInv, QueueFollowsMain
<1>3. tx[Main] # "none" => \A a \in RegisteredActors : tx[Verification(a)] = "none"
  <2> SUFFICES ASSUME tx[Main] # "none", NEW a \in RegisteredActors, tx[Verification(a)] # "none"
               PROVE  FALSE
    OBVIOUS
  <2>1. pc[Main] >= 4 /\ pc[Main] # 8
    BY <1>1, TaskFacts, TaskStepsFacts DEF Step
  <2>2. ~Resolved(Verification(a)) /\ pc[Verification(a)] >= 1
    BY <1>1, TaskFacts
  <2>3. pc[Main] \in Nat
    BY TaskFacts DEF FlowInv, TasksWellFormed
  <2> QED
    BY <2>1, <2>2, <2>3 DEF FlowInv, MainAwaits
<1>4. ASSUME NEW a \in RegisteredActors, tx[Verification(a)] # "none"
      PROVE  /\ \A b \in Actors : tx[Identity(b)] = "none"
             /\ Sender(Step(Verification(a))) = a
  <2>1. /\ pc[Verification(a)] \in DOMAIN Steps[Verification(a)]
        /\ Step(Verification(a))[1] \notin Waits /\ pc[Verification(a)] >= 1
    BY <1>1, <1>4, TaskFacts
  <2>2. \A b \in Actors : Resolved(Identity(b))
    BY <2>1 DEF FlowInv, MainAwaits
  <2>3. \A b \in Actors : tx[Identity(b)] = "none"
    BY <1>1, <2>2, TaskFacts
  <2>4. pc[Verification(a)] \in {1, 2}
    <3>1. pc[Verification(a)] \in {1, 2, 3}
      BY <2>1, TaskFacts, TaskStepsFacts
    <3>2. pc[Verification(a)] # 3
      BY <2>1, TaskStepsFacts DEF Step, Waits
    <3> QED
      BY <3>1, <3>2
  <2>5. Step(Verification(a))[1] = "addClaim" /\ Step(Verification(a))[2] = a
    BY <2>4, TaskStepsFacts DEF Step
  <2> QED
    BY <2>3, <2>5 DEF Sender
<1>5. CASE t = Main
  BY <1>2, <1>3, <1>5, TaskFacts
<1>6. CASE u = Main
  BY <1>2, <1>3, <1>6, TaskFacts
<1>7. CASE \E a \in Actors : t = Identity(a)
  <2>1. PICK a \in Actors : t = Identity(a)
    BY <1>7
  <2>2. CASE \E b \in Actors : u = Identity(b)
    BY <2>1, <2>2, IdentitiesOneByOne
  <2>3. CASE \E b \in RegisteredActors : u = Verification(b)
    BY <1>4, <2>1, <2>3
  <2> QED
    BY <1>6, <2>2, <2>3, TaskFacts, <1>2, <2>1
<1>8. CASE \E a \in RegisteredActors : t = Verification(a)
  <2>1. PICK a \in RegisteredActors : t = Verification(a)
    BY <1>8
  <2>2. CASE \E b \in Actors : u = Identity(b)
    BY <1>4, <2>1, <2>2
  <2>3. CASE \E b \in RegisteredActors : u = Verification(b)
    <3>1. PICK b \in RegisteredActors : u = Verification(b)
      BY <2>3
    <3>2. a # b
      BY <2>1, <3>1
    <3> QED
      BY <1>4, <2>1, <3>1, <3>2
  <2> QED
    BY <1>3, <2>1, <2>2, <2>3, TaskFacts
<1> QED
  BY <1>5, <1>7, <1>8, TaskFacts

-----------------------------------------------------------------------------
(* A process that exits with 0 has done everything.                        *)

\* What a task has behind it is on the chain, and so is a transaction whose
\* receipt says success; a process that exited with 0 left nothing out.
DoneInv ==
    /\ \A t \in Tasks : \A i \in DOMAIN Steps[t] :
          i < pc[t] /\ Steps[t][i][1] \notin Waits => Steps[t][i] \in ledger
    /\ \A t \in Tasks : tx[t] = "success" => Step(t) \in ledger
    /\ process = "exit 0" =>
          \A t \in Tasks : \A i \in DOMAIN Steps[t] :
              Steps[t][i][1] \notin Waits => Steps[t][i] \in ledger

\* The steps of a task are numbered from 1.
LEMMA StepNumbers ==
    ASSUME NEW t \in Tasks, NEW i \in DOMAIN Steps[t]
    PROVE  i \in Nat /\ i >= 1 /\ i <= Len(Steps[t]) /\ Len(Steps[t]) \in Nat
<1>1. Len(Steps[t]) \in Nat /\ i \in 1 .. Len(Steps[t])
  BY TaskStepsFacts
<1> QED
  BY ONLY <1>1

\* While the ledger grows and tasks only go on from what they have done, what
\* they have behind them stays on the chain.
LEMMA LedgerKeepsUp ==
    ASSUME FlowInv, DoneInv,
           ledger \subseteq ledger',
           process' = "exit 0" => process = "exit 0",
           \A t \in Tasks : \/ pc'[t] = pc[t]
                            \/ pc'[t] \in {0, 1}
                            \/ /\ pc'[t] = pc[t] + 1
                               /\ Step(t)[1] \in Waits \/ Step(t) \in ledger,
           \A t \in Tasks : tx'[t] = "success" =>
               pc'[t] = pc[t] /\ (tx[t] = "success" \/ Step(t) \in ledger')
    PROVE  DoneInv'
<1>1. ASSUME NEW t \in Tasks, NEW i \in DOMAIN Steps[t], i < pc'[t], Steps[t][i][1] \notin Waits
      PROVE  Steps[t][i] \in ledger'
  <2>1. i \in Nat /\ i >= 1 /\ pc[t] \in Nat
    BY StepNumbers DEF FlowInv, TasksWellFormed
  <2>2. i < pc[t] => Steps[t][i] \in ledger
    BY <1>1 DEF DoneInv
  <2>3. CASE pc'[t] = pc[t]
    BY <1>1, <2>2, <2>3
  <2>4. CASE pc'[t] \in {0, 1}
    <3>1. pc'[t] = 0 \/ pc'[t] = 1
      BY <2>4
    <3>2. ~(i < pc'[t])
      BY ONLY <2>1, <3>1
    <3> QED
      BY <1>1, <3>2
  <2>5. CASE pc'[t] = pc[t] + 1 /\ (Step(t)[1] \in Waits \/ Step(t) \in ledger)
    <3>1. i < pc[t] + 1
      BY <1>1, <2>5
    <3>3. i < pc[t] \/ i = pc[t]
      BY ONLY <2>1, <3>1
    <3>2. i = pc[t] => Steps[t][i] \in ledger
      BY <1>1, <2>5 DEF Step
    <3> QED
      BY <2>2, <3>2, <3>3
  <2> QED
    BY <1>1, <2>3, <2>4, <2>5
<1>2. ASSUME NEW t \in Tasks, tx'[t] = "success"
      PROVE  Step(t)' \in ledger'
  <2>1. pc'[t] = pc[t] /\ (tx[t] = "success" \/ Step(t) \in ledger')
    BY <1>2
  <2>2. Step(t) \in ledger'
    BY <2>1 DEF DoneInv
  <2> QED
    BY <2>1, <2>2 DEF Step
<1>3. ASSUME process' = "exit 0", NEW t \in Tasks, NEW i \in DOMAIN Steps[t],
             Steps[t][i][1] \notin Waits
      PROVE  Steps[t][i] \in ledger'
  BY <1>3 DEF DoneInv
<1> QED
  BY <1>1, <1>2, <1>3 DEF DoneInv

\* A task that sends, fails or goes on.
LEMMA TaskStepKeepsDone ==
    ASSUME FlowInv, DoneInv, NEW t \in Tasks, TaskStep(t)
    PROVE  DoneInv'
<1>1. pc \in [Tasks -> Nat] /\ tx \in [Tasks -> {"none", "sent", "success", "reverted"}]
  BY DEF FlowInv, TasksWellFormed
<1>2. UNCHANGED <<process, ledger>>
  BY DEF TaskStep, Send, SendFails, Succeed, ReceiptFails, ReadSucceeds, ReadFails,
         Fail, Goto, chainVars, runVars
<1>3. \/ pc' = pc /\ tx' = [tx EXCEPT ![t] = "sent"]
      \/ pc' = [pc EXCEPT ![t] = 0] /\ tx' = [tx EXCEPT ![t] = "none"]
      \/ /\ pc' = [pc EXCEPT ![t] = @ + 1] /\ tx' = [tx EXCEPT ![t] = "none"]
         /\ Step(t)[1] \in Waits \/ Step(t) \in ledger
  <2>1. CASE Send(t)
    BY <2>1 DEF Send
  <2>2. CASE SendFails(t) \/ ReceiptFails(t) \/ ReadFails(t)
    BY <2>2 DEF SendFails, ReceiptFails, ReadFails, Fail
  <2>3. CASE Succeed(t)
    BY <2>3 DEF Succeed, Advanced, DoneInv
  <2>4. CASE ReadSucceeds(t)
    <3>1. /\ AtStep(t, "initialize") \/ AtStep(t, "isVerified")
          /\ pc' = [pc EXCEPT ![t] = @ + 1] /\ UNCHANGED tx
      BY <2>4 DEF ReadSucceeds, Goto, Advanced
    <3>2. Step(t)[1] \in Waits
      BY <3>1, ReadFacts
    <3> QED
      BY <3>1, <3>2, WaitingHasNoTx
  <2> QED
    BY <2>1, <2>2, <2>3, <2>4 DEF TaskStep
<1>4. \A u \in Tasks : \/ pc'[u] = pc[u]
                       \/ pc'[u] \in {0, 1}
                       \/ /\ pc'[u] = pc[u] + 1
                          /\ Step(u)[1] \in Waits \/ Step(u) \in ledger
  <2> TAKE u \in Tasks
  <2>1. u # t => pc'[u] = pc[u]
    BY <1>1, <1>3
  <2>2. CASE u = t
    BY <1>1, <1>3, <2>2
  <2> QED
    BY <2>1, <2>2
<1>5. \A u \in Tasks : tx'[u] = "success" =>
          pc'[u] = pc[u] /\ (tx[u] = "success" \/ Step(u) \in ledger')
  <2> TAKE u \in Tasks
  <2>1. u = t => tx'[u] # "success"
    BY <1>1, <1>3
  <2>2. u # t => tx'[u] = tx[u] /\ pc'[u] = pc[u]
    BY <1>1, <1>3
  <2> QED
    BY <2>1, <2>2
<1> QED
  BY <1>2, <1>4, <1>5, LedgerKeepsUp

\* When main is done, every task is.
LEMMA MainDoneAllDone ==
    ASSUME FlowInv, Resolved(Main), NEW t \in Tasks
    PROVE  Resolved(t)
<1>1. pc[Main] \in Nat /\ pc[Main] > 8
  BY TaskFacts, TaskStepsFacts DEF FlowInv, TasksWellFormed, Resolved
<1>2. /\ \A a \in RegisteredActors : Resolved(Identity(a))
      /\ Resolved(Identity("claimIssuer"))
      /\ \A a \in RegisteredActors : Resolved(Verification(a))
  BY <1>1 DEF FlowInv, MainAwaits, RegisteredResolved
<1>3. \A a \in Actors : Resolved(Identity(a))
  BY <1>2, RegisteredFacts
<1> QED
  BY <1>2, <1>3, TaskFacts

\* A process ends.
LEMMA EndedKeepsDone ==
    ASSUME FlowInv, DoneInv, NEW how, how = "exit 0" => Resolved(Main), Ended(how)
    PROVE  DoneInv'
<1>1. /\ process' = how /\ ledger' = ledger
      /\ \A t \in Tasks : pc'[t] = 0 /\ tx'[t] = "none"
  BY DEF Ended
<1>2. \A t \in Tasks : \A i \in DOMAIN Steps[t] : ~(i < pc'[t])
  <2> TAKE t \in Tasks
  <2> TAKE i \in DOMAIN Steps[t]
  <2>1. i \in Nat /\ pc'[t] = 0
    BY <1>1, StepNumbers
  <2> QED
    BY ONLY <2>1
<1>3. ASSUME how = "exit 0", NEW t \in Tasks, NEW i \in DOMAIN Steps[t], Steps[t][i][1] \notin Waits
      PROVE  Steps[t][i] \in ledger
  <2>1. Resolved(t)
    BY <1>3, MainDoneAllDone
  <2>2. i < pc[t]
    <3>1. /\ i \in Nat /\ i <= Len(Steps[t]) /\ Len(Steps[t]) \in Nat
          /\ pc[t] \in Nat /\ pc[t] > Len(Steps[t])
      BY <2>1, StepNumbers DEF Resolved, FlowInv, TasksWellFormed
    <3> QED
      BY ONLY <3>1
  <2> QED
    BY <1>3, <2>2 DEF DoneInv
<1> QED
  BY <1>1, <1>2, <1>3 DEF DoneInv

\* A process starts, perhaps on a cleared chain.
LEMMA StartKeepsDone ==
    ASSUME FlowInv, DoneInv, NEW reset \in BOOLEAN, Start(reset)
    PROVE  DoneInv'
<1>1. /\ process # "running" /\ process' = "running"
      /\ pc' = [pc EXCEPT ![Main] = 1] /\ UNCHANGED tx
  BY DEF Start
<1>2. /\ pc \in [Tasks -> Nat] /\ \A t \in Tasks : pc[t] = 0
      /\ tx \in [Tasks -> {"none", "sent", "success", "reverted"}]
  BY <1>1 DEF FlowInv, NothingLeft, TasksWellFormed
<1>3. \A t \in Tasks : tx[t] = "none"
  <2> TAKE t \in Tasks
  <2>1. 0 \notin DOMAIN Steps[t]
    BY TaskStepsFacts
  <2> QED
    BY <1>2, <2>1 DEF FlowInv, TasksWellFormed
<1>4. \A t \in Tasks : pc'[t] \in {0, 1}
  BY <1>1, <1>2, TaskFacts
<1>5. \A t \in Tasks : \A i \in DOMAIN Steps[t] : ~(i < pc'[t])
  <2> TAKE t \in Tasks
  <2> TAKE i \in DOMAIN Steps[t]
  <2>1. i \in Nat /\ i >= 1 /\ (pc'[t] = 0 \/ pc'[t] = 1)
    BY <1>4, StepNumbers
  <2> QED
    BY ONLY <2>1
<1> QED
  BY <1>1, <1>3, <1>5 DEF DoneInv

\* Every step keeps what is done on the chain.
LEMMA DoneStep ==
    ASSUME FlowInv, DoneInv, [ScriptNext]_scriptVars
    PROVE  DoneInv'
<1>1. ASSUME UNCHANGED <<process, pc, tx>>, ledger \subseteq ledger' PROVE DoneInv'
  BY <1>1, LedgerKeepsUp
<1>2. CASE UNCHANGED scriptVars
  BY <1>1, <1>2 DEF scriptVars, taskVars, chainVars, runVars
<1>3. ASSUME NEW t \in Tasks, TaskStep(t) PROVE DoneInv'
  BY <1>3, TaskStepKeepsDone
<1>4. pc \in [Tasks -> Nat] /\ tx \in [Tasks -> {"none", "sent", "success", "reverted"}]
  BY DEF FlowInv, TasksWellFormed
<1>5. CASE MainStep
  <2>1. CASE Deploy
    BY <1>1, <2>1 DEF Deploy, taskVars, chainVars, runVars
  <2>2. ASSUME UNCHANGED <<process, ledger>>, pc[Main] \in DOMAIN Steps[Main] /\ Step(Main)[1] \in Waits,
               pc' = Advanced(Main), UNCHANGED tx
        PROVE  DoneInv'
    <3>1. \A t \in Tasks : \/ pc'[t] = pc[t]
                           \/ pc'[t] = pc[t] + 1 /\ Step(t)[1] \in Waits
      BY <1>4, <2>2 DEF Advanced
    <3>2. \A t \in Tasks : tx'[t] = "success" => pc'[t] = pc[t] /\ tx[t] = "success"
      <4>1. tx[Main] = "none"
        BY <2>2, TaskFacts, WaitingHasNoTx
      <4>2. \A t \in Tasks : t # Main => pc'[t] = pc[t]
        BY <1>4, <2>2 DEF Advanced
      <4> QED
        BY <2>2, <4>1, <4>2
    <3> QED
      BY <2>2, <3>1, <3>2, LedgerKeepsUp
  <2>3. ASSUME UNCHANGED process, Fail(Main) PROVE DoneInv'
    <3>1. /\ \A t \in Tasks : pc'[t] = pc[t] \/ pc'[t] \in {0, 1}
          /\ \A t \in Tasks : tx'[t] = "success" => pc'[t] = pc[t] /\ tx[t] = "success"
      BY <1>4, <2>3, TaskFacts DEF Fail
    <3> QED
      BY <2>3, <3>1, LedgerKeepsUp DEF Fail
  <2>4. CASE DeploySucceeds \/ LoadTopics
    <3>1. /\ UNCHANGED <<process, ledger, tx>> /\ pc' = Advanced(Main)
          /\ pc[Main] \in DOMAIN Steps[Main] /\ Step(Main)[1] \in Waits
      BY <2>4 DEF DeploySucceeds, LoadTopics, AtStep, Active, Goto, chainVars, runVars, Waits
    <3> QED
      BY <2>2, <3>1
  <2>5. CASE AwaitSucceeds
    <3>1. UNCHANGED <<process, ledger, tx>> /\ pc' = Advanced(Main) /\ Awaited # {}
      BY <2>5 DEF AwaitSucceeds, AllResolved, Goto, chainVars, runVars
    <3>2. pc[Main] \in DOMAIN Steps[Main] /\ Step(Main)[1] \in Waits
      BY <3>1, AwaitedFacts, TaskStepsFacts DEF Step
    <3> QED
      BY <2>2, <3>1, <3>2
  <2>6. CASE DeployFails \/ LoadTopicsFails \/ AwaitFails
    BY <2>3, <2>6 DEF DeployFails, LoadTopicsFails, AwaitFails, Fail, runVars
  <2>7. CASE GetIdentities \/ StartVerification
    <3>1. /\ UNCHANGED <<process, ledger, tx>>
          /\ \A t \in Tasks : pc'[t] = pc[t] \/ pc'[t] = 1
      BY <2>7 DEF GetIdentities, StartVerification, chainVars, runVars
    <3>2. ASSUME NEW t \in Tasks, tx'[t] = "success" PROVE pc'[t] = pc[t]
      <4>1. tx[t] = "success" /\ pc[t] \in DOMAIN Steps[t]
        BY <3>1, <3>2 DEF FlowInv, TasksWellFormed
      <4>2. pc[t] # 0
        BY <4>1, StepNumbers
      <4>3. CASE \E a \in Actors : t = Identity(a)
        <5>1. pc[t] = 1
          BY <4>1, <4>3, StepNumbers, TaskStepsFacts
        <5> QED
          BY <3>1, <5>1
      <4>4. CASE t = Main \/ \E a \in RegisteredActors : t = Verification(a)
        <5>1. CASE GetIdentities
          BY <4>4, <5>1, TaskFacts DEF GetIdentities, Identity
        <5>2. CASE StartVerification
          <6>1. \A a \in RegisteredActors : pc[Verification(a)] = 0
            BY <5>2, RegisteredFacts DEF StartVerification
          <6>2. t[1] # "verification"
            BY <4>2, <4>4, <6>1, TaskFacts
          <6> QED
            BY <5>2, <6>2 DEF StartVerification
        <5> QED
          BY <2>7, <5>1, <5>2
      <4> QED
        BY <4>3, <4>4, TaskFacts
    <3> QED
      BY <3>1, <3>2, LedgerKeepsUp
  <2>8. CASE Exit
    <3>1. (Ended("exit 0") /\ Resolved(Main)) \/ Ended("exit 1")
      BY <2>8 DEF Exit
    <3> QED
      BY <3>1, EndedKeepsDone
  <2> QED
    BY <1>5, <2>1, <2>4, <2>5, <2>6, <2>7, <2>8 DEF MainStep
<1>6. CASE Mining
  <2>1. CASE MineFuture \/ \E s \in orphans : MineOrphan(s)
    BY <1>1, <2>1 DEF MineFuture, MineOrphan, taskVars, chainVars, runVars
  <2>2. ASSUME NEW t \in Tasks, Mine(t) PROVE DoneInv'
    <3>1. /\ UNCHANGED <<process, pc>> /\ ledger \subseteq ledger'
          /\ \/ tx' = [tx EXCEPT ![t] = "success"] /\ Step(t) \in ledger'
             \/ tx' = [tx EXCEPT ![t] = "reverted"]
      BY <2>2 DEF Mine, runVars
    <3>2. \A u \in Tasks : tx'[u] = "success" => tx[u] = "success" \/ Step(u) \in ledger'
      BY <1>4, <3>1
    <3> QED
      BY <3>1, <3>2, LedgerKeepsUp
  <2> QED
    BY <1>6, <2>1, <2>2 DEF Mining
<1>7. CASE Crash
  BY <1>7, EndedKeepsDone DEF Crash
<1>8. ASSUME NEW reset \in BOOLEAN, Start(reset) PROVE DoneInv'
  BY <1>8, StartKeepsDone
<1> QED
  BY <1>2, <1>3, <1>5, <1>6, <1>7, <1>8 DEF ScriptNext

\* At first nothing is done.
LEMMA DoneInit == ScriptInit => DoneInv
<1> SUFFICES ASSUME ScriptInit PROVE DoneInv
  OBVIOUS
<1>1. /\ \A t \in Tasks : pc[t] = 0 /\ tx[t] = "none"
      /\ process # "exit 0"
  BY DEF ScriptInit
<1>2. \A t \in Tasks : \A i \in DOMAIN Steps[t] : ~(i < pc[t])
  <2> TAKE t \in Tasks
  <2> TAKE i \in DOMAIN Steps[t]
  <2>1. i \in Nat /\ pc[t] = 0
    BY <1>1, StepNumbers
  <2> QED
    BY ONLY <2>1
<1> QED
  BY <1>1, <1>2 DEF DoneInv

\* An exit code of 0 means that every transaction of the script is on the
\* chain, whatever failed, was lost or was left over.
THEOREM ExitZeroMeansDone == ScriptSpec => []ExitZeroIsComplete
<1>1. FlowInv /\ DoneInv /\ [ScriptNext]_scriptVars => DoneInv'
  BY DoneStep
<1>2. DoneInv => ExitZeroIsComplete
  BY DEF DoneInv, ExitZeroIsComplete
<1> QED
  BY <1>1, <1>2, DoneInit, TasksInOrder, PTL DEF ScriptSpec

-----------------------------------------------------------------------------
(* The deployment.                                                         *)

\* A future is begun when everything before it is done, and none reverts.
DeployInv ==
    /\ future \in [OnboardingModule -> {"new", "sent", "mined", "done"}]
    /\ \A f \in OnboardingModule : future[f] # "new" => Ready(f)

\* What a transaction of the deployment needs is there before it is sent.
LEMMA RequiredIsDone ==
    ASSUME DeployInv, NEW f \in OnboardingModule, future[f] # "new", NEW g \in Requires(f)
    PROVE  OnChain(g)
<1>1. ASSUME NEW h \in OnboardingModule, <<h, f>> \in Order PROVE future[h] = "done"
  BY <1>1 DEF DeployInv, Ready
<1>2. SystemModule \subseteq OnboardingModule /\ SystemFactory \in OnboardingModule
  BY DEF OnboardingModule, SMARTModule, SystemFactoryModule
<1>3. SystemArguments \subseteq Order
  BY DEF Order, Arguments
<1>4. ASSUME NEW k \in AssetKinds, f = CreateTokenFactory(k), g = Bootstrap
      PROVE  future[g] = "done"
  <2>1. g \in SystemModule /\ f \in FactoryModule(k)
    BY <1>4 DEF SystemModule, FactoryModule
  <2>2. <<g, f>> \in (SMARTModule \cup SystemModule) \X FactoryModule(k)
    BY <2>1
  <2>3. <<g, f>> \in Order
    BY <2>2 DEF Order
  <2> QED
    BY <1>1, <1>2, <2>1, <2>3
<1>5. ASSUME f = Bootstrap, g = CreateSystem PROVE future[g] = "done"
  <2>1. <<System, Bootstrap>> \in Order /\ <<CreateSystem, System>> \in Order
    BY <1>3 DEF SystemArguments
  <2>2. System \in OnboardingModule /\ CreateSystem \in OnboardingModule
    BY <1>2 DEF SystemModule
  <2>3. future[System] = "done"
    BY <1>1, <1>5, <2>1, <2>2
  <2>4. Ready(System)
    BY <2>2, <2>3 DEF DeployInv
  <2> QED
    BY <1>5, <2>1, <2>2, <2>4 DEF Ready
<1>6. ASSUME f = CreateSystem, g = SystemFactory PROVE future[g] = "done"
  <2>1. <<SystemFactory, CreateSystem>> \in Order
    BY <1>3 DEF SystemArguments
  <2> QED
    BY <1>1, <1>2, <1>6, <2>1
<1> QED
  BY <1>4, <1>5, <1>6 DEF Requires, OnChain

\* A step of the deployment or of the miner takes one future further, and
\* never one that is done.
LEMMA FutureGoesOn ==
    ASSUME DeployInv, NEW f \in OnboardingModule, Read(f) \/ Submit(f) \/ Confirm(f) \/ Execute(f)
    PROVE  /\ DeployInv'
           /\ future[f] # "done"
           /\ \A g \in OnboardingModule : OnChain(g) => OnChain(g)'
<1> DEFINE State == {"new", "sent", "mined", "done"}
<1>1. /\ future \in [OnboardingModule -> State]
      /\ \A g \in OnboardingModule : future[g] # "new" => Ready(g)
  BY DEF DeployInv
<1>2. PICK x \in {"sent", "mined", "done"} :
          /\ future' = [future EXCEPT ![f] = x]
          /\ future[f] # "done" /\ Ready(f)
          /\ future[f] = "mined" => x = "done"
  <2>1. CASE Read(f)
    BY <2>1 DEF Read
  <2>2. CASE Submit(f)
    BY <2>2 DEF Submit
  <2>3. CASE Confirm(f)
    <3>1. future[f] = "mined"
      BY <1>1, <2>3 DEF Confirm
    <3> QED
      BY <1>1, <2>3, <3>1 DEF Confirm
  <2>4. CASE Execute(f)
    <3>1. \A g \in Requires(f) : OnChain(g)
      BY <2>4, RequiredIsDone DEF Execute
    <3> QED
      BY <1>1, <2>4, <3>1 DEF Execute
  <2> QED
    BY <2>1, <2>2, <2>3, <2>4
<1>3. /\ future' \in [OnboardingModule -> State]
      /\ future'[f] = x
      /\ \A g \in OnboardingModule : g # f => future'[g] = future[g]
  BY <1>1, <1>2
<1>4. \A g \in OnboardingModule : future[g] = "done" => future'[g] = "done"
  BY <1>2, <1>3
<1>5. \A g \in OnboardingModule : Ready(g) => Ready(g)'
  BY <1>4 DEF Ready
<1>6. \A g \in OnboardingModule : future'[g] # "new" => Ready(g)'
  BY <1>1, <1>2, <1>3, <1>5
<1>7. \A g \in OnboardingModule : OnChain(g) => OnChain(g)'
  BY <1>2, <1>3 DEF OnChain
<1> QED
  BY <1>2, <1>3, <1>6, <1>7 DEF DeployInv

\* Nothing else touches the deployment, but a reset.
LEMMA DeployStepKeeps ==
    ASSUME DeployInv, [ScriptNext]_scriptVars
    PROVE  /\ DeployInv'
           /\ \/ UNCHANGED future
              \/ /\ UNCHANGED <<taskVars, chainVars, runVars, faultVars>>
                 /\ \E f \in OnboardingModule : Read(f) \/ Submit(f) \/ Confirm(f) \/ Execute(f)
              \/ Start(TRUE)
<1>1. ASSUME UNCHANGED future PROVE DeployInv'
  BY <1>1 DEF DeployInv, Ready
<1>2. CASE UNCHANGED future
  BY <1>1, <1>2
<1>3. CASE Deploy \/ MineFuture
  <2>1. PICK f \in OnboardingModule : Read(f) \/ Submit(f) \/ Confirm(f) \/ Execute(f)
    BY <1>3 DEF Deploy, DeployStep, MineFuture
  <2>2. UNCHANGED <<taskVars, chainVars, runVars, faultVars>>
    BY <1>3 DEF Deploy, MineFuture
  <2> QED
    BY <2>1, <2>2, FutureGoesOn
<1>4. CASE Start(TRUE)
  <2>1. future' = NothingDeployed
    BY <1>4 DEF Start
  <2>2. DeployInv'
    BY <2>1 DEF NothingDeployed, DeployInv
  <2> QED
    BY <1>4, <2>2
<1>5. UNCHANGED future \/ Deploy \/ MineFuture \/ Start(TRUE)
  <2>1. CASE UNCHANGED scriptVars
    BY <2>1 DEF scriptVars
  <2>2. CASE \E t \in Tasks : TaskStep(t)
    BY <2>2 DEF TaskStep, Send, SendFails, Succeed, ReceiptFails, ReadSucceeds, ReadFails
  <2>3. CASE MainStep
    BY <2>3 DEF MainStep, DeploySucceeds, DeployFails, LoadTopics, LoadTopicsFails, GetIdentities,
                StartVerification, AwaitSucceeds, AwaitFails, Exit, Ended
  <2>4. CASE Mining
    BY <2>4 DEF Mining, Mine, MineOrphan
  <2>5. CASE Crash
    BY <2>5 DEF Crash, Ended
  <2>6. ASSUME NEW reset \in BOOLEAN, Start(reset) PROVE UNCHANGED future \/ Start(TRUE)
    <3>1. CASE reset = TRUE
      BY <2>6, <3>1
    <3>2. CASE reset = FALSE
      BY <2>6, <3>2 DEF Start
    <3> QED
      BY <3>1, <3>2
  <2> QED
    BY <2>1, <2>2, <2>3, <2>4, <2>5, <2>6 DEF ScriptNext
<1> QED
  BY <1>2, <1>3, <1>4, <1>5

\* No transaction of the deployment ever reverts, whatever was interrupted and
\* resumed from the journal: what it requires is done before it is sent.
THEOREM DeploymentNeverReverts ==
    ScriptSpec => []\A f \in OnboardingModule : future[f] \notin {"reverted", "failed"}
<1>1. ScriptInit => DeployInv
  BY DEF ScriptInit, NothingDeployed, DeployInv
<1>2. DeployInv /\ [ScriptNext]_scriptVars => DeployInv'
  BY DeployStepKeeps
<1>3. DeployInv => \A f \in OnboardingModule : future[f] \notin {"reverted", "failed"}
  BY DEF DeployInv
<1> QED
  BY <1>1, <1>2, <1>3, PTL DEF ScriptSpec

-----------------------------------------------------------------------------
(* A process that is not the first on its chain.                           *)

IdentityOf(a) == <<"createIdentity", a>>

\* The protocol is deployed before main goes on from setUp, and before
\* anything is sent.
DeployedFirst ==
    /\ pc[Main] > 1 \/ identityCreationQueue # << >> => DeploymentDone
    /\ ledger \cup orphans # {} => DeploymentDone

\* Whatever is on its way, the identity of a registered actor came first; and
\* a process that did not begin with a clean chain meets one it cannot create.
IdentitiesFirst ==
    /\ ledger \cup orphans # {} => \E a \in RegisteredActors : IdentityOf(a) \in ledger \cup orphans
    /\ process = "running" /\ ~clean =>
          \E a \in RegisteredActors :
              /\ IdentityOf(a) \in ledger \cup orphans
              /\ pc[Identity(a)] <= 1 /\ tx[Identity(a)] # "success"

\* A task with a transaction is sending one of the right kind after those
\* that have to come before.
LEMMA SendingFacts ==
    ASSUME FlowInv, DoneInv, DeployedFirst, NEW t \in Tasks, tx[t] # "none"
    PROVE  /\ DeploymentDone
           /\ \/ \E a \in RegisteredActors : t = Identity(a) /\ Step(t) = IdentityOf(a)
              \/ \E a \in RegisteredActors : IdentityOf(a) \in ledger
           /\ (t # Main /\ \A a \in RegisteredActors : t # Verification(a)) \/ RegisteredResolved
<1>1. pc[t] \in DOMAIN Steps[t] /\ Step(t)[1] \notin Waits
  BY DEF FlowInv, TasksWellFormed
<1>2. pc \in [Tasks -> Nat] /\ pc[t] >= 1
  BY <1>1, StepNumbers DEF FlowInv, TasksWellFormed
<1>3. ASSUME RegisteredResolved PROVE \E a \in RegisteredActors : IdentityOf(a) \in ledger
  <2>1. "owner" \in RegisteredActors /\ "owner" \in Actors
    BY RegisteredFacts DEF RegisteredActors
  <2>2. Identity("owner") \in Tasks /\ pc[Identity("owner")] > 1
    BY <1>2, <1>3, <2>1, TaskFacts, TaskStepsFacts DEF RegisteredResolved, Resolved
  <2>3. 1 \in DOMAIN Steps[Identity("owner")]
    BY <2>1, <2>2, TaskStepsFacts
  <2>4. Steps[Identity("owner")][1] = IdentityOf("owner")
    BY <2>1, TaskStepsFacts DEF IdentityOf
  <2>5. Steps[Identity("owner")][1][1] \notin Waits
    BY <2>4 DEF IdentityOf, Waits
  <2>6. IdentityOf("owner") \in ledger
    BY <2>2, <2>3, <2>4, <2>5 DEF DoneInv
  <2> QED
    BY <2>1, <2>6
<1>4. CASE t = Main
  <2>1. pc[Main] \in Nat /\ pc[Main] > 3
    <3>1. pc[Main] \notin {1, 2, 3}
      BY <1>1, <1>4, TaskStepsFacts DEF Step
    <3> QED
      BY <1>2, <1>4, <3>1, TaskFacts
  <2>2. RegisteredResolved /\ DeploymentDone
    <3>1. pc[Main] > 1
      BY <2>1
    <3> QED
      BY <2>1, <3>1 DEF FlowInv, MainAwaits, DeployedFirst
  <2> QED
    BY <1>3, <2>2
<1>5. ASSUME NEW a \in RegisteredActors, t = Verification(a)
      PROVE  RegisteredResolved /\ DeploymentDone
  <2>1. \A b \in Actors : Resolved(Identity(b))
    BY <1>2, <1>5 DEF FlowInv, MainAwaits
  <2>2. RegisteredResolved
    BY <2>1, RegisteredFacts DEF RegisteredResolved
  <2>3. "owner" \in Actors /\ pc[Identity("owner")] # 0
    <3>1. "owner" \in Actors
      BY DEF Actors
    <3> QED
      BY <1>2, <2>1, <3>1, TaskFacts, TaskStepsFacts DEF Resolved
  <2>4. identityCreationQueue # << >>
    BY <2>3, QueueFacts DEF FlowInv, QueueFollowsMain
  <2> QED
    BY <2>2, <2>4 DEF DeployedFirst
<1>6. ASSUME NEW a \in Actors, t = Identity(a)
      PROVE  /\ DeploymentDone
             /\ Step(t) = IdentityOf(a)
             /\ a \notin RegisteredActors => RegisteredResolved
  <2>1. a \in ToSet(identityCreationQueue)
    <3>1. pc[Identity(a)] # 0
      BY <1>2, <1>6
    <3> QED
      BY <3>1 DEF FlowInv, QueueFollowsMain
  <2>2. identityCreationQueue # << >>
    BY <2>1, QueueFacts
  <2>3. pc[t] = 1
    BY <1>1, <1>6, StepNumbers, TaskStepsFacts
  <2>4. Step(t) = IdentityOf(a)
    BY <1>6, <2>3, TaskStepsFacts DEF Step, IdentityOf
  <2>5. a \notin RegisteredActors => identityCreationQueue = AllActors
    BY <2>1, QueueFacts, RegisteredFacts DEF FlowInv, QueueFollowsMain
  <2>6. a \notin RegisteredActors => RegisteredResolved
    BY <2>5 DEF FlowInv, QueueFollowsMain
  <2> QED
    BY <2>2, <2>4, <2>6 DEF DeployedFirst
<1>7. CASE \E a \in RegisteredActors : t = Verification(a)
  BY <1>3, <1>5, <1>7
<1>8. CASE \E a \in Actors : t = Identity(a)
  <2>1. PICK a \in Actors : t = Identity(a)
    BY <1>8
  <2>2. t # Main /\ \A b \in RegisteredActors : t # Verification(b)
    BY <2>1, TaskFacts
  <2>3. DeploymentDone /\ Step(t) = IdentityOf(a) /\ (a \notin RegisteredActors => RegisteredResolved)
    BY <1>6, <2>1
  <2> QED
    BY <1>3, <2>1, <2>2, <2>3
<1> QED
  BY <1>4, <1>7, <1>8, TaskFacts

\* A process with a task that cannot create its identity stops there.
LEMMA StopsAtIdentities ==
    FlowInv /\ DoneInv /\ DeployedFirst /\ IdentitiesFirst => ResumedRunStopsAtIdentities
<1> SUFFICES ASSUME FlowInv, DoneInv, DeployedFirst, IdentitiesFirst,
                    process = "running", ~clean, NEW t \in Tasks, tx[t] # "none"
             PROVE  Step(t)[1] = "createIdentity"
  BY DEF ResumedRunStopsAtIdentities
<1>1. PICK a \in RegisteredActors : pc[Identity(a)] <= 1
  BY DEF IdentitiesFirst
<1>2. ~Resolved(Identity(a))
  <2>1. a \in Actors /\ Identity(a) \in Tasks /\ Len(Steps[Identity(a)]) = 1
    BY RegisteredFacts, TaskFacts, TaskStepsFacts
  <2>2. pc[Identity(a)] \in Nat
    BY <2>1 DEF FlowInv, TasksWellFormed
  <2> QED
    BY <1>1, <2>1, <2>2 DEF Resolved
<1>3. ~RegisteredResolved
  BY <1>2 DEF RegisteredResolved
<1>4. PICK b \in Actors : t = Identity(b)
  BY <1>3, SendingFacts, TaskFacts
<1>5. pc[t] = 1
  <2>1. pc[t] \in DOMAIN Steps[t]
    BY DEF FlowInv, TasksWellFormed
  <2> QED
    BY <1>4, <2>1, StepNumbers, TaskStepsFacts
<1> QED
  BY <1>4, <1>5, TaskStepsFacts DEF Step

\* What a step other than a start of a process adds to the chain, or to what
\* is under way, a task had sent; and nothing is taken back.
LEMMA ChainGrows ==
    ASSUME [ScriptNext]_scriptVars, \A reset \in BOOLEAN : ~Start(reset)
    PROVE  /\ \A s \in ledger' \cup orphans' :
                 s \in ledger \cup orphans \/ \E t \in Tasks : tx[t] = "sent" /\ s = Step(t)
           /\ ledger \subseteq ledger'
           /\ \A a \in RegisteredActors :
                 IdentityOf(a) \in ledger \cup orphans => IdentityOf(a) \in ledger' \cup orphans'
           /\ clean' = clean /\ (process' = "running" => process = "running")
<1>1. CASE UNCHANGED scriptVars
  BY <1>1 DEF scriptVars, chainVars, runVars
<1>2. ASSUME NEW t \in Tasks, TaskStep(t)
      PROVE  /\ UNCHANGED <<ledger, process, clean>>
             /\ orphans' = orphans \/ (tx[t] = "sent" /\ orphans' = orphans \cup {Step(t)})
  BY <1>2 DEF TaskStep, Send, SendFails, Succeed, ReceiptFails, ReadSucceeds, ReadFails,
              Fail, Goto, chainVars, runVars
<1>3. CASE MainStep /\ ~Exit
  BY <1>3 DEF MainStep, Deploy, DeploySucceeds, DeployFails, LoadTopics, LoadTopicsFails, GetIdentities,
              StartVerification, AwaitSucceeds, AwaitFails, Fail, Goto, chainVars, runVars
<1>4. ASSUME NEW how, Ended(how), how # "running"
      PROVE  /\ UNCHANGED <<ledger, clean>> /\ process' # "running"
             /\ orphans' = orphans \cup {Step(t) : t \in {u \in Tasks : tx[u] = "sent"}}
  BY <1>4 DEF Ended
<1>5. CASE Exit \/ Crash
  <2>1. PICK how \in {"exit 0", "exit 1", "crashed"} : Ended(how)
    BY <1>5 DEF Exit, Crash
  <2> QED
    BY <1>4, <2>1
<1>6. CASE MineFuture
  BY <1>6 DEF MineFuture, chainVars, runVars
<1>7. ASSUME NEW t \in Tasks, Mine(t)
      PROVE  /\ UNCHANGED <<orphans, process, clean>> /\ tx[t] = "sent"
             /\ ledger' = ledger \/ ledger' = ledger \cup {Step(t)}
  BY <1>7 DEF Mine, runVars
<1>8. ASSUME NEW s \in orphans, MineOrphan(s)
      PROVE  /\ UNCHANGED <<process, clean>>
             /\ orphans' = orphans \ {s} /\ ledger \subseteq ledger' /\ ledger' \subseteq ledger \cup {s}
             /\ \A a \in RegisteredActors : s = IdentityOf(a) => s \in ledger'
  <2>1. /\ UNCHANGED <<process, clean>>
        /\ orphans' = orphans \ {s}
        /\ ledger' = IF Accepted(s) THEN ledger \cup {s} ELSE ledger
    BY <1>8 DEF MineOrphan, runVars
  <2>2. ASSUME NEW a \in RegisteredActors, s = IdentityOf(a), s \notin ledger
        PROVE  Accepted(s)
    BY <2>2 DEF Accepted, IdentityOf
  <2> QED
    BY <2>1, <2>2
<1> QED
  BY <1>1, <1>2, <1>3, <1>5, <1>6, <1>7, <1>8 DEF ScriptNext, Mining

\* An identity is not created but by its transaction.
LEMMA IdentityMoves ==
    ASSUME FlowInv, [ScriptNext]_scriptVars, NEW a \in Actors,
           pc[Identity(a)] <= 1, tx[Identity(a)] # "success"
    PROVE  /\ pc'[Identity(a)] <= 1
           /\ tx'[Identity(a)] = "success" => Mine(Identity(a))
<1> DEFINE i == Identity(a)
<1>1. /\ pc \in [Tasks -> Nat] /\ tx \in [Tasks -> {"none", "sent", "success", "reverted"}]
      /\ i \in Tasks /\ i # Main
      /\ pc[i] <= 1 /\ tx[i] # "success"
  BY TaskFacts DEF FlowInv, TasksWellFormed
<1>2. pc[i] \in DOMAIN Steps[i] => Step(i)[1] \notin {"initialize", "isVerified"}
  <2> HAVE pc[i] \in DOMAIN Steps[i]
  <2>1. pc[i] = 1
    BY StepNumbers, TaskFacts, TaskStepsFacts
  <2>2. Step(i) = <<"createIdentity", a>>
    BY <2>1, TaskStepsFacts DEF Step
  <2> QED
    BY <2>2
<1> HIDE DEF i
<1>3. ASSUME NEW t \in Tasks, TaskStep(t)
      PROVE  /\ pc' = pc \/ pc' = [pc EXCEPT ![t] = 0] \/ (pc' = [pc EXCEPT ![t] = @ + 1] /\ t # i)
             /\ tx' = tx \/ tx' = [tx EXCEPT ![t] = "sent"] \/ tx' = [tx EXCEPT ![t] = "none"]
  <2>1. Succeed(t) => t # i
    BY DEF Succeed, i
  <2>2. ReadSucceeds(t) => t # i
    BY <1>2 DEF ReadSucceeds, AtStep, Active
  <2> QED
    BY <1>3, <2>1, <2>2 DEF TaskStep, Send, SendFails, Succeed, ReceiptFails, ReadSucceeds, ReadFails,
                            Fail, Goto, Advanced
<1>4. ASSUME MainStep /\ ~Exit PROVE pc'[i] <= 1 /\ tx'[i] # "success"
  <2>1. /\ pc' = pc \/ pc' = [pc EXCEPT ![Main] = 0] \/ pc' = [pc EXCEPT ![Main] = @ + 1]
           \/ \A t \in Tasks : pc'[t] = pc[t] \/ pc'[t] = 1
        /\ tx' = tx \/ tx' = [tx EXCEPT ![Main] = "none"]
    BY <1>4 DEF MainStep, Deploy, DeploySucceeds, DeployFails, LoadTopics, LoadTopicsFails, GetIdentities,
                StartVerification, AwaitSucceeds, AwaitFails, Fail, Goto, Advanced, taskVars
  <2>2. /\ \A t \in Tasks : t # Main => pc'[t] = pc[t] \/ pc'[t] = 1
        /\ \A t \in Tasks : t # Main => tx'[t] = tx[t]
    BY <1>1, <2>1
  <2> QED
    BY <1>1, <2>2
<1>5. ASSUME Exit \/ Crash PROVE pc'[i] <= 1 /\ tx'[i] # "success"
  <2>1. pc' = [t \in Tasks |-> 0] /\ tx' = [t \in Tasks |-> "none"]
    BY <1>5 DEF Exit, Crash, Ended
  <2>2. pc'[i] = 0 /\ tx'[i] = "none"
    BY <1>1, <2>1
  <2> QED
    BY <2>2
<1>6. ASSUME MineFuture \/ (\E s \in orphans : MineOrphan(s)) \/ UNCHANGED scriptVars
      PROVE  pc'[i] <= 1 /\ tx'[i] # "success"
  <2>1. UNCHANGED <<pc, tx>>
    BY <1>6 DEF MineFuture, MineOrphan, scriptVars, taskVars
  <2> QED
    BY <1>1, <2>1
<1>7. ASSUME NEW t \in Tasks, Mine(t)
      PROVE  UNCHANGED pc /\ (t # i => tx'[i] = tx[i])
  BY <1>1, <1>7 DEF Mine
<1>8. ASSUME NEW reset \in BOOLEAN, Start(reset)
      PROVE  pc'[i] = pc[i] /\ UNCHANGED tx
  BY <1>1, <1>8 DEF Start
<1>9. ASSUME NEW t \in Tasks, TaskStep(t)
      PROVE  (pc'[i] = pc[i] \/ pc'[i] = 0) /\ tx'[i] # "success"
  BY <1>1, <1>3, <1>9 DEF i
<1> QED
  BY <1>1, <1>4, <1>5, <1>6, <1>7, <1>8, <1>9 DEF ScriptNext, Mining, i

\* Nothing is sent before the protocol is deployed.
LEMMA DeployedFirstStep ==
    ASSUME FlowInv, DoneInv, DeployInv, DeployedFirst, [ScriptNext]_scriptVars
    PROVE  DeployedFirst'
<1>1. \A f \in OnboardingModule :
          Read(f) \/ Submit(f) \/ Confirm(f) \/ Execute(f) => future[f] # "done"
  BY FutureGoesOn
<1>2. DeploymentDone => UNCHANGED future \/ Start(TRUE)
  BY <1>1, DeployStepKeeps DEF DeploymentDone
<1>3. CASE \E reset \in BOOLEAN : Start(reset)
  <2>1. PICK reset \in BOOLEAN : Start(reset)
    BY <1>3
  <2>2. /\ pc' = [pc EXCEPT ![Main] = 1] /\ process # "running"
        /\ UNCHANGED identityCreationQueue
        /\ \/ ledger' = {} /\ orphans' = {}
           \/ UNCHANGED <<future, ledger, orphans>>
    BY <2>1 DEF Start, chainVars
  <2>3. identityCreationQueue = << >> /\ pc'[Main] = 1
    BY <2>2, TaskFacts DEF FlowInv, NothingLeft, TasksWellFormed
  <2> QED
    BY <2>2, <2>3 DEF DeployedFirst, DeploymentDone
<1>4. CASE \A reset \in BOOLEAN : ~Start(reset)
  <2>1. DeploymentDone => DeploymentDone'
    BY <1>2, <1>4 DEF DeploymentDone
  <2>2. ledger' \cup orphans' # {} => DeploymentDone
    <3> HAVE ledger' \cup orphans' # {}
    <3>1. PICK s \in ledger' \cup orphans' :
              s \in ledger \cup orphans \/ \E t \in Tasks : tx[t] = "sent"
      BY <1>4, ChainGrows
    <3>2. CASE s \in ledger \cup orphans
      BY <3>2 DEF DeployedFirst
    <3>3. ASSUME NEW t \in Tasks, tx[t] = "sent" PROVE DeploymentDone
      BY <3>3, SendingFacts
    <3> QED
      BY <3>1, <3>2, <3>3
  <2>3. pc \in [Tasks -> Nat] /\ pc[Main] \in Nat
    BY TaskFacts DEF FlowInv, TasksWellFormed
  <2>4. \/ pc'[Main] = pc[Main] \/ pc'[Main] = 0
        \/ DeploymentDone
    <3>1. ASSUME NEW t \in Tasks, TaskStep(t), pc'[Main] # pc[Main], pc'[Main] # 0
          PROVE  DeploymentDone
      <4>1. t = Main /\ (Succeed(t) \/ ReadSucceeds(t))
        <5>1. \/ pc' = pc \/ pc' = [pc EXCEPT ![t] = 0]
              \/ pc' = [pc EXCEPT ![t] = @ + 1] /\ (Succeed(t) \/ ReadSucceeds(t))
          BY <3>1 DEF TaskStep, Send, SendFails, Succeed, ReceiptFails, ReadSucceeds, ReadFails,
                      Fail, Goto, Advanced
        <5>2. t = Main
          BY <2>3, <3>1, <5>1, TaskFacts
        <5> QED
          BY <2>3, <3>1, <5>1, <5>2
      <4>2. CASE Succeed(t)
        <5>1. tx[t] # "none"
          BY <4>2 DEF Succeed
        <5> QED
          BY <5>1, SendingFacts
      <4>3. CASE ReadSucceeds(t)
        <5>1. pc[Main] = 2
          BY <4>1, <4>3, ReadFacts DEF ReadSucceeds
        <5>2. pc[Main] > 1
          BY <5>1
        <5> QED
          BY <5>2 DEF DeployedFirst
      <4> QED
        BY <4>1, <4>2, <4>3
    <3>2. ASSUME MainStep, pc'[Main] # pc[Main], pc'[Main] # 0
          PROVE  DeploymentDone
      <4>1. CASE DeploySucceeds
        BY <4>1 DEF DeploySucceeds
      <4>2. CASE LoadTopics
        <5>1. pc[Main] = 5
          BY <4>2, MainStepNames DEF LoadTopics, AtStep, Active, Step
        <5>2. pc[Main] > 1
          BY <5>1
        <5> QED
          BY <5>2 DEF DeployedFirst
      <4>3. CASE AwaitSucceeds
        <5>1. pc[Main] \in {3, 6, 8}
          BY <4>3, AwaitedFacts DEF AwaitSucceeds, AllResolved
        <5>2. pc[Main] > 1
          BY <5>1
        <5> QED
          BY <5>2 DEF DeployedFirst
      <4>4. CASE GetIdentities \/ StartVerification
        <5>1. pc'[Main] = pc[Main]
          BY <4>4, TaskFacts DEF GetIdentities, StartVerification, Main, Identity
        <5> QED
          BY <3>2, <5>1
      <4>5. CASE Deploy \/ DeployFails \/ LoadTopicsFails \/ AwaitFails \/ Exit
        <5>1. UNCHANGED pc \/ pc' = [pc EXCEPT ![Main] = 0] \/ pc' = [t \in Tasks |-> 0]
          BY <4>5 DEF Deploy, DeployFails, LoadTopicsFails, AwaitFails, Exit, Fail, Ended, taskVars
        <5> QED
          BY <2>3, <3>2, <5>1, TaskFacts
      <4> QED
        BY <3>2, <4>1, <4>2, <4>3, <4>4, <4>5 DEF MainStep
    <3>3. CASE Mining \/ UNCHANGED scriptVars
      BY <3>3 DEF Mining, MineFuture, Mine, MineOrphan, scriptVars, taskVars
    <3>4. CASE Crash
      <4>1. pc' = [t \in Tasks |-> 0]
        BY <3>4 DEF Crash, Ended
      <4> QED
        BY <4>1, TaskFacts
    <3> QED
      BY <1>4, <3>1, <3>2, <3>3, <3>4 DEF ScriptNext
  <2>5. \/ identityCreationQueue' \in {identityCreationQueue, << >>}
        \/ DeploymentDone
    <3>1. CASE GetIdentities
      <4>1. pc[Main] \in {3, 6}
        BY <3>1, MainStepNames DEF GetIdentities, AtStep, Active, Step
      <4>2. pc[Main] > 1
        BY <4>1
      <4> QED
        BY <4>2 DEF DeployedFirst
    <3>2. ASSUME NEW t \in Tasks, TaskStep(t) PROVE identityCreationQueue' = identityCreationQueue
      BY <3>2 DEF TaskStep, Send, SendFails, Succeed, ReceiptFails, ReadSucceeds, ReadFails, Fail, Goto
    <3>3. CASE MainStep /\ ~GetIdentities
      BY <3>3 DEF MainStep, Deploy, DeploySucceeds, DeployFails, LoadTopics, LoadTopicsFails,
                  StartVerification, AwaitSucceeds, AwaitFails, Exit, Ended, Fail, Goto, taskVars
    <3>4. CASE Mining \/ Crash \/ UNCHANGED scriptVars
      BY <3>4 DEF Mining, MineFuture, Mine, MineOrphan, Crash, Ended, scriptVars, taskVars
    <3> QED
      BY <1>4, <3>1, <3>2, <3>3, <3>4 DEF ScriptNext
  <2>6. pc'[Main] > 1 \/ identityCreationQueue' # << >> => DeploymentDone
    <3>1. pc'[Main] > 1 => DeploymentDone
      BY <2>3, <2>4 DEF DeployedFirst
    <3> QED
      BY <2>5, <3>1 DEF DeployedFirst
  <2> QED
    BY <2>1, <2>2, <2>6 DEF DeployedFirst
<1> QED
  BY <1>3, <1>4

\* A wallet's first transaction is never overtaken by others.
LEMMA IdentitiesFirstStep ==
    ASSUME FlowInv, DoneInv, DeployInv, DeployedFirst, IdentitiesFirst, [ScriptNext]_scriptVars
    PROVE  IdentitiesFirst'
<1>1. ASSUME NEW reset \in BOOLEAN, Start(reset) PROVE IdentitiesFirst'
  <2>1. /\ process # "running" /\ pc' = [pc EXCEPT ![Main] = 1] /\ UNCHANGED tx
        /\ clean' = (reset \/ (ledger \cup orphans = {} /\ ~DeploymentFailed))
        /\ IF reset THEN ledger' = {} /\ orphans' = {} ELSE UNCHANGED <<ledger, orphans>>
    BY <1>1 DEF Start, chainVars
  <2>2. ~DeploymentFailed
    BY DEF DeploymentFailed, DeployInv
  <2>3. ~clean' => ledger \cup orphans # {} /\ UNCHANGED <<ledger, orphans>>
    BY <2>1, <2>2
  <2>4. ledger' \cup orphans' # {} =>
            \E a \in RegisteredActors : IdentityOf(a) \in ledger' \cup orphans'
    BY <2>1 DEF IdentitiesFirst
  <2>5. \A a \in RegisteredActors : pc'[Identity(a)] <= 1 /\ tx'[Identity(a)] # "success"
    <3> TAKE a \in RegisteredActors
    <3>1. Identity(a) \in Tasks /\ Identity(a) # Main
      BY RegisteredFacts, TaskFacts
    <3>2. pc[Identity(a)] = 0 /\ pc \in [Tasks -> Nat]
      BY <2>1, <3>1 DEF FlowInv, NothingLeft, TasksWellFormed
    <3>3. tx[Identity(a)] = "none"
      <4>1. 0 \notin DOMAIN Steps[Identity(a)]
        BY <3>1, StepNumbers
      <4> QED
        BY <3>1, <3>2, <4>1, WaitingHasNoTx
    <3>4. pc'[Identity(a)] = 0 /\ tx'[Identity(a)] = "none"
      BY <2>1, <3>1, <3>2, <3>3
    <3> QED
      BY <3>4
  <2> QED
    BY <2>3, <2>4, <2>5 DEF IdentitiesFirst
<1>2. CASE \A reset \in BOOLEAN : ~Start(reset)
  <2>1. /\ \A s \in ledger' \cup orphans' :
              s \in ledger \cup orphans \/ \E t \in Tasks : tx[t] = "sent" /\ s = Step(t)
        /\ ledger \subseteq ledger'
        /\ \A a \in RegisteredActors :
              IdentityOf(a) \in ledger \cup orphans => IdentityOf(a) \in ledger' \cup orphans'
        /\ clean' = clean /\ (process' = "running" => process = "running")
    BY <1>2, ChainGrows
  <2>2. ASSUME ledger' \cup orphans' # {}
        PROVE  \E a \in RegisteredActors : IdentityOf(a) \in ledger' \cup orphans'
    <3>1. CASE ledger \cup orphans # {}
      BY <2>1, <3>1 DEF IdentitiesFirst
    <3>2. CASE ledger \cup orphans = {}
      <4>1. PICK s \in ledger' \cup orphans' : \E t \in Tasks : tx[t] = "sent" /\ s = Step(t)
        BY <2>1, <2>2, <3>2
      <4>2. PICK t \in Tasks : tx[t] = "sent" /\ s = Step(t)
        BY <4>1
      <4>3. \/ \E a \in RegisteredActors : t = Identity(a) /\ Step(t) = IdentityOf(a)
            \/ \E a \in RegisteredActors : IdentityOf(a) \in ledger
        BY <4>2, SendingFacts
      <4> QED
        BY <3>2, <4>1, <4>2, <4>3
    <3> QED
      BY <3>1, <3>2
  <2>3. ASSUME process' = "running", ~clean'
        PROVE  \E a \in RegisteredActors :
                  /\ IdentityOf(a) \in ledger' \cup orphans'
                  /\ pc'[Identity(a)] <= 1 /\ tx'[Identity(a)] # "success"
    <3>1. PICK a \in RegisteredActors :
              /\ IdentityOf(a) \in ledger \cup orphans
              /\ pc[Identity(a)] <= 1 /\ tx[Identity(a)] # "success"
      BY <2>1, <2>3 DEF IdentitiesFirst
    <3>2. a \in Actors /\ a # "claimIssuer" /\ Identity(a) \in Tasks
      BY RegisteredFacts, TaskFacts
    <3>3. /\ pc'[Identity(a)] <= 1
          /\ tx'[Identity(a)] = "success" => Mine(Identity(a))
      BY <3>1, <3>2, IdentityMoves
    <3>4. ~(Mine(Identity(a)) /\ tx'[Identity(a)] = "success")
      <4> SUFFICES ASSUME Mine(Identity(a)), tx'[Identity(a)] = "success" PROVE FALSE
        OBVIOUS
      <4>1. /\ tx[Identity(a)] = "sent"
            /\ \A s \in orphans : Sender(s) # Sender(Step(Identity(a)))
            /\ ~Accepted(Step(Identity(a))) => tx' = [tx EXCEPT ![Identity(a)] = "reverted"]
        BY DEF Mine
      <4>2. Step(Identity(a)) = IdentityOf(a)
        <5>1. pc[Identity(a)] \in DOMAIN Steps[Identity(a)]
          BY <3>2, <4>1 DEF FlowInv, TasksWellFormed
        <5>2. pc[Identity(a)] = 1
          BY <3>2, <5>1, StepNumbers, TaskStepsFacts
        <5> QED
          BY <3>2, <5>2, TaskStepsFacts DEF Step, IdentityOf
      <4>3. IdentityOf(a) \in ledger
        BY <3>1, <4>1, <4>2
      <4>4. ~Accepted(IdentityOf(a))
        BY <3>2, <4>3 DEF Accepted, IdentityOf
      <4>5. tx'[Identity(a)] = "reverted"
        BY <3>2, <4>1, <4>2, <4>4 DEF FlowInv, TasksWellFormed
      <4> QED
        BY <4>5
    <3> QED
      BY <2>1, <3>1, <3>3, <3>4
  <2> QED
    BY <2>2, <2>3 DEF IdentitiesFirst
<1> QED
  BY <1>1, <1>2

\* What holds of every run: the order of the tasks, what they have done, the
\* deployment before anything else, and identities before the rest.
OnboardingInv ==
    /\ FlowInv
    /\ DoneInv
    /\ DeployInv
    /\ DeployedFirst
    /\ IdentitiesFirst

\* The invariant is inductive.
LEMMA OnboardingStep == OnboardingInv /\ [ScriptNext]_scriptVars => OnboardingInv'
BY FlowStep, DoneStep, DeployStepKeeps, DeployedFirstStep, IdentitiesFirstStep DEF OnboardingInv

\* It holds when nothing has been run.
LEMMA OnboardingInit == ScriptInit => OnboardingInv
<1> SUFFICES ASSUME ScriptInit PROVE OnboardingInv
  OBVIOUS
<1>1. FlowInv /\ DoneInv
  BY FlowInit, DoneInit
<1>2. DeployInv
  BY DEF ScriptInit, NothingDeployed, DeployInv
<1>3. pc[Main] = 0 /\ identityCreationQueue = << >> /\ ledger = {} /\ orphans = {}
      /\ process = "not started"
  BY TaskFacts DEF ScriptInit
<1>4. ~(pc[Main] > 1) /\ process # "running"
  <2>1. ~(pc[Main] > 1)
    <3>1. pc[Main] = 0
      BY <1>3
    <3> QED
      BY ONLY <3>1
  <2>2. process # "running"
    BY ONLY <1>3
  <2> QED
    BY <2>1, <2>2
<1>5. DeployedFirst
  BY <1>3, <1>4 DEF DeployedFirst
<1>6. IdentitiesFirst
  BY <1>3, <1>4 DEF IdentitiesFirst
<1> QED
  BY <1>1, <1>2, <1>5, <1>6 DEF OnboardingInv

\* A process that finds identities of an earlier one, or their transactions
\* under way, stops there: it never registers, trusts, creates or mints twice.
THEOREM ResumedRunsStop == ScriptSpec => []ResumedRunStopsAtIdentities
<1>1. OnboardingInv => ResumedRunStopsAtIdentities
  BY StopsAtIdentities DEF OnboardingInv
<1> QED
  BY <1>1, OnboardingInit, OnboardingStep, PTL DEF ScriptSpec

-----------------------------------------------------------------------------
(* What is on the chain.                                                   *)

\* The transactions of the script by their names.
TransactionNames ==
    {"createIdentity", "batchRegisterIdentity", "addTrustedIssuer", "addClaim"} \cup AssetTransactions

Transaction ==
    {IdentityOf(a) : a \in Actors}
    \cup {<<"batchRegisterIdentity">>, <<"addTrustedIssuer">>}
    \cup {<<"addClaim", a, topic>> : a \in RegisteredActors, topic \in {"kyc", "aml"}}
    \cup AnyAssetStep

\* A task sends transactions of the script.
LEMMA SentIsTransaction ==
    ASSUME NEW t \in Tasks, NEW i \in DOMAIN Steps[t], Steps[t][i][1] \notin Waits
    PROVE  Steps[t][i] \in Transaction
<1>1. CASE t = Main
  <2>1. Steps[t] = MainSteps /\ i \in 1 .. Len(MainSteps) /\ Len(MainSteps) \in Nat
    BY <1>1, StepsFacts, MainStepsFacts
  <2>2. i \notin {1, 2, 3, 5, 6, 8}
    BY <1>1, TaskStepsFacts
  <2>3. i = 4 \/ i = 7 \/ i \in 9 .. Len(MainSteps)
    <3>1. i \in Nat /\ i >= 1 /\ i <= Len(MainSteps)
      BY ONLY <2>1
    <3> QED
      BY ONLY <2>1, <2>2, <3>1
  <2>4. CASE i = 4
    BY <2>1, <2>4, MainStepsFacts DEF Transaction
  <2>5. CASE i = 7
    BY <2>1, <2>5, MainStepsFacts DEF Transaction
  <2>6. CASE i \in 9 .. Len(MainSteps)
    BY <2>1, <2>6, MainStepsFacts DEF Transaction
  <2> QED
    BY <2>3, <2>4, <2>5, <2>6
<1>2. ASSUME NEW a \in Actors, t = Identity(a) PROVE Steps[t][i] \in Transaction
  <2>1. i = 1
    BY <1>2, StepNumbers, TaskStepsFacts
  <2>2. Steps[t][i] = IdentityOf(a)
    BY <1>2, <2>1, TaskStepsFacts DEF IdentityOf
  <2> QED
    BY <2>2 DEF Transaction
<1>3. ASSUME NEW a \in RegisteredActors, t = Verification(a) PROVE Steps[t][i] \in Transaction
  <2>1. i \in Nat /\ i >= 1 /\ i <= 3
    BY <1>3, StepNumbers, TaskStepsFacts
  <2>2. i = 1 \/ i = 2 \/ i = 3
    BY ONLY <2>1
  <2>3. i # 3
    BY <1>3, TaskStepsFacts DEF Waits
  <2>4. Steps[t][i] = <<"addClaim", a, "kyc">> \/ Steps[t][i] = <<"addClaim", a, "aml">>
    BY <1>3, <2>2, <2>3, TaskStepsFacts
  <2> QED
    BY <2>4 DEF Transaction
<1> QED
  BY <1>1, <1>2, <1>3, TaskFacts

\* What a transaction is made of.
LEMMA TransactionFacts ==
    ASSUME NEW s \in Transaction
    PROVE  /\ s[1] \in TransactionNames
           /\ s[1] = "createIdentity" => \E a \in Actors : s = IdentityOf(a)
           /\ s[1] = "create" => \E k \in AssetKinds : s = <<"create", k>>
<1>1. ASSUME NEW a \in Actors, s = IdentityOf(a)
      PROVE  s[1] = "createIdentity" /\ s[2] = a
  BY <1>1 DEF IdentityOf
<1>2. CASE s \in {<<"batchRegisterIdentity">>, <<"addTrustedIssuer">>}
  BY <1>2 DEF TransactionNames
<1>3. ASSUME NEW a \in RegisteredActors, NEW topic \in {"kyc", "aml"}, s = <<"addClaim", a, topic>>
      PROVE  s[1] = "addClaim"
  BY <1>3
<1>4. CASE s \in AnyAssetStep
  <2>1. /\ s[1] \in AssetTransactions
        /\ s[2] \in AssetKinds
        /\ s[1] = "create" => s = <<"create", s[2]>>
    BY <1>4, AssetStepFacts
  <2>2. s[1] # "createIdentity"
    BY <2>1 DEF AssetTransactions
  <2> QED
    BY <2>1, <2>2 DEF TransactionNames
<1> QED
  BY <1>1, <1>2, <1>3, <1>4 DEF Transaction, TransactionNames

\* The chain and what is under way are transactions of the script.
ChainTyped == ledger \cup orphans \subseteq Transaction

\* They stay so.
LEMMA ChainTypedStep ==
    ASSUME FlowInv, ChainTyped, [ScriptNext]_scriptVars
    PROVE  ChainTyped'
<1>1. ASSUME NEW reset \in BOOLEAN, Start(reset) PROVE ChainTyped'
  <2>1. (ledger' = {} /\ orphans' = {}) \/ UNCHANGED <<ledger, orphans>>
    BY <1>1 DEF Start, chainVars
  <2> QED
    BY <2>1 DEF ChainTyped
<1>2. CASE \A reset \in BOOLEAN : ~Start(reset)
  <2>1. \A s \in ledger' \cup orphans' :
            s \in ledger \cup orphans \/ \E t \in Tasks : tx[t] = "sent" /\ s = Step(t)
    BY <1>2, ChainGrows
  <2>2. ASSUME NEW t \in Tasks, tx[t] = "sent" PROVE Step(t) \in Transaction
    <3>1. pc[t] \in DOMAIN Steps[t] /\ Step(t)[1] \notin Waits
      BY <2>2 DEF FlowInv, TasksWellFormed
    <3> QED
      BY <3>1, SentIsTransaction DEF Step
  <2> QED
    BY <2>1, <2>2 DEF ChainTyped
<1> QED
  BY <1>1, <1>2

\* The names of the futures.
LEMMA FutureNames ==
    ASSUME NEW f \in OnboardingModule
    PROVE  /\ f[1] \notin TransactionNames
           /\ f \in SystemModule => f[1] \in {"createSystem", "system", "bootstrap", "addresses"}
           /\ \A k \in AssetKinds : f = CreateTokenFactory(k) => f[1] = "createTokenFactory" /\ f[2] = k
<1>1. f[1] \in {"forwarder", "implementation", "systemFactory", "assetImplementation",
                "factoryImplementation", "createSystem", "system", "bootstrap", "addresses",
                "createTokenFactory", "factoryAddress"}
  BY DEF OnboardingModule, SMARTModule, SystemFactoryModule, AssetModule, SystemModule, FactoryModule,
         Forwarder, Implementation, SystemFactory, AssetImplementation, FactoryImplementation,
         CreateSystem, System, Bootstrap, Addresses, CreateTokenFactory, FactoryAddress
<1>2. f[1] \notin TransactionNames
  BY <1>1 DEF TransactionNames, AssetTransactions
<1>3. f \in SystemModule => f[1] \in {"createSystem", "system", "bootstrap", "addresses"}
  BY DEF SystemModule, CreateSystem, System, Bootstrap, Addresses
<1>4. \A k \in AssetKinds : f = CreateTokenFactory(k) => f[1] = "createTokenFactory" /\ f[2] = k
  BY DEF CreateTokenFactory
<1> QED
  BY <1>2, <1>3, <1>4

-----------------------------------------------------------------------------
(* The index.                                                              *)

Picked(s) == CHOOSE x \in s : TRUE

\* One step of the fold over the set s, given what the fold makes of smaller sets.
HandleStep(ix, g, s) ==
    IF s = {} THEN ix ELSE Handled(g[s \ {Picked(s)}], Picked(s))

\* The index after the effects of every subset of S.
HandledAll(ix, S) == CHOOSE g : g = [s \in SUBSET S |-> HandleStep(ix, g, s)]

\* The community module's fold is the recursive function above.
LEMMA FoldUnfolds ==
    ASSUME NEW ix, NEW S
    PROVE  FoldSet(LAMBDA effect, x : Handled(x, effect), ix, S) = HandledAll(ix, S)[S]
BY DEF FoldSet, MapThenFoldSet, HandledAll, HandleStep, Picked

\* Without an effect the index stays, and one effect is handled.
LEMMA FoldFacts ==
    ASSUME NEW ix
    PROVE  /\ FoldSet(LAMBDA effect, x : Handled(x, effect), ix, {}) = ix
           /\ \A e : FoldSet(LAMBDA effect, x : Handled(x, effect), ix, {e}) = Handled(ix, e)
<1>1. HandledAll(ix, {})[{}] = ix
  <2> DEFINE g == [s \in SUBSET {} |-> ix]
             IsFold(h) == h = [s \in SUBSET {} |-> HandleStep(ix, h, s)]
  <2>1. IsFold(g)
    <3>1. \A s \in SUBSET {} : HandleStep(ix, g, s) = ix
      BY DEF HandleStep
    <3> QED
      BY <3>1
  <2>2. HandledAll(ix, {}) = CHOOSE h : IsFold(h)
    BY DEF HandledAll
  <2>3. IsFold(HandledAll(ix, {}))
    <3> HIDE DEF IsFold, g
    <3> QED
      BY <2>1, <2>2
  <2>4. HandledAll(ix, {})[{}] = HandleStep(ix, HandledAll(ix, {}), {})
    <3> DEFINE h == HandledAll(ix, {})
    <3> HIDE DEF h
    <3>1. IsFold(h) => h[{}] = HandleStep(ix, h, {})
      OBVIOUS
    <3> QED
      BY <2>3, <3>1 DEF h
  <2> QED
    BY <2>4 DEF HandleStep
<1>2. ASSUME NEW e PROVE HandledAll(ix, {e})[{e}] = Handled(ix, e)
  <2> DEFINE g == [s \in SUBSET {e} |-> IF s = {} THEN ix ELSE Handled(ix, e)]
             IsFold(h) == h = [s \in SUBSET {e} |-> HandleStep(ix, h, s)]
  <2>0. Picked({e}) = e /\ {e} \ {Picked({e})} = {} /\ {e} # {}
    <3>1. Picked({e}) \in {e}
      BY DEF Picked
    <3> QED
      BY <3>1
  <2>1. IsFold(g)
    <3>1. \A s \in SUBSET {e} : s = {} \/ s = {e}
      OBVIOUS
    <3>2. g[{}] = ix
      OBVIOUS
    <3>3. HandleStep(ix, g, {}) = ix /\ HandleStep(ix, g, {e}) = Handled(ix, e)
      BY <2>0, <3>2 DEF HandleStep
    <3>4. \A s \in SUBSET {e} : HandleStep(ix, g, s) = IF s = {} THEN ix ELSE Handled(ix, e)
      BY <2>0, <3>1, <3>3
    <3> QED
      BY <3>4
  <2>2. HandledAll(ix, {e}) = CHOOSE h : IsFold(h)
    BY DEF HandledAll
  <2>3. IsFold(HandledAll(ix, {e}))
    <3> HIDE DEF IsFold, g
    <3> QED
      BY <2>1, <2>2
  <2>4. \A s \in SUBSET {e} : HandledAll(ix, {e})[s] = HandleStep(ix, HandledAll(ix, {e}), s)
    <3> DEFINE h == HandledAll(ix, {e})
    <3> HIDE DEF h
    <3>1. IsFold(h) => \A s \in SUBSET {e} : h[s] = HandleStep(ix, h, s)
      OBVIOUS
    <3> QED
      BY <2>3, <3>1 DEF h
  <2>5. HandledAll(ix, {e})[{}] = ix
    <3>1. HandledAll(ix, {e})[{}] = HandleStep(ix, HandledAll(ix, {e}), {})
      BY <2>4
    <3> QED
      BY <3>1 DEF HandleStep
  <2>6. HandledAll(ix, {e})[{e}] = HandleStep(ix, HandledAll(ix, {e}), {e})
    BY <2>4
  <2> QED
    BY <2>0, <2>5, <2>6 DEF HandleStep
<1>3. FoldSet(LAMBDA effect, x : Handled(x, effect), ix, {}) = ix
  BY <1>1, FoldUnfolds
<1>4. ASSUME NEW e PROVE FoldSet(LAMBDA effect, x : Handled(x, effect), ix, {e}) = Handled(ix, e)
  <2>1. HandledAll(ix, {e})[{e}] = Handled(ix, e)
    BY <1>2
  <2>2. FoldSet(LAMBDA effect, x : Handled(x, effect), ix, {e}) = HandledAll(ix, {e})[{e}]
    BY FoldUnfolds
  <2> QED
    BY <2>1, <2>2
<1> QED
  BY <1>3, <1>4

\* Of the futures only f is newly on the chain.
OnlyMined(f) ==
    /\ f \in Reads \/ future[f] # "new"
    /\ ~OnChain(f) /\ OnChain(f)'
    /\ \A g \in OnboardingModule : g # f => (OnChain(g)' <=> OnChain(g))

SameDeployment == \A f \in OnboardingModule : OnChain(f)' <=> OnChain(f)

\* A step of the script has at most one effect on the chain, or clears it.
LEMMA OneEffect ==
    ASSUME OnboardingInv, ChainTyped, [ScriptNext]_scriptVars
    PROVE  \/ UNCHANGED ledger /\ SameDeployment
           \/ UNCHANGED ledger /\ \E f \in OnboardingModule : OnlyMined(f)
           \/ \E s \in Transaction \ ledger :
                 ledger' = ledger \cup {s} /\ SameDeployment /\ DeploymentDone
           \/ ledger' = {} /\ \A f \in OnboardingModule : ~OnChain(f)'
<1>1. CASE Start(TRUE)
  <2>1. ledger' = {} /\ future' = NothingDeployed
    BY <1>1 DEF Start
  <2> QED
    BY <2>1 DEF NothingDeployed, OnChain
<1>2. CASE /\ UNCHANGED <<taskVars, chainVars, runVars, faultVars>>
           /\ \E f \in OnboardingModule : Read(f) \/ Submit(f) \/ Confirm(f) \/ Execute(f)
  <2>1. PICK f \in OnboardingModule : Read(f) \/ Submit(f) \/ Confirm(f) \/ Execute(f)
    BY <1>2
  <2>2. UNCHANGED ledger
    BY <1>2 DEF chainVars
  <2>3. DeployInv /\ \A g \in OnboardingModule : OnChain(g) => OnChain(g)'
    BY <2>1, FutureGoesOn DEF OnboardingInv
  <2>4. \A g \in OnboardingModule : g # f => future'[g] = future[g]
    BY <2>1, <2>3 DEF Read, Submit, Confirm, Execute, DeployInv
  <2>5. \A g \in OnboardingModule : g # f => (OnChain(g)' <=> OnChain(g))
    BY <2>4 DEF OnChain
  <2>6. CASE OnChain(f)' <=> OnChain(f)
    <3>1. SameDeployment
      BY <2>5, <2>6 DEF SameDeployment
    <3> QED
      BY <2>2, <3>1
  <2>7. CASE ~OnChain(f) /\ OnChain(f)'
    <3>1. f \in Reads \/ future[f] # "new"
      <4>1. Submit(f) => future'[f] = "sent"
        BY <2>3 DEF Submit, DeployInv
      <4>2. ~Submit(f)
        BY <2>7, <4>1 DEF OnChain
      <4> QED
        BY <2>1, <4>2 DEF Read, Confirm, Execute
    <3>2. OnlyMined(f)
      BY <2>5, <2>7, <3>1 DEF OnlyMined
    <3> QED
      BY <2>2, <3>2
  <2> QED
    BY <2>3, <2>6, <2>7
<1>3. CASE UNCHANGED future /\ ~Start(TRUE)
  <2>1. SameDeployment
    BY <1>3 DEF SameDeployment, OnChain
  <2>2. \/ ledger' = ledger
        \/ \E s \in Transaction : ledger' = ledger \cup {s} /\ DeploymentDone
    <3>1. ASSUME NEW reset \in BOOLEAN, Start(reset) PROVE ledger' = ledger
      <4>1. reset = FALSE
        BY <1>3, <3>1
      <4> QED
        BY <3>1, <4>1 DEF Start, chainVars
    <3>2. ASSUME NEW t \in Tasks, TaskStep(t) PROVE ledger' = ledger
      BY <3>2 DEF TaskStep, Send, SendFails, Succeed, ReceiptFails, ReadSucceeds, ReadFails,
                  Fail, Goto, chainVars
    <3>3. CASE MainStep
      BY <3>3 DEF MainStep, Deploy, DeploySucceeds, DeployFails, LoadTopics, LoadTopicsFails, GetIdentities,
                  StartVerification, AwaitSucceeds, AwaitFails, Exit, Ended, Fail, Goto, chainVars
    <3>4. ASSUME NEW t \in Tasks, Mine(t)
          PROVE  \/ ledger' = ledger
                 \/ Step(t) \in Transaction /\ ledger' = ledger \cup {Step(t)} /\ DeploymentDone
      <4>1. tx[t] = "sent" /\ (ledger' = ledger \/ ledger' = ledger \cup {Step(t)})
        BY <3>4 DEF Mine
      <4>2. pc[t] \in DOMAIN Steps[t] /\ Step(t)[1] \notin Waits
        BY <4>1 DEF OnboardingInv, FlowInv, TasksWellFormed
      <4>3. Step(t) \in Transaction
        BY <4>2, SentIsTransaction DEF Step
      <4>4. DeploymentDone
        BY <4>1, SendingFacts DEF OnboardingInv
      <4> QED
        BY <4>1, <4>3, <4>4
    <3>5. ASSUME NEW s \in orphans, MineOrphan(s)
          PROVE  \/ ledger' = ledger
                 \/ s \in Transaction /\ ledger' = ledger \cup {s} /\ DeploymentDone
      <4>1. s \in Transaction /\ DeploymentDone
        BY <3>5 DEF ChainTyped, OnboardingInv, DeployedFirst
      <4> QED
        BY <3>5, <4>1 DEF MineOrphan
    <3>6. CASE MineFuture \/ Crash \/ UNCHANGED scriptVars
      BY <3>6 DEF MineFuture, Crash, Ended, scriptVars, chainVars
    <3> QED
      BY <3>1, <3>2, <3>3, <3>4, <3>5, <3>6 DEF ScriptNext, Mining
  <2>3. ASSUME NEW s \in Transaction, ledger' = ledger \cup {s}, DeploymentDone
        PROVE  \/ UNCHANGED ledger
               \/ s \in Transaction \ ledger /\ ledger' = ledger \cup {s} /\ DeploymentDone
    BY <2>3
  <2> QED
    BY <2>1, <2>2, <2>3
<1> QED
  BY <1>1, <1>2, <1>3, DeployStepKeeps DEF OnboardingInv

\* What becomes of the index in a step.
LEMMA IndexChanges ==
    ASSUME OnboardingInv, ChainTyped, SystemNext
    PROVE  \/ UNCHANGED <<ledger, index>> /\ SameDeployment
           \/ \E f \in OnboardingModule :
                 UNCHANGED ledger /\ OnlyMined(f) /\ index' = Handled(index, f)
           \/ \E s \in Transaction \ ledger :
                 /\ ledger' = ledger \cup {s} /\ SameDeployment /\ DeploymentDone
                 /\ index' = Handled(index, s)
           \/ ledger' = {} /\ (\A f \in OnboardingModule : ~OnChain(f)') /\ index' = NewIndex
<1> DEFINE D == {f \in OnboardingModule : OnChain(f)}
           E == {f \in OnboardingModule : OnChain(f)'}
<1>1. Effects = ledger \cup D /\ Effects' = ledger' \cup E
  BY DEF Effects
<1>2. index' = IF Effects \subseteq Effects'
               THEN FoldSet(LAMBDA effect, ix : Handled(ix, effect), index, Effects' \ Effects)
               ELSE NewIndex
  BY DEF SystemNext
<1>3. [ScriptNext]_scriptVars
  BY DEF SystemNext
<1>4. \A s \in Transaction : s \notin OnboardingModule
  <2> SUFFICES ASSUME NEW s \in Transaction, s \in OnboardingModule PROVE FALSE
    OBVIOUS
  <2> QED
    BY TransactionFacts, FutureNames
<1>5. ledger \subseteq Transaction
  BY DEF ChainTyped
<1>6. ASSUME Effects' = Effects PROVE index' = index
  <2>1. Effects \subseteq Effects' /\ Effects' \ Effects = {}
    BY <1>6
  <2> QED
    BY <1>2, <2>1, FoldFacts
<1>7. ASSUME NEW e, Effects' = Effects \cup {e}, e \notin Effects PROVE index' = Handled(index, e)
  <2>1. Effects \subseteq Effects' /\ Effects' \ Effects = {e}
    BY <1>7
  <2> QED
    BY <1>2, <2>1, FoldFacts
<1>8. CASE UNCHANGED ledger /\ SameDeployment
  <2>1. E = D
    BY <1>8 DEF SameDeployment
  <2>2. Effects' = Effects
    BY <1>1, <1>8, <2>1
  <2> QED
    BY <1>6, <1>8, <2>2
<1>9. ASSUME UNCHANGED ledger, NEW f \in OnboardingModule, OnlyMined(f)
      PROVE  index' = Handled(index, f)
  <2>1. E = D \cup {f} /\ f \notin D
    BY <1>9 DEF OnlyMined
  <2>2. f \notin ledger
    BY <1>4, <1>5
  <2>3. Effects' = Effects \cup {f} /\ f \notin Effects
    BY <1>1, <1>9, <2>1, <2>2
  <2> QED
    BY <1>7, <2>3
<1>10. ASSUME NEW s \in Transaction \ ledger, ledger' = ledger \cup {s}, SameDeployment
       PROVE  index' = Handled(index, s)
  <2>1. E = D
    BY <1>10 DEF SameDeployment
  <2>2. s \notin D
    BY <1>4
  <2>3. Effects' = Effects \cup {s} /\ s \notin Effects
    BY <1>1, <1>10, <2>1, <2>2
  <2> QED
    BY <1>7, <2>3
<1>11. CASE ledger' = {} /\ \A f \in OnboardingModule : ~OnChain(f)'
  <2>1. E = {} /\ Effects' = {}
    BY <1>1, <1>11
  <2>2. CASE Effects = {}
    <3>1. ledger = {} /\ D = {}
      BY <1>1, <2>2
    <3>2. UNCHANGED ledger /\ SameDeployment
      BY <1>11, <3>1 DEF SameDeployment
    <3> QED
      BY <1>6, <2>1, <2>2, <3>2
  <2>3. CASE Effects # {}
    <3>1. ~(Effects \subseteq Effects')
      BY <2>1, <2>3
    <3>2. index' = NewIndex
      BY <1>2, <3>1
    <3> QED
      BY <1>11, <3>2
  <2> QED
    BY <2>2, <2>3
<1> HIDE DEF D, E
<1> QED
  BY <1>3, <1>6, <1>8, <1>9, <1>10, <1>11, OneEffect

\* What an entity of the index is.
Sources ==
    Components \cup {<<"systemFactory">>, <<"system">>}
    \cup {<<"tokenFactory", k>> : k \in AssetKinds} \cup {<<"token", k>> : k \in AssetKinds}

IndexType ==
    [ dataSources : SUBSET Sources,
      components : SUBSET Components,
      factoryType : [AssetKinds -> AssetKinds \cup {"none", "unknown"}],
      tokens : [AssetKinds -> [exists : BOOLEAN, type : AssetKinds \cup {"none", "unknown"},
                               identity : BOOLEAN]],
      accountIdentity : SUBSET Actors ]

\* The index follows the chain, and the data source of every contract that
\* has been created is there.
IndexInv ==
    /\ index \in IndexType
    /\ <<"systemFactory">> \in index.dataSources
    /\ OnChain(CreateSystem) => <<"system">> \in index.dataSources
    /\ OnChain(Bootstrap) => <<"identityFactory">> \in index.dataSources
    /\ \A k \in AssetKinds :
          OnChain(CreateTokenFactory(k)) => <<"tokenFactory", k>> \in index.dataSources
    /\ IndexFollowsChain

\* What the handlers of the deployment leave.
LEMMA DeploymentHandlers ==
    ASSUME NEW ix \in IndexType
    PROVE  /\ HandleSMARTSystemCreated(ix) =
                 [ix EXCEPT !.dataSources = ix.dataSources \cup {<<"system">>}]
           /\ HandleSMARTSystemCreated(ix) \in IndexType
           /\ HandleBootstrapped(ix) \in IndexType
           /\ HandleBootstrapped(ix).components = Components
           /\ ix.dataSources \cup {<<"identityFactory">>} \subseteq HandleBootstrapped(ix).dataSources
           /\ HandleBootstrapped(ix).factoryType = ix.factoryType
           /\ HandleBootstrapped(ix).tokens = ix.tokens
           /\ HandleBootstrapped(ix).accountIdentity = ix.accountIdentity
           /\ \A k \in AssetKinds :
                 /\ HandleTokenFactoryCreated(ix, k) \in IndexType
                 /\ HandleTokenFactoryCreated(ix, k).dataSources = ix.dataSources \cup {<<"tokenFactory", k>>}
                 /\ HandleTokenFactoryCreated(ix, k).factoryType = [ix.factoryType EXCEPT ![k] = k]
                 /\ HandleTokenFactoryCreated(ix, k).components = ix.components
                 /\ HandleTokenFactoryCreated(ix, k).tokens = ix.tokens
                 /\ HandleTokenFactoryCreated(ix, k).accountIdentity = ix.accountIdentity
<1>1. /\ HandleSMARTSystemCreated(ix) = [ix EXCEPT !.dataSources = ix.dataSources \cup {<<"system">>}]
      /\ HandleSMARTSystemCreated(ix) \in IndexType
  BY DEF HandleSMARTSystemCreated, FetchSystem, IndexType, Sources
<1>2. /\ HandleBootstrapped(ix) \in IndexType
      /\ HandleBootstrapped(ix).components = Components
      /\ ix.dataSources \cup {<<"identityFactory">>} \subseteq HandleBootstrapped(ix).dataSources
      /\ HandleBootstrapped(ix).factoryType = ix.factoryType
      /\ HandleBootstrapped(ix).tokens = ix.tokens
      /\ HandleBootstrapped(ix).accountIdentity = ix.accountIdentity
  <2> DEFINE fetched == FetchComponents(FetchSystem(ix))
  <2>1. /\ fetched \in IndexType
        /\ fetched.dataSources = (ix.dataSources \cup {<<"system">>})
              \cup (Components \ {<<"compliance">>, <<"trustedIssuersRegistry">>})
        /\ fetched.factoryType = ix.factoryType
        /\ fetched.tokens = ix.tokens
        /\ fetched.accountIdentity = ix.accountIdentity
    BY DEF FetchComponents, FetchSystem, IndexType, Sources
  <2>2. HandleBootstrapped(ix) = [fetched EXCEPT !.components = Components]
    BY DEF HandleBootstrapped
  <2>3. <<"identityFactory">> \in Components \ {<<"compliance">>, <<"trustedIssuersRegistry">>}
    BY DEF Components
  <2> HIDE DEF fetched
  <2> QED
    BY <2>1, <2>2, <2>3 DEF IndexType
<1>3. ASSUME NEW k \in AssetKinds
      PROVE  /\ HandleTokenFactoryCreated(ix, k) \in IndexType
             /\ HandleTokenFactoryCreated(ix, k).dataSources = ix.dataSources \cup {<<"tokenFactory", k>>}
             /\ HandleTokenFactoryCreated(ix, k).factoryType = [ix.factoryType EXCEPT ![k] = k]
             /\ HandleTokenFactoryCreated(ix, k).components = ix.components
             /\ HandleTokenFactoryCreated(ix, k).tokens = ix.tokens
             /\ HandleTokenFactoryCreated(ix, k).accountIdentity = ix.accountIdentity
  <2> DEFINE fetched == FetchTokenFactory(ix, k)
             t == IF ix.factoryType[k] = "none" THEN "unknown" ELSE ix.factoryType[k]
  <2>1. /\ fetched \in IndexType
        /\ fetched.dataSources = ix.dataSources \cup {<<"tokenFactory", k>>}
        /\ fetched.factoryType = [ix.factoryType EXCEPT ![k] = t]
        /\ fetched.components = ix.components
        /\ fetched.tokens = ix.tokens
        /\ fetched.accountIdentity = ix.accountIdentity
    BY DEF FetchTokenFactory, IndexType, Sources
  <2>2. HandleTokenFactoryCreated(ix, k) = [fetched EXCEPT !.factoryType[k] = k]
    BY DEF HandleTokenFactoryCreated
  <2> HIDE DEF fetched, t
  <2>3. [fetched EXCEPT !.factoryType[k] = k].factoryType = [ix.factoryType EXCEPT ![k] = k]
    BY <2>1 DEF IndexType
  <2> QED
    BY <2>1, <2>2, <2>3 DEF IndexType
<1> QED
  BY <1>1, <1>2, <1>3

\* The token of a factory is known from its identity on, and has its type.
LEMMA TokenHandlers ==
    ASSUME NEW ix \in IndexType, NEW k \in AssetKinds,
           <<"identityFactory">> \in ix.dataSources, <<"tokenFactory", k>> \in ix.dataSources,
           ix.factoryType[k] = k
    PROVE  /\ Handled(ix, <<"create", k>>) \in IndexType
           /\ ix.dataSources \subseteq Handled(ix, <<"create", k>>).dataSources
           /\ Handled(ix, <<"create", k>>).components = ix.components
           /\ Handled(ix, <<"create", k>>).factoryType = ix.factoryType
           /\ Handled(ix, <<"create", k>>).accountIdentity = ix.accountIdentity
           /\ Handled(ix, <<"create", k>>).tokens =
                 [ix.tokens EXCEPT ![k] = [exists |-> TRUE, type |-> k, identity |-> TRUE]]
<1> DEFINE Token == [exists : BOOLEAN, type : AssetKinds \cup {"none", "unknown"}, identity : BOOLEAN]
           seen == IF ix.tokens[k].exists THEN ix.tokens[k] ELSE NewToken
           named == [seen EXCEPT !.identity = TRUE]
           known == HandleTokenIdentityCreated(ix, k)
           factory == FetchTokenFactory(known, k)
           token == FetchToken(factory, k)
           result == HandleTokenAssetCreated(known, k)
<1>0. k # "none"
  BY OnboardingAssumption
<1>1. /\ ix.tokens \in [AssetKinds -> Token] /\ ix.tokens[k] \in Token
      /\ seen \in Token /\ named \in Token /\ named.identity = TRUE
      /\ ix.dataSources \subseteq Sources /\ ix.components \subseteq Components
      /\ ix.accountIdentity \subseteq Actors
      /\ ix.factoryType \in [AssetKinds -> AssetKinds \cup {"none", "unknown"}]
  BY DEF IndexType, NewToken
<1>2. named.exists = TRUE
  BY <1>1 DEF NewToken
<1>3. known = [dataSources |-> ix.dataSources \cup {<<"token", k>>}, components |-> ix.components,
               factoryType |-> ix.factoryType, tokens |-> [ix.tokens EXCEPT ![k] = named],
               accountIdentity |-> ix.accountIdentity]
  <2>1. FetchToken(ix, k) =
           [dataSources |-> ix.dataSources \cup {<<"token", k>>}, components |-> ix.components,
            factoryType |-> ix.factoryType, tokens |-> [ix.tokens EXCEPT ![k] = seen],
            accountIdentity |-> ix.accountIdentity]
    <3>1. FetchToken(ix, k) = [ix EXCEPT !.dataSources = ix.dataSources \cup {<<"token", k>>},
                                         !.tokens = [ix.tokens EXCEPT ![k] = seen]]
      BY <1>1 DEF FetchToken, IndexType
    <3> HIDE DEF seen
    <3> QED
      BY <3>1 DEF IndexType
  <2>2. known = [FetchToken(ix, k) EXCEPT !.tokens[k].identity = TRUE]
    BY DEF HandleTokenIdentityCreated
  <2> HIDE DEF seen
  <2>3. [ [ix.tokens EXCEPT ![k] = seen] EXCEPT ![k].identity = TRUE ] = [ix.tokens EXCEPT ![k] = named]
    BY <1>1
  <2> HIDE DEF known, named
  <2>4. known = [dataSources |-> ix.dataSources \cup {<<"token", k>>}, components |-> ix.components,
                 factoryType |-> ix.factoryType,
                 tokens |-> [ [ix.tokens EXCEPT ![k] = seen] EXCEPT ![k].identity = TRUE ],
                 accountIdentity |-> ix.accountIdentity]
    BY ONLY <2>1, <2>2
  <2> QED
    BY ONLY <2>3, <2>4
<1> HIDE DEF seen, named, known
<1>4. /\ known \in IndexType
      /\ known.dataSources = ix.dataSources \cup {<<"token", k>>}
      /\ known.components = ix.components /\ known.factoryType = ix.factoryType
      /\ known.accountIdentity = ix.accountIdentity
      /\ known.tokens = [ix.tokens EXCEPT ![k] = named]
  BY <1>1, <1>3 DEF IndexType, Sources
<1>5. factory = [known EXCEPT !.dataSources = known.dataSources \cup {<<"tokenFactory", k>>}]
  <2>1. known.factoryType[k] # "none" /\ [known.factoryType EXCEPT ![k] = known.factoryType[k]] = known.factoryType
    BY <1>0, <1>1, <1>4
  <2> QED
    BY <1>4, <2>1 DEF FetchTokenFactory, IndexType
<1>6. /\ factory \in IndexType
      /\ factory.dataSources = known.dataSources \cup {<<"tokenFactory", k>>}
      /\ factory.components = ix.components /\ factory.factoryType = ix.factoryType
      /\ factory.accountIdentity = ix.accountIdentity
      /\ factory.tokens = [ix.tokens EXCEPT ![k] = named]
  BY <1>4, <1>5 DEF IndexType, Sources
<1> HIDE DEF factory
<1>7. token = [factory EXCEPT !.dataSources = factory.dataSources \cup {<<"token", k>>}]
  <2>1. factory.tokens[k] = named /\ [factory.tokens EXCEPT ![k] = named] = factory.tokens
    BY <1>1, <1>6
  <2> QED
    BY <1>2, <1>6, <2>1 DEF FetchToken, IndexType
<1>8. /\ token \in IndexType
      /\ token.dataSources = factory.dataSources \cup {<<"token", k>>}
      /\ token.components = ix.components /\ token.factoryType = ix.factoryType
      /\ token.accountIdentity = ix.accountIdentity
      /\ token.tokens = [ix.tokens EXCEPT ![k] = named]
  BY <1>6, <1>7 DEF IndexType, Sources
<1>9. result = [token EXCEPT !.tokens[k].type = token.factoryType[k], !.tokens[k].identity = TRUE]
  BY DEF HandleTokenAssetCreated, factory, token
<1> HIDE DEF token, result
<1> DEFINE final == [exists |-> TRUE, type |-> k, identity |-> TRUE]
           typed == [ [token.tokens EXCEPT ![k].type = token.factoryType[k]] EXCEPT ![k].identity = TRUE ]
<1>10. typed = [ix.tokens EXCEPT ![k] = final]
  <2>1. [named EXCEPT !.type = k] = final
    <3>1. named \in Token
      BY <1>1
    <3>2. [named EXCEPT !.type = k] = [exists |-> named.exists, type |-> k, identity |-> named.identity]
      BY ONLY <3>1
    <3>3. named.exists = TRUE /\ named.identity = TRUE
      BY <1>1, <1>2
    <3> QED
      BY ONLY <3>2, <3>3, Zenon
  <2>2. token.factoryType[k] = k
    BY <1>8
  <2>3. token.tokens \in [AssetKinds -> Token] /\ token.tokens[k] = named
    BY <1>1, <1>8
  <2>4. [token.tokens EXCEPT ![k].type = k] = [ix.tokens EXCEPT ![k] = final]
    BY <1>1, <1>8, <2>1, <2>3
  <2>5. [ [ix.tokens EXCEPT ![k] = final] EXCEPT ![k].identity = TRUE ] = [ix.tokens EXCEPT ![k] = final]
    <3>1. [final EXCEPT !.identity = TRUE] = final
      <4>1. ASSUME NEW r, r = [exists |-> r.exists, type |-> r.type, identity |-> r.identity], r.identity = TRUE
            PROVE  [r EXCEPT !.identity = TRUE] = r
        <5>1. [r EXCEPT !.identity = TRUE] = [exists |-> r.exists, type |-> r.type, identity |-> TRUE]
          BY ONLY <4>1
        <5> QED
          BY ONLY <4>1, <5>1, Zenon
      <4>2. final.exists = TRUE /\ final.type = k /\ final.identity = TRUE
        OBVIOUS
      <4>3. final = [exists |-> final.exists, type |-> final.type, identity |-> final.identity]
        BY ONLY <4>2, Zenon
      <4> QED
        BY ONLY <4>1, <4>2, <4>3
    <3> DEFINE tokens == [ix.tokens EXCEPT ![k] = final]
    <3>2. DOMAIN tokens = AssetKinds /\ tokens[k] = final /\ tokens = [t \in AssetKinds |-> tokens[t]]
      BY <1>1
    <3> HIDE DEF final, tokens
    <3>3. [tokens EXCEPT ![k].identity = TRUE] = tokens
      BY ONLY <3>1, <3>2
    <3> QED
      BY <3>3 DEF tokens
  <2> QED
    BY <2>2, <2>4, <2>5
<1>11. result = [token EXCEPT !.tokens = typed]
  BY <1>8, <1>9 DEF IndexType
<1> HIDE DEF typed
<1>12. [ix.tokens EXCEPT ![k] = final] \in [AssetKinds -> Token]
  BY <1>1
<1> HIDE DEF final
<1>13. /\ result \in IndexType
       /\ result.dataSources = token.dataSources
       /\ result.components = ix.components /\ result.factoryType = ix.factoryType
       /\ result.accountIdentity = ix.accountIdentity
       /\ result.tokens = [ix.tokens EXCEPT ![k] = final]
  BY <1>8, <1>10, <1>11, <1>12 DEF IndexType
<1>14. ix.dataSources \subseteq result.dataSources
  BY <1>4, <1>6, <1>8, <1>13
<1>15. Handled(ix, <<"create", k>>) = result
  <2> DEFINE e == <<"create", k>>
  <2>1. /\ e # CreateSystem /\ e # Bootstrap /\ e \notin {CreateTokenFactory(l) : l \in AssetKinds}
        /\ e[1] # "createIdentity" /\ e[1] = "create" /\ e[2] = k
    BY DEF CreateSystem, Bootstrap, CreateTokenFactory
  <2> HIDE DEF e
  <2>2. Handled(ix, e) =
          LET before == From(ix, <<"identityFactory">>, HandleTokenIdentityCreated(ix, k))
          IN  From(before, <<"tokenFactory", k>>, HandleTokenAssetCreated(before, k))
    BY <2>1 DEF Handled
  <2>3. From(ix, <<"identityFactory">>, HandleTokenIdentityCreated(ix, k)) = known
    BY DEF From, known
  <2>4. From(known, <<"tokenFactory", k>>, HandleTokenAssetCreated(known, k)) = result
    BY <1>4 DEF From, result
  <2> QED
    BY <2>2, <2>3, <2>4 DEF e
<1> QED
  BY <1>13, <1>14, <1>15 DEF final

\* What else the index handles, and what it does not.
LEMMA HandledFacts ==
    ASSUME NEW ix
    PROVE  /\ Handled(ix, CreateSystem) = From(ix, <<"systemFactory">>, HandleSMARTSystemCreated(ix))
           /\ Handled(ix, Bootstrap) = From(ix, <<"system">>, HandleBootstrapped(ix))
           /\ \A k \in AssetKinds : Handled(ix, CreateTokenFactory(k)) =
                 From(ix, <<"system">>, HandleTokenFactoryCreated(ix, k))
           /\ \A a : Handled(ix, IdentityOf(a)) =
                 From(ix, <<"identityFactory">>, HandleIdentityCreated(ix, a))
           /\ \A s \in Transaction : s[1] \notin {"createIdentity", "create"} => Handled(ix, s) = ix
           /\ \A f \in OnboardingModule :
                 f \notin {CreateSystem, Bootstrap} \cup {CreateTokenFactory(k) : k \in AssetKinds} =>
                     Handled(ix, f) = ix
<1>1. Handled(ix, CreateSystem) = From(ix, <<"systemFactory">>, HandleSMARTSystemCreated(ix))
  BY DEF Handled, CreateSystem, Bootstrap, CreateTokenFactory
<1>2. Handled(ix, Bootstrap) = From(ix, <<"system">>, HandleBootstrapped(ix))
  BY DEF Handled, CreateSystem, Bootstrap, CreateTokenFactory
<1>3. ASSUME NEW k \in AssetKinds
      PROVE  Handled(ix, CreateTokenFactory(k)) = From(ix, <<"system">>, HandleTokenFactoryCreated(ix, k))
  <2> DEFINE e == CreateTokenFactory(k)
  <2>1. /\ e # CreateSystem /\ e # Bootstrap /\ e \in {CreateTokenFactory(l) : l \in AssetKinds}
        /\ e[1] # "createIdentity" /\ e[1] # "create" /\ e[2] = k
    BY DEF CreateSystem, Bootstrap, CreateTokenFactory
  <2> HIDE DEF e
  <2>2. Handled(ix, e) = From(ix, <<"system">>, HandleTokenFactoryCreated(ix, k))
    BY <2>1 DEF Handled
  <2> QED
    BY <2>2 DEF e
<1>4. ASSUME NEW a
      PROVE  Handled(ix, IdentityOf(a)) = From(ix, <<"identityFactory">>, HandleIdentityCreated(ix, a))
  <2> DEFINE e == IdentityOf(a)
  <2>1. /\ e # CreateSystem /\ e # Bootstrap /\ e \notin {CreateTokenFactory(l) : l \in AssetKinds}
        /\ e[1] = "createIdentity" /\ e[2] = a
    BY DEF CreateSystem, Bootstrap, CreateTokenFactory, IdentityOf
  <2> HIDE DEF e
  <2>2. Handled(ix, e) = From(ix, <<"identityFactory">>, HandleIdentityCreated(ix, a))
    BY <2>1 DEF Handled
  <2> QED
    BY <2>2 DEF e
<1>5. ASSUME NEW s, s[1] \in TransactionNames, s[1] \notin {"createIdentity", "create"}
      PROVE  Handled(ix, s) = ix
  <2>1. /\ s # CreateSystem /\ s # Bootstrap /\ s \notin {CreateTokenFactory(l) : l \in AssetKinds}
    BY <1>5 DEF CreateSystem, Bootstrap, CreateTokenFactory, TransactionNames, AssetTransactions
  <2> QED
    BY <1>5, <2>1 DEF Handled
<1>6. ASSUME NEW f \in OnboardingModule,
             f \notin {CreateSystem, Bootstrap} \cup {CreateTokenFactory(k) : k \in AssetKinds}
      PROVE  Handled(ix, f) = ix
  <2>1. f[1] # "createIdentity" /\ f[1] # "create"
    BY FutureNames DEF TransactionNames, AssetTransactions
  <2> QED
    BY <1>6, <2>1 DEF Handled
<1> QED
  BY <1>1, <1>2, <1>3, <1>4, <1>5, <1>6, TransactionFacts

\* A deployment step that is indexed is met by the index in time.
LEMMA MinedIsIndexed ==
    ASSUME OnboardingInv, IndexInv, NEW f \in OnboardingModule, OnlyMined(f),
           UNCHANGED ledger, index' = Handled(index, f)
    PROVE  IndexInv'
<1>1. \A g \in Requires(f) : f \notin Reads => OnChain(g)
  <2>1. future[f] # "new" \/ f \in Reads
    BY DEF OnlyMined
  <2> QED
    BY <2>1, RequiredIsDone DEF OnboardingInv
<1>2. /\ index \in IndexType
      /\ <<"systemFactory">> \in index.dataSources
      /\ OnChain(CreateSystem) => <<"system">> \in index.dataSources
      /\ OnChain(Bootstrap) => <<"identityFactory">> \in index.dataSources /\ index.components = Components
      /\ \A k \in AssetKinds : OnChain(CreateTokenFactory(k)) =>
            <<"tokenFactory", k>> \in index.dataSources /\ index.factoryType[k] = k
      /\ index.accountIdentity = {a \in Actors : <<"createIdentity", a>> \in ledger}
      /\ \A k \in AssetKinds :
            index.tokens[k] = IF <<"create", k>> \in ledger
                              THEN [exists |-> TRUE, type |-> k, identity |-> TRUE]
                              ELSE NoToken
  BY DEF IndexInv, IndexFollowsChain
<1>3. \A g \in OnboardingModule : g # f => (OnChain(g)' <=> OnChain(g))
  BY DEF OnlyMined
<1>4. /\ CreateSystem \in OnboardingModule /\ Bootstrap \in OnboardingModule
      /\ \A k \in AssetKinds : CreateTokenFactory(k) \in OnboardingModule
      /\ CreateSystem # Bootstrap
      /\ \A k \in AssetKinds : CreateTokenFactory(k) # CreateSystem /\ CreateTokenFactory(k) # Bootstrap
      /\ \A k \in AssetKinds, l \in AssetKinds : CreateTokenFactory(k) = CreateTokenFactory(l) => k = l
  BY DEF OnboardingModule, SystemModule, FactoryModule, CreateSystem, Bootstrap, CreateTokenFactory
<1>5. /\ CreateSystem \notin Reads /\ Bootstrap \notin Reads
      /\ \A k \in AssetKinds : CreateTokenFactory(k) \notin Reads
  BY DEF Reads, System, Addresses, FactoryAddress, CreateSystem, Bootstrap, CreateTokenFactory
<1>6. /\ CreateSystem \in Requires(Bootstrap)
      /\ \A k \in AssetKinds : Bootstrap \in Requires(CreateTokenFactory(k))
  BY <1>4 DEF Requires
<1>7. ASSUME NEW ix \in IndexType, ix = index',
             index.dataSources \subseteq ix.dataSources,
             OnChain(CreateSystem)' => <<"system">> \in ix.dataSources,
             OnChain(Bootstrap)' => <<"identityFactory">> \in ix.dataSources /\ ix.components = Components,
             \A k \in AssetKinds : OnChain(CreateTokenFactory(k))' =>
                <<"tokenFactory", k>> \in ix.dataSources /\ ix.factoryType[k] = k,
             ix.accountIdentity = index.accountIdentity, ix.tokens = index.tokens
      PROVE  IndexInv'
  <2>1. IndexFollowsChain'
    BY <1>2, <1>7 DEF IndexFollowsChain
  <2> QED
    BY <1>2, <1>7, <2>1 DEF IndexInv
<1>8. CASE f = CreateSystem
  <2> DEFINE ix == HandleSMARTSystemCreated(index)
  <2>1. index' = ix
    BY <1>2, <1>8, HandledFacts DEF From
  <2>2. /\ ix \in IndexType
        /\ ix = [index EXCEPT !.dataSources = index.dataSources \cup {<<"system">>}]
    BY <1>2, DeploymentHandlers
  <2> HIDE DEF ix
  <2>3. /\ ix.dataSources = index.dataSources \cup {<<"system">>}
        /\ ix.components = index.components /\ ix.factoryType = index.factoryType
        /\ ix.tokens = index.tokens /\ ix.accountIdentity = index.accountIdentity
    BY <1>2, <2>2 DEF IndexType
  <2> QED
    BY <1>2, <1>3, <1>4, <1>7, <1>8, <2>1, <2>2, <2>3
<1>9. CASE f = Bootstrap
  <2> DEFINE ix == HandleBootstrapped(index)
  <2>1. <<"system">> \in index.dataSources
    BY <1>1, <1>2, <1>5, <1>6, <1>9
  <2>2. index' = ix
    BY <1>9, <2>1, HandledFacts DEF From
  <2>3. /\ ix \in IndexType /\ ix.components = Components
        /\ index.dataSources \cup {<<"identityFactory">>} \subseteq ix.dataSources
        /\ ix.factoryType = index.factoryType
        /\ ix.tokens = index.tokens /\ ix.accountIdentity = index.accountIdentity
    BY <1>2, DeploymentHandlers
  <2> HIDE DEF ix
  <2> QED
    BY <1>2, <1>3, <1>4, <1>7, <1>9, <2>1, <2>2, <2>3
<1>10. ASSUME NEW k \in AssetKinds, f = CreateTokenFactory(k) PROVE IndexInv'
  <2> DEFINE ix == HandleTokenFactoryCreated(index, k)
  <2>1. OnChain(Bootstrap) /\ future[Bootstrap] # "new"
    BY <1>1, <1>5, <1>6, <1>10 DEF OnChain
  <2>2. OnChain(CreateSystem)
    BY <1>4, <1>6, <2>1, RequiredIsDone DEF OnboardingInv
  <2>3. <<"system">> \in index.dataSources
    BY <1>2, <2>2
  <2>4. index' = ix
    BY <1>10, <2>3, HandledFacts DEF From
  <2>5. /\ ix \in IndexType
        /\ ix.dataSources = index.dataSources \cup {<<"tokenFactory", k>>}
        /\ ix.factoryType = [index.factoryType EXCEPT ![k] = k]
        /\ ix.components = index.components
        /\ ix.tokens = index.tokens /\ ix.accountIdentity = index.accountIdentity
    BY <1>2, DeploymentHandlers
  <2> HIDE DEF ix
  <2>6. index.factoryType \in [AssetKinds -> AssetKinds \cup {"none", "unknown"}]
    BY <1>2 DEF IndexType
  <2>7. \A l \in AssetKinds : OnChain(CreateTokenFactory(l))' =>
            <<"tokenFactory", l>> \in ix.dataSources /\ ix.factoryType[l] = l
    <3> TAKE l \in AssetKinds
    <3>1. CASE l = k
      BY <2>5, <2>6, <3>1
    <3>2. CASE l # k
      <4>1. OnChain(CreateTokenFactory(l))' <=> OnChain(CreateTokenFactory(l))
        BY <1>3, <1>4, <1>10, <3>2
      <4> QED
        BY <1>2, <2>5, <2>6, <3>2, <4>1
    <3> QED
      BY <3>1, <3>2
  <2>8. (OnChain(CreateSystem)' <=> OnChain(CreateSystem)) /\ (OnChain(Bootstrap)' <=> OnChain(Bootstrap))
    BY <1>3, <1>4, <1>10
  <2> QED
    BY <1>2, <1>7, <2>4, <2>5, <2>7, <2>8
<1>11. CASE f \notin {CreateSystem, Bootstrap} \cup {CreateTokenFactory(k) : k \in AssetKinds}
  <2>1. index' = index
    BY <1>11, HandledFacts
  <2>2. /\ OnChain(CreateSystem)' <=> OnChain(CreateSystem)
        /\ OnChain(Bootstrap)' <=> OnChain(Bootstrap)
        /\ \A k \in AssetKinds : OnChain(CreateTokenFactory(k))' <=> OnChain(CreateTokenFactory(k))
    BY <1>3, <1>4, <1>11
  <2> QED
    BY <1>2, <1>7, <2>1, <2>2
<1> QED
  BY <1>8, <1>9, <1>10, <1>11

\* So is a transaction of the script.
LEMMA SentIsIndexed ==
    ASSUME OnboardingInv, IndexInv, DeploymentDone, SameDeployment,
           NEW s \in Transaction \ ledger, ledger' = ledger \cup {s}, index' = Handled(index, s)
    PROVE  IndexInv'
<1>1. /\ index \in IndexType
      /\ <<"systemFactory">> \in index.dataSources
      /\ index.accountIdentity = {a \in Actors : <<"createIdentity", a>> \in ledger}
      /\ \A k \in AssetKinds :
            index.tokens[k] = IF <<"create", k>> \in ledger
                              THEN [exists |-> TRUE, type |-> k, identity |-> TRUE]
                              ELSE NoToken
  BY DEF IndexInv, IndexFollowsChain
<1>2. /\ CreateSystem \in OnboardingModule /\ Bootstrap \in OnboardingModule
      /\ \A k \in AssetKinds : CreateTokenFactory(k) \in OnboardingModule
  BY DEF OnboardingModule, SystemModule, FactoryModule
<1>3. \A f \in OnboardingModule : OnChain(f)
  BY DEF DeploymentDone, OnChain
<1>4. /\ <<"system">> \in index.dataSources /\ <<"identityFactory">> \in index.dataSources
      /\ index.components = Components
      /\ \A k \in AssetKinds : <<"tokenFactory", k>> \in index.dataSources /\ index.factoryType[k] = k
  BY <1>2, <1>3 DEF IndexInv, IndexFollowsChain
<1>5. ASSUME NEW ix \in IndexType, ix = index',
             index.dataSources \subseteq ix.dataSources,
             ix.components = index.components, ix.factoryType = index.factoryType,
             ix.accountIdentity = {a \in Actors : <<"createIdentity", a>> \in ledger'},
             \A k \in AssetKinds :
                ix.tokens[k] = IF <<"create", k>> \in ledger'
                               THEN [exists |-> TRUE, type |-> k, identity |-> TRUE]
                               ELSE NoToken
      PROVE  IndexInv'
  <2>1. IndexFollowsChain'
    BY <1>4, <1>5 DEF IndexFollowsChain
  <2> QED
    BY <1>1, <1>4, <1>5, <2>1 DEF IndexInv
<1>6. ASSUME NEW a \in Actors, s = IdentityOf(a) PROVE IndexInv'
  <2> DEFINE ix == HandleIdentityCreated(index, a)
  <2>1. index' = ix
    BY <1>4, <1>6, HandledFacts DEF From
  <2>2. /\ ix \in IndexType
        /\ ix.dataSources = index.dataSources
        /\ ix.components = index.components /\ ix.factoryType = index.factoryType
        /\ ix.tokens = index.tokens
        /\ ix.accountIdentity = index.accountIdentity \cup {a}
    BY <1>1 DEF HandleIdentityCreated, IndexType
  <2> HIDE DEF ix
  <2>3. ix.accountIdentity = {b \in Actors : <<"createIdentity", b>> \in ledger'}
    <3>1. \A b \in Actors : <<"createIdentity", b>> \in ledger' <=> <<"createIdentity", b>> \in ledger \/ b = a
      BY <1>6 DEF IdentityOf
    <3> QED
      BY <1>1, <2>2, <3>1
  <2>4. \A k \in AssetKinds : <<"create", k>> \in ledger' <=> <<"create", k>> \in ledger
    BY <1>6 DEF IdentityOf
  <2> QED
    BY <1>1, <1>5, <2>1, <2>2, <2>3, <2>4
<1>7. ASSUME NEW k \in AssetKinds, s = <<"create", k>> PROVE IndexInv'
  <2> DEFINE ix == Handled(index, <<"create", k>>)
             final == [exists |-> TRUE, type |-> k, identity |-> TRUE]
  <2>1. index' = ix
    BY <1>7
  <2>2. /\ ix \in IndexType
        /\ index.dataSources \subseteq ix.dataSources
        /\ ix.components = index.components /\ ix.factoryType = index.factoryType
        /\ ix.accountIdentity = index.accountIdentity
        /\ ix.tokens = [index.tokens EXCEPT ![k] = final]
    BY <1>1, <1>4, TokenHandlers
  <2> HIDE DEF ix
  <2>3. ix.accountIdentity = {b \in Actors : <<"createIdentity", b>> \in ledger'}
    <3>1. \A b \in Actors : <<"createIdentity", b>> \in ledger' <=> <<"createIdentity", b>> \in ledger
      BY <1>7
    <3> QED
      BY <1>1, <2>2, <3>1
  <2>4. \A l \in AssetKinds :
            ix.tokens[l] = IF <<"create", l>> \in ledger'
                           THEN [exists |-> TRUE, type |-> l, identity |-> TRUE]
                           ELSE NoToken
    <3> TAKE l \in AssetKinds
    <3>1. DOMAIN index.tokens = AssetKinds
      BY <1>1 DEF IndexType
    <3>2. CASE l = k
      <4>1. ix.tokens[l] = final /\ <<"create", l>> \in ledger'
        BY <1>7, <2>2, <3>1, <3>2
      <4> QED
        BY <3>2, <4>1
    <3>3. CASE l # k
      <4>1. ix.tokens[l] = index.tokens[l] /\ (<<"create", l>> \in ledger' <=> <<"create", l>> \in ledger)
        BY <1>7, <2>2, <3>1, <3>3
      <4> QED
        BY <1>1, <4>1
    <3> QED
      BY <3>2, <3>3
  <2> QED
    BY <1>5, <2>1, <2>2, <2>3, <2>4
<1>8. CASE s[1] \notin {"createIdentity", "create"}
  <2>1. index' = index
    BY <1>8, HandledFacts
  <2>2. /\ \A b \in Actors : <<"createIdentity", b>> \in ledger' <=> <<"createIdentity", b>> \in ledger
        /\ \A k \in AssetKinds : <<"create", k>> \in ledger' <=> <<"create", k>> \in ledger
    BY <1>8
  <2> QED
    BY <1>1, <1>5, <2>1, <2>2
<1> QED
  BY <1>6, <1>7, <1>8, TransactionFacts

\* A chain on which nothing is, or nothing any more.
Cleared ==
    /\ ledger = {} /\ index = NewIndex
    /\ \A f \in OnboardingModule : ~OnChain(f)

\* The index of nothing.
LEMMA ClearedIsIndexed == Cleared => IndexInv
<1> SUFFICES ASSUME Cleared PROVE IndexInv
  OBVIOUS
<1>1. /\ CreateSystem \in OnboardingModule /\ Bootstrap \in OnboardingModule
      /\ \A k \in AssetKinds : CreateTokenFactory(k) \in OnboardingModule
  BY DEF OnboardingModule, SystemModule, FactoryModule
<1>2. index \in IndexType /\ <<"systemFactory">> \in index.dataSources
  BY DEF Cleared, NewIndex, IndexType, Sources, NoToken
<1>3. /\ index.accountIdentity = {}
      /\ \A k \in AssetKinds : index.tokens[k] = NoToken
  BY DEF Cleared, NewIndex
<1>4. IndexFollowsChain
  BY <1>1, <1>3 DEF Cleared, IndexFollowsChain
<1> QED
  BY <1>1, <1>2, <1>4 DEF Cleared, IndexInv

\* A chain that is cleared is indexed anew.
LEMMA ClearedNext == Cleared' => IndexInv'
BY ClearedIsIndexed, PTL

\* Every step of the system keeps the index with the chain.
LEMMA IndexStep ==
    ASSUME OnboardingInv, ChainTyped, IndexInv, [SystemNext]_systemVars
    PROVE  IndexInv'
<1>1. CASE UNCHANGED systemVars
  <2>1. UNCHANGED <<index, ledger, future>>
    BY <1>1 DEF systemVars, scriptVars, chainVars
  <2> QED
    BY <2>1 DEF IndexInv, IndexFollowsChain, OnChain
<1>2. CASE SystemNext
  <2>1. ASSUME UNCHANGED <<ledger, index>>, SameDeployment PROVE IndexInv'
    <3>1. /\ CreateSystem \in OnboardingModule /\ Bootstrap \in OnboardingModule
          /\ \A k \in AssetKinds : CreateTokenFactory(k) \in OnboardingModule
      BY DEF OnboardingModule, SystemModule, FactoryModule
    <3>2. /\ OnChain(CreateSystem)' <=> OnChain(CreateSystem)
          /\ OnChain(Bootstrap)' <=> OnChain(Bootstrap)
          /\ \A k \in AssetKinds : OnChain(CreateTokenFactory(k))' <=> OnChain(CreateTokenFactory(k))
      BY <2>1, <3>1 DEF SameDeployment
    <3>3. IndexFollowsChain'
      BY <2>1, <3>2 DEF IndexInv, IndexFollowsChain
    <3> QED
      BY <2>1, <3>2, <3>3 DEF IndexInv
  <2>2. ASSUME NEW f \in OnboardingModule, UNCHANGED ledger, OnlyMined(f), index' = Handled(index, f)
        PROVE  IndexInv'
    BY <2>2, MinedIsIndexed
  <2>3. ASSUME NEW s \in Transaction \ ledger, ledger' = ledger \cup {s}, SameDeployment, DeploymentDone,
               index' = Handled(index, s)
        PROVE  IndexInv'
    BY <2>3, SentIsIndexed
  <2>4. ASSUME ledger' = {}, \A f \in OnboardingModule : ~OnChain(f)', index' = NewIndex
        PROVE  IndexInv'
    <3>1. Cleared'
      BY <2>4 DEF Cleared
    <3> QED
      BY <3>1, ClearedNext
  <2> QED
    BY <1>2, <2>1, <2>2, <2>3, <2>4, IndexChanges
<1> QED
  BY <1>1, <1>2

\* Whatever is interrupted and resumed, and whatever a call loses, the index
\* has the registries, factories, identities and tokens that are on the chain.
THEOREM IndexMissesNothing == SystemSpec => []IndexFollowsChain
<1> DEFINE Inv == OnboardingInv /\ ChainTyped /\ IndexInv
<1>1. SystemInit => Inv
  <2> SUFFICES ASSUME SystemInit PROVE Inv
    OBVIOUS
  <2>1. ScriptInit /\ index = NewIndex
    BY DEF SystemInit
  <2>2. ledger = {} /\ orphans = {} /\ future = NothingDeployed
    BY <2>1 DEF ScriptInit
  <2>3. Cleared
    BY <2>1, <2>2 DEF Cleared, OnChain, NothingDeployed
  <2>4. ChainTyped
    BY <2>2 DEF ChainTyped
  <2> QED
    BY <2>1, <2>3, <2>4, OnboardingInit, ClearedIsIndexed
<1>2. Inv /\ [SystemNext]_systemVars => Inv'
  <2> SUFFICES ASSUME Inv, [SystemNext]_systemVars PROVE Inv'
    OBVIOUS
  <2>1. [ScriptNext]_scriptVars
    BY DEF SystemNext, systemVars
  <2>2. OnboardingInv'
    BY <2>1, OnboardingStep
  <2>3. ChainTyped'
    BY <2>1, ChainTypedStep DEF OnboardingInv
  <2>4. IndexInv'
    BY IndexStep
  <2> QED
    BY <2>2, <2>3, <2>4
<1>3. Inv => IndexFollowsChain
  BY DEF IndexInv
<1> QED
  BY <1>1, <1>2, <1>3, PTL DEF SystemSpec

\* The index watches: what the script does beside it is what it does alone.
THEOREM SystemFollowsScript == SystemSpec => ScriptSpec
<1>1. SystemInit => ScriptInit
  BY DEF SystemInit
<1>2. [SystemNext]_systemVars => [ScriptNext]_scriptVars
  BY DEF SystemNext, systemVars
<1> QED
  BY <1>1, <1>2, PTL DEF SystemSpec, ScriptSpec

-----------------------------------------------------------------------------
(* A process that finds nothing but a deployment fails only by a fault.    *)

\* What the tasks' progress says of the chain.
LEMMA ProgressFacts ==
    ASSUME FlowInv, DoneInv
    PROVE  /\ \A a \in Actors : Resolved(Identity(a)) => IdentityOf(a) \in ledger
           /\ \A a \in RegisteredActors :
                 /\ pc[Verification(a)] > 1 => <<"addClaim", a, "kyc">> \in ledger
                 /\ pc[Verification(a)] > 2 => <<"addClaim", a, "aml">> \in ledger
           /\ pc[Main] > 4 => <<"batchRegisterIdentity">> \in ledger
           /\ pc[Main] > 7 => <<"addTrustedIssuer">> \in ledger
           /\ \A i \in 9 .. Len(MainSteps) : i < pc[Main] => MainSteps[i] \in ledger
<1>1. ASSUME NEW a \in Actors, Resolved(Identity(a)) PROVE IdentityOf(a) \in ledger
  <2>1. Identity(a) \in Tasks /\ pc[Identity(a)] > 1
    BY <1>1, TaskFacts, TaskStepsFacts DEF Resolved
  <2>2. 1 \in DOMAIN Steps[Identity(a)] /\ Steps[Identity(a)][1] = IdentityOf(a)
    BY <2>1, TaskStepsFacts DEF IdentityOf
  <2>3. Steps[Identity(a)][1][1] \notin Waits
    BY <2>2 DEF IdentityOf, Waits
  <2> QED
    BY <2>1, <2>2, <2>3 DEF DoneInv
<1>2. ASSUME NEW a \in RegisteredActors, NEW i \in {1, 2}, pc[Verification(a)] > i
      PROVE  Steps[Verification(a)][i] \in ledger
  <2>1. Verification(a) \in Tasks /\ i \in DOMAIN Steps[Verification(a)]
    BY TaskFacts, TaskStepsFacts
  <2>2. Steps[Verification(a)][i][1] \notin Waits
    BY TaskStepsFacts DEF Waits
  <2>3. i < pc[Verification(a)]
    BY <1>2
  <2> QED
    BY <2>1, <2>2, <2>3 DEF DoneInv
<1>3. ASSUME NEW i \in DOMAIN Steps[Main], i \notin {1, 2, 3, 5, 6, 8}, i < pc[Main]
      PROVE  MainSteps[i] \in ledger
  <2>1. Steps[Main][i][1] \notin Waits
    BY <1>3, TaskStepsFacts
  <2> QED
    BY <1>3, <2>1, TaskFacts, StepsFacts DEF DoneInv
<1>4. 4 \in DOMAIN Steps[Main] /\ 7 \in DOMAIN Steps[Main] /\ DOMAIN Steps[Main] = 1 .. Len(MainSteps)
      /\ Len(MainSteps) \in Nat
  <2>1. Len(MainSteps) \in Nat /\ Len(MainSteps) >= 8 /\ DOMAIN Steps[Main] = 1 .. Len(MainSteps)
    BY StepsFacts, MainStepsFacts
  <2> QED
    BY ONLY <2>1
<1>5. pc[Main] > 4 => <<"batchRegisterIdentity">> \in ledger
  <2> HAVE pc[Main] > 4
  <2>1. 4 < pc[Main] /\ 4 \notin {1, 2, 3, 5, 6, 8}
    OBVIOUS
  <2> QED
    BY <1>3, <1>4, <2>1, MainStepsFacts
<1>6. pc[Main] > 7 => <<"addTrustedIssuer">> \in ledger
  <2> HAVE pc[Main] > 7
  <2>1. 7 < pc[Main] /\ 7 \notin {1, 2, 3, 5, 6, 8}
    OBVIOUS
  <2> QED
    BY <1>3, <1>4, <2>1, MainStepsFacts
<1>7. ASSUME NEW i \in 9 .. Len(MainSteps), i < pc[Main] PROVE MainSteps[i] \in ledger
  <2>1. i \in 1 .. Len(MainSteps) /\ i \notin {1, 2, 3, 5, 6, 8}
    BY <1>4
  <2> QED
    BY <1>3, <1>4, <1>7, <2>1
<1>8. ASSUME NEW a \in RegisteredActors
      PROVE  /\ pc[Verification(a)] > 1 => <<"addClaim", a, "kyc">> \in ledger
             /\ pc[Verification(a)] > 2 => <<"addClaim", a, "aml">> \in ledger
  <2>1. /\ pc[Verification(a)] > 1 => Steps[Verification(a)][1] \in ledger
        /\ pc[Verification(a)] > 2 => Steps[Verification(a)][2] \in ledger
    BY <1>2
  <2> QED
    BY <2>1, TaskStepsFacts
<1> QED
  BY <1>1, <1>5, <1>6, <1>7, <1>8

Unfaulted == process = "running" /\ clean /\ ~faulted

\* The step of a task that is done.
DoneBy(s, t) ==
    \E i \in DOMAIN Steps[t] : s = Steps[t][i] /\ (i < pc[t] \/ (i = pc[t] /\ tx[t] = "success"))

\* Without a fault a clean run has nothing rejected, left over or reverted,
\* and the chain has exactly what its tasks did.
CleanInv ==
    /\ Unfaulted =>
          /\ rejected = {} /\ orphans = {} /\ \A t \in Tasks : tx[t] # "reverted"
          /\ pc[Main] >= 1
          /\ pc[Main] > 5 => topicCache = Topics
          /\ \A s \in ledger : \E t \in Tasks : DoneBy(s, t)
    /\ CleanRunFailsOnlyByFault

\* A transaction of which there is one in a run is not done before it is sent.
LEMMA SentOnce ==
    ASSUME FlowInv, CleanInv, Unfaulted, NEW t \in Tasks, pc[t] \in DOMAIN Steps[t], tx[t] # "success",
           \/ Step(t)[1] = "createIdentity"
           \/ Step(t)[1] \in {"batchRegisterIdentity", "addTrustedIssuer", "create"}
    PROVE  Step(t) \notin ledger
<1> SUFFICES ASSUME Step(t) \in ledger PROVE FALSE
  OBVIOUS
<1>1. PICK u \in Tasks : DoneBy(Step(t), u)
  BY DEF CleanInv
<1>2. PICK i \in DOMAIN Steps[u] : Step(t) = Steps[u][i] /\ (i < pc[u] \/ (i = pc[u] /\ tx[u] = "success"))
  BY <1>1 DEF DoneBy
<1>3. Step(t) = Steps[t][pc[t]]
  BY DEF Step
<1>4. \A v \in Tasks : \A j \in DOMAIN Steps[v] : j \in Nat
  BY StepNumbers
<1>5. ~(u = t /\ i = pc[t])
  <2>1. pc[t] \in Nat
    BY <1>4
  <2> QED
    BY <1>2, <2>1
<1>6. ASSUME NEW v \in Tasks, NEW j \in DOMAIN Steps[v]
      PROVE  /\ v = Main => Steps[v][j][1] # "createIdentity"
             /\ \A a \in Actors : v = Identity(a) => j = 1 /\ Steps[v][j] = IdentityOf(a)
             /\ \A a \in RegisteredActors : v = Verification(a) =>
                   Steps[v][j][1] \in {"addClaim", "isVerified"}
  <2>1. v = Main => Steps[v][j][1] # "createIdentity"
    BY MainStepNames
  <2>2. ASSUME NEW a \in Actors, v = Identity(a) PROVE j = 1 /\ Steps[v][j] = IdentityOf(a)
    <3>1. j = 1
      BY <2>2, StepNumbers, TaskStepsFacts
    <3> QED
      BY <2>2, <3>1, TaskStepsFacts DEF IdentityOf
  <2>3. ASSUME NEW a \in RegisteredActors, v = Verification(a)
        PROVE  Steps[v][j][1] \in {"addClaim", "isVerified"}
    <3>1. j \in Nat /\ j >= 1 /\ j <= 3
      BY <2>3, StepNumbers, TaskStepsFacts
    <3>2. j = 1 \/ j = 2 \/ j = 3
      BY ONLY <3>1
    <3> QED
      BY <2>3, <3>2, TaskStepsFacts
  <2> QED
    BY <2>1, <2>2, <2>3
<1>7. CASE Step(t)[1] = "createIdentity"
  <2>1. PICK a \in Actors : t = Identity(a)
    BY <1>3, <1>6, <1>7, TaskFacts
  <2>2. PICK b \in Actors : u = Identity(b)
    BY <1>2, <1>6, <1>7, TaskFacts
  <2>3. Step(t) = IdentityOf(a) /\ pc[t] = 1
    BY <1>3, <1>6, <2>1
  <2>4. Step(t) = IdentityOf(b) /\ i = 1
    BY <1>2, <1>6, <2>2
  <2>5. a = b
    BY <2>3, <2>4 DEF IdentityOf
  <2> QED
    BY <1>5, <2>1, <2>2, <2>3, <2>4, <2>5
<1>8. CASE Step(t)[1] \in {"batchRegisterIdentity", "addTrustedIssuer", "create"}
  <2>1. \A a \in Actors : IdentityOf(a)[1] = "createIdentity"
    BY DEF IdentityOf
  <2>2. t = Main
    BY <1>3, <1>6, <1>8, <2>1, TaskFacts
  <2>3. u = Main
    BY <1>2, <1>6, <1>8, <2>1, TaskFacts
  <2>4. /\ pc[Main] \in DOMAIN Steps[Main] /\ i \in DOMAIN Steps[Main]
        /\ Step(t) = Steps[Main][pc[Main]] /\ Step(t) = Steps[Main][i]
    BY <1>2, <1>3, <2>2, <2>3
  <2>5. Step(t)[1] = "batchRegisterIdentity" => pc[Main] = 4 /\ i = 4
    BY <2>4, MainStepNames
  <2>6. Step(t)[1] = "addTrustedIssuer" => pc[Main] = 7 /\ i = 7
    BY <2>4, MainStepNames
  <2>7. ASSUME Step(t)[1] = "create" PROVE FALSE
    <3>1. "create" \in AssetTransactions
      BY DEF AssetTransactions
    <3>2. pc[Main] >= 9 /\ i >= 9
      <4>1. ASSUME NEW j \in DOMAIN Steps[Main], Steps[Main][j][1] = "create" PROVE j >= 9
        <5>1. Steps[Main][j][1] \in AssetTransactions <=> j >= 9
          BY MainStepNames
        <5> QED
          BY <3>1, <4>1, <5>1
      <4> QED
        BY <2>4, <2>7, <4>1
    <3>3. Steps[Main] = MainSteps /\ DOMAIN Steps[Main] = 1 .. Len(MainSteps) /\ Len(MainSteps) \in Nat
      BY StepsFacts, MainStepsFacts
    <3>4. pc[Main] \in 9 .. Len(MainSteps) /\ i \in 9 .. Len(MainSteps)
      BY ONLY <2>4, <3>2, <3>3
    <3>5. i < pc[Main]
      BY <1>2, <1>5, <2>2, <2>3
    <3>6. i \in 9 .. pc[Main] - 1
      BY ONLY <3>3, <3>4, <3>5
    <3>7. MainSteps[pc[Main]][1] = "create" => \A j \in 9 .. pc[Main] - 1 : MainSteps[j] # MainSteps[pc[Main]]
      BY <3>4, MainStepsFacts
    <3> QED
      BY <2>4, <2>7, <3>3, <3>6, <3>7
  <2> QED
    BY <1>5, <1>8, <2>2, <2>3, <2>5, <2>6, <2>7
<1> QED
  BY <1>7, <1>8

\* What is required of each kind of transaction.
LEMMA AcceptedFacts ==
    ASSUME NEW s
    PROVE  /\ s[1] = "createIdentity" => (Accepted(s) <=> s[2] = "claimIssuer" \/ s \notin ledger)
           /\ s[1] = "batchRegisterIdentity" =>
                 (Accepted(s) <=> s \notin ledger /\ \A a \in ToSet(Registered) : IdentityOf(a) \in ledger)
           /\ s[1] = "addTrustedIssuer" =>
                 (Accepted(s) <=> s \notin ledger /\ IdentityOf("claimIssuer") \in ledger)
           /\ s[1] = "addClaim" =>
                 (Accepted(s) <=> {IdentityOf(s[2]), IdentityOf("claimIssuer")} \subseteq ledger)
           /\ s[1] = "create" =>
                 (Accepted(s) <=> /\ s \notin ledger /\ OnChain(CreateTokenFactory(s[2]))
                                  /\ s[2] = "bond" => <<"create", "deposit">> \in ledger)
           /\ s[1] = "grantRole" => (Accepted(s) <=> <<"create", s[2]>> \in ledger)
           /\ s[1] = "addAssetClaim" => (Accepted(s) <=> <<"grantRole", s[2], "claimManager">> \in ledger)
           /\ s[1] = "mint" =>
                 (Accepted(s) <=>
                    /\ <<"grantRole", s[2], "supplyManagement">> \in ledger
                    /\ IsVerified("investorA")
                    /\ s[2] \in Collateralised =>
                          {<<"addAssetClaim", s[2], "collateral">>, <<"addTrustedIssuer">>} \subseteq ledger)
           /\ s[1] = "transfer" => (Accepted(s) <=> <<"mint", s[2]>> \in ledger /\ IsVerified("investorB"))
           /\ s[1] = "burn" => (Accepted(s) <=> <<"transfer", s[2]>> \in ledger)
<1>1. CASE s[1] = "createIdentity"
  BY <1>1 DEF Accepted
<1>2. CASE s[1] = "batchRegisterIdentity"
  BY <1>2 DEF Accepted, IdentityOf
<1>3. CASE s[1] = "addTrustedIssuer"
  BY <1>3 DEF Accepted, IdentityOf
<1>4. CASE s[1] = "addClaim"
  BY <1>4 DEF Accepted, IdentityOf
<1>5. CASE s[1] = "create"
  BY <1>5 DEF Accepted
<1>6. CASE s[1] = "grantRole"
  BY <1>6 DEF Accepted
<1>7. CASE s[1] = "addAssetClaim"
  BY <1>7 DEF Accepted
<1>8. CASE s[1] = "mint"
  BY <1>8 DEF Accepted
<1>9. CASE s[1] = "transfer"
  BY <1>9 DEF Accepted
<1>10. CASE s[1] = "burn"
  BY <1>10 DEF Accepted
<1> QED
  BY <1>1, <1>2, <1>3, <1>4, <1>5, <1>6, <1>7, <1>8, <1>9, <1>10

\* A step with an asset is accepted once the chain has what it needs.
LEMMA AssetStepAccepted ==
    ASSUME NEW s \in AnyAssetStep, Needed(s) \subseteq ledger,
           s[1] = "create" => s \notin ledger, DeploymentDone,
           IsVerified("investorA"), IsVerified("investorB")
    PROVE  Accepted(s)
<1>1. s[1] \in AssetTransactions /\ s[2] \in AssetKinds
  BY AssetStepFacts
<1>2. <<"addTrustedIssuer">> \in ledger
  BY DEF IsVerified
<1>3. CASE s[1] = "create"
  <2>1. CreateTokenFactory(s[2]) \in OnboardingModule
    BY <1>1 DEF OnboardingModule, FactoryModule
  <2>2. OnChain(CreateTokenFactory(s[2]))
    BY <2>1 DEF DeploymentDone, OnChain
  <2>3. s[2] = "bond" => <<"create", "deposit">> \in ledger
    BY <1>3, NeededFacts
  <2>4. s \notin ledger
    BY <1>3
  <2> QED
    BY <1>3, <2>2, <2>3, <2>4, AcceptedFacts
<1>4. CASE s[1] = "grantRole"
  <2>1. <<"create", s[2]>> \in ledger
    BY <1>4, NeededFacts
  <2> QED
    BY <1>4, <2>1, AcceptedFacts
<1>5. CASE s[1] = "addAssetClaim"
  <2>1. <<"grantRole", s[2], "claimManager">> \in ledger
    BY <1>5, NeededFacts
  <2> QED
    BY <1>5, <2>1, AcceptedFacts
<1>6. CASE s[1] = "mint"
  <2>1. /\ <<"grantRole", s[2], "supplyManagement">> \in ledger
        /\ s[2] \in Collateralised => <<"addAssetClaim", s[2], "collateral">> \in ledger
    BY <1>6, NeededFacts
  <2>2. s[2] \in Collateralised =>
            {<<"addAssetClaim", s[2], "collateral">>, <<"addTrustedIssuer">>} \subseteq ledger
    BY <1>2, <2>1
  <2> QED
    BY <1>6, <2>1, <2>2, AcceptedFacts
<1>7. CASE s[1] = "transfer"
  <2>1. <<"mint", s[2]>> \in ledger
    BY <1>7, NeededFacts
  <2> QED
    BY <1>7, <2>1, AcceptedFacts
<1>8. CASE s[1] = "burn"
  <2>1. <<"transfer", s[2]>> \in ledger
    BY <1>8, NeededFacts
  <2> QED
    BY <1>8, <2>1, AcceptedFacts
<1> QED
  BY <1>1, <1>3, <1>4, <1>5, <1>6, <1>7, <1>8 DEF AssetTransactions

\* In a clean run every transaction is accepted when its time has come, and
\* the cache has the topics for its data.
LEMMA AcceptedInTime ==
    ASSUME OnboardingInv, CleanInv, Unfaulted,
           NEW t \in Tasks, pc[t] \in DOMAIN Steps[t], Step(t)[1] \notin Waits, tx[t] # "success"
    PROVE  Accepted(Step(t)) /\ Encodable(Step(t))
<1>1. FlowInv /\ DoneInv /\ DeployedFirst /\ pc \in [Tasks -> Nat]
  BY DEF OnboardingInv, FlowInv, TasksWellFormed
<1>2. pc[Main] >= 1 /\ pc[Main] \in Nat /\ (pc[Main] > 5 => topicCache = Topics)
  BY <1>1, TaskFacts DEF CleanInv
<1>3. pc[Main] > 3 => \A a \in RegisteredActors : IdentityOf(a) \in ledger
  <2> HAVE pc[Main] > 3
  <2>1. \A a \in RegisteredActors : Resolved(Identity(a)) /\ a \in Actors
    BY <1>1, RegisteredFacts DEF FlowInv, MainAwaits, RegisteredResolved
  <2> QED
    BY <1>1, <2>1, ProgressFacts
<1>4. pc[Main] > 6 => IdentityOf("claimIssuer") \in ledger
  BY <1>1, ProgressFacts, RegisteredFacts DEF FlowInv, MainAwaits
<1>5. ASSUME NEW a \in Actors, t = Identity(a) PROVE Accepted(Step(t)) /\ Encodable(Step(t))
  <2>1. pc[t] = 1
    BY <1>5, StepNumbers, TaskStepsFacts
  <2>2. Step(t) = IdentityOf(a)
    BY <1>5, <2>1, TaskStepsFacts DEF Step, IdentityOf
  <2>3. Step(t)[1] = "createIdentity"
    BY <2>2 DEF IdentityOf
  <2>4. Step(t) \notin ledger
    BY <1>1, <2>3, SentOnce
  <2>5. Accepted(Step(t))
    BY <2>3, <2>4, AcceptedFacts
  <2> QED
    BY <2>3, <2>5 DEF Encodable
<1>6. ASSUME NEW a \in RegisteredActors, t = Verification(a) PROVE Accepted(Step(t)) /\ Encodable(Step(t))
  <2>1. pc[t] \in Nat /\ pc[t] >= 1 /\ pc[t] <= 3
    BY <1>6, StepNumbers, TaskStepsFacts
  <2>2. pc[t] = 1 \/ pc[t] = 2 \/ pc[t] = 3
    BY ONLY <2>1
  <2>3. pc[t] # 3
    BY <1>6, TaskStepsFacts DEF Step, Waits
  <2>4. Step(t) = <<"addClaim", a, "kyc">> \/ Step(t) = <<"addClaim", a, "aml">>
    BY <1>6, <2>2, <2>3, TaskStepsFacts DEF Step
  <2>5. Step(t)[1] = "addClaim" /\ Step(t)[2] = a /\ Step(t)[3] \in {"kyc", "aml"}
    BY <2>4
  <2>6. \A b \in Actors : Resolved(Identity(b))
    BY <1>1, <1>6, <2>1 DEF FlowInv, MainAwaits
  <2>7. IdentityOf(a) \in ledger /\ IdentityOf("claimIssuer") \in ledger
    BY <1>1, <2>6, ProgressFacts, RegisteredFacts
  <2>8. Accepted(Step(t))
    <3> DEFINE s == Step(t)
    <3>1. s[1] = "addClaim" /\ s[2] = a
      BY <2>5
    <3> HIDE DEF s
    <3>2. {IdentityOf(s[2]), IdentityOf("claimIssuer")} \subseteq ledger
      BY <2>7, <3>1
    <3>3. Accepted(s) <=> {IdentityOf(s[2]), IdentityOf("claimIssuer")} \subseteq ledger
      BY ONLY <3>1, AcceptedFacts
    <3> QED
      BY <3>2, <3>3 DEF s
  <2>9. pc[Main] \notin 1 .. 7
    BY <1>1, <1>6, <2>1 DEF FlowInv, MainAwaits
  <2>10. topicCache = Topics
    BY <1>2, <2>9
  <2>11. Step(t)[3] \in Topics
    BY <2>5 DEF Topics
  <2> QED
    BY <2>8, <2>10, <2>11 DEF Encodable
<1>7. CASE t = Main
  <2> DEFINE p == pc[Main]
             s == MainSteps[p]
  <2>1. /\ Step(t) = s /\ p \in DOMAIN Steps[Main] /\ p \in 1 .. Len(MainSteps) /\ Len(MainSteps) \in Nat
        /\ p \notin {1, 2, 3, 5, 6, 8}
    BY <1>7, StepsFacts, MainStepsFacts, TaskStepsFacts DEF Step
  <2>2. p = 4 \/ p = 7 \/ p \in 9 .. Len(MainSteps)
    <3> HIDE DEF p
    <3> QED
      BY ONLY <2>1
  <2>3. CASE p = 4
    <3>1. s = <<"batchRegisterIdentity">>
      BY <2>3, MainStepsFacts
    <3>2. Step(t)[1] = "batchRegisterIdentity"
      BY <2>1, <3>1
    <3>3. Step(t) \notin ledger
      BY <1>1, <3>2, SentOnce
    <3>4. \A a \in ToSet(Registered) : IdentityOf(a) \in ledger
      BY <1>3, <2>3, RegisteredFacts
    <3>5. Accepted(Step(t))
      BY <3>2, <3>3, <3>4, AcceptedFacts
    <3> QED
      BY <3>2, <3>5 DEF Encodable
  <2>4. CASE p = 7
    <3>1. s = <<"addTrustedIssuer">>
      BY <2>4, MainStepsFacts
    <3>2. Step(t)[1] = "addTrustedIssuer"
      BY <2>1, <3>1
    <3>3. Step(t) \notin ledger
      BY <1>1, <3>2, SentOnce
    <3>4. IdentityOf("claimIssuer") \in ledger
      BY <1>4, <2>4
    <3>5. Accepted(Step(t))
      BY <3>2, <3>3, <3>4, AcceptedFacts
    <3> QED
      BY <3>2, <3>5 DEF Encodable
  <2>5. CASE p \in 9 .. Len(MainSteps)
    <3>1. /\ s \in AnyAssetStep
          /\ Needed(s) \subseteq {MainSteps[j] : j \in 9 .. p - 1}
      BY <2>5, MainStepsFacts
    <3>2. \A j \in 9 .. p - 1 : MainSteps[j] \in ledger
      <4> TAKE j \in 9 .. p - 1
      <4>1. j \in 9 .. Len(MainSteps) /\ j < pc[Main]
        <5> HIDE DEF p
        <5>1. j \in 9 .. Len(MainSteps) /\ j < p
          BY <2>1
        <5> QED
          BY <5>1 DEF p
      <4> QED
        BY <1>1, <4>1, ProgressFacts
    <3>3. Needed(s) \subseteq ledger
      BY <3>1, <3>2
    <3>4. s[1] = "create" => s \notin ledger
      BY <1>1, <2>1, SentOnce
    <3>5. p > 8 /\ p > 7 /\ p > 5 /\ p > 4 /\ p > 1
      BY <2>5
    <3>6. DeploymentDone
      BY <1>1, <3>5 DEF DeployedFirst
    <3>7. ASSUME NEW a \in RegisteredActors PROVE IsVerified(a)
      <4>1. Resolved(Verification(a))
        BY <1>1, <3>5 DEF FlowInv, MainAwaits
      <4>2. pc[Verification(a)] > 3 /\ pc[Verification(a)] \in Nat
        BY <1>1, <4>1, TaskFacts, TaskStepsFacts DEF Resolved
      <4>3. pc[Verification(a)] > 1 /\ pc[Verification(a)] > 2
        BY <4>2
      <4> QED
        BY <1>1, <3>5, <4>3, ProgressFacts DEF IsVerified
    <3>8. "investorA" \in RegisteredActors /\ "investorB" \in RegisteredActors
      BY DEF RegisteredActors
    <3>9. Accepted(s)
      BY <3>1, <3>3, <3>4, <3>6, <3>7, <3>8, AssetStepAccepted
    <3>10. Encodable(s)
      <4>1. topicCache = Topics
        BY <1>2, <3>5
      <4>2. s[1] # "addClaim" /\ (s[1] = "addAssetClaim" => s[3] \in Topics)
        BY <3>1, AssetStepFacts DEF AssetTransactions
      <4> QED
        BY <4>1, <4>2 DEF Encodable
    <3> QED
      BY <2>1, <3>9, <3>10
  <2> QED
    BY <2>2, <2>3, <2>4, <2>5
<1> QED
  BY <1>5, <1>6, <1>7, TaskFacts

\* What keeps a clean run clean: tasks that go on, and a chain that has only
\* what a task learns to have succeeded.
LEMMA CleanKept ==
    ASSUME FlowInv, CleanInv, UNCHANGED clean,
           process' = "exit 1" => process = "exit 1" /\ (faulted => faulted'),
           Unfaulted' =>
              /\ Unfaulted
              /\ rejected' = {} /\ orphans' = {} /\ \A t \in Tasks : tx'[t] # "reverted"
              /\ \A t \in Tasks : pc'[t] = pc[t] \/ pc'[t] = pc[t] + 1
              /\ \A t \in Tasks : tx[t] = "success" /\ pc'[t] = pc[t] => tx'[t] = "success"
              /\ \A s \in ledger' : s \in ledger \/ \E t \in Tasks :
                    s = Step(t) /\ pc[t] \in DOMAIN Steps[t] /\ pc'[t] = pc[t] /\ tx'[t] = "success"
              /\ pc'[Main] > 5 => topicCache' = Topics
    PROVE  CleanInv'
<1>1. CleanRunFailsOnlyByFault'
  BY DEF CleanInv, CleanRunFailsOnlyByFault
<1>2. ASSUME Unfaulted'
      PROVE  /\ rejected' = {} /\ orphans' = {} /\ \A t \in Tasks : tx'[t] # "reverted"
             /\ pc'[Main] >= 1
             /\ pc'[Main] > 5 => topicCache' = Topics
             /\ \A s \in ledger' : \E t \in Tasks : DoneBy(s, t)'
  <2>1. /\ Unfaulted
        /\ rejected' = {} /\ orphans' = {} /\ \A t \in Tasks : tx'[t] # "reverted"
        /\ pc'[Main] > 5 => topicCache' = Topics
    BY <1>2
  <2>2. \A t \in Tasks : pc'[t] = pc[t] \/ pc'[t] = pc[t] + 1
    BY <1>2
  <2>3. \A t \in Tasks : pc[t] \in Nat
    BY DEF FlowInv, TasksWellFormed
  <2>4. pc'[Main] >= 1
    <3>1. pc[Main] >= 1 /\ pc[Main] \in Nat /\ (pc'[Main] = pc[Main] \/ pc'[Main] = pc[Main] + 1)
      BY <2>1, <2>2, <2>3, TaskFacts DEF CleanInv
    <3> QED
      BY ONLY <3>1
  <2>5. ASSUME NEW s \in ledger' PROVE \E t \in Tasks : DoneBy(s, t)'
    <3>1. CASE s \in ledger
      <4>1. PICK t \in Tasks : DoneBy(s, t)
        BY <2>1, <3>1 DEF CleanInv
      <4>2. PICK i \in DOMAIN Steps[t] : s = Steps[t][i] /\ (i < pc[t] \/ (i = pc[t] /\ tx[t] = "success"))
        BY <4>1 DEF DoneBy
      <4>3. i \in Nat /\ pc[t] \in Nat /\ (pc'[t] = pc[t] \/ pc'[t] = pc[t] + 1)
        BY <2>2, <2>3, StepNumbers
      <4>4. tx[t] = "success" /\ pc'[t] = pc[t] => tx'[t] = "success"
        BY <1>2
      <4>5. i < pc'[t] \/ (i = pc'[t] /\ tx'[t] = "success")
        <5>1. CASE i < pc[t]
          <6>1. i < pc'[t]
            BY ONLY <4>3, <5>1
          <6> QED
            BY <6>1
        <5>2. CASE i = pc[t] /\ tx[t] = "success"
          <6>1. pc'[t] = pc[t] => i = pc'[t] /\ tx'[t] = "success"
            BY <4>4, <5>2
          <6>2. pc'[t] = pc[t] + 1 => i < pc'[t]
            BY ONLY <4>3, <5>2
          <6> QED
            BY <4>3, <6>1, <6>2
        <5> QED
          BY <4>2, <5>1, <5>2
      <4> QED
        BY <4>2, <4>5 DEF DoneBy
    <3>2. ASSUME NEW t \in Tasks, s = Step(t), pc[t] \in DOMAIN Steps[t],
                 pc'[t] = pc[t], tx'[t] = "success"
          PROVE  DoneBy(s, t)'
      <4>1. s = Steps[t][pc'[t]] /\ pc'[t] \in DOMAIN Steps[t]
        BY <3>2 DEF Step
      <4> QED
        BY <3>2, <4>1 DEF DoneBy
    <3>3. s \in ledger \/ \E t \in Tasks :
              s = Step(t) /\ pc[t] \in DOMAIN Steps[t] /\ pc'[t] = pc[t] /\ tx'[t] = "success"
      BY <1>2
    <3> QED
      BY <3>1, <3>2, <3>3
  <2> QED
    BY <2>1, <2>4, <2>5
<1> QED
  BY <1>1, <1>2 DEF CleanInv

\* A check of a verification finds what it looks for.
LEMMA VerifiedInTime ==
    ASSUME OnboardingInv, CleanInv, Unfaulted, NEW t \in Tasks, AtStep(t, "isVerified")
    PROVE  IsVerified(Step(t)[2])
<1>1. FlowInv /\ DoneInv /\ pc \in [Tasks -> Nat]
  BY DEF OnboardingInv, FlowInv, TasksWellFormed
<1>2. pc[t] \in DOMAIN Steps[t] /\ Step(t) = Steps[t][pc[t]] /\ Step(t)[1] = "isVerified"
  BY DEF AtStep, Active, Step
<1>3. t # Main
  BY <1>2, MainStepNames
<1>4. ASSUME NEW a \in Actors PROVE t # Identity(a)
  <2> SUFFICES ASSUME t = Identity(a) PROVE FALSE
    OBVIOUS
  <2>1. pc[t] = 1
    BY <1>2, StepNumbers, TaskStepsFacts
  <2>2. Step(t) = <<"createIdentity", a>>
    BY <1>2, <2>1, TaskStepsFacts
  <2> QED
    BY <1>2, <2>2
<1>5. PICK a \in RegisteredActors : t = Verification(a)
  BY <1>3, <1>4, TaskFacts
<1>6. pc[t] = 3 /\ Step(t)[2] = a
  <2>1. pc[t] \in Nat /\ pc[t] >= 1 /\ pc[t] <= 3
    BY <1>2, <1>5, StepNumbers, TaskStepsFacts
  <2>2. pc[t] = 1 \/ pc[t] = 2 \/ pc[t] = 3
    BY ONLY <2>1
  <2>3. pc[t] # 1 /\ pc[t] # 2
    BY <1>2, <1>5, TaskStepsFacts
  <2> QED
    BY <1>2, <1>5, <2>2, <2>3, TaskStepsFacts
<1>7. pc[Verification(a)] > 1 /\ pc[Verification(a)] > 2 /\ pc[Verification(a)] # 0
  BY <1>5, <1>6
<1>8. pc[Main] > 7 /\ pc[Main] > 4
  <2>1. pc[Main] >= 1 /\ pc[Main] \in Nat
    BY <1>1, TaskFacts DEF CleanInv
  <2>2. pc[Main] \notin 1 .. 7
    BY <1>1, <1>7 DEF FlowInv, MainAwaits
  <2> QED
    BY ONLY <2>1, <2>2
<1>9. IsVerified(a)
  BY <1>1, <1>7, <1>8, ProgressFacts DEF IsVerified
<1> QED
  BY <1>6, <1>9

\* A step of a task.
LEMMA TaskStepKeepsClean ==
    ASSUME OnboardingInv, CleanInv, NEW t \in Tasks, TaskStep(t)
    PROVE  CleanInv'
<1>1. /\ FlowInv /\ pc \in [Tasks -> Nat]
      /\ tx \in [Tasks -> {"none", "sent", "success", "reverted"}]
  BY DEF OnboardingInv, FlowInv, TasksWellFormed
<1>2. process = "running" /\ UNCHANGED <<process, clean, ledger, topicCache>>
  BY DEF TaskStep, Send, SendFails, Succeed, ReceiptFails, ReadSucceeds, ReadFails,
         AtTransaction, AtStep, Active, Fail, Goto, chainVars, runVars
<1>3. process' # "exit 1"
  BY <1>2
<1>4. faulted' = faulted \/ faulted' = TRUE
  BY DEF TaskStep, Send, SendFails, Succeed, ReceiptFails, ReadSucceeds, ReadFails, Goto, Lose, faultVars
<1>5. ASSUME Unfaulted' PROVE Unfaulted
  BY <1>2, <1>4, <1>5 DEF Unfaulted
<1>6. ASSUME Unfaulted'
      PROVE  /\ UNCHANGED <<rejected, orphans>>
             /\ \/ UNCHANGED pc /\ tx[t] = "none" /\ tx' = [tx EXCEPT ![t] = "sent"]
                \/ /\ pc' = [pc EXCEPT ![t] = @ + 1]
                   /\ tx' = [tx EXCEPT ![t] = "none"] \/ UNCHANGED tx
                   /\ t = Main => pc[Main] # 5
  <2>1. Unfaulted /\ ~faulted'
    BY <1>5, <1>6 DEF Unfaulted
  <2>2. CASE Send(t)
    BY <2>2 DEF Send, chainVars
  <2>3. CASE SendFails(t)
    <3>1. /\ pc[t] \in DOMAIN Steps[t] /\ Step(t)[1] \notin Waits /\ tx[t] = "none"
          /\ ~Encodable(Step(t)) \/ ~Accepted(Step(t)) \/ faulted'
      BY <2>3 DEF SendFails, AtTransaction, Active, Lose
    <3>2. tx[t] # "success"
      BY <3>1
    <3> QED
      BY <2>1, <3>1, <3>2, AcceptedInTime
  <2>4. CASE Succeed(t)
    <3>1. t = Main => pc[Main] # 5
      <4>1. pc[t] \in DOMAIN Steps[t] /\ Step(t)[1] \notin Waits
        BY <1>1, <2>4 DEF Succeed, FlowInv, TasksWellFormed
      <4> QED
        BY <4>1, TaskStepsFacts DEF Step
    <3> QED
      BY <2>4, <3>1 DEF Succeed, Advanced, chainVars
  <2>5. CASE ReceiptFails(t)
    <3>1. tx[t] = "reverted" \/ faulted'
      BY <2>5 DEF ReceiptFails, Lose
    <3> QED
      BY <2>1, <3>1 DEF CleanInv
  <2>6. CASE ReadSucceeds(t)
    <3>1. t = Main => pc[Main] = 2
      BY <1>1, <2>6, ReadFacts DEF ReadSucceeds
    <3>2. t = Main => pc[Main] # 5
      BY <3>1
    <3> QED
      BY <2>6, <3>2 DEF ReadSucceeds, Goto, Advanced, chainVars
  <2>7. CASE ReadFails(t)
    <3>1. CASE AtStep(t, "initialize") /\ Lose
      BY <2>1, <3>1 DEF Lose
    <3>2. CASE AtStep(t, "isVerified") /\ IF IsVerified(Step(t)[2]) THEN Lose ELSE UNCHANGED faultVars
      <4>1. IsVerified(Step(t)[2])
        BY <2>1, <3>2, VerifiedInTime
      <4>2. Lose
        BY <3>2, <4>1
      <4> QED
        BY <2>1, <4>2 DEF Lose
    <3> QED
      BY <2>7, <3>1, <3>2 DEF ReadFails
  <2> QED
    BY <2>2, <2>3, <2>4, <2>5, <2>6, <2>7 DEF TaskStep
<1>7. ASSUME Unfaulted'
      PROVE  /\ Unfaulted
             /\ rejected' = {} /\ orphans' = {} /\ \A u \in Tasks : tx'[u] # "reverted"
             /\ \A u \in Tasks : pc'[u] = pc[u] \/ pc'[u] = pc[u] + 1
             /\ \A u \in Tasks : tx[u] = "success" /\ pc'[u] = pc[u] => tx'[u] = "success"
             /\ \A s \in ledger' : s \in ledger
             /\ pc'[Main] > 5 => topicCache' = Topics
  <2>1. Unfaulted
    BY <1>5, <1>7
  <2>2. /\ rejected = {} /\ orphans = {} /\ \A u \in Tasks : tx[u] # "reverted"
        /\ pc[Main] > 5 => topicCache = Topics
    BY <2>1 DEF CleanInv
  <2>3. rejected' = {} /\ orphans' = {}
    BY <1>6, <1>7, <2>2
  <2>4. CASE UNCHANGED pc /\ tx[t] = "none" /\ tx' = [tx EXCEPT ![t] = "sent"]
    <3>1. \A u \in Tasks : tx'[u] = IF u = t THEN "sent" ELSE tx[u]
      BY <1>1, <2>4
    <3> QED
      BY <1>2, <2>1, <2>2, <2>3, <2>4, <3>1
  <2>5. CASE /\ pc' = [pc EXCEPT ![t] = @ + 1]
             /\ tx' = [tx EXCEPT ![t] = "none"] \/ UNCHANGED tx
             /\ t = Main => pc[Main] # 5
    <3>1. /\ pc'[t] = pc[t] + 1 /\ pc[t] \in Nat
          /\ \A u \in Tasks : u # t => pc'[u] = pc[u] /\ tx'[u] = tx[u]
          /\ tx'[t] = "none" \/ tx'[t] = tx[t]
      BY <1>1, <2>5
    <3>2. pc'[t] # pc[t]
      BY ONLY <3>1
    <3>3. \A u \in Tasks : tx'[u] # "reverted"
      BY <2>2, <3>1
    <3>4. pc'[Main] > 5 => topicCache' = Topics
      <4>1. t # Main => pc'[Main] = pc[Main]
        BY <3>1, TaskFacts
      <4>2. t = Main => pc'[Main] = pc[Main] + 1 /\ pc[Main] \in Nat /\ pc[Main] # 5
        BY <2>5, <3>1
      <4>3. pc'[Main] > 5 => pc[Main] > 5
        BY ONLY <4>1, <4>2
      <4> QED
        BY <1>2, <2>2, <4>3
    <3> QED
      BY <1>2, <2>1, <2>3, <3>1, <3>2, <3>3, <3>4
  <2> QED
    BY <1>6, <1>7, <2>4, <2>5
<1> QED
  BY <1>1, <1>2, <1>3, <1>7, CleanKept

\* Where the identities main asks for are not asked for yet.
LEMMA NewlyAsked ==
    ASSUME FlowInv, GetIdentities
    PROVE  \A t \in Tasks : pc'[t] = pc[t] \/ (pc[t] = 0 /\ pc'[t] = 1)
<1> DEFINE asked == Step(Main)[2]
<1>1. /\ ToSet(asked) \cap ToSet(identityCreationQueue) = {}
      /\ pc' = [t \in Tasks |-> IF t \in {Identity(a) : a \in ToSet(asked)} THEN 1 ELSE pc[t]]
      /\ pc[Main] \in DOMAIN Steps[Main] /\ Step(Main)[1] = "getIdentities"
  BY DEF GetIdentities, AtStep, Active
<1>2. ToSet(asked) \subseteq Actors
  <2>1. Step(Main) = Steps[Main][pc[Main]]
    BY DEF Step
  <2>2. pc[Main] \in {3, 6}
    BY <1>1, <2>1, MainStepNames
  <2>3. asked = Registered \/ asked = <<"claimIssuer">>
    BY <2>1, <2>2, StepsFacts, MainStepsFacts
  <2>4. ToSet(<<"claimIssuer">>) = {"claimIssuer"}
    <3> DEFINE one == <<"claimIssuer">>
    <3>1. DOMAIN one = {1} /\ one[1] = "claimIssuer"
      OBVIOUS
    <3> HIDE DEF one
    <3>2. ToSet(one) = {"claimIssuer"}
      BY <3>1 DEF ToSet
    <3> QED
      BY <3>2 DEF one
  <2> HIDE DEF asked
  <2> QED
    BY <2>3, <2>4, RegisteredFacts
<1> HIDE DEF asked
<1> SUFFICES ASSUME NEW t \in Tasks, t \in {Identity(a) : a \in ToSet(asked)}
             PROVE  pc[t] = 0 /\ pc'[t] = 1
  BY <1>1
<1>3. PICK a \in ToSet(asked) : t = Identity(a)
  OBVIOUS
<1>4. a \in Actors /\ a \notin ToSet(identityCreationQueue)
  BY <1>1, <1>2
<1>5. pc[t] = 0
  BY <1>3, <1>4 DEF FlowInv, QueueFollowsMain
<1> QED
  BY <1>1, <1>5

\* A step of main that is not a transaction.
LEMMA MainStepKeepsClean ==
    ASSUME OnboardingInv, CleanInv, MainStep
    PROVE  CleanInv'
<1>1. /\ FlowInv /\ DeployInv /\ pc \in [Tasks -> Nat] /\ Main \in Tasks
      /\ Unfaulted => /\ rejected = {} /\ orphans = {} /\ \A t \in Tasks : tx[t] # "reverted"
                      /\ pc[Main] > 5 => topicCache = Topics
  BY TaskFacts DEF OnboardingInv, FlowInv, TasksWellFormed, CleanInv
<1>2. CASE Exit
  <2>1. UNCHANGED <<clean, faulted>> /\ process' # "running"
    BY <1>2 DEF Exit, Ended, faultVars
  <2>2. process' = "exit 1" => process = "running" /\ Main \in rejected
    BY <1>2 DEF Exit, Ended
  <2>3. (process' = "exit 1" /\ clean') => faulted'
    BY <1>1, <2>1, <2>2 DEF Unfaulted
  <2>4. ~Unfaulted'
    BY <2>1 DEF Unfaulted
  <2> QED
    BY <2>3, <2>4 DEF CleanInv, CleanRunFailsOnlyByFault
<1>3. ASSUME process = "running", UNCHANGED <<process, clean>>, faulted' = faulted \/ faulted' = TRUE,
             \/ faulted' = TRUE
             \/ /\ UNCHANGED <<rejected, orphans, tx, ledger>>
                /\ \A t \in Tasks : \/ pc'[t] = pc[t]
                                    \/ pc'[t] = pc[t] + 1 /\ tx[t] # "success"
                /\ pc'[Main] > 5 => topicCache' = Topics \/ (pc[Main] > 5 /\ UNCHANGED topicCache)
      PROVE  CleanInv'
  <2>1. Unfaulted' => Unfaulted /\ ~faulted'
    BY <1>3 DEF Unfaulted
  <2>2. process' # "exit 1"
    BY <1>3
  <2>3. Unfaulted' => rejected' = {} /\ orphans' = {} /\ \A t \in Tasks : tx'[t] # "reverted"
    BY <1>1, <1>3, <2>1
  <2>4. Unfaulted' => \A t \in Tasks : pc'[t] = pc[t] \/ pc'[t] = pc[t] + 1
    BY <1>3, <2>1
  <2>5. Unfaulted' => \A t \in Tasks : tx[t] = "success" /\ pc'[t] = pc[t] => tx'[t] = "success"
    BY <1>3, <2>1
  <2>6. Unfaulted' => \A s \in ledger' : s \in ledger
    BY <1>3, <2>1
  <2>7. Unfaulted' => (pc'[Main] > 5 => topicCache' = Topics)
    BY <1>1, <1>3, <2>1
  <2> QED
    BY <1>1, <1>3, <2>1, <2>2, <2>3, <2>4, <2>5, <2>6, <2>7, CleanKept
<1>4. ASSUME process = "running", pc[Main] \in {1, 2, 3, 6, 8}, pc' = Advanced(Main),
             UNCHANGED <<process, clean, faulted, rejected, orphans, tx, ledger, topicCache>>
      PROVE  CleanInv'
  <2>1. pc[Main] \in DOMAIN Steps[Main] /\ Step(Main)[1] \in Waits
    BY <1>4, TaskStepsFacts, TaskFacts DEF Step
  <2>2. tx[Main] = "none"
    BY <1>1, <2>1, WaitingHasNoTx
  <2>3. \A t \in Tasks : pc'[t] = IF t = Main THEN pc[t] + 1 ELSE pc[t]
    BY <1>1, <1>4 DEF Advanced
  <2>4. \A t \in Tasks : pc'[t] = pc[t] \/ (pc'[t] = pc[t] + 1 /\ tx[t] # "success")
    BY <2>2, <2>3
  <2>5. pc'[Main] = pc[Main] + 1
    BY <1>1, <2>3
  <2>6. pc'[Main] > 5 => pc[Main] > 5
    <3>1. pc[Main] = 1 \/ pc[Main] = 2 \/ pc[Main] = 3 \/ pc[Main] = 6 \/ pc[Main] = 8
      BY <1>4
    <3> QED
      BY ONLY <2>5, <3>1
  <2> QED
    BY <1>3, <1>4, <2>4, <2>6
<1>5. ASSUME process = "running", UNCHANGED <<process, clean>>, faulted' = TRUE PROVE CleanInv'
  BY <1>3, <1>5
<1>6. CASE Deploy
  <2>1. /\ process = "running"
        /\ UNCHANGED <<process, clean, faulted, rejected, orphans, tx, ledger, pc, topicCache>>
    BY <1>6 DEF Deploy, AtStep, Active, taskVars, chainVars, runVars, faultVars
  <2>2. (\A t \in Tasks : pc'[t] = pc[t]) /\ (pc'[Main] > 5 => pc[Main] > 5)
    BY <2>1
  <2> QED
    BY <1>3, <2>1, <2>2
<1>7. CASE DeploySucceeds
  <2>1. /\ process = "running" /\ pc[Main] \in DOMAIN Steps[Main]
        /\ Steps[Main][pc[Main]][1] = "setUp"
        /\ pc' = Advanced(Main)
        /\ UNCHANGED <<process, clean, faulted, rejected, orphans, tx, ledger, topicCache>>
    BY <1>7 DEF DeploySucceeds, AtStep, Active, Step, Goto, chainVars, runVars, faultVars
  <2>2. pc[Main] = 1
    BY <2>1, MainStepNames
  <2> QED
    BY <1>4, <2>1, <2>2
<1>8. CASE DeployFails
  <2>1. ~DeploymentFailed
    BY <1>1 DEF DeployInv, DeploymentFailed
  <2>2. process = "running" /\ UNCHANGED <<process, clean>> /\ faulted' = TRUE
    BY <1>8, <2>1 DEF DeployFails, AtStep, Active, Fail, runVars, Lose
  <2> QED
    BY <1>5, <2>2
<1>9. CASE LoadTopics
  <2>1. /\ process = "running" /\ pc[Main] \in DOMAIN Steps[Main]
        /\ Steps[Main][pc[Main]][1] = "loadTopics"
        /\ pc' = Advanced(Main)
        /\ UNCHANGED <<process, clean, rejected, orphans, tx, ledger>>
        /\ (topicCache' = Topics /\ faulted' = faulted) \/ faulted' = TRUE
    BY <1>9 DEF LoadTopics, AtStep, Active, Step, Lose, chainVars, runVars, faultVars
  <2>2. pc[Main] = 5
    BY <2>1, MainStepNames
  <2>3. tx[Main] = "none"
    <3>1. Step(Main)[1] \in Waits
      BY <2>1 DEF Step, Waits
    <3> QED
      BY <1>1, <3>1, WaitingHasNoTx
  <2>4. \A t \in Tasks : pc'[t] = IF t = Main THEN pc[t] + 1 ELSE pc[t]
    BY <1>1, <2>1 DEF Advanced
  <2>5. \A t \in Tasks : pc'[t] = pc[t] \/ (pc'[t] = pc[t] + 1 /\ tx[t] # "success")
    BY <2>3, <2>4
  <2>6. CASE topicCache' = Topics /\ faulted' = faulted
    BY <1>3, <2>1, <2>5, <2>6
  <2>7. CASE faulted' = TRUE
    BY <1>5, <2>1, <2>7
  <2> QED
    BY <2>1, <2>6, <2>7
<1>10. CASE LoadTopicsFails
  <2>1. process = "running" /\ UNCHANGED <<process, clean>> /\ faulted' = TRUE
    BY <1>10 DEF LoadTopicsFails, AtStep, Active, Fail, runVars, Lose
  <2> QED
    BY <1>5, <2>1
<1>11. CASE GetIdentities \/ StartVerification
  <2>1. /\ process = "running"
        /\ UNCHANGED <<process, clean, faulted, rejected, orphans, tx, ledger, topicCache>>
    BY <1>11 DEF GetIdentities, StartVerification, AtStep, Active, chainVars, runVars, faultVars
  <2>2. \A t \in Tasks : pc'[t] = pc[t] \/ (pc[t] = 0 /\ pc'[t] = 1)
    <3>1. CASE GetIdentities
      BY <1>1, <3>1, NewlyAsked
    <3>2. CASE StartVerification
      <4>1. /\ \A a \in RegisteredActors : pc[Verification(a)] = 0
            /\ pc' = [t \in Tasks |-> IF t[1] = "verification" THEN 1 ELSE pc[t]]
        BY <3>2, RegisteredFacts DEF StartVerification
      <4>2. \A t \in Tasks : t[1] = "verification" => \E a \in RegisteredActors : t = Verification(a)
        BY TaskFacts
      <4> QED
        BY <4>1, <4>2
    <3> QED
      BY <1>11, <3>1, <3>2
  <2>3. ASSUME NEW t \in Tasks PROVE pc'[t] = pc[t] \/ (pc'[t] = pc[t] + 1 /\ tx[t] # "success")
    <3>1. CASE pc[t] = 0 /\ pc'[t] = 1
      <4>1. pc[t] \notin DOMAIN Steps[t]
        <5>1. pc[t] \in DOMAIN Steps[t] => pc[t] >= 1
          BY StepNumbers
        <5> QED
          BY <3>1, <5>1
      <4>2. tx[t] = "none"
        BY <1>1, <4>1, WaitingHasNoTx
      <4> QED
        BY <3>1, <4>2
    <3> QED
      BY <2>2, <3>1
  <2>4. pc'[Main] = pc[Main]
    <3>1. pc[Main] \in DOMAIN Steps[Main]
      BY <1>11 DEF GetIdentities, StartVerification, AtStep, Active
    <3>2. pc[Main] # 0
      BY <1>1, <3>1, StepNumbers
    <3> QED
      BY <1>1, <2>2, <3>2
  <2> QED
    BY <1>3, <2>1, <2>3, <2>4
<1>12. CASE AwaitSucceeds
  <2>1. /\ pc' = Advanced(Main) /\ Awaited # {}
        /\ UNCHANGED <<process, clean, faulted, rejected, orphans, tx, ledger, topicCache>>
    BY <1>12 DEF AwaitSucceeds, AllResolved, Goto, chainVars, runVars, faultVars
  <2>2. process = "running" /\ pc[Main] \in {3, 6, 8}
    BY <2>1, AwaitedFacts
  <2> QED
    BY <1>4, <2>1, <2>2
<1>13. CASE AwaitFails
  <2>1. /\ Awaited # {} /\ rejected # {} /\ UNCHANGED <<process, clean, faulted>>
    BY <1>13 DEF AwaitFails, Fail, runVars, faultVars
  <2>2. process = "running"
    BY <2>1, AwaitedFacts
  <2>3. ~Unfaulted
    BY <1>1, <2>1
  <2>4. ~Unfaulted' /\ process' # "exit 1"
    BY <2>1, <2>2, <2>3 DEF Unfaulted
  <2> QED
    BY <2>4 DEF CleanInv, CleanRunFailsOnlyByFault
<1> QED
  BY <1>2, <1>6, <1>7, <1>8, <1>9, <1>10, <1>11, <1>12, <1>13 DEF MainStep

\* A transaction of the process, or one left over, is mined.
LEMMA MiningKeepsClean ==
    ASSUME OnboardingInv, CleanInv, Mining
    PROVE  CleanInv'
<1>1. FlowInv /\ tx \in [Tasks -> {"none", "sent", "success", "reverted"}]
  BY DEF OnboardingInv, FlowInv, TasksWellFormed
<1>2. UNCHANGED <<process, clean, faulted, pc, rejected, topicCache>>
  <2>1. CASE MineFuture
    BY <2>1 DEF MineFuture, taskVars, runVars, faultVars
  <2>2. ASSUME NEW t \in Tasks, Mine(t) PROVE UNCHANGED <<process, clean, faulted, pc, rejected, topicCache>>
    BY <2>2 DEF Mine, runVars, faultVars
  <2>3. ASSUME NEW s \in orphans, MineOrphan(s) PROVE UNCHANGED <<process, clean, faulted, pc, rejected, topicCache>>
    BY <2>3 DEF MineOrphan, taskVars, runVars, faultVars
  <2> QED
    BY <2>1, <2>2, <2>3 DEF Mining
<1>3. process' = "exit 1" => process = "exit 1" /\ (faulted => faulted')
  BY <1>2
<1>4. Unfaulted' => Unfaulted
  BY <1>2 DEF Unfaulted
<1>5. Unfaulted => /\ rejected = {} /\ orphans = {} /\ \A t \in Tasks : tx[t] # "reverted"
                   /\ pc[Main] > 5 => topicCache = Topics
  BY DEF CleanInv
<1>6. ASSUME Unfaulted'
      PROVE  /\ orphans' = {}
             /\ \A t \in Tasks : tx'[t] # "reverted" /\ (tx[t] = "success" => tx'[t] = "success")
             /\ \A s \in ledger' : s \in ledger \/ \E t \in Tasks :
                   s = Step(t) /\ pc[t] \in DOMAIN Steps[t] /\ tx'[t] = "success"
  <2>1. Unfaulted /\ orphans = {} /\ \A t \in Tasks : tx[t] # "reverted"
    BY <1>4, <1>5, <1>6
  <2>2. CASE MineFuture
    BY <2>1, <2>2 DEF MineFuture, taskVars, chainVars
  <2>3. ASSUME NEW t \in Tasks, Mine(t)
        PROVE  /\ UNCHANGED orphans
               /\ pc[t] \in DOMAIN Steps[t]
               /\ ledger' = ledger \cup {Step(t)}
               /\ tx' = [tx EXCEPT ![t] = "success"]
    <3>1. tx[t] = "sent"
      BY <2>3 DEF Mine
    <3>2. pc[t] \in DOMAIN Steps[t] /\ Step(t)[1] \notin Waits /\ tx[t] # "success"
      BY <1>1, <3>1 DEF FlowInv, TasksWellFormed
    <3>3. Accepted(Step(t))
      BY <2>1, <3>2, AcceptedInTime
    <3> QED
      BY <2>3, <3>2, <3>3 DEF Mine
  <2>4. CASE \E t \in Tasks : Mine(t)
    <3>1. PICK t \in Tasks : Mine(t)
      BY <2>4
    <3>2. /\ UNCHANGED orphans
          /\ pc[t] \in DOMAIN Steps[t]
          /\ ledger' = ledger \cup {Step(t)}
          /\ tx' = [tx EXCEPT ![t] = "success"]
      BY <2>3, <3>1
    <3>3. \A u \in Tasks : tx'[u] = IF u = t THEN "success" ELSE tx[u]
      BY <1>1, <3>2
    <3>4. \A s \in ledger' : s \in ledger \/ (s = Step(t) /\ pc[t] \in DOMAIN Steps[t] /\ tx'[t] = "success")
      BY <3>2, <3>3
    <3> QED
      BY <2>1, <3>2, <3>3, <3>4
  <2> QED
    BY <2>1, <2>2, <2>4 DEF Mining
<1>7. Unfaulted' =>
        /\ Unfaulted
        /\ rejected' = {} /\ orphans' = {} /\ \A t \in Tasks : tx'[t] # "reverted"
        /\ \A t \in Tasks : pc'[t] = pc[t] \/ pc'[t] = pc[t] + 1
        /\ \A t \in Tasks : tx[t] = "success" /\ pc'[t] = pc[t] => tx'[t] = "success"
        /\ \A s \in ledger' : s \in ledger \/ \E t \in Tasks :
              s = Step(t) /\ pc[t] \in DOMAIN Steps[t] /\ pc'[t] = pc[t] /\ tx'[t] = "success"
        /\ pc'[Main] > 5 => topicCache' = Topics
  BY <1>2, <1>4, <1>5, <1>6
<1> QED
  BY <1>1, <1>2, <1>3, <1>7, CleanKept

\* A process that starts.
LEMMA StartKeepsClean ==
    ASSUME OnboardingInv, CleanInv, NEW reset \in BOOLEAN, Start(reset)
    PROVE  CleanInv'
<1>1. /\ NothingLeft /\ DeployInv /\ pc \in [Tasks -> Nat] /\ Main \in Tasks
      /\ \A t \in Tasks : tx[t] # "none" => pc[t] \in DOMAIN Steps[t]
  BY TaskFacts DEF OnboardingInv, FlowInv, TasksWellFormed
<1>2. process # "running" /\ process' = "running" /\ UNCHANGED <<tx, rejected>>
      /\ pc' = [pc EXCEPT ![Main] = 1]
  BY DEF Start
<1>3. rejected = {}
  <2>1. \A t \in Tasks : t \notin rejected
    BY <1>1, <1>2 DEF NothingLeft
  <2> QED
    BY <2>1 DEF OnboardingInv, FlowInv, TasksWellFormed
<1>4. ASSUME NEW t \in Tasks PROVE tx[t] = "none"
  <2>1. pc[t] = 0
    BY <1>1, <1>2 DEF NothingLeft
  <2>2. pc[t] \notin DOMAIN Steps[t]
    <3>1. pc[t] \in DOMAIN Steps[t] => pc[t] >= 1
      BY StepNumbers
    <3> QED
      BY <2>1, <3>1
  <2> QED
    BY <1>1, <2>2
<1>5. pc'[Main] = 1
  BY <1>1, <1>2
<1>6. clean' => ledger' = {} /\ orphans' = {}
  <2>1. CASE reset
    BY <2>1 DEF Start
  <2>2. CASE ~reset
    BY <2>2 DEF Start, chainVars
  <2> QED
    BY <2>1, <2>2
<1>7. ~(pc'[Main] > 5) /\ pc'[Main] >= 1
  BY <1>5
<1>8. \A t \in Tasks : tx'[t] # "reverted"
  BY <1>2, <1>4
<1>9. Unfaulted' => ledger' = {} /\ orphans' = {}
  BY <1>6 DEF Unfaulted
<1>10. process' # "exit 1"
  BY <1>2
<1> QED
  BY <1>2, <1>3, <1>7, <1>8, <1>9, <1>10 DEF CleanInv, CleanRunFailsOnlyByFault

\* Every step keeps a clean run clean.
LEMMA CleanStep ==
    ASSUME OnboardingInv, CleanInv, [ScriptNext]_scriptVars
    PROVE  CleanInv'
<1>1. CASE UNCHANGED scriptVars
  BY <1>1 DEF scriptVars, taskVars, chainVars, runVars, faultVars, CleanInv, Unfaulted, DoneBy,
              CleanRunFailsOnlyByFault
<1>2. CASE Crash
  <2>1. process' = "crashed"
    BY <1>2 DEF Crash, Ended
  <2> QED
    BY <2>1 DEF CleanInv, Unfaulted, CleanRunFailsOnlyByFault
<1> QED
  BY <1>1, <1>2, TaskStepKeepsClean, MainStepKeepsClean, MiningKeepsClean, StartKeepsClean
     DEF ScriptNext

\* A process that starts on a chain with at most a deployment fails only when a
\* call to the node did: every transaction comes after what the contracts
\* require for it, in whatever order the tasks take their steps.
THEOREM CleanRunsSucceed == ScriptSpec => []CleanRunFailsOnlyByFault
<1>1. ScriptInit => CleanInv
  BY DEF ScriptInit, CleanInv, Unfaulted, CleanRunFailsOnlyByFault
<1>2. OnboardingInv /\ CleanInv /\ [ScriptNext]_scriptVars => CleanInv'
  BY CleanStep
<1>3. CleanInv => CleanRunFailsOnlyByFault
  BY DEF CleanInv
<1> QED
  BY <1>1, <1>2, <1>3, OnboardingInit, OnboardingStep, PTL DEF ScriptSpec
\* No two tasks await transactions of one wallet, and in a clean process whose
\* calls succeed none of that wallet is under way unawaited either.
THEOREM WalletsSendOneAtATime == ScriptSpec => []SendsNeverClash
<1>1. ScriptInit => CleanInv
  BY DEF ScriptInit, CleanInv, Unfaulted, CleanRunFailsOnlyByFault
<1>2. OnboardingInv /\ CleanInv /\ [ScriptNext]_scriptVars => CleanInv'
  BY CleanStep
<1>3. ASSUME FlowInv, CleanInv, NEW t \in Tasks, tx[t] = "sent"
      PROVE  /\ \A u \in Tasks \ {t} : tx[u] = "sent" => Sender(Step(u)) # Sender(Step(t))
             /\ clean /\ ~faulted => orphans = {}
  <2>1. pc[t] \in DOMAIN Steps[t]
    BY <1>3 DEF FlowInv, TasksWellFormed
  <2>2. pc[t] # 0
    BY <2>1, TaskStepsFacts
  <2>3. process = "running"
    BY <1>3, <2>2 DEF FlowInv, NothingLeft
  <2> QED
    BY <1>3, <2>3, NoClash DEF CleanInv, Unfaulted
<1>4. OnboardingInv /\ CleanInv => SendsNeverClash
  BY <1>3 DEF OnboardingInv, SendsNeverClash
<1> QED
  BY <1>1, <1>2, <1>4, OnboardingInit, OnboardingStep, PTL DEF ScriptSpec

=============================================================================
