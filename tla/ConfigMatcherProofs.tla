------------------------- MODULE ConfigMatcherProofs -------------------------
(***************************************************************************)
(* Proofs about ConfigMatcher: for all values, versions of every length    *)
(* among them, and any templates and configurations.                       *)
(***************************************************************************)
EXTENDS ConfigMatcher, FiniteSetTheorems, WellFoundedInduction, TLAPS

-----------------------------------------------------------------------------
(* The order of strings and of versions.                                   *)

LEMMA Least ==
  ASSUME NEW S \in SUBSET Nat, S # {}
  PROVE  Min(S) \in S /\ \A y \in S : Min(S) <= y
<1>1. PICK x \in S : \A y \in S : ~(<<y, x>> \in OpToRel(<, Nat))
  BY NatLessThanWellFounded, WFMin, Zenon
<1>2. \A y \in S : x <= y
  <2> TAKE y \in S
  <2>1. x \in Nat /\ y \in Nat
    BY Zenon
  <2>2. y < x => <<y, x>> \in OpToRel(<, Nat)
    BY <2>1 DEF OpToRel
  <2>3. ~ (y < x)
    BY <1>1, <2>2, Zenon
  <2> QED BY <2>1, <2>3
<1> QED BY <1>2, Zenon DEF Min

\* Two strings where one ends, or where they first differ, are in one order.
LEMMA StrOrder ==
  ASSUME NEW s \in Text, NEW t \in Text
  PROVE  /\ s # t => StrLess(s, t) \/ StrLess(t, s)
         /\ ~ (StrLess(s, t) /\ StrLess(t, s))
         /\ ~ StrLess(s, s)
<1> DEFINE m == Len(s)
           n == Len(t)
<1>0. /\ m \in Nat /\ n \in Nat /\ \A i \in 1..m : s[i] \in Nat
      /\ \A i \in 1..n : t[i] \in Nat
      /\ (m = n /\ \A i \in 1..m : s[i] = t[i]) => s = t
  BY SMTT(20) DEF Text
<1>1. /\ StrLess(s, t) <=> \E k \in 1..n : /\ \A i \in 1..(k - 1) : i <= m /\ s[i] = t[i]
                                           /\ k > m \/ s[k] < t[k]
      /\ StrLess(t, s) <=> \E k \in 1..m : /\ \A i \in 1..(k - 1) : i <= n /\ t[i] = s[i]
                                           /\ k > n \/ t[k] < s[k]
      /\ StrLess(s, s) <=> \E k \in 1..m : /\ \A i \in 1..(k - 1) : i <= m /\ s[i] = s[i]
                                           /\ k > m \/ s[k] < s[k]
  BY Zenon DEF StrLess
<1> HIDE DEF m, n
<1>2. ASSUME s # t PROVE StrLess(s, t) \/ StrLess(t, s)
  <2> DEFINE D == {i \in Nat \ {0} : (i > m /\ i <= n) \/ (i > n /\ i <= m) \/ (i <= m /\ i <= n /\ s[i] # t[i])}
             k == Min(D)
  <2>1. D # {}
    <3>1. CASE m = n
      <4>1. PICK i \in 1..m : s[i] # t[i]
        BY <1>0, <1>2, <3>1
      <4> QED BY <1>0, <3>1, <4>1
    <3>2. CASE m # n
      <4>1. m + 1 \in D \/ n + 1 \in D
        BY <1>0, <3>2
      <4> QED BY <4>1, Zenon
    <3> QED BY <3>1, <3>2
  <2>2. k \in D /\ \A y \in D : k <= y
    BY <2>1, Least
  <2> HIDE DEF k
  <2>3. \A i \in 1..(k - 1) : i \in Nat \ {0} /\ i \notin D
    BY <2>2
  <2>4. k \in Nat \ {0} /\ \A i \in 1..(k - 1) : i <= m /\ i <= n /\ s[i] = t[i]
    BY <1>0, <2>2, <2>3
  <2>5. CASE k > m
    BY <1>0, <1>1, <2>2, <2>4, <2>5
  <2>6. CASE k > n
    BY SMTT(20), <1>0, <1>1, <2>2, <2>4, <2>6
  <2>7. CASE k <= m /\ k <= n /\ s[k] # t[k]
    <3>1. s[k] < t[k] \/ t[k] < s[k]
      BY <1>0, <2>4, <2>7
    <3> QED BY SMTT(20), <1>0, <1>1, <2>4, <2>7, <3>1
  <2> QED BY <1>0, <2>2, <2>5, <2>6, <2>7
<1>3. ASSUME StrLess(s, t), StrLess(t, s) PROVE FALSE
  <2>1. PICK k \in 1..n : /\ \A i \in 1..(k - 1) : i <= m /\ s[i] = t[i]
                          /\ k > m \/ s[k] < t[k]
    BY <1>1, <1>3, Zenon
  <2>2. PICK l \in 1..m : /\ \A i \in 1..(l - 1) : i <= n /\ t[i] = s[i]
                          /\ l > n \/ t[l] < s[l]
    BY <1>1, <1>3, Zenon
  <2>3. CASE k < l
    <3>1. k \in 1..(l - 1) /\ k <= m
      BY <1>0, <2>1, <2>2, <2>3
    <3> QED BY <1>0, <2>1, <2>2, <3>1
  <2>4. CASE l < k
    <3>1. l \in 1..(k - 1) /\ l <= n
      BY <1>0, <2>1, <2>2, <2>4
    <3> QED BY <1>0, <2>1, <2>2, <3>1
  <2>5. CASE k = l
    BY <1>0, <2>1, <2>2, <2>5
  <2> QED BY <1>0, <2>3, <2>4, <2>5
<1>4. ~ StrLess(s, s)
  BY <1>0, <1>1
<1> QED BY <1>2, <1>3, <1>4, Zenon

Agree(a, b, k) == \A i \in 1..k : a[i] = b[i]

\* A comparison ends after the last unit, or at the first one in which the two
\* versions differ.
ExitAs(a, b, e) ==
  \/ e = "longer" /\ Len(a) > Len(b) /\ Agree(a, b, Len(b))
  \/ e = "same" /\ a = b
  \/ e = "shorter" /\ Len(a) < Len(b) /\ Agree(a, b, Len(a))
  \/ \E i \in 1..Len(b) :
       /\ i <= Len(a) /\ Agree(a, b, i - 1) /\ a[i] # b[i]
       /\ \/ e = "mismatch" /\ (a[i].type # b[i].type \/ b[i].type = "sep")
          \/ /\ a[i].type = "unit" /\ b[i].type = "unit"
             /\ e = IF StrLess(a[i].val, b[i].val) THEN "less" ELSE "greater"

LEMMA ExitCases ==
  ASSUME NEW ref, NEW val, NEW a \in Seq(Unit), NEW b \in Seq(Unit), val.list = a, ref.list = b
  PROVE  ExitAs(a, b, SerialExit(ref, val))
<1> DEFINE m == Len(a)
           n == Len(b)
           stops == {i \in 1..n : i > m \/ a[i] # b[i]}
           k == Min(stops)
           e == SerialExit(ref, val)
<1>0. /\ m \in Nat /\ n \in Nat
      /\ \A i \in 1..m : a[i] \in Unit
      /\ \A i \in 1..n : b[i] \in Unit
      /\ (m = n /\ \A i \in 1..n : a[i] = b[i]) => a = b
  OBVIOUS
<1>1. e = CASE stops = {} /\ m > n -> "longer"
            [] stops = {} /\ m = n -> "same"
            [] stops # {} /\ k > m -> "shorter"
            [] stops # {} /\ k <= m ->
                 IF a[k].type # b[k].type \/ b[k].type = "sep"
                 THEN "mismatch"
                 ELSE IF StrLess(a[k].val, b[k].val) THEN "less" ELSE "greater"
  BY Zenon DEF SerialExit
<1> HIDE DEF m, n, e
<1>2. CASE stops = {}
  <2>1. m >= n /\ \A i \in 1..n : a[i] = b[i]
    <3>1. \A i \in 1..n : i <= m /\ a[i] = b[i]
      <4> TAKE i \in 1..n
      <4>1. ~ (i > m \/ a[i] # b[i])
        BY <1>2, Zenon
      <4> QED BY <1>0, <4>1
    <3> QED BY <1>0, <3>1
  <2>2. CASE m > n
    <3>1. e = "longer"
      BY <1>0, <1>1, <1>2, <2>2
    <3> QED BY <2>1, <2>2, <3>1, Zenon DEF ExitAs, Agree, m, n, e
  <2>3. CASE m = n
    <3>1. e = "same"
      BY <1>0, <1>1, <1>2, <2>3
    <3> QED BY <1>0, <2>1, <2>3, <3>1, Zenon DEF ExitAs, e
  <2> QED BY <1>0, <2>1, <2>2, <2>3
<1>3. CASE stops # {}
  <2>1. stops \in SUBSET Nat
    BY <1>0
  <2>2. k \in stops /\ \A y \in stops : k <= y
    BY <1>3, <2>1, Least, Zenon
  <2>3. \A i \in 1..(k - 1) : i \notin stops
    BY <1>0, <2>2
  <2>4. k \in 1..n /\ (k > m \/ a[k] # b[k]) /\ \A i \in 1..(k - 1) : i <= m /\ a[i] = b[i]
    <3>1. k \in 1..n /\ (k > m \/ a[k] # b[k])
      BY <2>2, Zenon
    <3> HIDE DEF k
    <3>2. ASSUME NEW i \in 1..(k - 1) PROVE i <= m /\ a[i] = b[i]
      BY <1>0, <2>3, <3>1
    <3> QED BY <3>1, <3>2, Zenon
  <2>5. CASE k > m
    <3>1. e = "shorter"
      BY SMTT(20), <1>0, <1>1, <1>3, <2>4, <2>5
    <3>2. m < n /\ \A i \in 1..m : a[i] = b[i]
      BY <1>0, <2>4, <2>5
    <3> QED BY <3>1, <3>2, Zenon DEF ExitAs, Agree, m, n, e
  <2>6. CASE k <= m
    <3>1. e = IF a[k].type # b[k].type \/ b[k].type = "sep"
              THEN "mismatch"
              ELSE IF StrLess(a[k].val, b[k].val) THEN "less" ELSE "greater"
      BY <1>0, <1>1, <1>3, <2>4, <2>6
    <3>2. a[k].type \in {"unit", "sep"} /\ b[k].type \in {"unit", "sep"} /\ a[k] # b[k]
      BY <1>0, <2>4, <2>6 DEF Unit
    <3>3. Agree(a, b, k - 1)
      BY <2>4, Zenon DEF Agree
    <3> HIDE DEF k
    <3> QED BY <2>4, <2>6, <3>1, <3>2, <3>3, Zenon DEF ExitAs, m, n, e
  <2> QED BY <1>0, <2>4, <2>5, <2>6
<1> QED BY <1>2, <1>3, Zenon

\* Numbers of as many digits are in the order of their texts.
LEMMA DigitsOrder ==
  ASSUME NEW s \in Text, NEW t \in Text
  PROVE  /\ Len(s) = Len(t) => (NumLess(s, t) <=> StrLess(s, t))
         /\ ~ NumLess(s, s)
<1>1. Len(s) \in Nat /\ Len(t) \in Nat
  BY DEF Text
<1>2. ~ (Len(s) < Len(s)) /\ (Len(s) = Len(t) => ~ (Len(s) < Len(t)))
  BY <1>1
<1>3. ~ StrLess(s, s)
  BY StrOrder, Zenon
<1> QED BY <1>2, <1>3, Zenon DEF NumLess

LEMMA SerialBeforeAs ==
  ASSUME NEW a \in Seq(Unit), NEW b \in Seq(Unit)
  PROVE  SerialBefore(a, b) <=>
           \E k \in 0..Len(a) :
             /\ k <= Len(b) /\ Agree(a, b, k) /\ k < Len(b)
             /\ k # Len(a) => /\ a[k + 1].type = "unit" /\ b[k + 1].type = "unit"
                              /\ NumLess(a[k + 1].val, b[k + 1].val)
<1>1. ASSUME NEW k \in 0..Len(a), k <= Len(b)
      PROVE  SubSeq(a, 1, k) = SubSeq(b, 1, k) <=> Agree(a, b, k)
  <2> DEFINE u == SubSeq(a, 1, k)
             v == SubSeq(b, 1, k)
  <2>1. /\ u \in Seq(Unit) /\ v \in Seq(Unit) /\ Len(u) = k /\ Len(v) = k
        /\ \A i \in 1..k : u[i] = a[i] /\ v[i] = b[i]
    BY <1>1
  <2> HIDE DEF u, v
  <2>2. u = v <=> \A i \in 1..k : u[i] = v[i]
    BY <2>1
  <2> QED BY <2>1, <2>2, Zenon DEF Agree, u, v
<1> QED BY <1>1, Zenon DEF SerialBefore

\* SerialBefore looks at the first place where the two differ.
LEMMA BeforeCases ==
  ASSUME NEW a \in Seq(Unit), NEW b \in Seq(Unit)
  PROVE  /\ ~ SerialBefore(a, a)
         /\ Len(a) > Len(b) /\ Agree(a, b, Len(b)) => ~ SerialBefore(a, b)
         /\ Len(a) < Len(b) /\ Agree(a, b, Len(a)) => SerialBefore(a, b)
         /\ \A i \in 1..Len(b) : i <= Len(a) /\ Agree(a, b, i - 1) /\ a[i] # b[i] =>
              (SerialBefore(a, b) <=> /\ a[i].type = "unit" /\ b[i].type = "unit"
                                      /\ NumLess(a[i].val, b[i].val))
<1> DEFINE m == Len(a)
           n == Len(b)
           Here(c, d, l, k) == k # l => /\ c[k + 1].type = "unit" /\ d[k + 1].type = "unit"
                                        /\ NumLess(c[k + 1].val, d[k + 1].val)
<1>0. /\ m \in Nat /\ n \in Nat
      /\ \A i \in 1..m : a[i] \in Unit
      /\ \A i \in 1..n : b[i] \in Unit
  OBVIOUS
<1>1. \A x \in Unit : ~ NumLess(x.val, x.val)
  <2> TAKE x \in Unit
  <2>1. x.val \in Text
    BY DEF Unit
  <2> QED BY <2>1, DigitsOrder, Zenon
<1>2. SerialBefore(a, b) <=> \E k \in 0..m : k <= n /\ Agree(a, b, k) /\ k < n /\ Here(a, b, m, k)
  BY SerialBeforeAs, Zenon
<1>3. SerialBefore(a, a) <=> \E k \in 0..m : k <= m /\ Agree(a, a, k) /\ k < m /\ Here(a, a, m, k)
  BY SerialBeforeAs, Zenon
<1> HIDE DEF m, n, Here
<1>4. ASSUME NEW k \in 0..m, k < m, Here(a, a, m, k) PROVE FALSE
  <2>1. k # m /\ k + 1 \in 1..m
    BY <1>0, <1>4
  <2> QED BY <1>0, <1>1, <1>4, <2>1, Zenon DEF Here
<1>5. ASSUME NEW k \in 0..m, k < n, NEW l \in 0..n, l <= m, k < l, Agree(a, b, l), Here(a, b, m, k) PROVE FALSE
  <2>1. k # m /\ k + 1 \in 1..m /\ k + 1 \in 1..l
    BY <1>0, <1>5
  <2>2. a[k + 1] = b[k + 1] /\ a[k + 1] \in Unit
    BY <1>0, <1>5, <2>1, Zenon DEF Agree
  <2> QED BY <1>1, <1>5, <2>1, <2>2, Zenon DEF Here
<1>6. ASSUME m > n, Agree(a, b, n) PROVE ~ SerialBefore(a, b)
  <2> SUFFICES ASSUME NEW k \in 0..m, k < n, Here(a, b, m, k) PROVE FALSE
    BY <1>2, Zenon
  <2>1. n \in 0..n /\ n <= m
    BY <1>0, <1>6
  <2> QED BY <1>5, <1>6, <2>1, Zenon
<1>7. ASSUME m < n, Agree(a, b, m) PROVE SerialBefore(a, b)
  <2>1. m \in 0..m /\ m <= n
    BY <1>0, <1>7
  <2>2. Here(a, b, m, m)
    BY Zenon DEF Here
  <2> QED BY <1>2, <1>7, <2>1, <2>2, Zenon
<1>8. ASSUME NEW i \in 1..n, i <= m, Agree(a, b, i - 1), a[i] # b[i]
      PROVE  SerialBefore(a, b) <=> /\ a[i].type = "unit" /\ b[i].type = "unit"
                                    /\ NumLess(a[i].val, b[i].val)
  <2>1. /\ i - 1 \in 0..m /\ i - 1 \in 0..n /\ i - 1 <= n /\ i - 1 <= m /\ i - 1 < n
        /\ i - 1 # m /\ (i - 1) + 1 = i
    BY <1>0, <1>8
  <2>2. Here(a, b, m, i - 1) <=> /\ a[i].type = "unit" /\ b[i].type = "unit"
                                 /\ NumLess(a[i].val, b[i].val)
    BY <2>1, Zenon DEF Here
  <2>3. ASSUME NEW k \in 0..m, k <= n, Agree(a, b, k), k < n, Here(a, b, m, k)
        PROVE  k = i - 1
    <3>1. ~ (k < i - 1)
      BY <1>5, <1>8, <2>1, <2>3, Zenon
    <3>2. ~ (i \in 1..k)
      BY <1>8, <2>3, Zenon DEF Agree
    <3> QED BY <1>0, <1>8, <2>1, <3>1, <3>2
  <2>4. SerialBefore(a, b) => Here(a, b, m, i - 1)
    BY <1>2, <2>3, Zenon
  <2>5. Here(a, b, m, i - 1) => SerialBefore(a, b)
    BY <1>2, <1>8, <2>1, Zenon
  <2> QED BY <2>2, <2>4, <2>5, Zenon
<1> QED BY <1>3, <1>4, <1>6, <1>7, <1>8, Zenon DEF m, n

LEMMA ValueFacts ==
  ASSUME NEW v \in Value
  PROVE  /\ v.val \in Text /\ v.list \in Seq(Unit) /\ WellFormed(v)
         /\ v.rtype \in {"serial", "number", "symbol"}
         /\ v = [rtype |-> v.rtype, val |-> v.val, list |-> v.list]
  BY DEF Value

\* The five loops over two versions agree with one order, that of the numbers
\* where these have as many digits.
LEMMA SerialOrder ==
  ASSUME NEW ref \in Value, NEW val \in Value, SameDigits(ref, val)
  PROVE  /\ SerialExit(ref, val) \in {"shorter", "less"} <=> SerialBefore(val.list, ref.list)
         /\ SerialExit(ref, val) \in {"greater", "longer"} <=> SerialBefore(ref.list, val.list)
         /\ SerialExit(ref, val) = "same" <=> val.list = ref.list
<1> DEFINE a == val.list
           b == ref.list
           e == SerialExit(ref, val)
<1>0. a \in Seq(Unit) /\ b \in Seq(Unit) /\ Len(a) \in Nat /\ Len(b) \in Nat
  BY ValueFacts
<1>1. \A k : Agree(a, b, k) <=> Agree(b, a, k)
  BY Zenon DEF Agree
<1>2. /\ ~ SerialBefore(a, a)
      /\ Len(a) > Len(b) /\ Agree(a, b, Len(b)) => ~ SerialBefore(a, b)
      /\ Len(a) < Len(b) /\ Agree(a, b, Len(a)) => SerialBefore(a, b)
      /\ Len(b) > Len(a) /\ Agree(b, a, Len(a)) => ~ SerialBefore(b, a)
      /\ Len(b) < Len(a) /\ Agree(b, a, Len(b)) => SerialBefore(b, a)
  BY <1>0, BeforeCases, Zenon
<1>3. CASE e = "longer" /\ Len(a) > Len(b) /\ Agree(a, b, Len(b))
  <2>1. Len(b) < Len(a) /\ a # b
    BY <1>0, <1>3
  <2> QED BY <1>1, <1>2, <1>3, <2>1, Zenon
<1>4. CASE e = "same" /\ a = b
  BY <1>2, <1>4, Zenon
<1>5. CASE e = "shorter" /\ Len(a) < Len(b) /\ Agree(a, b, Len(a))
  <2>1. Len(b) > Len(a) /\ a # b
    BY <1>0, <1>5
  <2> QED BY <1>1, <1>2, <1>5, <2>1, Zenon
<1>6. ASSUME NEW i \in 1..Len(b),
             i <= Len(a), Agree(a, b, i - 1), a[i] # b[i],
             \/ e = "mismatch" /\ (a[i].type # b[i].type \/ b[i].type = "sep")
             \/ /\ a[i].type = "unit" /\ b[i].type = "unit"
                /\ e = IF StrLess(a[i].val, b[i].val) THEN "less" ELSE "greater"
      PROVE  /\ e \in {"shorter", "less"} <=> SerialBefore(a, b)
             /\ e \in {"greater", "longer"} <=> SerialBefore(b, a)
             /\ e = "same" <=> a = b
  <2> DEFINE x == a[i]
             y == b[i]
  <2>1. i \in 1..Len(a) /\ i <= Len(b) /\ x \in Unit /\ y \in Unit /\ a # b
    BY <1>0, <1>6
  <2>2. SerialBefore(a, b) <=> x.type = "unit" /\ y.type = "unit" /\ NumLess(x.val, y.val)
    BY <1>0, <1>6, BeforeCases, Zenon
  <2>3. SerialBefore(b, a) <=> y.type = "unit" /\ x.type = "unit" /\ NumLess(y.val, x.val)
    BY <1>0, <1>1, <1>6, <2>1, BeforeCases, Zenon
  <2>9. Len(x.val) = Len(y.val)
    BY <1>6, Zenon DEF SameDigits
  <2> HIDE DEF a, b, e
  <2>4. x.val \in Text /\ y.val \in Text /\ (x.type = y.type => x.val # y.val)
    BY <1>6, <2>1 DEF Unit
  <2>5. x.type = y.type => (StrLess(x.val, y.val) <=> ~ StrLess(y.val, x.val))
    BY <2>4, StrOrder, Zenon
  <2>10. /\ NumLess(x.val, y.val) <=> StrLess(x.val, y.val)
         /\ NumLess(y.val, x.val) <=> StrLess(y.val, x.val)
    BY <2>4, <2>9, DigitsOrder, Zenon
  <2>6. x.type \in {"unit", "sep"} /\ y.type \in {"unit", "sep"}
    BY <2>1 DEF Unit
  <2> HIDE DEF x, y
  <2>7. CASE e = "mismatch" /\ (x.type # y.type \/ y.type = "sep")
    BY <2>1, <2>2, <2>3, <2>7
  <2>8. CASE /\ x.type = "unit" /\ y.type = "unit"
             /\ e = IF StrLess(x.val, y.val) THEN "less" ELSE "greater"
    BY SMTT(20), <2>1, <2>2, <2>3, <2>5, <2>8, <2>10
  <2> QED BY <1>6, <2>7, <2>8, Zenon DEF x, y
<1> HIDE DEF e
<1>7. ExitAs(a, b, e)
  BY <1>0, ExitCases, Zenon DEF e
<1> QED BY <1>3, <1>4, <1>5, <1>6, <1>7, Zenon DEF ExitAs, e

\* A comparison of two versions ends in one of six ways, and in a mismatch only
\* where their separators differ.
LEMMA Mismatch ==
  ASSUME NEW ref \in Value, NEW val \in Value, ref.rtype = "serial"
  PROVE  /\ SerialExit(ref, val) \in {"longer", "same", "shorter", "mismatch", "less", "greater"}
         /\ SerialExit(ref, val) = "mismatch" =>
              \E i \in 1..Len(ref.list) :
                /\ i <= Len(val.list) /\ ref.list[i].type = "sep"
                /\ ref.list[i] # val.list[i]
<1> DEFINE a == val.list
           b == ref.list
           e == SerialExit(ref, val)
<1>0. a \in Seq(Unit) /\ b \in Seq(Unit) /\ Len(a) \in Nat /\ Len(b) \in Nat
  BY ValueFacts
<1>1. \A i \in 1..Len(b) : b[i].type = IF i % 2 = 1 THEN "unit" ELSE "sep"
  BY ValueFacts, Zenon DEF WellFormed
<1>2. \A i \in 1..Len(a) : a[i].type = IF i % 2 = 1 THEN "unit" ELSE "sep"
  <2>1. CASE val.rtype = "serial"
    BY <2>1, ValueFacts, Zenon DEF WellFormed
  <2>2. CASE val.rtype # "serial"
    <3>1. a = <<>>
      BY <2>2, ValueFacts, Zenon DEF WellFormed
    <3> QED BY <3>1
  <2> QED BY <2>1, <2>2, Zenon
<1> HIDE DEF e
<1>3. ExitAs(a, b, e)
  BY <1>0, ExitCases, Zenon DEF e
<1>4. ASSUME NEW i \in 1..Len(b), i <= Len(a), a[i] # b[i],
             a[i].type # b[i].type \/ b[i].type = "sep"
      PROVE  b[i].type = "sep"
  <2>1. i \in 1..Len(a)
    BY <1>0, <1>4
  <2> QED BY <1>1, <1>2, <1>4, <2>1, Zenon
<1>5. e \in {"longer", "same", "shorter", "mismatch", "less", "greater"}
  BY <1>3, Zenon DEF ExitAs
<1>6. e = "mismatch" => e \notin {"longer", "same", "shorter", "less", "greater"}
  OBVIOUS
<1>7. e = "mismatch" => \E i \in 1..Len(b) : i <= Len(a) /\ b[i].type = "sep" /\ b[i] # a[i]
  BY <1>3, <1>4, <1>6, Zenon DEF ExitAs
<1> QED BY <1>5, <1>7, Zenon DEF e

-----------------------------------------------------------------------------
(* A constraint and a template.                                            *)

\* Values with the same text and units are the same to CompareEqual.
LEMMA EqualAs ==
  ASSUME NEW ref \in Value, NEW val \in Value
  PROVE  CompareEqual(ref, val) <=> val.val = ref.val /\ val.list = ref.list
<1>0. /\ ref.rtype \in {"serial", "number", "symbol"} /\ val.rtype \in {"serial", "number", "symbol"}
      /\ WellFormed(ref) /\ WellFormed(val)
      /\ ref = [rtype |-> ref.rtype, val |-> ref.val, list |-> ref.list]
      /\ val = [rtype |-> val.rtype, val |-> val.val, list |-> val.list]
  BY ValueFacts, Zenon
<1>1. /\ val.rtype = "serial" => val.val = <<>> /\ val.list # <<>>
      /\ val.rtype # "serial" => val.val # <<>> /\ val.list = <<>>
      /\ ref.rtype = "serial" => ref.val = <<>> /\ ref.list # <<>>
      /\ ref.rtype # "serial" => ref.val # <<>> /\ ref.list = <<>>
  BY <1>0, Zenon DEF WellFormed
<1>2. CASE ref.rtype = "serial"
  BY <1>0, <1>1, <1>2, Zenon DEF CompareEqual
<1>3. CASE ref.rtype # "serial"
  BY <1>0, <1>1, <1>3, Zenon DEF CompareEqual
<1> QED BY <1>2, <1>3, Zenon

\* The comparison of an operator that the type has is the order's.
LEMMA CompareAs ==
  ASSUME NEW c \in Constraint, NEW val \in Value, c.op = "=" \/ SameDigits(c.val, val)
  PROVE  /\ Comparable(c.op, c.val) => (CompareValues(c.op, c.val, val) <=> Satisfied(c, val))
         /\ ~ Comparable(c.op, c.val) => ~ Satisfied(c, val)
<1> DEFINE ref == c.val
           eq == val.val = ref.val /\ val.list = ref.list
           lt == Before(val, ref, ref.rtype)
           gt == Before(ref, val, ref.rtype)
<1>0. ref \in Value /\ c.op \in Ops
  BY DEF Constraint
<1>1. CompareEqual(ref, val) <=> eq
  BY <1>0, EqualAs, Zenon
<1>2. ASSUME SameDigits(ref, val)
      PROVE  /\ CompareLesser(ref, val) <=> lt
             /\ CompareGreater(ref, val) <=> gt
             /\ CompareLesserEqual(ref, val) <=> lt \/ eq
             /\ CompareGreaterEqual(ref, val) <=> gt \/ eq
  <2>1. CASE ref.rtype = "serial"
    <3>0. val.list = ref.list => val.val = ref.val
      <4>1. val.list = ref.list => val.rtype = "serial"
        BY <1>0, <2>1, ValueFacts, Zenon DEF WellFormed
      <4> QED BY <1>0, <2>1, <4>1, ValueFacts, Zenon DEF WellFormed
    <3>1. /\ SerialExit(ref, val) \in {"shorter", "less"} <=> lt
          /\ SerialExit(ref, val) \in {"greater", "longer"} <=> gt
          /\ SerialExit(ref, val) = "same" <=> eq
      BY <1>0, <1>2, <2>1, <3>0, SerialOrder, Zenon DEF Before
    <3> HIDE DEF eq, lt, gt
    <3> QED BY <2>1, <3>1, Zenon
      DEF NumberLesser, NumberGreater, CompareLesser, CompareGreater, CompareLesserEqual, CompareGreaterEqual
  <2>2. CASE ref.rtype # "serial"
    <3>1. val.val \in Text /\ ref.val \in Text /\ Len(val.val) = Len(ref.val)
      BY <1>0, <1>2, ValueFacts, Zenon DEF SameDigits
    <3>2. (lt <=> StrLess(val.val, ref.val)) /\ (gt <=> StrLess(ref.val, val.val))
      BY <2>2, <3>1, DigitsOrder, Zenon DEF Before
    <3> HIDE DEF eq, lt, gt
    <3> QED BY <1>1, <2>2, <3>2, Zenon
      DEF NumberLesser, NumberGreater, CompareLesser, CompareGreater, CompareLesserEqual, CompareGreaterEqual
  <2> QED BY <2>1, <2>2, Zenon
<1>3. Satisfied(c, val) <=>
        \/ c.op \in {"<", "<="} /\ ref.rtype # "symbol" /\ lt
        \/ c.op \in {">", ">="} /\ ref.rtype # "symbol" /\ gt
        \/ c.op = "=" /\ eq
        \/ c.op \in {"<=", ">="} /\ ref.rtype # "symbol" /\ eq
  BY Zenon DEF Satisfied
<1>4. c.op # "=" => (CompareValues(c.op, ref, val) <=>
                       \/ c.op = "<" /\ lt
                       \/ c.op = "<=" /\ (lt \/ eq)
                       \/ c.op = ">=" /\ (gt \/ eq)
                       \/ c.op = ">" /\ gt)
  BY <1>2, Zenon DEF CompareValues
<1>5. c.op = "=" => (CompareValues(c.op, ref, val) <=> eq)
  BY <1>1 DEF CompareValues
<1>6. Comparable(c.op, ref) <=> c.op = "=" \/ ref.rtype # "symbol"
  BY Zenon DEF Comparable
<1> HIDE DEF eq, lt, gt
<1>7. Comparable(c.op, ref) => (CompareValues(c.op, ref, val) <=> Satisfied(c, val))
  BY <1>0, <1>3, <1>4, <1>5, <1>6 DEF Ops
<1>8. ~ Comparable(c.op, ref) => ~ Satisfied(c, val)
  BY <1>0, <1>3, <1>6 DEF Ops
<1> QED BY <1>7, <1>8, Zenon

ConfigType ==
  \A i \in DOMAIN config : \A v \in DOMAIN config[i] : config[i][v] \in Value

\* What one constraint says of the configuration.
LEMMA VerdictAs ==
  ASSUME NEW c \in Constraint
  PROVE  /\ c.itf \notin DOMAIN config => Verdict(c, config) = "yes"
         /\ c.itf \in DOMAIN config /\ ~ Defined(c) => Verdict(c, config) = "no"
         /\ Defined(c) =>
              Verdict(c, config) = IF ~ Comparable(c.op, c.val) THEN "error"
                                   ELSE IF CompareValues(c.op, c.val, config[c.itf][c.var])
                                        THEN "yes" ELSE "no"
<1>1. CASE c.itf \notin DOMAIN config
  BY <1>1 DEF Verdict, Defined
<1>2. CASE c.itf \in DOMAIN config /\ c.var \notin DOMAIN config[c.itf]
  BY <1>2 DEF Verdict, Defined
<1>3. CASE c.itf \in DOMAIN config /\ c.var \in DOMAIN config[c.itf]
  BY <1>3 DEF Verdict, Defined
<1> QED BY <1>1, <1>2, <1>3, Zenon

\* Where numbers have as many digits, the verdict is that of the order of numbers.
LEMMA VerdictInDomain ==
  ASSUME ConfigType, NEW c \in Constraint,
         Defined(c) => c.op = "=" \/ SameDigits(c.val, config[c.itf][c.var])
  PROVE  Verdict(c, config) = "yes" <=>
           (c.itf \in DOMAIN config => Defined(c) /\ Satisfied(c, config[c.itf][c.var]))
<1>1. CASE ~ Defined(c)
  <2>1. "no" # "yes"
    OBVIOUS
  <2> QED BY <1>1, <2>1, VerdictAs, Zenon
<1>2. CASE Defined(c)
  <2> DEFINE val == config[c.itf][c.var]
  <2>1. val \in Value /\ c.itf \in DOMAIN config
    BY <1>2, Zenon DEF ConfigType, Defined
  <2>2. Verdict(c, config) = IF ~ Comparable(c.op, c.val) THEN "error"
                             ELSE IF CompareValues(c.op, c.val, val) THEN "yes" ELSE "no"
    BY <1>2, VerdictAs, Zenon
  <2>3. /\ Comparable(c.op, c.val) => (CompareValues(c.op, c.val, val) <=> Satisfied(c, val))
        /\ ~ Comparable(c.op, c.val) => ~ Satisfied(c, val)
    BY <1>2, <2>1, CompareAs, Zenon
  <2> HIDE DEF val
  <2>4. Verdict(c, config) = "yes" <=> Satisfied(c, val)
    BY <2>2, <2>3
  <2> QED BY <1>2, <2>1, <2>4, Zenon DEF val
<1> QED BY <1>1, <1>2, Zenon

\* The loop over the constraints with its early returns.
LEMMA CompatibleAs ==
  ASSUME NEW with \in Seq(Constraint), NEW cfg
  PROVE  /\ IsWithNodeCompatible(with, cfg) = "yes" <=> \A c \in ToSet(with) : Verdict(c, cfg) = "yes"
         /\ Len(with) = 1 => IsWithNodeCompatible(with, cfg) = Verdict(with[1], cfg)
<1> DEFINE I == {i \in 1..Len(with) : Verdict(with[i], cfg) # "yes"}
           stop == Min(I)
<1>0. Len(with) \in Nat /\ DOMAIN with = 1..Len(with)
  OBVIOUS
<1>1. SelectInSeq(with, LAMBDA c : Verdict(c, cfg) # "yes") = IF I # {} THEN stop ELSE 0
  BY Zenon DEF SelectInSeq
<1>2. ToSet(with) = {with[i] : i \in 1..Len(with)}
  BY <1>0, Zenon DEF ToSet
<1>3. CASE I = {}
  <2>1. IsWithNodeCompatible(with, cfg) = "yes"
    BY <1>1, <1>3, Zenon DEF IsWithNodeCompatible
  <2>2. \A i \in 1..Len(with) : Verdict(with[i], cfg) = "yes"
    BY <1>3, Zenon
  <2>3. Len(with) = 1 => 1 \in 1..Len(with)
    OBVIOUS
  <2> QED BY <1>2, <2>1, <2>2, <2>3, Zenon
<1>4. CASE I # {}
  <2>1. stop \in I
    <3>1. I \in SUBSET Nat
      BY <1>0
    <3> QED BY <1>4, <3>1, Least, Zenon
  <2>2. stop \in 1..Len(with) /\ Verdict(with[stop], cfg) # "yes"
    BY <2>1, Zenon
  <2>3. stop # 0 /\ (Len(with) = 1 => stop = 1)
    BY <1>0, <2>2
  <2>4. IsWithNodeCompatible(with, cfg) = Verdict(with[stop], cfg)
    BY <1>1, <1>4, <2>3, Zenon DEF IsWithNodeCompatible
  <2> QED BY <1>2, <2>2, <2>3, <2>4, Zenon
<1> QED BY <1>3, <1>4, Zenon

\* A template whose with node has the constraints that are written is compatible
\* exactly if it is in the domain of the configuration.
LEMMA CompatibleInDomain ==
  ASSUME ConfigType, NEW with \in Seq(Constraint), NEW t,
         ToSet(with) = ToSet(written[t]), Aligned(t)
  PROVE  IsWithNodeCompatible(with, config) = "yes" <=> InDomain(t)
<1>1. \A c \in ToSet(with) : c \in Constraint
  BY DEF ToSet
<1>2. \A c \in ToSet(with) :
        Verdict(c, config) = "yes" <=>
          (c.itf \in DOMAIN config => Defined(c) /\ Satisfied(c, config[c.itf][c.var]))
  BY <1>1, VerdictInDomain, Zenon DEF Aligned
<1> QED BY <1>2, CompatibleAs, Zenon DEF InDomain

-----------------------------------------------------------------------------
(* The with nodes and the selection.                                       *)

LEMMA Greatest ==
  ASSUME NEW n \in Nat, NEW S \in SUBSET (1..n), S # {}
  PROVE  Max(S) \in S
<1> DEFINE T == {m \in Nat : n - m \in S}
           l == Min(T)
<1>1. PICK s \in S : TRUE
  BY Zenon
<1>2. s \in 1..n /\ n - s \in Nat /\ n - (n - s) = s
  BY <1>1
<1>3. T # {}
  BY <1>2, Zenon
<1>4. l \in T /\ \A y \in T : l <= y
  BY <1>3, Least, Zenon
<1> HIDE DEF l
<1>5. ASSUME NEW y \in S PROVE n - l >= y
  <2>1. y \in 1..n /\ n - y \in Nat /\ n - (n - y) = y
    BY <1>5
  <2>2. n - y \in T
    BY <2>1, Zenon
  <2>3. l <= n - y /\ l \in Nat
    BY <1>4, <2>2, Zenon
  <2> QED BY <2>1, <2>3
<1>6. n - l \in S
  BY <1>4, Zenon
<1> QED BY <1>5, <1>6, Zenon DEF Max

LEMMA WithConstraintType ==
  ASSUME NEW with \in Seq(Constraint), NEW c \in Constraint
  PROVE  WithConstraint(with, c) \in Seq(Constraint)
<1> DEFINE I == {i \in 1..Len(with) : with[i].itf = c.itf /\ with[i].var = c.var}
           J == {i \in 1..Len(with) : with[i].itf = c.itf}
           same == IF I # {} THEN Min(I) ELSE 0
           last == IF J # {} THEN Max(J) ELSE 0
<1>0. Len(with) \in Nat
  OBVIOUS
<1>1. WithConstraint(with, c) = IF same # 0 THEN ReplaceAt(with, same, c)
                                ELSE IF last # 0 THEN InsertAt(with, last + 1, c)
                                ELSE Append(with, c)
  BY Zenon DEF WithConstraint, SelectInSeq, SelectLastInSeq
<1>2. ReplaceAt(with, same, c) \in Seq(Constraint)
  <2> HIDE DEF same
  <2>1. with \in [1..Len(with) -> Constraint]
    OBVIOUS
  <2>2. [with EXCEPT ![same] = c] \in [1..Len(with) -> Constraint]
    BY <2>1, Zenon
  <2>3. [with EXCEPT ![same] = c] \in Seq(Constraint)
    BY <1>0, <2>2
  <2> QED BY <2>3, Zenon DEF ReplaceAt
<1>3. last # 0 => last \in 1..Len(with)
  <2>1. CASE J # {}
    <3>1. J \in SUBSET (1..Len(with))
      BY Zenon
    <3>2. Max(J) \in J
      BY <1>0, <2>1, <3>1, Greatest, Zenon
    <3> QED BY <2>1, <3>2, Zenon
  <2>2. CASE J = {}
    BY <2>2, Zenon
  <2> QED BY <2>1, <2>2, Zenon
<1> HIDE DEF same, last
<1>4. ASSUME last # 0 PROVE InsertAt(with, last + 1, c) \in Seq(Constraint)
  <2> DEFINE u == SubSeq(with, 1, (last + 1) - 1)
             v == SubSeq(with, last + 1, Len(with))
  <2>1. u \in Seq(Constraint) /\ v \in Seq(Constraint)
    BY <1>0, <1>3, <1>4
  <2> HIDE DEF u, v
  <2>2. u \o <<c>> \o v \in Seq(Constraint)
    BY <2>1
  <2> QED BY <2>2, Zenon DEF InsertAt, u, v
<1>5. Append(with, c) \in Seq(Constraint)
  OBVIOUS
<1> QED BY <1>1, <1>2, <1>4, <1>5, Zenon

\* w has one element more, c at l + 1.
Inserted(with, w, c, l) ==
  /\ l \in 0..Len(with) /\ Len(w) = Len(with) + 1
  /\ \A k \in 1..l : w[k] = with[k]
  /\ w[l + 1] = c
  /\ \A k \in l + 2..Len(w) : w[k] = with[k - 1]

LEMMA OneMore ==
  ASSUME NEW with \in Seq(Constraint), NEW w \in Seq(Constraint), NEW c, NEW l,
         Inserted(with, w, c, l)
  PROVE  ToSet(w) = ToSet(with) \union {c}
<1> USE DEF Inserted
<1> DEFINE n == Len(with)
<1>0. n \in Nat /\ Len(w) = n + 1 /\ l \in 0..n
  OBVIOUS
<1>1. ToSet(w) = {w[i] : i \in 1..Len(w)} /\ ToSet(with) = {with[i] : i \in 1..Len(with)}
  <2>1. DOMAIN w = 1..Len(w) /\ DOMAIN with = 1..Len(with)
    OBVIOUS
  <2> QED BY <2>1, Zenon DEF ToSet
<1> HIDE DEF n
<1>2. ASSUME NEW k \in 1..Len(w) PROVE w[k] = c \/ \E i \in 1..n : w[k] = with[i]
  <2>1. \/ k \in 1..l /\ k \in 1..n
        \/ k = l + 1
        \/ k \in l + 2..Len(w) /\ k - 1 \in 1..n
    BY <1>0, <1>2 DEF n
  <2> QED BY <2>1, Zenon
<1>3. ASSUME NEW i \in 1..n PROVE \E k \in 1..Len(w) : w[k] = with[i]
  <2>1. CASE i <= l
    <3>1. i \in 1..l /\ i \in 1..Len(w)
      BY <1>0, <1>3, <2>1
    <3> QED BY <3>1, Zenon
  <2>2. CASE i > l
    <3>1. i + 1 \in l + 2..Len(w) /\ i + 1 \in 1..Len(w) /\ (i + 1) - 1 = i
      BY <1>0, <1>3, <2>2 DEF n
    <3>2. w[i + 1] = with[i]
      BY <3>1, Zenon
    <3> QED BY <3>1, <3>2, Zenon
  <2> QED BY <1>0, <1>3, <2>1, <2>2
<1>4. l + 1 \in 1..Len(w)
  BY <1>0 DEF n
<1>5. ASSUME NEW x PROVE x \in ToSet(w) <=> x \in ToSet(with) \/ x = c
  <2>1. x \in ToSet(w) <=> \E k \in 1..Len(w) : x = w[k]
    BY <1>1, Zenon
  <2>2. x \in ToSet(with) <=> \E i \in 1..n : x = with[i]
    BY <1>1, Zenon DEF n
  <2> QED BY <1>2, <1>3, <1>4, <2>1, <2>2, Zenon
<1> QED BY <1>5, Zenon

LEMMA Joined ==
  ASSUME NEW u \in Seq(Constraint), NEW v \in Seq(Constraint), NEW c \in Constraint
  PROVE  LET w == u \o <<c>> \o v IN
         /\ Len(w) = Len(u) + 1 + Len(v)
         /\ \A k \in 1..Len(u) : w[k] = u[k]
         /\ w[Len(u) + 1] = c
         /\ \A k \in 1..Len(v) : w[Len(u) + 1 + k] = v[k]
<1> DEFINE x == u \o <<c>>
           w == u \o <<c>> \o v
<1>1. /\ x \in Seq(Constraint) /\ Len(x) = Len(u) + 1
      /\ \A k \in 1..Len(u) : x[k] = u[k]
      /\ x[Len(u) + 1] = c
  OBVIOUS
<1>2. w = x \o v /\ Len(u) \in Nat /\ Len(v) \in Nat
  OBVIOUS
<1> HIDE DEF x, w
<1>3. /\ Len(w) = Len(x) + Len(v)
      /\ \A k \in 1..Len(x) : w[k] = x[k]
      /\ \A k \in 1..Len(v) : w[Len(x) + k] = v[k]
  <2>1. /\ Len(x \o v) = Len(x) + Len(v)
        /\ \A k \in 1..Len(x) : (x \o v)[k] = x[k]
        /\ \A k \in 1..Len(v) : (x \o v)[Len(x) + k] = v[k]
    BY <1>1
  <2> QED BY <1>2, <2>1, Zenon
<1>4. Len(u) + 1 \in 1..Len(x) /\ \A k \in 1..Len(u) : k \in 1..Len(x)
  BY <1>1, <1>2
<1>5. w[Len(u) + 1] = c
  BY <1>1, <1>3, <1>4, Zenon
<1>6. \A k \in 1..Len(u) : w[k] = u[k]
  BY <1>1, <1>3, <1>4, Zenon
<1> QED BY <1>1, <1>3, <1>5, <1>6, Zenon DEF w

\* A constraint on a variable that has none yet is added to the others.
LEMMA WithConstraintAdds ==
  ASSUME NEW with \in Seq(Constraint), NEW c \in Constraint,
         \A d \in ToSet(with) : ~ (d.itf = c.itf /\ d.var = c.var)
  PROVE  ToSet(WithConstraint(with, c)) = ToSet(with) \union {c}
<1> DEFINE I == {i \in 1..Len(with) : with[i].itf = c.itf /\ with[i].var = c.var}
           J == {i \in 1..Len(with) : with[i].itf = c.itf}
           last == IF J # {} THEN Max(J) ELSE 0
           w == WithConstraint(with, c)
<1>0. Len(with) \in Nat /\ DOMAIN with = 1..Len(with)
  OBVIOUS
<1>1. I = {}
  <2>1. \A i \in 1..Len(with) : with[i] \in ToSet(with)
    BY <1>0, Zenon DEF ToSet
  <2> QED BY <2>1, Zenon
<1>2. w = IF last # 0 THEN InsertAt(with, last + 1, c) ELSE Append(with, c)
  BY <1>1, Zenon DEF WithConstraint, SelectInSeq, SelectLastInSeq
<1>3. last # 0 => last \in 1..Len(with)
  <2>1. CASE J # {}
    <3>1. J \in SUBSET (1..Len(with))
      BY Zenon
    <3>2. Max(J) \in J
      BY <1>0, <2>1, <3>1, Greatest, Zenon
    <3> QED BY <2>1, <3>2, Zenon
  <2>2. CASE J = {}
    BY <2>2, Zenon
  <2> QED BY <2>1, <2>2, Zenon
<1>4. w \in Seq(Constraint)
  BY WithConstraintType, Zenon
<1> HIDE DEF last, w
<1>5. CASE last # 0
  <2> DEFINE u == SubSeq(with, 1, (last + 1) - 1)
             v == SubSeq(with, last + 1, Len(with))
  <2>1. w = u \o <<c>> \o v
    BY <1>2, <1>5, Zenon DEF InsertAt
  <2>2. /\ u \in Seq(Constraint) /\ v \in Seq(Constraint) /\ last \in Nat
        /\ Len(u) = last /\ Len(v) = Len(with) - last
        /\ \A k \in 1..last : u[k] = with[k]
        /\ \A k \in 1..Len(with) - last : v[k] = with[k + last]
    BY <1>0, <1>3, <1>5, SMTT(30)
  <2> HIDE DEF u, v
  <2>3. /\ Len(w) = last + 1 + (Len(with) - last)
        /\ \A k \in 1..last : w[k] = u[k]
        /\ w[last + 1] = c
        /\ \A k \in 1..Len(with) - last : w[last + 1 + k] = v[k]
    <3>1. /\ Len(w) = Len(u) + 1 + Len(v)
          /\ \A k \in 1..Len(u) : w[k] = u[k]
          /\ w[Len(u) + 1] = c
          /\ \A k \in 1..Len(v) : w[Len(u) + 1 + k] = v[k]
      <4>1. u \in Seq(Constraint) /\ v \in Seq(Constraint)
        BY <2>2, Zenon
      <4> QED BY <2>1, <4>1, Joined, ZenonT(30)
    <3>2. Len(u) = last /\ Len(v) = Len(with) - last
      BY <2>2, Zenon
    <3> QED BY <3>1, <3>2, Zenon
  <2>4. ASSUME NEW k \in last + 2..Len(w) PROVE w[k] = with[k - 1]
    <3>1. /\ k - (last + 1) \in 1..Len(with) - last
          /\ (k - (last + 1)) + last = k - 1 /\ last + 1 + (k - (last + 1)) = k
      BY <1>0, <2>2, <2>3
    <3>2. w[k] = v[k - (last + 1)]
      BY <2>3, <3>1, Zenon
    <3>3. v[k - (last + 1)] = with[k - 1]
      BY <2>2, <3>1, Zenon
    <3> QED BY <3>2, <3>3, Zenon
  <2>5. last \in 0..Len(with) /\ Len(w) = Len(with) + 1
    BY <1>0, <1>3, <1>5, <2>2, <2>3
  <2>6. \A k \in 1..last : w[k] = with[k]
    BY <2>2, <2>3, Zenon
  <2>7. Inserted(with, w, c, last)
    BY <2>3, <2>4, <2>5, <2>6, Zenon DEF Inserted
  <2>8. ToSet(w) = ToSet(with) \union {c}
    BY <1>4, <2>7, OneMore, Zenon
  <2> QED BY <2>8, Zenon DEF w
<1>6. CASE last = 0
  <2>1. w = Append(with, c)
    BY <1>2, <1>6, Zenon
  <2>2. Inserted(with, w, c, Len(with))
    BY <1>0, <2>1 DEF Inserted
  <2>3. ToSet(w) = ToSet(with) \union {c}
    BY <1>4, <2>2, OneMore, Zenon
  <2> QED BY <2>3, Zenon DEF w
<1> QED BY <1>5, <1>6, Zenon

Compatible(t) == IsWithNodeCompatible(withs[t], config)

\* What the selection has kept is what was found compatible; an error is at the last
\* template looked at.
MatchInv ==
  /\ written \in Seq(Seq(Constraint)) /\ withs \in Seq(Seq(Constraint))
  /\ Len(withs) = Len(written) /\ ConfigType
  /\ read \in [1..Len(written) -> Nat]
  /\ tpl \in Nat \ {0} /\ tpl <= Len(withs) + 1 /\ kept \subseteq 1..(tpl - 1)
  /\ step \in {"constraints", "config", "exit"} => tpl = 1
  /\ \A t \in 1..(tpl - 1) : t \in kept <=> Compatible(t) = "yes"
  /\ \A t \in 1..(tpl - 1) : Compatible(t) = "error" => step = "error" /\ t = tpl - 1
  /\ step = "found" => tpl > Len(withs) /\ (wanted = "template" => Cardinality(kept) = 1)

LEMMA MatchInvInit == MatchInit => MatchInv
<1> SUFFICES ASSUME MatchInit PROVE MatchInv
  BY Zenon
<1>1. written \in Seq(Seq(Constraint))
  BY InputsAssumption, Zenon DEF MatchInit
<1>2. Len(written) \in Nat /\ DOMAIN written = 1..Len(written)
  BY <1>1
<1>3. withs = [t \in 1..Len(written) |-> <<>>] /\ read = [t \in 1..Len(written) |-> 0]
  BY <1>2, Zenon DEF MatchInit
<1>4. withs \in Seq(Seq(Constraint)) /\ Len(withs) = Len(written) /\ read \in [1..Len(written) -> Nat]
  BY <1>2, <1>3
<1>5. ConfigType
  BY Zenon DEF MatchInit, NoVars, ConfigType
<1>6. tpl = 1 /\ kept = {} /\ step = "constraints"
  BY Zenon DEF MatchInit
<1>7. 1..(tpl - 1) = {} /\ tpl \in Nat \ {0} /\ tpl <= Len(withs) + 1 /\ step # "found"
  BY <1>2, <1>4, <1>6
<1> QED BY <1>1, <1>4, <1>5, <1>6, <1>7, Zenon DEF MatchInv

\* What the steps before the selection keep.
LEMMA BeforeSelection ==
  ASSUME MatchInv, step \in {"constraints", "config"}, step' \in {"constraints", "config", "exit", "select"},
         written' = written, withs' \in Seq(Seq(Constraint)), Len(withs') = Len(written),
         read' \in [1..Len(written) -> Nat], ConfigType', tpl' = tpl, kept' = kept
  PROVE  MatchInv'
<1>1. Len(withs) \in Nat /\ tpl = 1 /\ 1..(tpl - 1) = {} /\ Len(withs) = Len(written) /\ kept \subseteq 1..(tpl - 1)
  BY DEF MatchInv
<1>2. tpl' \in Nat \ {0} /\ tpl' <= Len(withs') + 1 /\ 1..(tpl' - 1) = {} /\ tpl' = 1
  BY <1>1
<1>3. step' # "found"
  OBVIOUS
<1>4. written' \in Seq(Seq(Constraint))
  BY Zenon DEF MatchInv
<1> QED BY <1>1, <1>2, <1>3, <1>4, Zenon DEF MatchInv

LEMMA MatchInvNext == MatchInv /\ [MatchNext]_matchVars => MatchInv'
<1> SUFFICES ASSUME MatchInv, [MatchNext]_matchVars PROVE MatchInv'
  BY Zenon
<1>0. /\ written \in Seq(Seq(Constraint)) /\ withs \in Seq(Seq(Constraint)) /\ Len(withs) = Len(written)
      /\ ConfigType /\ read \in [1..Len(written) -> Nat] /\ Len(written) \in Nat
      /\ DOMAIN written = 1..Len(written) /\ tpl \in Nat /\ kept \subseteq 1..(tpl - 1)
  BY DEF MatchInv
<1>1. ASSUME NEW t \in DOMAIN written, AssocInterfaceConstraint(t) PROVE MatchInv'
  <2> DEFINE c == written[t][read[t] + 1]
             w == WithConstraint(withs[t], c)
  <2>1. /\ step = "constraints" /\ step' = step /\ read[t] < Len(written[t])
        /\ withs' = [withs EXCEPT ![t] = w] /\ read' = [read EXCEPT ![t] = @ + 1]
        /\ written' = written /\ config' = config /\ tpl' = tpl /\ kept' = kept
    BY <1>1, Zenon DEF AssocInterfaceConstraint, selecting
  <2>2. written[t] \in Seq(Constraint) /\ withs[t] \in Seq(Constraint) /\ read[t] \in Nat
    BY <1>0
  <2>3. c \in Constraint
    BY <2>1, <2>2
  <2>4. w \in Seq(Constraint)
    BY <2>2, <2>3, WithConstraintType, Zenon
  <2> HIDE DEF w
  <2>5. withs' \in Seq(Seq(Constraint)) /\ Len(withs') = Len(written)
    BY <1>0, <2>1, <2>4
  <2>6. read' \in [1..Len(written) -> Nat]
    BY <1>0, <2>1, <2>2
  <2>7. ConfigType'
    BY <1>0, <2>1, Zenon DEF ConfigType
  <2> QED BY <2>1, <2>5, <2>6, <2>7, BeforeSelection, Zenon
<1>2. CASE ConstraintsDone
  <2>1. /\ step = "constraints" /\ step' = "config" /\ withs' = withs /\ read' = read
        /\ written' = written /\ config' = config /\ tpl' = tpl /\ kept' = kept
    BY <1>2, Zenon DEF ConstraintsDone, sources, selecting
  <2>2. ConfigType'
    BY <1>0, <2>1, Zenon DEF ConfigType
  <2> QED BY <1>0, <2>1, <2>2, BeforeSelection, Zenon
<1>3. ASSUME NEW i \in Interfaces, NEW v \in Variables, NEW val \in Values, BuildFromConfigVar(i, v, val)
      PROVE  MatchInv'
  <2>1. /\ step = "config" /\ step' = step /\ withs' = withs /\ read' = read
        /\ written' = written /\ tpl' = tpl /\ kept' = kept
        /\ config' = config \/ config' = Put(config, i, Put(Vars(config, i), v, val))
    BY <1>3, Zenon DEF BuildFromConfigVar, sources, selecting
  <2>2. val \in Value
    BY InputsAssumption, Zenon
  <2>3. ConfigType'
    <3>1. CASE config' = config
      BY <1>0, <3>1, Zenon DEF ConfigType
    <3>2. CASE config' = Put(config, i, Put(Vars(config, i), v, val))
      <4> DEFINE new == Put(Vars(config, i), v, val)
      <4>1. \A x \in DOMAIN Vars(config, i) : Vars(config, i)[x] \in Value
        <5>1. CASE i \in DOMAIN config
          BY <1>0, <5>1, Zenon DEF ConfigType, Vars
        <5>2. CASE i \notin DOMAIN config
          BY <5>2, Zenon DEF Vars, NoVars
        <5> QED BY <5>1, <5>2, Zenon
      <4>2. \A x \in DOMAIN new : new[x] \in Value
        BY <2>2, <4>1, Zenon DEF Put
      <4> HIDE DEF new
      <4>3. \A j \in DOMAIN config' : config'[j] = new \/ (j \in DOMAIN config /\ config'[j] = config[j])
        BY <3>2, Zenon DEF Put, new
      <4> QED BY <1>0, <4>2, <4>3, Zenon DEF ConfigType
    <3> QED BY <2>1, <3>1, <3>2, Zenon
  <2> QED BY <1>0, <2>1, <2>3, BeforeSelection, Zenon
<1>4. CASE BuildFromConfig
  <2>1. /\ step = "config" /\ step' \in {"exit", "select"} /\ withs' = withs /\ read' = read
        /\ written' = written /\ config' = config /\ tpl' = tpl /\ kept' = kept
    BY <1>4, Zenon DEF BuildFromConfig, sources, selecting
  <2>2. ConfigType'
    BY <1>0, <2>1, Zenon DEF ConfigType
  <2> QED BY <1>0, <2>1, <2>2, BeforeSelection, Zenon
<1>5. CASE Select
  <2>1. /\ step = "select" /\ tpl <= Len(withs) /\ tpl' = tpl + 1 /\ UNCHANGED <<written, withs, read, config, wanted>>
        /\ kept' = IF Compatible(tpl) = "yes" THEN kept \union {tpl} ELSE kept
        /\ step' = IF Compatible(tpl) = "error" THEN "error" ELSE step
    BY <1>5, Zenon DEF Select, sources, Compatible
  <2>2. \A t : Compatible(t)' = Compatible(t)
    BY <2>1, Zenon DEF Compatible
  <2>3. ConfigType'
    BY <1>0, <2>1, Zenon DEF ConfigType
  <2>4. /\ tpl' \in Nat \ {0} /\ tpl' <= Len(withs') + 1 /\ tpl' - 1 = tpl
        /\ 1..(tpl' - 1) = 1..(tpl - 1) \cup {tpl} /\ tpl \notin 1..(tpl - 1)
        /\ step' \notin {"constraints", "config", "exit", "found"} /\ step # "error"
    BY <1>0, <2>1 DEF MatchInv
  <2>5. kept' \subseteq 1..(tpl' - 1)
    BY <1>0, <2>1, <2>4, Zenon
  <2>6. \A t \in 1..(tpl' - 1) : t \in kept' <=> Compatible(t)' = "yes"
    BY <1>0, <2>1, <2>2, <2>4, Zenon DEF MatchInv
  <2>7. \A t \in 1..(tpl' - 1) : Compatible(t)' = "error" => step' = "error" /\ t = tpl' - 1
    BY <1>0, <2>1, <2>2, <2>4, Zenon DEF MatchInv
  <2> QED BY <1>0, <2>1, <2>3, <2>4, <2>5, <2>6, <2>7, Zenon DEF MatchInv
<1>6. CASE SelectEnd
  <2>1. /\ step = "select" /\ tpl > Len(withs) /\ UNCHANGED <<written, withs, read, config, tpl, kept, wanted>>
        /\ step' = IF kept = {} \/ (wanted = "template" /\ Cardinality(kept) # 1) THEN "notfound" ELSE "found"
    BY <1>6, Zenon DEF SelectEnd, sources, selecting
  <2>2. \A t : Compatible(t)' = Compatible(t)
    BY <2>1, Zenon DEF Compatible
  <2>3. ConfigType'
    BY <1>0, <2>1, Zenon DEF ConfigType
  <2>4. step' \notin {"constraints", "config", "exit", "error"} /\ step # "error"
        /\ (step' = "found" => (wanted = "template" => Cardinality(kept) = 1))
    BY <2>1
  <2>5. \A t \in 1..(tpl - 1) : Compatible(t) # "error"
    BY <2>4, Zenon DEF MatchInv
  <2> QED BY <2>1, <2>2, <2>3, <2>4, <2>5, Zenon DEF MatchInv
<1>7. CASE UNCHANGED matchVars
  <2>1. UNCHANGED <<written, withs, read, config, tpl, kept, wanted, step>>
    BY <1>7, Zenon DEF matchVars
  <2>2. \A t : Compatible(t)' = Compatible(t)
    BY <2>1, Zenon DEF Compatible
  <2>3. ConfigType'
    BY <1>0, <2>1, Zenon DEF ConfigType
  <2> QED BY <2>1, <2>2, <2>3, Zenon DEF MatchInv
<1>8. CASE MatchEnded
  BY <1>7, <1>8, Zenon DEF MatchEnded
<1> QED BY <1>1, <1>2, <1>3, <1>4, <1>5, <1>6, <1>7, <1>8, Zenon DEF MatchNext

\* The with node of a template has the constraints that are read, when there is
\* one at most on a variable, and the selection starts when all of them are.
ReadInv ==
  /\ \A t \in 1..Len(written) : read[t] <= Len(written[t])
  /\ \A t \in 1..Len(written) :
       OneEach(t) => ToSet(withs[t]) = {written[t][i] : i \in 1..read[t]}
  /\ step # "constraints" => \A t \in 1..Len(written) : read[t] = Len(written[t])

LEMMA ReadInvInit == MatchInit => ReadInv
<1> SUFFICES ASSUME MatchInit PROVE ReadInv
  BY Zenon
<1>1. written \in Seq(Seq(Constraint))
  BY InputsAssumption, Zenon DEF MatchInit
<1>2. DOMAIN written = 1..Len(written) /\ \A t \in 1..Len(written) : Len(written[t]) \in Nat
  BY <1>1
<1>3. \A t \in 1..Len(written) : withs[t] = <<>> /\ read[t] = 0
  BY <1>2, Zenon DEF MatchInit
<1>4. ToSet(<<>>) = {} /\ 1..0 = {}
  BY DEF ToSet
<1>5. \A t \in 1..Len(written) : ToSet(withs[t]) = {written[t][i] : i \in 1..read[t]}
  BY <1>3, <1>4, Zenon
<1>6. \A t \in 1..Len(written) : read[t] <= Len(written[t])
  BY <1>2, <1>3
<1>7. step = "constraints"
  BY Zenon DEF MatchInit
<1> QED BY <1>5, <1>6, <1>7, Zenon DEF ReadInv

\* A step after the last constraint has been read.
LEMMA ReadDone ==
  ASSUME ReadInv, step' # "constraints", UNCHANGED <<written, withs, read>>,
         \A t \in 1..Len(written) : read[t] = Len(written[t])
  PROVE  ReadInv'
<1>1. \A t : OneEach(t)' <=> OneEach(t)
  BY Zenon DEF OneEach
<1> QED BY <1>1, Zenon DEF ReadInv

LEMMA ReadInvNext == MatchInv /\ ReadInv /\ [MatchNext]_matchVars => ReadInv'
<1> SUFFICES ASSUME MatchInv, ReadInv, [MatchNext]_matchVars PROVE ReadInv'
  BY Zenon
<1>0. /\ written \in Seq(Seq(Constraint)) /\ withs \in Seq(Seq(Constraint)) /\ Len(withs) = Len(written)
      /\ read \in [1..Len(written) -> Nat] /\ Len(written) \in Nat
      /\ DOMAIN written = 1..Len(written)
  BY DEF MatchInv
<1>1. ASSUME NEW t \in DOMAIN written, AssocInterfaceConstraint(t) PROVE ReadInv'
  <2> DEFINE n == read[t] + 1
             c == written[t][n]
             w == WithConstraint(withs[t], c)
  <2>1. /\ step = "constraints" /\ step' = step /\ read[t] < Len(written[t])
        /\ withs' = [withs EXCEPT ![t] = w] /\ read' = [read EXCEPT ![t] = @ + 1]
        /\ written' = written
    BY <1>1, Zenon DEF AssocInterfaceConstraint, selecting
  <2>2. /\ written[t] \in Seq(Constraint) /\ withs[t] \in Seq(Constraint) /\ read[t] \in Nat
        /\ Len(written[t]) \in Nat /\ t \in 1..Len(written)
    BY <1>0
  <2>3. n \in 1..Len(written[t]) /\ c \in Constraint /\ 1..n = 1..read[t] \union {n}
    BY <2>1, <2>2
  <2>4. ASSUME OneEach(t) PROVE ToSet(w) = {written[t][i] : i \in 1..n}
    <3>1. ToSet(withs[t]) = {written[t][i] : i \in 1..read[t]}
      BY <2>2, <2>4, Zenon DEF ReadInv
    <3>2. ASSUME NEW i \in 1..read[t] PROVE i \in 1..Len(written[t]) /\ i # n
      BY <2>1, <2>2, <3>2
    <3>3. \A i \in 1..read[t] : ~ (written[t][i].itf = c.itf /\ written[t][i].var = c.var)
      BY <2>3, <2>4, <3>2, Zenon DEF OneEach
    <3>4. \A d \in ToSet(withs[t]) : ~ (d.itf = c.itf /\ d.var = c.var)
      BY <3>1, <3>3, Zenon
    <3> HIDE DEF n
    <3>5. ToSet(w) = ToSet(withs[t]) \union {c}
      BY <2>2, <2>3, <3>4, WithConstraintAdds, Zenon
    <3> HIDE DEF w
    <3> QED BY <2>3, <3>1, <3>5, Zenon
  <2> HIDE DEF c, w
  <2>5. read'[t] = n /\ withs'[t] = w /\ n <= Len(written[t])
    BY <1>0, <2>1, <2>2, <2>3
  <2>6. \A s \in 1..Len(written) : s # t => read'[s] = read[s] /\ withs'[s] = withs[s]
    BY <1>0, <2>1
  <2>7. \A s : OneEach(s)' <=> OneEach(s)
    BY <2>1, Zenon DEF OneEach
  <2> HIDE DEF n
  <2>8. \A s \in 1..Len(written) : read'[s] <= Len(written[s])
    BY <2>5, <2>6, Zenon DEF ReadInv
  <2>9. \A s \in 1..Len(written) :
          OneEach(s) => ToSet(withs'[s]) = {written[s][i] : i \in 1..read'[s]}
    <3> TAKE s \in 1..Len(written)
    <3>1. CASE s = t
      BY <2>4, <2>5, <3>1, Zenon
    <3>2. CASE s # t
      BY <2>6, <3>2, Zenon DEF ReadInv
    <3> QED BY <3>1, <3>2, Zenon
  <2> QED BY <2>1, <2>7, <2>8, <2>9, Zenon DEF ReadInv
<1>2. CASE ConstraintsDone
  <2>1. /\ step' = "config" /\ UNCHANGED <<written, withs, read>>
        /\ \A t \in 1..Len(written) : read[t] = Len(written[t])
    BY <1>0, <1>2, Zenon DEF ConstraintsDone, sources
  <2>2. step' # "constraints"
    BY <2>1
  <2> QED BY <2>1, <2>2, ReadDone, Zenon
<1>3. CASE \/ \E i \in Interfaces, v \in Variables, val \in Values : BuildFromConfigVar(i, v, val)
           \/ BuildFromConfig \/ Select \/ SelectEnd
  <2>1. /\ step \in {"config", "select"} /\ UNCHANGED <<written, withs, read>>
        /\ step' \in {"config", "exit", "select", "error", "notfound", "found"}
    BY <1>3, Zenon DEF BuildFromConfigVar, BuildFromConfig, Select, SelectEnd, sources
  <2>2. step # "constraints" /\ step' # "constraints"
    BY <2>1
  <2> QED BY <2>1, <2>2, ReadDone, Zenon DEF ReadInv
<1>4. CASE UNCHANGED matchVars
  <2>1. UNCHANGED <<written, withs, read, step>>
    BY <1>4, Zenon DEF matchVars
  <2>2. \A t : OneEach(t)' <=> OneEach(t)
    BY <2>1, Zenon DEF OneEach
  <2> QED BY <2>1, <2>2, Zenon DEF ReadInv
<1>5. CASE MatchEnded
  BY <1>4, <1>5, Zenon DEF MatchEnded
<1> QED BY <1>1, <1>2, <1>3, <1>4, <1>5, Zenon DEF MatchNext

LEMMA MatchAlways == MatchSpec => [](MatchInv /\ ReadInv)
  BY MatchInvInit, MatchInvNext, ReadInvInit, ReadInvNext, PTL DEF MatchSpec

LEMMA KeptAs == MatchInv /\ ReadInv => KeptInDomain
<1> SUFFICES ASSUME MatchInv, ReadInv PROVE KeptInDomain
  BY Zenon
<1>0. /\ withs \in Seq(Seq(Constraint)) /\ Len(withs) \in Nat /\ DOMAIN written = 1..Len(withs)
      /\ written \in Seq(Seq(Constraint)) /\ Len(withs) = Len(written)
      /\ ConfigType /\ tpl \in Nat /\ tpl <= Len(withs) + 1
      /\ kept \subseteq 1..(tpl - 1)
      /\ \A t \in 1..(tpl - 1) : t \in kept <=> Compatible(t) = "yes"
      /\ step = "found" => tpl > Len(withs) /\ (wanted = "template" => Cardinality(kept) = 1)
      /\ step = "constraints" => tpl = 1
  BY DEF MatchInv
<1>1. ASSUME NEW t \in 1..(tpl - 1), OneEach(t), Aligned(t) PROVE t \in kept <=> InDomain(t)
  <2>1. t \in 1..Len(withs) /\ step # "constraints"
    BY <1>0, <1>1
  <2>2. withs[t] \in Seq(Constraint) /\ DOMAIN written[t] = 1..Len(written[t])
    BY <1>0, <2>1
  <2>3. ToSet(withs[t]) = ToSet(written[t])
    <3>1. t \in 1..Len(written)
      BY <1>0, <2>1, Zenon
    <3>2. ToSet(withs[t]) = {written[t][i] : i \in 1..Len(written[t])}
      BY <1>1, <2>1, <3>1, Zenon DEF ReadInv
    <3> QED BY <2>2, <3>2, Zenon DEF ToSet
  <2> QED BY <1>0, <1>1, <2>2, <2>3, CompatibleInDomain, Zenon DEF Compatible
<1>2. ASSUME step = "found", wanted = "template", NEW s \in DOMAIN written, NEW t \in DOMAIN written,
             OneEach(s), Aligned(s), InDomain(s), OneEach(t), Aligned(t), InDomain(t)
      PROVE  s = t
  <2>1. s \in 1..(tpl - 1) /\ t \in 1..(tpl - 1)
    BY <1>0, <1>2
  <2>2. s \in kept /\ t \in kept
    BY <1>1, <1>2, <2>1, Zenon
  <2>3. IsFiniteSet(kept)
    <3>1. IsFiniteSet(1..(tpl - 1))
      BY <1>0, FS_Interval
    <3> QED BY <1>0, <3>1, FS_Subset, Zenon
  <2>4. Cardinality(kept) = 1
    BY <1>0, <1>2, Zenon
  <2>5. PICK x : kept = {x}
    BY <2>3, <2>4, FS_Singleton, Zenon
  <2> QED BY <2>2, <2>5, Zenon
<1> QED BY <1>1, <1>2, Zenon DEF KeptInDomain

\* The selection keeps exactly the templates whose written conditions hold in the
\* order of numbers, and a template is found only if no other one's do, for any
\* templates with one condition at most on a variable and any numbers that have
\* as many digits as those they are compared with: the with nodes that
\* rtxNodeWith_AssocInterfaceConstraint builds, rtxLink_IsWithNodeCompatible with
\* its early returns and the comparisons of rtxLink_ConfigMatcher.
THEOREM KeepsInDomain == MatchSpec => []KeptInDomain
  BY MatchAlways, KeptAs, PTL

LEMMA OppositeAs == MatchInv => OppositeTemplates
<1> SUFFICES ASSUME MatchInv, NEW s \in 1..(tpl - 1), NEW t \in 1..(tpl - 1),
                    Len(withs[s]) = 1, Len(withs[t]) = 1,
                    withs[s][1].itf = withs[t][1].itf, withs[s][1].var = withs[t][1].var,
                    withs[s][1].val = withs[t][1].val,
                    <<withs[s][1].op, withs[t][1].op>> \in {<<"<", ">=">>, <<">", "<=">>},
                    Defined(withs[s][1])
             PROVE  LET c == withs[s][1] IN
                    \/ s \in kept /\ t \notin kept
                    \/ s \notin kept /\ t \in kept
                    \/ /\ s \notin kept /\ t \notin kept
                       /\ LET ref == c.val.list
                              val == config[c.itf][c.var].list
                          IN \E i \in 1..Len(ref) :
                               i <= Len(val) /\ ref[i].type = "sep" /\ ref[i] # val[i]
  BY Zenon DEF OppositeTemplates
<1> DEFINE c == withs[s][1]
           d == withs[t][1]
           ref == c.val
           val == config[c.itf][c.var]
<1>0. /\ withs \in Seq(Seq(Constraint)) /\ Len(withs) \in Nat /\ ConfigType
      /\ tpl \in Nat /\ tpl <= Len(withs) + 1
      /\ \A r \in 1..(tpl - 1) : r \in kept <=> Compatible(r) = "yes"
      /\ \A r \in 1..(tpl - 1) : Compatible(r) = "error" => r = tpl - 1
  BY DEF MatchInv
<1>1. /\ s \in 1..Len(withs) /\ t \in 1..Len(withs)
      /\ withs[s] \in Seq(Constraint) /\ withs[t] \in Seq(Constraint)
  BY <1>0
<1>2. c \in Constraint /\ d \in Constraint
  BY <1>1
<1>3. Compatible(s) = Verdict(c, config) /\ Compatible(t) = Verdict(d, config)
  BY <1>1, CompatibleAs, Zenon DEF Compatible
<1>4. ref \in Value /\ val \in Value /\ ref.rtype \in {"serial", "number", "symbol"}
  <2>1. ref \in Value
    BY <1>2 DEF Constraint
  <2>2. val \in Value
    BY <1>0, Zenon DEF ConfigType, Defined
  <2> QED BY <2>1, <2>2, ValueFacts, Zenon
<1>5. Defined(d) /\ val = config[d.itf][d.var] /\ d.val = ref
  BY Zenon DEF Defined
<1>6. /\ Verdict(c, config) = IF ~ Comparable(c.op, ref) THEN "error"
                              ELSE IF CompareValues(c.op, ref, val) THEN "yes" ELSE "no"
      /\ Verdict(d, config) = IF ~ Comparable(d.op, ref) THEN "error"
                              ELSE IF CompareValues(d.op, ref, val) THEN "yes" ELSE "no"
  BY <1>2, <1>5, VerdictAs, Zenon
<1>7. \/ c.op = "<" /\ d.op = ">="
      \/ c.op = ">" /\ d.op = "<="
  <2>1. \/ <<c.op, d.op>> = <<"<", ">=">>
        \/ <<c.op, d.op>> = <<">", "<=">>
    BY Zenon
  <2> QED BY <2>1
<1>8. s # t
  BY <1>7
<1>9. Comparable(c.op, ref) /\ Comparable(d.op, ref)
  <2>1. Comparable(c.op, ref) <=> Comparable(d.op, ref)
    BY <1>7 DEF Comparable
  <2> QED BY <1>0, <1>3, <1>6, <1>8, <2>1, Zenon
<1> HIDE DEF c, d, ref, val
<1>11. (s \in kept <=> CompareValues(c.op, ref, val)) /\ (t \in kept <=> CompareValues(d.op, ref, val))
  <2>1. CompareValues(c.op, ref, val) <=> Compatible(s) = "yes"
    BY <1>3, <1>6, <1>9
  <2>2. CompareValues(d.op, ref, val) <=> Compatible(t) = "yes"
    BY <1>3, <1>6, <1>9
  <2> QED BY <1>0, <2>1, <2>2, Zenon
<1>12. /\ c.op = "<" => (CompareValues(c.op, ref, val) <=> CompareLesser(ref, val))
       /\ c.op = ">" => (CompareValues(c.op, ref, val) <=> CompareGreater(ref, val))
       /\ d.op = "<=" => (CompareValues(d.op, ref, val) <=> CompareLesserEqual(ref, val))
       /\ d.op = ">=" => (CompareValues(d.op, ref, val) <=> CompareGreaterEqual(ref, val))
  BY DEF CompareValues
<1>13. CASE ref.rtype = "serial"
  <2> DEFINE e == SerialExit(ref, val)
  <2>1. /\ e \in {"longer", "same", "shorter", "mismatch", "less", "greater"}
        /\ e = "mismatch" => \E i \in 1..Len(ref.list) : i <= Len(val.list) /\ ref.list[i].type = "sep" /\ ref.list[i] # val.list[i]
    BY <1>4, <1>13, Mismatch, Zenon
  <2>2. /\ CompareLesser(ref, val) <=> e \in {"shorter", "less"}
        /\ CompareGreater(ref, val) <=> e \in {"greater", "longer"}
        /\ CompareLesserEqual(ref, val) <=> e \in {"shorter", "less", "same"}
        /\ CompareGreaterEqual(ref, val) <=> e \in {"greater", "longer", "same"}
    BY <1>13, Zenon
      DEF NumberLesser, NumberGreater, CompareLesser, CompareGreater, CompareLesserEqual, CompareGreaterEqual
  <2> HIDE DEF e
  <2>3. \/ s \in kept /\ t \notin kept
        \/ s \notin kept /\ t \in kept
        \/ s \notin kept /\ t \notin kept /\ e = "mismatch"
    BY SMTT(20), <1>7, <1>11, <1>12, <2>1, <2>2
  <2> QED BY <2>1, <2>3, Zenon DEF c, ref, val
<1>14. CASE ref.rtype # "serial"
  <2>1. /\ CompareLesser(ref, val) <=> StrLess(val.val, ref.val)
        /\ CompareGreater(ref, val) <=> StrLess(ref.val, val.val)
        /\ CompareEqual(ref, val) <=> val.val = ref.val
        /\ CompareLesserEqual(ref, val) <=> CompareLesser(ref, val) \/ CompareEqual(ref, val)
        /\ CompareGreaterEqual(ref, val) <=> CompareGreater(ref, val) \/ CompareEqual(ref, val)
    BY <1>14, Zenon
      DEF NumberLesser, NumberGreater, CompareLesser, CompareGreater, CompareEqual, CompareLesserEqual, CompareGreaterEqual
  <2>2. /\ val.val # ref.val => StrLess(val.val, ref.val) \/ StrLess(ref.val, val.val)
        /\ ~ (StrLess(val.val, ref.val) /\ StrLess(ref.val, val.val))
        /\ val.val = ref.val => ~ StrLess(val.val, ref.val) /\ ~ StrLess(ref.val, val.val)
    BY <1>4, ValueFacts, StrOrder, Zenon
  <2>3. \/ s \in kept /\ t \notin kept
        \/ s \notin kept /\ t \in kept
    BY <1>7, <1>11, <1>12, <2>1, <2>2, Zenon
  <2> QED BY <2>3, Zenon
<1> QED BY <1>13, <1>14, Zenon

\* One template below a value and one from it on, or one up to it and one above
\* it, share out the configurations, for versions of every length and whatever the
\* configuration: rtxLink_CompareLesser and rtxLink_CompareGreaterEqual, and the
\* two others, are loops of their own and still each other's complement.
THEOREM OppositesShareOut == MatchSpec => []OppositeTemplates
  BY MatchAlways, OppositeAs, PTL
=============================================================================
