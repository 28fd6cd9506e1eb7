------------------------- MODULE SubnetUsedIPProofs -------------------------
(***************************************************************************)
(* What usedIP stands for, and what GetAvailableIP finds in it, for any    *)
(* width of addresses, any network, ranges and gateway and any number of   *)
(* pods.                                                                   *)
(*                                                                         *)
(* The inductive invariant is UsedIPInv: usedIP is tidy (sorted, disjoint, *)
(* no two ranges touch, below the top of the address space, where          *)
(* IPIncrease would wrap around) and its addresses are the owned ones and  *)
(* the gateway.  It rests on what the operators of IPCalc do with a tidy   *)
(* list: AddIP, RemoveIP, RecountIs, SkipIs and WalkIs.  The lists and the *)
(* functions that are defined by recursion over a list are reasoned about  *)
(* position by position, with a least counterexample (UpTo) in the place   *)
(* of induction.                                                           *)
(***************************************************************************)
EXTENDS SubnetUsedIP, FiniteSetTheorems, TLAPS

(***************************************************************************)
(* Induction.  A property of all numbers is proved by a least counter-     *)
(* example: a set of natural numbers has a least element.                  *)
(***************************************************************************)
LEMMA Least ==
    ASSUME NEW S \in SUBSET Nat, S # {}
    PROVE  \E n \in S : \A k \in S : n <= k
<1>. DEFINE R == OpToRel(<, Nat)
<1>1. IsWellFoundedOn(R, Nat)
  BY NatLessThanWellFounded
<1>2. \A m, n \in Nat : m < n => <<m, n>> \in R
  BY DEF OpToRel
<1>. HIDE DEF R
<1>3. PICK n \in S : \A k \in S : ~(<<k, n>> \in R)
  BY <1>1, WFMin
<1>4. \A k \in S : ~(k < n)
  BY <1>2, <1>3
<1>5. \A k \in S : k \in Nat /\ n \in Nat
  OBVIOUS
<1>6. \A k \in S : n <= k
  BY <1>4, <1>5
<1>. QED  BY <1>6

LEMMA MinIsLeast ==
    ASSUME NEW S \in SUBSET Nat, S # {}
    PROVE  Min(S) \in S /\ \A k \in S : Min(S) <= k
BY Least DEF Min

(* a set of numbers that has 0 and the successor of each has all up to n *)
LEMMA UpTo ==
    ASSUME NEW n \in Nat, NEW S, 0 \in S, \A i \in 1 .. n : i - 1 \in S => i \in S
    PROVE  \A i \in 0 .. n : i \in S
<1>. DEFINE C == {i \in 0 .. n : i \notin S}
<1>. SUFFICES ASSUME C # {} PROVE FALSE
  OBVIOUS
<1>1. C \in SUBSET Nat
  OBVIOUS
<1>2. PICK m \in C : \A k \in C : m <= k
  BY <1>1, Least
<1>3. m \in 1 .. n /\ m - 1 \in 0 .. n /\ ~(m <= m - 1)
  BY <1>2
<1>4. m - 1 \notin C
  BY <1>2, <1>3
<1>. QED  BY <1>2, <1>3, <1>4

LEMMA ConcatIs ==
    ASSUME NEW S, NEW s \in Seq(S), NEW t \in Seq(S)
    PROVE  /\ s \o t \in Seq(S) /\ Len(s \o t) = Len(s) + Len(t)
           /\ \A i \in 1 .. (Len(s) + Len(t)) :
                 (s \o t)[i] = IF i <= Len(s) THEN s[i] ELSE t[i - Len(s)]
<1>1. s \o t \in Seq(S)
  OBVIOUS
<1>2. Len(s \o t) = Len(s) + Len(t)
  OBVIOUS
<1>3. \A i \in 1 .. (Len(s) + Len(t)) :
         (s \o t)[i] = IF i <= Len(s) THEN s[i] ELSE t[i - Len(s)]
  OBVIOUS
<1>. QED  BY <1>1, <1>2, <1>3

LEMMA SameSequence ==
    ASSUME NEW S, NEW s \in Seq(S), NEW t \in Seq(S), NEW n, Len(s) = n, Len(t) = n,
           \A i \in 1 .. n : s[i] = t[i]
    PROVE  s = t
<1>1. s \in [1 .. n -> S] /\ t \in [1 .. n -> S]
  OBVIOUS
<1>. QED  BY <1>1

(***************************************************************************)
(* Addresses.  The one at the top of the space is never used, so that no   *)
(* addition wraps.                                                         *)
(***************************************************************************)
Low == 0 .. (2^W - 2)
Ranges == [from : Low, to : Low]

LEMMA Space == 2^W \in Nat /\ 2^W >= 1
<1>1. W \in 0 .. W
  BY WidthPositive
<1>2. 2^W \in Nat \ {0}
  BY <1>1, PowerPositive
<1>. QED  BY <1>2

LEMMA Modulo ==
    ASSUME NEW m \in Nat, m >= 1
    PROVE  /\ \A x \in 0 .. (m - 1) : x % m = x
           /\ (-1) % m = m - 1
OBVIOUS

LEMMA LowIsAddr == Low \subseteq Addr /\ Low \subseteq Nat /\ Addr \subseteq Nat
BY Space DEF Low, Addr

LEMMA Increase == ASSUME NEW a \in Low PROVE IPIncrease(a) = a + 1
<1>. DEFINE m == 2^W
<1>1. m \in Nat /\ m >= 1
  BY Space
<1>2. a + 1 \in 0 .. (m - 1)
  BY <1>1 DEF Low
<1>. HIDE DEF m
<1>3. (a + 1) % m = a + 1
  BY <1>1, <1>2, Modulo
<1>. QED  BY <1>3 DEF IPIncrease, m

LEMMA Decrease ==
    ASSUME NEW a \in Low
    PROVE  IPDecrease(a) = IF a = 0 THEN 2^W - 1 ELSE a - 1
<1>. DEFINE m == 2^W
<1>1. m \in Nat /\ m >= 1
  BY Space
<1>2. a # 0 => a - 1 \in 0 .. (m - 1)
  BY <1>1 DEF Low
<1>. HIDE DEF m
<1>3. CASE a = 0
  <2>1. (-1) % m = m - 1
    BY <1>1, Modulo
  <2>2. a - 1 = -1
    BY <1>3
  <2>. QED  BY <1>3, <2>1, <2>2, Zenon DEF IPDecrease, m
<1>4. CASE a # 0
  <2>1. (a - 1) % m = a - 1
    BY <1>1, <1>2, <1>4, Modulo
  <2>. QED  BY <1>4, <2>1 DEF IPDecrease, m
<1>. QED  BY <1>3, <1>4

LEMMA TouchesIs ==
    ASSUME NEW ip \in Low, NEW r \in Ranges
    PROVE  Touches(ip, r) <=> ip + 1 = r.from \/ ip = r.to + 1
<1>1. r.from \in Low /\ r.to \in Low
  BY DEF Ranges
<1>2. ip \in Nat /\ ip # 2^W - 1 /\ r.from \in Nat /\ r.to \in Nat
  BY <1>1, Space DEF Low
<1>3. ip = IPDecrease(r.from) <=> ip + 1 = r.from
  BY <1>1, <1>2, Decrease
<1>4. ip = IPIncrease(r.to) <=> ip = r.to + 1
  BY <1>1, Increase
<1>. QED  BY <1>3, <1>4 DEF Touches

(***************************************************************************)
(* Sorting.  Only two lists are ever sorted: one that is sorted already,   *)
(* and one that is but for its last range.                                 *)
(***************************************************************************)
LEMMA SeqIsFunction ==
    ASSUME NEW S, NEW s \in Seq(S)
    PROVE  Len(s) \in Nat /\ DOMAIN s = 1 .. Len(s) /\ s \in [1 .. Len(s) -> S]
OBVIOUS

LEMMA FunctionIsSeq ==
    ASSUME NEW S, NEW n \in Nat, NEW s \in [1 .. n -> S]
    PROVE  s \in Seq(S) /\ Len(s) = n
OBVIOUS

LEMMA RangeTypes ==
    ASSUME NEW r \in Ranges
    PROVE  r.from \in Nat /\ r.to \in Nat /\ r.from \in Low /\ r.to \in Low
BY LowIsAddr DEF Ranges

LEMMA Extensionality ==
    ASSUME NEW A, NEW B, \A x : x \in A <=> x \in B
    PROVE  A = B
OBVIOUS

Increasing(s) == \A i, j \in DOMAIN s : i < j => s[i].from < s[j].from

LEMMA SortIs ==
    ASSUME NEW s, NEW p \in [DOMAIN s -> DOMAIN s],
           \A i \in DOMAIN s : Place(s, p[i]) = i,
           \A k \in DOMAIN s : Place(s, k) \in DOMAIN s /\ p[Place(s, k)] = k
    PROVE  SortRanges(s) = [i \in DOMAIN s |-> s[p[i]]]
<1>. DEFINE q(i) == CHOOSE k \in DOMAIN s : Place(s, k) = i
<1>1. \A i \in DOMAIN s : q(i) = p[i]
  <2>. TAKE i \in DOMAIN s
  <2>. DEFINE P(k) == Place(s, k)
  <2>1. p[i] \in DOMAIN s /\ P(p[i]) = i
    OBVIOUS
  <2>2. \A k \in DOMAIN s : P(k) = i => k = p[i]
    OBVIOUS
  <2>. HIDE DEF P
  <2>3. (CHOOSE k \in DOMAIN s : P(k) = i) = p[i]
    BY <2>1, <2>2
  <2>. QED  BY <2>3 DEF P
<1>2. SortRanges(s) = [i \in DOMAIN s |-> s[q(i)]]
  BY DEF SortRanges
<1>. HIDE DEF q
<1>. QED  BY <1>1, <1>2

LEMMA UpToSize ==
    ASSUME NEW n \in Nat
    PROVE  IsFiniteSet(1 .. n) /\ Cardinality(1 .. n) = n
<1>1. IsFiniteSet(1 .. n) /\ Cardinality(1 .. n) = IF 1 > n THEN 0 ELSE n - 1 + 1
  BY FS_Interval
<1>. QED  BY <1>1

LEMMA SortSorted ==
    ASSUME NEW s \in Seq(Ranges), Increasing(s)
    PROVE  SortRanges(s) = s
<1>. DEFINE n == Len(s)
<1>1. n \in Nat /\ DOMAIN s = 1 .. n /\ s \in [1 .. n -> Ranges]
  BY SeqIsFunction
<1>2. \A i \in 1 .. n : s[i].from \in Nat
  BY <1>1, RangeTypes
<1>. HIDE DEF n
<1>3. \A k \in 1 .. n : Place(s, k) = k
  <2>. TAKE k \in 1 .. n
  <2>1. \A j \in 1 .. n : j \in Before(s, k) <=> j < k
    BY <1>1, <1>2 DEF Increasing, Before
  <2>2. Before(s, k) = 1 .. (k - 1)
    <3>1. \A j : j \in Before(s, k) => j \in 1 .. n
      BY <1>1 DEF Before
    <3>2. \A j : j \in Before(s, k) <=> j \in 1 .. (k - 1)
      BY <1>1, <2>1, <3>1
    <3>. QED  BY <3>2, Extensionality
  <2>3. IsFiniteSet(1 .. (k - 1)) /\ Cardinality(1 .. (k - 1)) = k - 1
    BY <1>1, UpToSize
  <2>4. Place(s, k) = 1 + (k - 1)
    BY <2>2, <2>3 DEF Place
  <2>. QED  BY <1>1, <2>4
<1>. DEFINE p == [i \in DOMAIN s |-> i]
<1>4. SortRanges(s) = [i \in DOMAIN s |-> s[p[i]]]
  <2>1. /\ p \in [DOMAIN s -> DOMAIN s]
        /\ \A i \in DOMAIN s : p[i] = i
    OBVIOUS
  <2>. HIDE DEF p
  <2>. QED  BY <1>1, <1>3, <2>1, SortIs
<1>. QED  BY <1>1, <1>4

Inserted(s, k, e) ==
    [i \in 1 .. (Len(s) + 1) |-> IF i <= k THEN s[i] ELSE IF i = k + 1 THEN e ELSE s[i - 1]]

LEMMA SortAppend ==
    ASSUME NEW s \in Seq(Ranges), Increasing(s), NEW e \in Ranges, NEW k \in 0 .. Len(s),
           \A i \in 1 .. k : s[i].from < e.from,
           \A i \in (k + 1) .. Len(s) : e.from < s[i].from
    PROVE  SortRanges(Append(s, e)) = Inserted(s, k, e)
<1>. DEFINE n == Len(s)
            t == Append(s, e)
<1>1. /\ n \in Nat /\ DOMAIN s = 1 .. n /\ s \in [1 .. n -> Ranges] /\ k \in 0 .. n
      /\ \A i \in 1 .. k : s[i].from < e.from
      /\ \A i \in (k + 1) .. n : e.from < s[i].from
  BY SeqIsFunction
<1>2. e.from \in Nat /\ \A i \in 1 .. n : s[i].from \in Nat
  BY <1>1, RangeTypes
<1>3. DOMAIN t = 1 .. (n + 1) /\ t[n + 1] = e /\ \A i \in 1 .. n : t[i] = s[i]
  OBVIOUS
<1>4. Inserted(s, k, e) =
          [i \in 1 .. (n + 1) |-> IF i <= k THEN s[i] ELSE IF i = k + 1 THEN e ELSE s[i - 1]]
  BY DEF Inserted
<1>. HIDE DEF n, t
<1>0. \A i, j \in 1 .. n : t[i].from < t[j].from <=> i < j
  <2>1. \A i, j \in 1 .. n : s[i].from < s[j].from <=> i < j
    BY <1>1, <1>2 DEF Increasing
  <2>. QED  BY <1>3, <2>1
<1>5. \A j \in 1 .. k : Place(t, j) = j
  <2>. TAKE j \in 1 .. k
  <2>0. j \in 1 .. n /\ j - 1 \in Nat
    BY <1>1
  <2>1. Before(t, j) = 1 .. (j - 1)
    <3>1. \A i \in 1 .. n : t[i].from < t[j].from <=> i < j
      BY <1>0, <2>0
    <3>2. ~(t[n + 1].from < t[j].from) /\ ~(n + 1 < j)
      BY <1>1, <1>2, <1>3
    <3>3. \A i : i \in Before(t, j) <=> i \in 1 .. (j - 1)
      BY <1>1, <1>3, <3>1, <3>2 DEF Before
    <3>. QED  BY <3>3, Extensionality
  <2>2. IsFiniteSet(1 .. (j - 1)) /\ Cardinality(1 .. (j - 1)) = j - 1
    BY <2>0, UpToSize
  <2>3. Place(t, j) = 1 + (j - 1)
    BY <2>1, <2>2 DEF Place
  <2>. QED  BY <1>1, <2>3
<1>6. \A j \in (k + 1) .. n : Place(t, j) = j + 1
  <2>. TAKE j \in (k + 1) .. n
  <2>0. j \in 1 .. n /\ j - 1 \in Nat
    BY <1>1
  <2>1. Before(t, j) = (1 .. (j - 1)) \cup {n + 1}
    <3>1. \A i \in 1 .. n : t[i].from < t[j].from <=> i < j
      BY <1>0, <2>0
    <3>2. t[n + 1].from < t[j].from
      BY <1>1, <1>2, <1>3
    <3>3. \A i : i \in Before(t, j) <=> i \in (1 .. (j - 1)) \cup {n + 1}
      BY <1>1, <1>3, <3>1, <3>2 DEF Before
    <3>. QED  BY <3>3, Extensionality
  <2>2. IsFiniteSet(1 .. (j - 1)) /\ Cardinality(1 .. (j - 1)) = j - 1 /\ n + 1 \notin 1 .. (j - 1)
    BY <1>1, <2>0, UpToSize
  <2>3. /\ IsFiniteSet((1 .. (j - 1)) \cup {n + 1})
        /\ Cardinality((1 .. (j - 1)) \cup {n + 1}) = j - 1 + 1
    BY <2>2, FS_AddElement
  <2>4. Place(t, j) = 1 + (j - 1 + 1)
    BY <2>1, <2>3 DEF Place
  <2>. QED  BY <1>1, <2>4
<1>7. Place(t, n + 1) = k + 1
  <2>1. Before(t, n + 1) = 1 .. k
    <3>1. \A i \in 1 .. n : t[i].from < t[n + 1].from <=> i <= k
      BY <1>1, <1>2, <1>3
    <3>2. \A i \in 1 .. n : t[i].from # t[n + 1].from
      BY <1>1, <1>2, <1>3
    <3>3. ~(t[n + 1].from < t[n + 1].from)
      BY <1>2, <1>3
    <3>4. \A i : i \in Before(t, n + 1) <=> i \in 1 .. k
      BY <1>1, <1>3, <3>1, <3>2, <3>3 DEF Before
    <3>. QED  BY <3>4, Extensionality
  <2>2. IsFiniteSet(1 .. k) /\ Cardinality(1 .. k) = k
    BY <1>1, UpToSize
  <2>3. Place(t, n + 1) = 1 + k
    BY <2>1, <2>2 DEF Place
  <2>. QED  BY <1>1, <2>3
<1>. DEFINE p == [i \in 1 .. (n + 1) |-> IF i <= k THEN i ELSE IF i = k + 1 THEN n + 1 ELSE i - 1]
<1>8. \A i \in 1 .. (n + 1) : p[i] \in 1 .. (n + 1) /\ Place(t, p[i]) = i
  BY <1>1, <1>5, <1>6, <1>7
<1>9. \A j \in 1 .. (n + 1) : Place(t, j) \in 1 .. (n + 1) /\ p[Place(t, j)] = j
  BY <1>1, <1>5, <1>6, <1>7
<1>10. SortRanges(t) = [i \in DOMAIN t |-> t[p[i]]]
  <2>1. p \in [DOMAIN t -> DOMAIN t]
    BY <1>3, <1>8
  <2>. HIDE DEF p
  <2>2. \A i \in DOMAIN t : Place(t, p[i]) = i
    BY <1>3, <1>8
  <2>3. \A j \in DOMAIN t : Place(t, j) \in DOMAIN t /\ p[Place(t, j)] = j
    BY <1>3, <1>9
  <2>. QED  BY <2>1, <2>2, <2>3, SortIs
<1>11. \A i \in 1 .. (n + 1) :
          t[p[i]] = IF i <= k THEN s[i] ELSE IF i = k + 1 THEN e ELSE s[i - 1]
  BY <1>1, <1>3
<1>. QED  BY <1>3, <1>4, <1>10, <1>11 DEF t

(***************************************************************************)
(* Lists of ranges in normal form, and what AddIPToRange makes of them.    *)
(***************************************************************************)
Tidy(rs) ==
    /\ rs \in Seq(Ranges)
    /\ \A i \in DOMAIN rs : rs[i].from <= rs[i].to
    /\ \A i, j \in DOMAIN rs : i < j => rs[i].to + 1 < rs[j].from

Adds(ip, rs, t) ==
    /\ Tidy(t)
    /\ \A a \in Addr : IPInRanges(a, t) <=> IPInRanges(a, rs) \/ a = ip

LEMMA TidyFacts ==
    ASSUME NEW rs, Tidy(rs)
    PROVE  /\ Len(rs) \in Nat /\ DOMAIN rs = 1 .. Len(rs)
           /\ rs \in [1 .. Len(rs) -> Ranges]
           /\ \A i \in 1 .. Len(rs) :
                 /\ rs[i] \in Ranges /\ rs[i].from \in Low /\ rs[i].to \in Low
                 /\ rs[i].from \in Nat /\ rs[i].to \in Nat
                 /\ rs[i].from <= rs[i].to
           /\ \A i, j \in 1 .. Len(rs) : i < j => rs[i].to + 1 < rs[j].from
<1>1. rs \in Seq(Ranges)
  BY DEF Tidy
<1>2. Len(rs) \in Nat /\ DOMAIN rs = 1 .. Len(rs) /\ rs \in [1 .. Len(rs) -> Ranges]
  BY <1>1, SeqIsFunction
<1>3. \A i \in 1 .. Len(rs) : rs[i] \in Ranges
  BY <1>2
<1>. QED  BY <1>2, <1>3, RangeTypes, Zenon DEF Tidy

LEMMA TidyIncreasing == ASSUME NEW rs, Tidy(rs) PROVE Increasing(rs)
BY TidyFacts DEF Increasing

(* nothing is used *)
LEMMA EmptyIsTidy == Tidy(<<>>) /\ \A a : ~IPInRanges(a, <<>>)
BY DEF Tidy, IPInRanges

LEMMA ExtendDown ==
    ASSUME NEW rs, Tidy(rs), NEW ip \in Low, NEW i \in DOMAIN rs,
           ip + 1 = rs[i].from,
           \A j \in DOMAIN rs : j < i => ip # rs[j].to + 1
    PROVE  Adds(ip, rs, [rs EXCEPT ![i].from = ip])
<1>. DEFINE n == Len(rs)
            t == [rs EXCEPT ![i].from = ip]
<1>1. /\ n \in Nat /\ DOMAIN rs = 1 .. n /\ i \in 1 .. n /\ rs \in [1 .. n -> Ranges]
      /\ ip \in Nat
      /\ \A j \in 1 .. n : /\ rs[j].from \in Nat /\ rs[j].to \in Nat /\ rs[j].to \in Low
                           /\ rs[j].from <= rs[j].to
      /\ \A j, k \in 1 .. n : j < k => rs[j].to + 1 < rs[k].from
      /\ ip + 1 = rs[i].from /\ \A j \in 1 .. n : j < i => ip # rs[j].to + 1
  BY TidyFacts, LowIsAddr
<1>2. /\ t \in [1 .. n -> Ranges]
      /\ t[i].from = ip /\ t[i].to = rs[i].to
      /\ \A j \in 1 .. n : j # i => t[j] = rs[j]
  BY <1>1 DEF Ranges
<1>3. t \in Seq(Ranges) /\ DOMAIN t = 1 .. n
  BY <1>1, <1>2, FunctionIsSeq
<1>. HIDE DEF n, t
<1>4. \A j \in 1 .. n : t[j].from <= t[j].to
  BY <1>1, <1>2
<1>5. \A j, k \in 1 .. n : j < k => t[j].to + 1 < t[k].from
  <2>. SUFFICES ASSUME NEW j \in 1 .. n, NEW k \in 1 .. n, j < k
                PROVE  t[j].to + 1 < t[k].from
    OBVIOUS
  <2>1. CASE k = i
    <3>1. t[j].to = rs[j].to /\ t[k].from = ip
      BY <1>1, <1>2, <2>1
    <3>2. rs[j].to + 1 < ip + 1 /\ rs[j].to + 1 # ip /\ rs[j].to \in Nat
      BY <1>1, <2>1
    <3>. QED  BY <1>1, <3>1, <3>2
  <2>2. CASE k # i
    <3>1. t[j].to = rs[j].to /\ t[k].from = rs[k].from
      BY <1>2, <2>2
    <3>. QED  BY <1>1, <3>1
  <2>. QED  BY <2>1, <2>2
<1>6. \A a \in Addr : IPInRanges(a, t) <=> IPInRanges(a, rs) \/ a = ip
  <2>. TAKE a \in Addr
  <2>1. a \in Nat
    BY LowIsAddr
  <2>2. \A j \in 1 .. n : j # i => (t[j].from <= a /\ a <= t[j].to <=> rs[j].from <= a /\ a <= rs[j].to)
    BY <1>2
  <2>3. t[i].from <= a /\ a <= t[i].to <=> (rs[i].from <= a /\ a <= rs[i].to) \/ a = ip
    BY <1>1, <1>2, <2>1
  <2>4. IPInRanges(a, t) <=> \E j \in 1 .. n : t[j].from <= a /\ a <= t[j].to
    BY <1>3, Zenon DEF IPInRanges
  <2>5. IPInRanges(a, rs) <=> \E j \in 1 .. n : rs[j].from <= a /\ a <= rs[j].to
    BY <1>1, Zenon DEF IPInRanges
  <2>. QED  BY <1>1, <2>2, <2>3, <2>4, <2>5, Zenon
<1>. QED  BY <1>3, <1>4, <1>5, <1>6 DEF Adds, Tidy, t

LEMMA ExtendUp ==
    ASSUME NEW rs, Tidy(rs), NEW ip \in Low, NEW i \in DOMAIN rs,
           ip = rs[i].to + 1,
           \A j \in DOMAIN rs : j = i + 1 => ip + 1 # rs[j].from
    PROVE  Adds(ip, rs, [rs EXCEPT ![i].to = ip])
<1>. DEFINE n == Len(rs)
            t == [rs EXCEPT ![i].to = ip]
<1>1. /\ n \in Nat /\ DOMAIN rs = 1 .. n /\ i \in 1 .. n /\ rs \in [1 .. n -> Ranges]
      /\ ip \in Nat
      /\ \A j \in 1 .. n : /\ rs[j].from \in Nat /\ rs[j].to \in Nat /\ rs[j].to \in Low
                           /\ rs[j].from <= rs[j].to
      /\ \A j, k \in 1 .. n : j < k => rs[j].to + 1 < rs[k].from
  BY TidyFacts, LowIsAddr
<1>2. /\ t \in [1 .. n -> Ranges]
      /\ t[i].to = ip /\ t[i].from = rs[i].from
      /\ \A j \in 1 .. n : j # i => t[j] = rs[j]
  BY <1>1 DEF Ranges
<1>3. t \in Seq(Ranges) /\ DOMAIN t = 1 .. n
  BY <1>1, <1>2, FunctionIsSeq
<1>. HIDE DEF n, t
<1>4. \A j \in 1 .. n : t[j].from <= t[j].to
  BY <1>1, <1>2
<1>5. \A j, k \in 1 .. n : j < k => t[j].to + 1 < t[k].from
  <2>1. \A k \in 1 .. n : i < k => ip + 1 < rs[k].from
    <3>. TAKE k \in 1 .. n
    <3>. HAVE i < k
    <3>1. i + 1 \in 1 .. n /\ ip < rs[i + 1].from /\ ip + 1 # rs[i + 1].from
      BY <1>1
    <3>2. k = i + 1 \/ rs[i + 1].to + 1 < rs[k].from
      BY <1>1, <3>1
    <3>3. /\ rs[i + 1].from \in Nat /\ rs[i + 1].to \in Nat /\ rs[i + 1].from <= rs[i + 1].to
          /\ rs[k].from \in Nat
      BY <1>1, <3>1
    <3>4. ip \in Nat
      BY <1>1
    <3>5. ip + 1 < rs[i + 1].from
      BY <3>1, <3>3, <3>4
    <3>6. rs[i + 1].to + 1 < rs[k].from => ip + 1 < rs[k].from
      BY <3>3, <3>4, <3>5
    <3>. QED  BY <3>2, <3>5, <3>6
  <2>. SUFFICES ASSUME NEW j \in 1 .. n, NEW k \in 1 .. n, j < k
                PROVE  t[j].to + 1 < t[k].from
    OBVIOUS
  <2>2. CASE j = i
    <3>1. t[j].to = ip /\ t[k].from = rs[k].from
      BY <1>1, <1>2, <2>2
    <3>. QED  BY <2>1, <2>2, <3>1
  <2>3. CASE j # i
    <3>1. t[j].to = rs[j].to /\ t[k].from = rs[k].from
      BY <1>2, <2>3
    <3>. QED  BY <1>1, <3>1
  <2>. QED  BY <2>2, <2>3
<1>6. \A a \in Addr : IPInRanges(a, t) <=> IPInRanges(a, rs) \/ a = ip
  <2>. TAKE a \in Addr
  <2>1. a \in Nat
    BY LowIsAddr
  <2>2. \A j \in 1 .. n : j # i => (t[j].from <= a /\ a <= t[j].to <=> rs[j].from <= a /\ a <= rs[j].to)
    BY <1>2
  <2>3. t[i].from <= a /\ a <= t[i].to <=> (rs[i].from <= a /\ a <= rs[i].to) \/ a = ip
    BY <1>1, <1>2, <2>1
  <2>4. IPInRanges(a, t) <=> \E j \in 1 .. n : t[j].from <= a /\ a <= t[j].to
    BY <1>3, Zenon DEF IPInRanges
  <2>5. IPInRanges(a, rs) <=> \E j \in 1 .. n : rs[j].from <= a /\ a <= rs[j].to
    BY <1>1, Zenon DEF IPInRanges
  <2>. QED  BY <1>1, <2>2, <2>3, <2>4, <2>5, Zenon
<1>. QED  BY <1>3, <1>4, <1>5, <1>6 DEF Adds, Tidy, t

LEMMA DeleteAtIs ==
    ASSUME NEW S, NEW s \in Seq(S), NEW i \in 1 .. Len(s)
    PROVE  /\ DeleteAt(s, i) \in Seq(S)
           /\ DOMAIN DeleteAt(s, i) = 1 .. (Len(s) - 1)
           /\ \A j \in 1 .. (Len(s) - 1) :
                 DeleteAt(s, i)[j] = IF j < i THEN s[j] ELSE s[j + 1]
<1>. DEFINE a == SubSeq(s, 1, i - 1)
            b == SubSeq(s, i + 1, Len(s))
<1>1. a \in Seq(S) /\ Len(a) = i - 1 /\ \A j \in 1 .. (i - 1) : a[j] = s[j]
  OBVIOUS
<1>2. b \in Seq(S) /\ Len(b) = Len(s) - i /\ \A j \in 1 .. (Len(s) - i) : b[j] = s[i + j]
  OBVIOUS
<1>3. DeleteAt(s, i) = a \o b
  BY DEF DeleteAt
<1>4. Len(s) \in Nat
  OBVIOUS
<1>. HIDE DEF a, b
<1>5. a \o b \in Seq(S) /\ Len(a \o b) = Len(s) - 1
  <2>1. a \o b \in Seq(S) /\ Len(a \o b) = Len(a) + Len(b)
    BY <1>1, <1>2, ConcatIs, Zenon
  <2>2. (i - 1) + (Len(s) - i) = Len(s) - 1
    BY <1>4
  <2>. QED  BY <1>1, <1>2, <2>1, <2>2
<1>6. \A j \in 1 .. (Len(s) - 1) : (a \o b)[j] = IF j < i THEN s[j] ELSE s[j + 1]
  <2>. TAKE j \in 1 .. (Len(s) - 1)
  <2>1. CASE j < i
    <3>1. (a \o b)[j] = a[j]
      BY <1>1, <1>2, <1>4, <2>1
    <3>. QED  BY <1>1, <1>4, <2>1, <3>1
  <2>2. CASE ~(j < i)
    <3>1. (a \o b)[j] = b[j - (i - 1)]
      BY <1>1, <1>2, <1>4, <2>2
    <3>2. j - (i - 1) \in 1 .. (Len(s) - i) /\ i + (j - (i - 1)) = j + 1
      BY <1>4, <2>2
    <3>3. b[j - (i - 1)] = s[i + (j - (i - 1))]
      BY <1>2, <3>2
    <3>. QED  BY <2>2, <3>1, <3>2, <3>3
  <2>. QED  BY <2>1, <2>2
<1>. QED  BY <1>3, <1>4, <1>5, <1>6, SeqIsFunction

LEMMA Connect ==
    ASSUME NEW rs, Tidy(rs), NEW ip \in Low, NEW i \in DOMAIN rs, i + 1 \in DOMAIN rs,
           ip = rs[i].to + 1, ip + 1 = rs[i + 1].from
    PROVE  Adds(ip, rs, DeleteAt([rs EXCEPT ![i + 1].from = rs[i].from], i))
<1>. DEFINE n == Len(rs)
            u == [rs EXCEPT ![i + 1].from = rs[i].from]
            t == DeleteAt(u, i)
<1>1. /\ n \in Nat /\ DOMAIN rs = 1 .. n /\ i \in 1 .. n /\ i + 1 \in 1 .. n
      /\ rs \in [1 .. n -> Ranges] /\ ip \in Nat
      /\ \A j \in 1 .. n : /\ rs[j].from \in Nat /\ rs[j].to \in Nat /\ rs[j].to \in Low
                           /\ rs[j].from \in Low /\ rs[j].from <= rs[j].to
      /\ \A j, k \in 1 .. n : j < k => rs[j].to + 1 < rs[k].from
  BY TidyFacts, LowIsAddr
<1>2. /\ u \in [1 .. n -> Ranges]
      /\ u[i + 1].from = rs[i].from /\ u[i + 1].to = rs[i + 1].to
      /\ \A j \in 1 .. n : j # i + 1 => u[j] = rs[j]
  BY <1>1 DEF Ranges
<1>3. u \in Seq(Ranges) /\ Len(u) = n
  BY <1>1, <1>2, FunctionIsSeq
<1>. HIDE DEF n, u
<1>4. /\ t \in Seq(Ranges) /\ DOMAIN t = 1 .. (n - 1)
      /\ \A j \in 1 .. (n - 1) : t[j] = IF j < i THEN u[j] ELSE u[j + 1]
  <2>1. i \in 1 .. Len(u)
    BY <1>1, <1>3
  <2>2. /\ t \in Seq(Ranges) /\ DOMAIN t = 1 .. (Len(u) - 1)
        /\ \A j \in 1 .. (Len(u) - 1) : t[j] = IF j < i THEN u[j] ELSE u[j + 1]
    BY <1>3, <2>1, DeleteAtIs
  <2>. HIDE DEF t
  <2>. QED  BY <1>3, <2>2, Zenon
<1>. HIDE DEF t
(* the range of t at a place: which one of rs begins it, and which one ends it *)
<1>. DEFINE first(j) == IF j <= i THEN j ELSE j + 1
            last(j) == IF j < i THEN j ELSE j + 1
<1>5. \A j \in 1 .. (n - 1) :
          /\ first(j) \in 1 .. n /\ last(j) \in 1 .. n
          /\ first(j) = last(j) \/ j = i
          /\ t[j].from = rs[first(j)].from /\ t[j].to = rs[last(j)].to
  <2>. TAKE j \in 1 .. (n - 1)
  <2>1. j \in Nat /\ i \in Nat /\ j \in 1 .. n /\ j + 1 \in 1 .. n
    BY <1>1
  <2>2. CASE j < i
    <3>1. t[j] = rs[j] /\ first(j) = j /\ last(j) = j
      BY <1>2, <1>4, <2>1, <2>2
    <3>. QED  BY <2>1, <3>1
  <2>3. CASE j = i
    <3>1. t[j] = u[i + 1] /\ first(j) = i /\ last(j) = i + 1
      BY <1>4, <2>1, <2>3
    <3>. QED  BY <1>2, <2>1, <2>3, <3>1
  <2>4. CASE i < j
    <3>1. t[j] = rs[j + 1] /\ first(j) = j + 1 /\ last(j) = j + 1
      BY <1>2, <1>4, <2>1, <2>4
    <3>. QED  BY <2>1, <3>1
  <2>. QED  BY <2>1, <2>2, <2>3, <2>4
<1>6. \A j \in 1 .. (n - 1) : t[j].from <= t[j].to
  <2>. TAKE j \in 1 .. (n - 1)
  <2>1. CASE first(j) = last(j)
    BY <1>1, <1>5, <2>1
  <2>2. CASE j = i
    <3>1. first(j) = i /\ last(j) = i + 1
      BY <1>1, <2>2
    <3>2. /\ rs[i].from <= rs[i].to /\ rs[i].to + 1 < rs[i + 1].from
          /\ rs[i + 1].from <= rs[i + 1].to
          /\ rs[i].from \in Nat /\ rs[i].to \in Nat
          /\ rs[i + 1].from \in Nat /\ rs[i + 1].to \in Nat
      BY <1>1
    <3>3. rs[i].from <= rs[i + 1].to
      BY <3>2
    <3>. QED  BY <1>5, <3>1, <3>3
  <2>. QED  BY <1>5, <2>1, <2>2
<1>7. \A j, k \in 1 .. (n - 1) : j < k => t[j].to + 1 < t[k].from
  <2>. SUFFICES ASSUME NEW j \in 1 .. (n - 1), NEW k \in 1 .. (n - 1), j < k
                PROVE  t[j].to + 1 < t[k].from
    OBVIOUS
  <2>1. last(j) < first(k)
    BY <1>1
  <2>2. rs[last(j)].to + 1 < rs[first(k)].from
    BY <1>1, <1>5, <2>1
  <2>. QED  BY <1>5, <2>2
<1>8. \A a \in Addr : IPInRanges(a, t) <=> IPInRanges(a, rs) \/ a = ip
  <2>. TAKE a \in Addr
  <2>. DEFINE In(r) == r.from <= a /\ a <= r.to
  <2>1. a \in Nat
    BY LowIsAddr
  <2>0. \A j \in 1 .. (n - 1) : (j < i => t[j] = rs[j]) /\ (i < j => t[j] = rs[j + 1])
    <3>. TAKE j \in 1 .. (n - 1)
    <3>1. j \in 1 .. n /\ j + 1 \in 1 .. n /\ i \in Nat /\ j \in Nat
      BY <1>1
    <3>2. j < i => t[j] = u[j] /\ j # i + 1
      BY <1>4, <3>1
    <3>3. i < j => t[j] = u[j + 1] /\ j + 1 # i + 1
      BY <1>4, <3>1
    <3>. QED  BY <1>2, <3>1, <3>2, <3>3
  <2>2. In(t[i]) <=> In(rs[i]) \/ In(rs[i + 1]) \/ a = ip
    <3>1. t[i].from = rs[i].from /\ t[i].to = rs[i + 1].to
      BY <1>1, <1>5
    <3>2. /\ rs[i].from <= rs[i].to /\ ip = rs[i].to + 1 /\ ip + 1 = rs[i + 1].from
          /\ rs[i + 1].from <= rs[i + 1].to
          /\ rs[i].from \in Nat /\ rs[i].to \in Nat
          /\ rs[i + 1].from \in Nat /\ rs[i + 1].to \in Nat
      BY <1>1
    <3>3. rs[i].from <= a /\ a <= rs[i + 1].to <=>
             \/ rs[i].from <= a /\ a <= rs[i].to
             \/ rs[i + 1].from <= a /\ a <= rs[i + 1].to
             \/ a = ip
      BY <2>1, <3>2
    <3>. QED  BY <3>1, <3>3
  <2>3. IPInRanges(a, t) <=> \E j \in 1 .. (n - 1) : In(t[j])
    BY <1>4, Zenon DEF IPInRanges
  <2>4. IPInRanges(a, rs) <=> \E j \in 1 .. n : In(rs[j])
    BY <1>1, Zenon DEF IPInRanges
  <2>5. i \in 1 .. (n - 1)
    BY <1>1
  <2>. HIDE DEF In
  <2>6. ASSUME NEW j \in 1 .. (n - 1), In(t[j])
        PROVE  a = ip \/ \E k \in 1 .. n : In(rs[k])
    <3>1. CASE j < i
      BY <1>1, <2>0, <2>6, <3>1
    <3>2. CASE j = i
      BY <1>1, <2>2, <2>6, <3>2
    <3>3. CASE i < j
      <4>1. j + 1 \in 1 .. n /\ In(rs[j + 1])
        BY <1>1, <2>0, <2>6, <3>3
      <4>. QED  BY <4>1
    <3>. QED  BY <1>1, <3>1, <3>2, <3>3
  <2>7. ASSUME NEW k \in 1 .. n, In(rs[k])
        PROVE  \E j \in 1 .. (n - 1) : In(t[j])
    <3>1. CASE k < i
      BY <1>1, <2>0, <2>7, <3>1
    <3>2. CASE k = i \/ k = i + 1
      BY <2>2, <2>5, <2>7, <3>2
    <3>3. CASE i + 1 < k
      <4>1. k - 1 \in 1 .. (n - 1) /\ i < k - 1 /\ (k - 1) + 1 = k
        BY <1>1, <3>3
      <4>2. In(t[k - 1])
        BY <2>0, <2>7, <4>1
      <4>. QED  BY <4>1, <4>2
    <3>. QED  BY <1>1, <3>1, <3>2, <3>3
  <2>. QED  BY <2>2, <2>3, <2>4, <2>5, <2>6, <2>7, Zenon
<1>. QED  BY <1>4, <1>6, <1>7, <1>8, Zenon DEF Adds, Tidy, t, u

(* where an address that touches no range belongs *)
LEMMA Gap ==
    ASSUME NEW rs, Tidy(rs), NEW ip \in Low, ~IPInRanges(ip, rs),
           \A j \in DOMAIN rs : ip + 1 # rs[j].from /\ ip # rs[j].to + 1
    PROVE  \E k \in 0 .. Len(rs) :
              /\ \A j \in 1 .. k : rs[j].to + 1 < ip
              /\ \A j \in (k + 1) .. Len(rs) : ip + 1 < rs[j].from
<1>. DEFINE n == Len(rs)
            C == {k \in 0 .. n : \A j \in (k + 1) .. n : ip < rs[j].from}
<1>1. /\ n \in Nat /\ DOMAIN rs = 1 .. n /\ ip \in Nat
      /\ \A j \in 1 .. n : /\ rs[j].from \in Nat /\ rs[j].to \in Nat
                           /\ rs[j].from <= rs[j].to
      /\ \A j, k \in 1 .. n : j < k => rs[j].to + 1 < rs[k].from
  BY TidyFacts, LowIsAddr
<1>2. \A j \in 1 .. n : /\ ip + 1 # rs[j].from /\ ip # rs[j].to + 1
                        /\ ~(rs[j].from <= ip /\ ip <= rs[j].to)
  BY <1>1 DEF IPInRanges
<1>. HIDE DEF n
<1>3. C \in SUBSET Nat /\ n \in C
  BY <1>1
<1>4. PICK k \in C : \A m \in C : k <= m
  BY <1>3, Least
<1>5. \A j \in (k + 1) .. n : ip + 1 < rs[j].from
  <2>. TAKE j \in (k + 1) .. n
  <2>1. j \in 1 .. n /\ ip < rs[j].from
    BY <1>1, <1>4
  <2>2. ip + 1 # rs[j].from /\ rs[j].from \in Nat /\ ip \in Nat
    BY <1>1, <1>2, <2>1
  <2>. QED  BY <2>1, <2>2
<1>6. \A j \in 1 .. k : rs[j].to + 1 < ip
  <2>. SUFFICES ASSUME NEW j \in 1 .. k PROVE rs[j].to + 1 < ip
    OBVIOUS
  <2>1. k \in 1 .. n /\ k - 1 \in 0 .. n /\ j \in 1 .. n /\ ~(k <= k - 1)
    BY <1>1, <1>4
  <2>2. k - 1 \notin C
    BY <1>4, <2>1
  <2>3. PICK m \in ((k - 1) + 1) .. n : ~(ip < rs[m].from)
    BY <2>1, <2>2
  <2>4. m \in 1 .. n /\ m \notin (k + 1) .. n
    BY <1>1, <1>4, <2>1, <2>3
  <2>5. m = k
    BY <1>1, <2>1, <2>3, <2>4
  <2>6. /\ rs[k].from \in Nat /\ rs[k].to \in Nat /\ ip \in Nat
        /\ rs[j].from \in Nat /\ rs[j].to \in Nat
        /\ ~(ip < rs[k].from) /\ ~(rs[k].from <= ip /\ ip <= rs[k].to) /\ ip # rs[k].to + 1
        /\ rs[k].from <= rs[k].to
    BY <1>1, <1>2, <2>1, <2>3, <2>5
  <2>7. rs[k].to + 1 < ip
    BY <2>6
  <2>8. j = k \/ rs[j].to + 1 < rs[k].from
    BY <1>1, <2>1
  <2>9. rs[j].to + 1 < rs[k].from => rs[j].to + 1 < ip
    BY <2>6
  <2>. QED  BY <2>7, <2>8, <2>9
<1>7. k \in 0 .. n
  BY <1>4
<1>. HIDE DEF C
<1>. QED  BY <1>5, <1>6, <1>7, Zenon DEF n

LEMMA Insert ==
    ASSUME NEW rs, Tidy(rs), NEW ip \in Low, ~IPInRanges(ip, rs),
           \A j \in DOMAIN rs : ip + 1 # rs[j].from /\ ip # rs[j].to + 1
    PROVE  Adds(ip, rs, SortRanges(Append(rs, [from |-> ip, to |-> ip])))
<1>. DEFINE n == Len(rs)
            e == [from |-> ip, to |-> ip]
<1>1. PICK k \in 0 .. n : /\ \A j \in 1 .. k : rs[j].to + 1 < ip
                          /\ \A j \in (k + 1) .. n : ip + 1 < rs[j].from
  BY Gap
<1>2. /\ n \in Nat /\ DOMAIN rs = 1 .. n /\ rs \in [1 .. n -> Ranges] /\ ip \in Nat
      /\ rs \in Seq(Ranges)
      /\ \A j \in 1 .. n : /\ rs[j].from \in Nat /\ rs[j].to \in Nat
                           /\ rs[j].from <= rs[j].to
      /\ \A i, j \in 1 .. n : i < j => rs[i].to + 1 < rs[j].from
  BY TidyFacts, LowIsAddr DEF Tidy
<1>3. e \in Ranges /\ e.from = ip /\ e.to = ip
  BY DEF Ranges
<1>. DEFINE t == Inserted(rs, k, e)
<1>. HIDE DEF e
<1>4. SortRanges(Append(rs, e)) = t
  <2>1. \A j \in 1 .. k : rs[j].from < e.from
    <3>. TAKE j \in 1 .. k
    <3>1. j \in 1 .. n
      BY <1>2
    <3>2. /\ rs[j].from \in Nat /\ rs[j].to \in Nat /\ rs[j].from <= rs[j].to /\ ip \in Nat
          /\ rs[j].to + 1 < ip
      BY <1>1, <1>2, <3>1
    <3>3. rs[j].from < ip
      BY <3>2
    <3>. QED  BY <1>3, <3>3
  <2>2. \A j \in (k + 1) .. n : e.from < rs[j].from
    <3>. TAKE j \in (k + 1) .. n
    <3>1. j \in 1 .. n
      BY <1>2
    <3>2. rs[j].from \in Nat /\ ip + 1 < rs[j].from /\ ip \in Nat
      BY <1>1, <1>2, <3>1
    <3>3. ip < rs[j].from
      BY <3>2
    <3>. QED  BY <1>3, <3>3
  <2>. QED  BY <1>2, <1>3, <2>1, <2>2, TidyIncreasing, SortAppend
<1>5. t = [i \in 1 .. (n + 1) |-> IF i <= k THEN rs[i] ELSE IF i = k + 1 THEN e ELSE rs[i - 1]]
  BY Zenon DEF Inserted
<1>. HIDE DEF n, t
<1>6. \A i \in 1 .. (n + 1) :
          \/ i < k + 1 /\ i \in 1 .. k /\ i \in 1 .. n /\ t[i] = rs[i]
          \/ i = k + 1 /\ t[i] = e
          \/ i > k + 1 /\ i - 1 \in (k + 1) .. n /\ i - 1 \in 1 .. n /\ t[i] = rs[i - 1]
  BY <1>2, <1>5
<1>7. t \in Seq(Ranges) /\ DOMAIN t = 1 .. (n + 1)
  <2>1. t \in [1 .. (n + 1) -> Ranges]
    <3>1. \A i \in 1 .. (n + 1) : t[i] \in Ranges
      BY <1>2, <1>3, <1>6
    <3>. QED  BY <1>5, <3>1
  <2>2. n + 1 \in Nat
    BY <1>2
  <2>. QED  BY <2>1, <2>2, FunctionIsSeq
<1>8. \A i \in 1 .. (n + 1) : t[i].from <= t[i].to
  BY <1>2, <1>3, <1>6
<1>9. \A i, j \in 1 .. (n + 1) : i < j => t[i].to + 1 < t[j].from
  <2>. SUFFICES ASSUME NEW i \in 1 .. (n + 1), NEW j \in 1 .. (n + 1), i < j
                PROVE  t[i].to + 1 < t[j].from
    OBVIOUS
  <2>0. i \in Nat /\ j \in Nat /\ k \in Nat /\ n \in Nat
    BY <1>2
  <2>1. CASE i < k + 1 /\ j < k + 1
    <3>1. i # k + 1 /\ j # k + 1 /\ ~(i > k + 1) /\ ~(j > k + 1)
      BY <2>0, <2>1
    <3>2. i \in 1 .. n /\ j \in 1 .. n /\ t[i] = rs[i] /\ t[j] = rs[j]
      BY <1>6, <2>1, <3>1, Zenon
    <3>. QED  BY <1>2, <3>2, Zenon
  <2>2. CASE i < k + 1 /\ j = k + 1
    <3>1. i # k + 1 /\ ~(i > k + 1) /\ ~(j < k + 1) /\ ~(j > k + 1)
      BY <2>0, <2>2
    <3>2. i \in 1 .. k /\ t[i] = rs[i] /\ t[j] = e
      BY <1>6, <2>2, <3>1, Zenon
    <3>. QED  BY <1>1, <1>3, <3>2, Zenon
  <2>3. CASE i < k + 1 /\ j > k + 1
    <3>1. i # k + 1 /\ ~(i > k + 1) /\ ~(j < k + 1) /\ j # k + 1 /\ i < j - 1
      BY <2>0, <2>3
    <3>2. i \in 1 .. n /\ j - 1 \in 1 .. n /\ t[i] = rs[i] /\ t[j] = rs[j - 1]
      BY <1>6, <2>3, <3>1, Zenon
    <3>. QED  BY <1>2, <3>1, <3>2, Zenon
  <2>4. CASE i = k + 1
    <3>1. ~(i < k + 1) /\ ~(i > k + 1) /\ ~(j < k + 1) /\ j # k + 1
      BY <2>0, <2>4
    <3>2. j - 1 \in (k + 1) .. n /\ t[i] = e /\ t[j] = rs[j - 1]
      BY <1>6, <3>1, Zenon
    <3>. QED  BY <1>1, <1>3, <3>2, Zenon
  <2>5. CASE i > k + 1
    <3>1. ~(i < k + 1) /\ i # k + 1 /\ ~(j < k + 1) /\ j # k + 1 /\ i - 1 < j - 1
      BY <2>0, <2>5
    <3>2. /\ i - 1 \in 1 .. n /\ j - 1 \in 1 .. n
          /\ t[i] = rs[i - 1] /\ t[j] = rs[j - 1]
      BY <1>6, <3>1, Zenon
    <3>. QED  BY <1>2, <3>1, <3>2, Zenon
  <2>6. /\ i < k + 1 \/ i = k + 1 \/ i > k + 1
        /\ j < k + 1 \/ j = k + 1 \/ j > k + 1
    BY <2>0
  <2>. QED  BY <2>1, <2>2, <2>3, <2>4, <2>5, <2>6, Zenon
<1>10. \A a \in Addr : IPInRanges(a, t) <=> IPInRanges(a, rs) \/ a = ip
  <2>. TAKE a \in Addr
  <2>. DEFINE In(r) == r.from <= a /\ a <= r.to
  <2>1. a \in Nat
    BY LowIsAddr
  <2>2. In(e) <=> a = ip
    BY <1>2, <1>3, <2>1
  <2>3. IPInRanges(a, t) <=> \E j \in 1 .. (n + 1) : In(t[j])
    BY <1>7, Zenon DEF IPInRanges
  <2>4. IPInRanges(a, rs) <=> \E j \in 1 .. n : In(rs[j])
    BY <1>2, Zenon DEF IPInRanges
  <2>. HIDE DEF In
  <2>5. ASSUME NEW j \in 1 .. (n + 1), In(t[j])
        PROVE  a = ip \/ \E i \in 1 .. n : In(rs[i])
    BY <1>6, <2>2, <2>5
  <2>6. ASSUME NEW j \in 1 .. n, In(rs[j])
        PROVE  \E i \in 1 .. (n + 1) : In(t[i])
    <3>1. CASE j <= k
      <4>1. j \in 1 .. (n + 1) /\ t[j] = rs[j]
        BY <1>2, <1>5, <3>1
      <4>. QED  BY <2>6, <4>1
    <3>2. CASE ~(j <= k)
      <4>1. j + 1 \in 1 .. (n + 1) /\ ~(j + 1 <= k) /\ j + 1 # k + 1 /\ (j + 1) - 1 = j
        BY <1>2, <3>2
      <4>2. t[j + 1] = rs[j]
        BY <1>5, <4>1
      <4>. QED  BY <2>6, <4>1, <4>2
    <3>. QED  BY <3>1, <3>2
  <2>7. ASSUME a = ip PROVE \E i \in 1 .. (n + 1) : In(t[i])
    <3>1. k + 1 \in 1 .. (n + 1) /\ ~(k + 1 <= k)
      BY <1>2
    <3>2. t[k + 1] = e
      BY <1>5, <3>1
    <3>. QED  BY <2>2, <2>7, <3>1, <3>2
  <2>. QED  BY <2>3, <2>4, <2>5, <2>6, <2>7, Zenon
<1>. QED  BY <1>4, <1>7, <1>8, <1>9, <1>10, Zenon DEF Adds, Tidy, e

(* AddIPToRange keeps the list tidy and adds exactly the address *)
LEMMA AddIP ==
    ASSUME NEW rs, Tidy(rs), NEW ip \in Low
    PROVE  Adds(ip, rs, AddIPToRange(ip, rs))
<1>. DEFINE n == Len(rs)
            I == {j \in 1 .. n : Touches(ip, rs[j])}
            i == IF I # {} THEN Min(I) ELSE 0
<1>1. /\ n \in Nat /\ DOMAIN rs = 1 .. n /\ ip \in Nat
      /\ \A j \in 1 .. n : /\ rs[j] \in Ranges /\ rs[j].from \in Nat /\ rs[j].to \in Nat
                           /\ rs[j].from \in Low
  BY TidyFacts, LowIsAddr
<1>2. FirstIndex(rs, LAMBDA r : Touches(ip, r)) = i
  BY Zenon DEF FirstIndex
<1>3. ip # NoIP
  BY <1>1 DEF NoIP
<1>4. AddIPToRange(ip, rs) =
          IF IPInRanges(ip, rs) THEN rs
          ELSE IF i = 0 THEN SortRanges(Append(rs, [from |-> ip, to |-> ip]))
          ELSE IF ip = IPDecrease(rs[i].from) THEN [rs EXCEPT ![i].from = ip]
          ELSE IF i < Len(rs) /\ ip = IPDecrease(rs[i + 1].from)
               THEN DeleteAt([rs EXCEPT ![i + 1].from = rs[i].from], i)
               ELSE [rs EXCEPT ![i].to = ip]
  <2>. HIDE DEF i
  <2>. QED  BY <1>2, <1>3, Zenon DEF AddIPToRange
<1>5. \A j \in 1 .. n : j \in I <=> ip + 1 = rs[j].from \/ ip = rs[j].to + 1
  BY <1>1, TouchesIs
<1>6. \A j \in 1 .. n : ip = IPDecrease(rs[j].from) <=> ip + 1 = rs[j].from
  <2>. TAKE j \in 1 .. n
  <2>1. rs[j].from \in Low /\ rs[j].from \in Nat
    BY <1>1
  <2>2. IPDecrease(rs[j].from) = IF rs[j].from = 0 THEN 2^W - 1 ELSE rs[j].from - 1
    BY <2>1, Decrease
  <2>3. ip # 2^W - 1
    BY Space DEF Low
  <2>. QED  BY <1>1, <2>1, <2>2, <2>3
<1>7. CASE IPInRanges(ip, rs)
  <2>1. AddIPToRange(ip, rs) = rs
    BY <1>4, <1>7, Zenon
  <2>. QED  BY <1>7, <2>1, Zenon DEF Adds
<1>8. CASE ~IPInRanges(ip, rs) /\ I = {}
  <2>1. AddIPToRange(ip, rs) = SortRanges(Append(rs, [from |-> ip, to |-> ip]))
    BY <1>4, <1>8, Zenon
  <2>2. \A j \in DOMAIN rs : ip + 1 # rs[j].from /\ ip # rs[j].to + 1
    BY <1>1, <1>5, <1>8
  <2>. QED  BY <1>8, <2>1, <2>2, Insert
<1>9. CASE ~IPInRanges(ip, rs) /\ I # {}
  <2>1. i \in I /\ \A j \in I : i <= j
    <3>1. I \in SUBSET Nat
      BY <1>1
    <3>. HIDE DEF I
    <3>2. Min(I) \in I /\ \A j \in I : Min(I) <= j
      BY <1>9, <3>1, MinIsLeast
    <3>. QED  BY <1>9, <3>2, Zenon
  <2>. HIDE DEF I, i
  <2>2. i \in 1 .. n /\ i # 0 /\ i \in DOMAIN rs
    BY <1>1, <2>1 DEF I
  <2>3. \A j \in DOMAIN rs : j < i => ip + 1 # rs[j].from /\ ip # rs[j].to + 1
    <3>. SUFFICES ASSUME NEW j \in 1 .. n, j < i
                  PROVE  ip + 1 # rs[j].from /\ ip # rs[j].to + 1
      BY <1>1
    <3>1. j \notin I
      BY <2>1, <2>2
    <3>. QED  BY <1>5, <3>1
  <2>4. CASE ip + 1 = rs[i].from
    <3>1. AddIPToRange(ip, rs) = [rs EXCEPT ![i].from = ip]
      BY <1>4, <1>6, <1>9, <2>2, <2>4, Zenon
    <3>2. \A j \in DOMAIN rs : j < i => ip # rs[j].to + 1
      BY <2>3, Zenon
    <3>3. Adds(ip, rs, [rs EXCEPT ![i].from = ip])
      BY <2>2, <2>4, <3>2, ExtendDown, Zenon
    <3>. QED  BY <3>1, <3>3, Zenon
  <2>5. CASE ip + 1 # rs[i].from /\ i < n /\ ip + 1 = rs[i + 1].from
    <3>1. i + 1 \in 1 .. n /\ i + 1 \in DOMAIN rs
      BY <1>1, <2>2, <2>5
    <3>2. AddIPToRange(ip, rs) = DeleteAt([rs EXCEPT ![i + 1].from = rs[i].from], i)
      BY <1>4, <1>6, <1>9, <2>2, <2>5, <3>1, Zenon
    <3>3. ip = rs[i].to + 1
      BY <1>5, <2>1, <2>2, <2>5
    <3>. QED  BY <2>2, <2>5, <3>1, <3>2, <3>3, Connect
  <2>6. CASE ip + 1 # rs[i].from /\ ~(i < n /\ ip + 1 = rs[i + 1].from)
    <3>1. i < n => i + 1 \in 1 .. n
      BY <1>1, <2>2
    <3>2. AddIPToRange(ip, rs) = [rs EXCEPT ![i].to = ip]
      BY <1>4, <1>6, <1>9, <2>2, <2>6, <3>1, Zenon
    <3>3. ip = rs[i].to + 1
      BY <1>5, <2>1, <2>2, <2>6
    <3>4. i + 1 \in DOMAIN rs => ip + 1 # rs[i + 1].from
      BY <1>1, <2>2, <2>6
    <3>. QED  BY <2>2, <2>6, <3>2, <3>3, <3>4, ExtendUp
  <2>. QED  BY <2>4, <2>5, <2>6
<1>. QED  BY <1>7, <1>8, <1>9

LEMMA AddNoIP == ASSUME NEW rs PROVE AddIPToRange(NoIP, rs) = rs
BY DEF AddIPToRange

(***************************************************************************)
(* RemoveIPFromRange.  The one range that holds the address is replaced by *)
(* what is left of it, and the others are kept.                            *)
(***************************************************************************)
LEMMA OthersStay ==
    ASSUME NEW ip \in Low, NEW r \in Ranges, ~(r.from <= ip /\ ip <= r.to)
    PROVE  RemoveFromOne(ip, r) = <<r>>
<1>1. ip \in Int /\ r.from \in Int /\ r.to \in Int
  BY LowIsAddr, RangeTypes
<1>2. /\ ~(r.from < ip /\ ip < r.to) /\ ~(r.from = ip /\ ip < r.to)
      /\ ~(r.from < ip /\ ip = r.to) /\ ~(r.from = ip /\ ip = r.to)
  BY <1>1
<1>. QED  BY <1>2 DEF RemoveFromOne

(* the pieces of a range without an address *)
Pieces(ip, r, s) ==
    /\ s \in Seq(Ranges) /\ Len(s) \in 0 .. 2
    /\ \A j \in 1 .. Len(s) : /\ r.from <= s[j].from /\ s[j].from <= s[j].to
                              /\ s[j].to <= r.to
    /\ Len(s) = 2 => s[1].to + 1 < s[2].from
    /\ \A a \in Addr : (\E j \in 1 .. Len(s) : s[j].from <= a /\ a <= s[j].to)
                          <=> r.from <= a /\ a <= r.to /\ a # ip

LEMMA OneIsCut ==
    ASSUME NEW ip \in Low, NEW r \in Ranges, r.from <= ip, ip <= r.to
    PROVE  Pieces(ip, r, RemoveFromOne(ip, r))
<1>. DEFINE s == RemoveFromOne(ip, r)
            lower == [from |-> r.from, to |-> ip - 1]
            upper == [from |-> ip + 1, to |-> r.to]
<1>1. ip \in Nat /\ r.from \in Nat /\ r.to \in Nat /\ r.from \in Low /\ r.to \in Low
  BY LowIsAddr, RangeTypes
<1>2. \A a \in Addr : a \in Nat
  BY LowIsAddr
<1>3. r.from < ip => IPDecrease(ip) = ip - 1 /\ lower \in Ranges
  <2>1. r.from < ip => ip # 0 /\ ip - 1 \in Low
    BY <1>1, Space DEF Low
  <2>2. r.from < ip => IPDecrease(ip) = ip - 1
    BY <2>1, Decrease
  <2>. QED  BY <1>1, <2>1, <2>2 DEF Ranges
<1>4. ip < r.to => IPIncrease(ip) = ip + 1 /\ upper \in Ranges
  <2>1. ip < r.to => ip + 1 \in Low
    BY <1>1, Space DEF Low
  <2>. QED  BY <1>1, <2>1, Increase DEF Ranges
<1>5. CASE r.from < ip /\ ip < r.to
  <2>1. s = <<lower, upper>>
    BY <1>1, <1>3, <1>4, <1>5 DEF RemoveFromOne
  <2>2. s \in Seq(Ranges) /\ Len(s) = 2 /\ s[1] = lower /\ s[2] = upper
    <3>. HIDE DEF lower, upper
    <3>. QED  BY <1>3, <1>4, <1>5, <2>1
  <2>. HIDE DEF s
  <2>3. \A j \in 1 .. Len(s) : j = 1 \/ j = 2
    BY <2>2
  <2>4. \A a \in Addr : (\E j \in 1 .. Len(s) : s[j].from <= a /\ a <= s[j].to)
                        <=> (lower.from <= a /\ a <= lower.to) \/ (upper.from <= a /\ a <= upper.to)
    BY <2>2, <2>3
  <2>5. /\ lower.from = r.from /\ lower.to = ip - 1 /\ upper.from = ip + 1 /\ upper.to = r.to
    OBVIOUS
  <2>. HIDE DEF lower, upper
  <2>6. \A a \in Addr : (lower.from <= a /\ a <= lower.to) \/ (upper.from <= a /\ a <= upper.to)
                        <=> r.from <= a /\ a <= r.to /\ a # ip
    BY <1>1, <1>2, <1>5, <2>5
  <2>7. \A j \in 1 .. Len(s) : /\ r.from <= s[j].from /\ s[j].from <= s[j].to
                               /\ s[j].to <= r.to
    BY <1>1, <1>5, <2>2, <2>3, <2>5
  <2>8. s[1].to + 1 < s[2].from
    BY <1>1, <2>2, <2>5
  <2>9. Len(s) \in 0 .. 2
    BY <2>2
  <2>. QED  BY <2>2, <2>4, <2>6, <2>7, <2>8, <2>9, Zenon DEF Pieces, s
<1>6. ASSUME NEW e \in Ranges, s = <<e>>, r.from <= e.from, e.from <= e.to, e.to <= r.to,
             \A a \in Addr : e.from <= a /\ a <= e.to <=> r.from <= a /\ a <= r.to /\ a # ip
      PROVE  Pieces(ip, r, s)
  <2>1. s \in Seq(Ranges) /\ Len(s) = 1 /\ s[1] = e
    BY <1>6
  <2>. HIDE DEF s
  <2>2. \A j \in 1 .. Len(s) : j = 1
    BY <2>1
  <2>3. Len(s) \in 0 .. 2 /\ Len(s) # 2 /\ 1 \in 1 .. Len(s)
    BY <2>1
  <2>. QED  BY <1>6, <2>1, <2>2, <2>3, Zenon DEF Pieces
<1>7. CASE r.from = ip /\ ip < r.to
  <2>1. s = <<upper>>
    BY <1>1, <1>4, <1>7 DEF RemoveFromOne
  <2>2. upper.from = ip + 1 /\ upper.to = r.to
    OBVIOUS
  <2>. HIDE DEF s, upper
  <2>3. \A a \in Addr : upper.from <= a /\ a <= upper.to <=> r.from <= a /\ a <= r.to /\ a # ip
    BY <1>1, <1>2, <1>7, <2>2
  <2>4. r.from <= upper.from /\ upper.from <= upper.to /\ upper.to <= r.to
    BY <1>1, <1>7, <2>2
  <2>5. Pieces(ip, r, s)
    BY <1>4, <1>6, <1>7, <2>1, <2>3, <2>4, Zenon
  <2>. QED  BY <2>5 DEF s
<1>8. CASE r.from < ip /\ ip = r.to
  <2>1. s = <<lower>>
    BY <1>1, <1>3, <1>8 DEF RemoveFromOne
  <2>2. lower.from = r.from /\ lower.to = ip - 1
    OBVIOUS
  <2>. HIDE DEF s, lower
  <2>3. \A a \in Addr : lower.from <= a /\ a <= lower.to <=> r.from <= a /\ a <= r.to /\ a # ip
    BY <1>1, <1>2, <1>8, <2>2
  <2>4. r.from <= lower.from /\ lower.from <= lower.to /\ lower.to <= r.to
    BY <1>1, <1>8, <2>2
  <2>5. Pieces(ip, r, s)
    BY <1>3, <1>6, <1>8, <2>1, <2>3, <2>4, Zenon
  <2>. QED  BY <2>5 DEF s
<1>9. CASE r.from = ip /\ ip = r.to
  <2>1. s = <<>>
    BY <1>1, <1>9 DEF RemoveFromOne
  <2>2. \A a \in Addr : ~(r.from <= a /\ a <= r.to /\ a # ip)
    BY <1>1, <1>2, <1>9
  <2>3. s \in Seq(Ranges) /\ Len(s) = 0 /\ Len(s) \in 0 .. 2 /\ 1 .. Len(s) = {}
    BY <2>1
  <2>. HIDE DEF s
  <2>4. Len(s) # 2
    BY <2>3
  <2>. QED  BY <2>2, <2>3, <2>4, Zenon DEF Pieces, s
<1>. QED  BY <1>1, <1>5, <1>7, <1>8, <1>9

(* a recursive function is what satisfies its equation *)
Leaves(F, ip, rs, n) ==
    /\ n = Len(rs) /\ n \in Nat
    /\ F \in [0 .. n -> Seq(Ranges)] /\ F[0] = <<>>
    /\ \A i \in 1 .. n : F[i] = F[i - 1] \o RemoveFromOne(ip, rs[i])

LEMMA LeftIs ==
    ASSUME NEW ip, NEW rs, NEW n, NEW F, Leaves(F, ip, rs, n), IPInRanges(ip, rs)
    PROVE  RemoveIPFromRange(ip, rs) = SortRanges(F[n])
<1>. DEFINE Is(f) == f = [i \in 0 .. n |-> IF i = 0 THEN <<>>
                                           ELSE f[i - 1] \o RemoveFromOne(ip, rs[i])]
            G == CHOOSE f : Is(f)
<1>0. n = Len(rs) /\ n \in Nat
  BY DEF Leaves
<1>1. Is(F)
  <2>1. \A i \in 0 .. n : i = 0 \/ i \in 1 .. n
    BY <1>0
  <2>2. \A i \in 0 .. n : F[i] = IF i = 0 THEN <<>> ELSE F[i - 1] \o RemoveFromOne(ip, rs[i])
    BY <2>1, Zenon DEF Leaves
  <2>3. F = [i \in 0 .. n |-> F[i]]
    BY DEF Leaves
  <2>. QED  BY <2>2, <2>3, Zenon
<1>2. RemoveIPFromRange(ip, rs) = SortRanges(G[n])
  BY <1>0, Zenon DEF RemoveIPFromRange
<1>3. Is(G)
  <2>. HIDE DEF Is
  <2>. QED  BY <1>1, Zenon
<1>4. \A i \in 0 .. n : /\ F[i] = IF i = 0 THEN <<>> ELSE F[i - 1] \o RemoveFromOne(ip, rs[i])
                        /\ G[i] = IF i = 0 THEN <<>> ELSE G[i - 1] \o RemoveFromOne(ip, rs[i])
  <2>. HIDE DEF G
  <2>. QED  BY <1>1, <1>3, Zenon
<1>. HIDE DEF G, Is
<1>. DEFINE S == {i \in 0 .. n : F[i] = G[i]}
<1>5. 0 \in S
  <2>1. 0 \in 0 .. n
    BY <1>0
  <2>. QED  BY <1>4, <2>1, Zenon
<1>6. \A i \in 1 .. n : i - 1 \in S => i \in S
  <2>. SUFFICES ASSUME NEW i \in 1 .. n, i - 1 \in S PROVE i \in S
    OBVIOUS
  <2>1. i \in 0 .. n /\ i # 0
    BY <1>0
  <2>2. F[i - 1] = G[i - 1]
    BY Zenon
  <2>. QED  BY <1>4, <2>1, <2>2, Zenon
<1>7. \A i \in 0 .. n : i \in S
  <2>. HIDE DEF S
  <2>. QED  BY <1>0, <1>5, <1>6, UpTo
<1>8. n \in 0 .. n
  BY <1>0
<1>. QED  BY <1>2, <1>7, <1>8, Zenon

(* the first i ranges of rs, with the k-th one replaced by its pieces *)
SplicedLen(k, mid, i) == IF i < k THEN i ELSE (i - 1) + Len(mid)
SplicedAt(rs, k, mid, j) ==
    IF j < k THEN rs[j] ELSE IF j < k + Len(mid) THEN mid[(j - k) + 1]
    ELSE rs[(j - Len(mid)) + 1]
Spliced(rs, k, mid, i) ==
    [j \in 1 .. SplicedLen(k, mid, i) |-> SplicedAt(rs, k, mid, j)]

IsSpliced(s, l, rs, k, mid) ==
    /\ l \in Nat /\ s \in Seq(Ranges) /\ Len(s) = l /\ DOMAIN s = 1 .. l
    /\ \A j \in 1 .. l : s[j] = SplicedAt(rs, k, mid, j)

LEMMA SplicedType ==
    ASSUME NEW rs \in Seq(Ranges), NEW k \in 1 .. Len(rs), NEW mid \in Seq(Ranges),
           NEW i \in 0 .. Len(rs)
    PROVE  IsSpliced(Spliced(rs, k, mid, i), SplicedLen(k, mid, i), rs, k, mid)
<1>. DEFINE n == Len(rs)
            m == Len(mid)
            l == SplicedLen(k, mid, i)
            s == Spliced(rs, k, mid, i)
<1>1. n \in Nat /\ m \in Nat /\ rs \in [1 .. n -> Ranges] /\ mid \in [1 .. m -> Ranges]
  BY SeqIsFunction
<1>2. k \in 1 .. n /\ i \in 0 .. n
  OBVIOUS
<1>3. l = IF i < k THEN i ELSE (i - 1) + m
  BY Zenon DEF SplicedLen
<1>4. \A j : SplicedAt(rs, k, mid, j) =
               IF j < k THEN rs[j] ELSE IF j < k + m THEN mid[(j - k) + 1]
               ELSE rs[(j - m) + 1]
  BY Zenon DEF SplicedAt
<1>5. s = [j \in 1 .. l |-> SplicedAt(rs, k, mid, j)]
  BY Zenon DEF Spliced
<1>. HIDE DEF n, m, l, s
<1>6. l \in Nat
  BY <1>1, <1>2, <1>3
<1>7. \A j \in 1 .. l : SplicedAt(rs, k, mid, j) \in Ranges
  <2>. TAKE j \in 1 .. l
  <2>1. CASE j < k
    BY <1>1, <1>2, <1>4, <1>6, <2>1
  <2>2. CASE ~(j < k) /\ j < k + m
    <3>1. (j - k) + 1 \in 1 .. m
      BY <1>1, <1>2, <1>6, <2>2
    <3>. QED  BY <1>1, <1>4, <2>2, <3>1
  <2>3. CASE ~(j < k) /\ ~(j < k + m)
    <3>1. (j - m) + 1 \in 1 .. n
      BY <1>1, <1>2, <1>3, <1>6, <2>3
    <3>. QED  BY <1>1, <1>4, <2>3, <3>1
  <2>. QED  BY <2>1, <2>2, <2>3
<1>8. s \in [1 .. l -> Ranges]
  BY <1>5, <1>7
<1>9. s \in Seq(Ranges) /\ Len(s) = l
  BY <1>6, <1>8, FunctionIsSeq
<1>10. DOMAIN s = 1 .. l /\ \A j \in 1 .. l : s[j] = SplicedAt(rs, k, mid, j)
  BY <1>5, Zenon
<1>. QED  BY <1>6, <1>9, <1>10, Zenon DEF IsSpliced, l, s

LEMMA SplicedStep ==
    ASSUME NEW rs \in Seq(Ranges), NEW k \in 1 .. Len(rs), NEW mid \in Seq(Ranges),
           NEW i \in 1 .. Len(rs)
    PROVE  \A u : u = (IF i = k THEN mid ELSE <<rs[i]>>)
               => Spliced(rs, k, mid, i) = Spliced(rs, k, mid, i - 1) \o u
<1>. DEFINE n == Len(rs)
            m == Len(mid)
            l == SplicedLen(k, mid, i)
            h == SplicedLen(k, mid, i - 1)
            s == Spliced(rs, k, mid, i)
            t == Spliced(rs, k, mid, i - 1)
            u == IF i = k THEN mid ELSE <<rs[i]>>
            d == Len(u)
<1>1. n \in Nat /\ m \in Nat /\ rs \in [1 .. n -> Ranges] /\ mid \in [1 .. m -> Ranges]
  BY SeqIsFunction
<1>2. k \in 1 .. n /\ i \in 1 .. n
  OBVIOUS
<1>3. i \in 0 .. n /\ i - 1 \in 0 .. n
  BY <1>1, <1>2
<1>4. IsSpliced(s, l, rs, k, mid) /\ IsSpliced(t, h, rs, k, mid)
  BY <1>3, SplicedType, Zenon
<1>5. /\ l \in Nat /\ s \in Seq(Ranges) /\ Len(s) = l
      /\ \A j \in 1 .. l : s[j] = SplicedAt(rs, k, mid, j)
      /\ h \in Nat /\ t \in Seq(Ranges) /\ Len(t) = h
      /\ \A j \in 1 .. h : t[j] = SplicedAt(rs, k, mid, j)
  <2>. HIDE DEF l, s, h, t
  <2>. QED  BY <1>4, Zenon DEF IsSpliced
<1>6. u \in Seq(Ranges) /\ d = (IF i = k THEN m ELSE 1) /\ (i # k => u[1] = rs[i])
  <2>1. CASE i = k
    BY <2>1
  <2>2. CASE i # k
    <3>1. rs[i] \in Ranges
      BY <1>1, <1>2
    <3>2. u = <<rs[i]>>
      BY <2>2
    <3>3. \A e \in Ranges : <<e>> \in Seq(Ranges) /\ Len(<<e>>) = 1 /\ <<e>>[1] = e
      OBVIOUS
    <3>. QED  BY <2>2, <3>1, <3>2, <3>3, Zenon
  <2>. QED  BY <2>1, <2>2
<1>7. l = (IF i < k THEN i ELSE (i - 1) + m) /\ h = (IF i - 1 < k THEN i - 1 ELSE ((i - 1) - 1) + m)
  BY Zenon DEF SplicedLen
<1>8. \A j : SplicedAt(rs, k, mid, j) =
               IF j < k THEN rs[j] ELSE IF j < k + m THEN mid[(j - k) + 1]
               ELSE rs[(j - m) + 1]
  BY Zenon DEF SplicedAt
<1>9. i = k => u = mid
  OBVIOUS
<1>. HIDE DEF n, m, l, h, s, t, u, d
<1>10. l = h + d
  BY <1>1, <1>2, <1>6, <1>7
<1>11. /\ t \o u \in Seq(Ranges) /\ Len(t \o u) = h + d
       /\ \A j \in 1 .. h + d : (t \o u)[j] = IF j <= h THEN t[j] ELSE u[j - h]
  BY <1>5, <1>6, ConcatIs, Zenon DEF d
<1>12. \A j \in 1 .. l : s[j] = (t \o u)[j]
  <2>. TAKE j \in 1 .. l
  <2>1. s[j] = SplicedAt(rs, k, mid, j) /\ (t \o u)[j] = IF j <= h THEN t[j] ELSE u[j - h]
    BY <1>5, <1>10, <1>11
  <2>2. CASE j <= h
    <3>1. j \in 1 .. h
      BY <1>5, <2>2
    <3>. QED  BY <1>5, <2>1, <2>2, <3>1, Zenon
  <2>3. CASE ~(j <= h) /\ i = k
    <3>1. h = k - 1 /\ l = (k - 1) + m
      BY <1>1, <1>2, <1>7, <2>3
    <3>2. ~(j < k) /\ j < k + m /\ (j - k) + 1 = j - h
      BY <1>1, <1>2, <1>5, <2>3, <3>1
    <3>3. SplicedAt(rs, k, mid, j) = mid[j - h]
      BY <1>8, <3>2
    <3>. QED  BY <1>9, <2>1, <2>3, <3>3, Zenon
  <2>4. CASE ~(j <= h) /\ i < k
    <3>1. j = i /\ j < k /\ j - h = 1 /\ i # k
      BY <1>1, <1>2, <1>5, <1>7, <2>4
    <3>. QED  BY <1>6, <1>8, <2>1, <2>4, <3>1, Zenon
  <2>5. CASE ~(j <= h) /\ i > k
    <3>1. h = (i - 2) + m /\ j = (i - 1) + m
      BY <1>1, <1>2, <1>5, <1>7, <2>5
    <3>2. ~(j < k) /\ ~(j < k + m) /\ (j - m) + 1 = i /\ j - h = 1 /\ i # k
      BY <1>1, <1>2, <2>5, <3>1
    <3>. QED  BY <1>6, <1>8, <2>1, <2>5, <3>2, Zenon
  <2>6. i = k \/ i < k \/ i > k
    BY <1>1, <1>2
  <2>. QED  BY <2>2, <2>3, <2>4, <2>5, <2>6, Zenon
<1>13. s = t \o u
  <2>1. Len(t \o u) = l
    BY <1>10, <1>11, Zenon
  <2>. QED  BY <1>5, <1>11, <1>12, <2>1, SameSequence, Zenon
<1>. QED  BY <1>13, Zenon DEF s, t, u

Removes(ip, rs, t) ==
    /\ Tidy(t)
    /\ \A a \in Addr : IPInRanges(a, t) <=> IPInRanges(a, rs) /\ a # ip

LEMMA SplicedLeft ==
    ASSUME NEW rs, Tidy(rs), NEW ip \in Low, NEW k \in 1 .. Len(rs),
           rs[k].from <= ip, ip <= rs[k].to
    PROVE  RemoveIPFromRange(ip, rs)
              = SortRanges(Spliced(rs, k, RemoveFromOne(ip, rs[k]), Len(rs)))
<1>. DEFINE n == Len(rs)
            mid == RemoveFromOne(ip, rs[k])
            F == [i \in 0 .. n |-> Spliced(rs, k, mid, i)]
<1>1. /\ n \in Nat /\ DOMAIN rs = 1 .. n /\ rs \in Seq(Ranges)
      /\ \A i \in 1 .. n : /\ rs[i] \in Ranges /\ rs[i].from \in Nat /\ rs[i].to \in Nat
                           /\ rs[i].from <= rs[i].to
      /\ \A i, j \in 1 .. n : i < j => rs[i].to + 1 < rs[j].from
  BY TidyFacts DEF Tidy
<1>2. k \in 1 .. n /\ n # 0 /\ ip \in Nat /\ rs[k].from <= ip /\ ip <= rs[k].to
  BY <1>1, LowIsAddr
<1>3. mid \in Seq(Ranges)
  <2>1. rs[k] \in Ranges
    BY <1>1
  <2>2. Pieces(ip, rs[k], mid)
    BY <1>2, <2>1, OneIsCut
  <2>. QED  BY <2>2, Zenon DEF Pieces
<1>4. \A i \in 1 .. n : i # k => RemoveFromOne(ip, rs[i]) = <<rs[i]>>
  <2>. SUFFICES ASSUME NEW i \in 1 .. n, i # k PROVE RemoveFromOne(ip, rs[i]) = <<rs[i]>>
    OBVIOUS
  <2>1. i < k \/ k < i
    BY <1>1, <1>2
  <2>2. rs[i].to + 1 < rs[k].from \/ rs[k].to + 1 < rs[i].from
    BY <1>1, <1>2, <2>1
  <2>3. /\ rs[i] \in Ranges /\ rs[i].from \in Nat /\ rs[i].to \in Nat
        /\ rs[k].from \in Nat /\ rs[k].to \in Nat
    BY <1>1, <1>2
  <2>4. ~(rs[i].from <= ip /\ ip <= rs[i].to)
    <3>1. \A a, b, c, d, x \in Nat : (b + 1 < c \/ d + 1 < a) /\ c <= x /\ x <= d
                                        => ~(a <= x /\ x <= b)
      OBVIOUS
    <3>. QED  BY <1>2, <2>2, <2>3, <3>1, Zenon
  <2>. QED  BY <2>3, <2>4, OthersStay
<1>5. \A i \in 1 .. n : RemoveFromOne(ip, rs[i]) = IF i = k THEN mid ELSE <<rs[i]>>
  BY <1>4, Zenon
<1>6. rs \in Seq(Ranges) /\ k \in 1 .. Len(rs)
  BY <1>1, <1>2
<1>. HIDE DEF mid
<1>7. \A i \in 1 .. n :
         Spliced(rs, k, mid, i) = Spliced(rs, k, mid, i - 1) \o RemoveFromOne(ip, rs[i])
  <2>. TAKE i \in 1 .. n
  <2>1. \A u : u = (IF i = k THEN mid ELSE <<rs[i]>>)
            => Spliced(rs, k, mid, i) = Spliced(rs, k, mid, i - 1) \o u
    <3>1. i \in 1 .. Len(rs)
      BY <1>1
    <3>. QED  BY <1>3, <1>6, <3>1, SplicedStep
  <2>. QED  BY <1>5, <2>1, Zenon
<1>8. \A i \in 0 .. n : /\ Spliced(rs, k, mid, i) \in Seq(Ranges)
                        /\ Len(Spliced(rs, k, mid, i)) = SplicedLen(k, mid, i)
  <2>. TAKE i \in 0 .. n
  <2>1. i \in 0 .. Len(rs)
    BY <1>1
  <2>2. IsSpliced(Spliced(rs, k, mid, i), SplicedLen(k, mid, i), rs, k, mid)
    BY <1>3, <1>6, <2>1, SplicedType, Zenon
  <2>. QED  BY <2>2, Zenon DEF IsSpliced
<1>9. 0 \in 0 .. n /\ n \in 0 .. n /\ \A i \in 1 .. n : i \in 0 .. n /\ i - 1 \in 0 .. n
  BY <1>1
<1>10. Spliced(rs, k, mid, 0) = <<>>
  <2>1. SplicedLen(k, mid, 0) = 0
    BY <1>1, <1>2 DEF SplicedLen
  <2>2. Spliced(rs, k, mid, 0) \in Seq(Ranges) /\ Len(Spliced(rs, k, mid, 0)) = 0
    BY <1>8, <1>9, <2>1, Zenon
  <2>. QED  BY <2>2
<1>11. /\ F \in [0 .. n -> Seq(Ranges)] /\ F[0] = <<>> /\ F[n] = Spliced(rs, k, mid, n)
       /\ \A i \in 1 .. n : F[i] = F[i - 1] \o RemoveFromOne(ip, rs[i])
  <2>1. \A i \in 0 .. n : F[i] = Spliced(rs, k, mid, i)
    BY Zenon
  <2>2. F \in [0 .. n -> Seq(Ranges)]
    BY <1>8, Zenon
  <2>. HIDE DEF F
  <2>. QED  BY <1>7, <1>9, <1>10, <2>1, <2>2, Zenon
<1>12. Leaves(F, ip, rs, n)
  <2>. HIDE DEF F
  <2>. QED  BY <1>1, <1>11, Zenon DEF Leaves
<1>13. IPInRanges(ip, rs)
  BY <1>1, <1>2, Zenon DEF IPInRanges
<1>14. RemoveIPFromRange(ip, rs) = SortRanges(F[n])
  <2>. HIDE DEF F, n
  <2>. QED  BY <1>12, <1>13, LeftIs, Zenon
<1>. QED  BY <1>11, <1>14, Zenon DEF n, mid

(* the position in rs that the j-th range of the spliced list comes from, when m
   ranges are in the place of the k-th *)
Source(k, m, j) == IF j < k THEN j ELSE IF j < k + m THEN k ELSE (j - m) + 1

Sources(n, k, m, l) ==
    /\ \A j \in 1 .. l : Source(k, m, j) \in 1 .. n
    /\ \A j \in 1 .. l : j < k => Source(k, m, j) = j /\ j # k
    /\ \A j \in 1 .. l : ~(j < k) /\ j < k + m
                            => Source(k, m, j) = k /\ (j - k) + 1 \in 1 .. m
    /\ \A j \in 1 .. l : ~(j < k) /\ ~(j < k + m)
                            => Source(k, m, j) = (j - m) + 1 /\ (j - m) + 1 # k
    /\ \A i, j \in 1 .. l : i < j =>
          Source(k, m, i) < Source(k, m, j) \/ (Source(k, m, i) = k /\ Source(k, m, j) = k)
    /\ \A i \in 1 .. n : i # k => \E j \in 1 .. l : Source(k, m, j) = i
    /\ \A i \in 1 .. m : /\ (i + k) - 1 \in 1 .. l /\ Source(k, m, (i + k) - 1) = k
                         /\ (((i + k) - 1) - k) + 1 = i

LEMMA SourceIs ==
    ASSUME NEW n \in Nat, NEW k \in 1 .. n, NEW m \in Nat, NEW l, l = (n - 1) + m
    PROVE  Sources(n, k, m, l)
<1>1. \A j \in 1 .. l : Source(k, m, j) \in 1 .. n
  BY DEF Source
<1>2. /\ \A j \in 1 .. l : j < k => Source(k, m, j) = j /\ j # k
      /\ \A j \in 1 .. l : ~(j < k) /\ j < k + m
                              => Source(k, m, j) = k /\ (j - k) + 1 \in 1 .. m
      /\ \A j \in 1 .. l : ~(j < k) /\ ~(j < k + m)
                              => Source(k, m, j) = (j - m) + 1 /\ (j - m) + 1 # k
  BY DEF Source
<1>3. \A i, j \in 1 .. l : i < j =>
         Source(k, m, i) < Source(k, m, j) \/ (Source(k, m, i) = k /\ Source(k, m, j) = k)
  BY DEF Source
<1>4. ASSUME NEW i \in 1 .. n, i # k PROVE \E j \in 1 .. l : Source(k, m, j) = i
  <2>1. CASE i < k
    <3>1. i \in 1 .. l /\ Source(k, m, i) = i
      BY <2>1 DEF Source
    <3>. QED  BY <3>1
  <2>2. CASE k < i
    <3>1. (i + m) - 1 \in 1 .. l /\ Source(k, m, (i + m) - 1) = i
      BY <2>2 DEF Source
    <3>. QED  BY <3>1
  <2>3. i < k \/ k < i
    BY <1>4
  <2>. QED  BY <2>1, <2>2, <2>3
<1>5. \A i \in 1 .. m : /\ (i + k) - 1 \in 1 .. l /\ Source(k, m, (i + k) - 1) = k
                        /\ (((i + k) - 1) - k) + 1 = i
  BY DEF Source
<1>. QED  BY <1>1, <1>2, <1>3, <1>4, <1>5, Zenon DEF Sources

LEMMA SplicedRemoves ==
    ASSUME NEW rs, Tidy(rs), NEW ip \in Low, NEW k \in 1 .. Len(rs),
           rs[k].from <= ip, ip <= rs[k].to,
           NEW mid, Pieces(ip, rs[k], mid)
    PROVE  Removes(ip, rs, Spliced(rs, k, mid, Len(rs)))
<1>. DEFINE n == Len(rs)
            m == Len(mid)
            l == SplicedLen(k, mid, n)
            t == Spliced(rs, k, mid, n)
            of(j) == Source(k, m, j)
<1>1. /\ n \in Nat /\ DOMAIN rs = 1 .. n /\ rs \in Seq(Ranges)
      /\ \A i \in 1 .. n : /\ rs[i] \in Ranges /\ rs[i].from \in Nat /\ rs[i].to \in Nat
                           /\ rs[i].from <= rs[i].to
      /\ \A i, j \in 1 .. n : i < j => rs[i].to + 1 < rs[j].from
  BY TidyFacts DEF Tidy
<1>2. k \in 1 .. n /\ n \in 0 .. n /\ ip \in Nat /\ rs[k].from <= ip /\ ip <= rs[k].to
  BY <1>1, LowIsAddr
<1>3. /\ mid \in Seq(Ranges) /\ m \in 0 .. 2
      /\ \A j \in 1 .. m : /\ rs[k].from <= mid[j].from /\ mid[j].from <= mid[j].to
                           /\ mid[j].to <= rs[k].to
      /\ m = 2 => mid[1].to + 1 < mid[2].from
      /\ \A a \in Addr : (\E j \in 1 .. m : mid[j].from <= a /\ a <= mid[j].to)
                            <=> rs[k].from <= a /\ a <= rs[k].to /\ a # ip
  BY Zenon DEF Pieces
<1>4. \A j \in 1 .. m : mid[j] \in Ranges /\ mid[j].from \in Nat /\ mid[j].to \in Nat
  <2>1. \A j \in 1 .. m : mid[j] \in Ranges
    BY <1>3
  <2>. QED  BY <2>1, RangeTypes, Zenon
<1>5. /\ l \in Nat /\ t \in Seq(Ranges) /\ DOMAIN t = 1 .. l
      /\ \A j \in 1 .. l : t[j] = SplicedAt(rs, k, mid, j)
  <2>1. /\ rs \in Seq(Ranges) /\ k \in 1 .. Len(rs) /\ mid \in Seq(Ranges)
        /\ Len(rs) \in 0 .. Len(rs)
    BY <1>1, <1>2, <1>3, Zenon
  <2>2. IsSpliced(t, l, rs, k, mid)
    BY <2>1, SplicedType, Zenon
  <2>. HIDE DEF t, l
  <2>. QED  BY <2>2, Zenon DEF IsSpliced
<1>6. l = (n - 1) + m
  <2>1. n \in Nat /\ k \in 1 .. n
    BY <1>1, <1>2, Zenon
  <2>2. l = IF n < k THEN n ELSE (n - 1) + m
    BY Zenon DEF SplicedLen
  <2>. HIDE DEF n, l, m
  <2>3. ~(n < k)
    BY <2>1
  <2>. QED  BY <2>2, <2>3, Zenon
<1>7. \A j : SplicedAt(rs, k, mid, j) =
               IF j < k THEN rs[j] ELSE IF j < k + m THEN mid[(j - k) + 1]
               ELSE rs[(j - m) + 1]
  BY Zenon DEF SplicedAt
<1>. HIDE DEF n, m, l, t
<1>8. m \in Nat /\ n \in Nat /\ k \in 1 .. n
  <2>1. m \in 0 .. 2
    BY <1>3, Zenon
  <2>2. m \in Nat
    BY <2>1
  <2>. QED  BY <1>1, <1>2, <2>2, Zenon
<1>0. Sources(n, k, m, l)
  BY <1>6, <1>8, SourceIs, Zenon
(* each range of t is one of rs, or a piece of the k-th *)
<1>9. \A j \in 1 .. l : /\ of(j) \in 1 .. n
                        /\ of(j) # k => t[j] = rs[of(j)]
                        /\ of(j) = k => (j - k) + 1 \in 1 .. m /\ t[j] = mid[(j - k) + 1]
  <2>. TAKE j \in 1 .. l
  <2>1. t[j] = IF j < k THEN rs[j] ELSE IF j < k + m THEN mid[(j - k) + 1]
               ELSE rs[(j - m) + 1]
    BY <1>5, <1>7, Zenon
  <2>2. /\ of(j) \in 1 .. n
        /\ j < k => of(j) = j /\ j # k
        /\ ~(j < k) /\ j < k + m => of(j) = k /\ (j - k) + 1 \in 1 .. m
        /\ ~(j < k) /\ ~(j < k + m) => of(j) = (j - m) + 1 /\ (j - m) + 1 # k
    BY <1>0, Zenon DEF Sources
  <2>. HIDE DEF of
  <2>3. CASE j < k
    BY <2>1, <2>2, <2>3, Zenon
  <2>4. CASE ~(j < k) /\ j < k + m
    BY <2>1, <2>2, <2>4, Zenon
  <2>5. CASE ~(j < k) /\ ~(j < k + m)
    BY <2>1, <2>2, <2>5, Zenon
  <2>. QED  BY <2>3, <2>4, <2>5, Zenon
<1>10. \A i, j \in 1 .. l : i < j => of(i) < of(j) \/ (of(i) = k /\ of(j) = k)
  BY <1>0, Zenon DEF Sources
<1>11. \A i \in 1 .. n : i # k => \E j \in 1 .. l : of(j) = i
  BY <1>0, Zenon DEF Sources
<1>12. \A i \in 1 .. m : (i + k) - 1 \in 1 .. l /\ of((i + k) - 1) = k /\ (((i + k) - 1) - k) + 1 = i
  BY <1>0, Zenon DEF Sources
<1>. HIDE DEF of
<1>13. \A j \in 1 .. l : /\ t[j].from \in Nat /\ t[j].to \in Nat /\ t[j].from <= t[j].to
                         /\ rs[of(j)].from <= t[j].from /\ t[j].to <= rs[of(j)].to
  <2>. TAKE j \in 1 .. l
  <2>1. CASE of(j) = k
    <3>. DEFINE p == (j - k) + 1
    <3>1. p \in 1 .. m /\ t[j] = mid[p]
      BY <1>9, <2>1, Zenon
    <3>. HIDE DEF p
    <3>. QED  BY <1>3, <1>4, <2>1, <3>1, Zenon
  <2>2. CASE of(j) # k
    <3>1. of(j) \in 1 .. n /\ t[j] = rs[of(j)]
      BY <1>9, <2>2, Zenon
    <3>2. \A x \in Nat : x <= x
      OBVIOUS
    <3>. QED  BY <1>1, <3>1, <3>2, Zenon
  <2>. QED  BY <2>1, <2>2
<1>14. \A i, j \in 1 .. l : i < j => t[i].to + 1 < t[j].from
  <2>. SUFFICES ASSUME NEW i \in 1 .. l, NEW j \in 1 .. l, i < j
                PROVE  t[i].to + 1 < t[j].from
    OBVIOUS
  <2>1. CASE of(i) < of(j)
    <3>1. rs[of(i)].to + 1 < rs[of(j)].from /\ rs[of(i)].to \in Nat /\ rs[of(j)].from \in Nat
      BY <1>1, <1>9, <2>1, Zenon
    <3>2. /\ t[i].to \in Nat /\ t[j].from \in Nat
          /\ t[i].to <= rs[of(i)].to /\ rs[of(j)].from <= t[j].from
      BY <1>13, Zenon
    <3>3. \A a, b, c, d \in Nat : a + 1 < b /\ c <= a /\ b <= d => c + 1 < d
      OBVIOUS
    <3>. QED  BY <3>1, <3>2, <3>3, Zenon
  <2>2. CASE of(i) = k /\ of(j) = k
    <3>1. (i - k) + 1 \in 1 .. m /\ (j - k) + 1 \in 1 .. m /\ t[i] = mid[(i - k) + 1]
          /\ t[j] = mid[(j - k) + 1]
      BY <1>9, <2>2, Zenon
    <3>2. (i - k) + 1 = 1 /\ (j - k) + 1 = 2 /\ m = 2
      <4>0. l \in Nat /\ n \in Nat /\ k \in 1 .. n
        BY <1>1, <1>2, <1>5, Zenon
      <4>. HIDE DEF l, n, m
      <4>1. i \in Nat /\ j \in Nat /\ k \in Nat /\ m \in 0 .. 2 /\ i < j
        <5>1. i \in Nat /\ j \in Nat /\ k \in Nat
          BY <4>0, SMT
        <5>. QED  BY <1>3, <5>1, Zenon
      <4>2. \A x, y, z \in Nat, d \in 0 .. 2 :
               x < y /\ (x - z) + 1 \in 1 .. d /\ (y - z) + 1 \in 1 .. d
                  => (x - z) + 1 = 1 /\ (y - z) + 1 = 2 /\ d = 2
        OBVIOUS
      <4>. QED  BY <3>1, <4>1, <4>2, Zenon
    <3>. QED  BY <1>3, <3>1, <3>2, Zenon
  <2>. QED  BY <1>10, <2>1, <2>2
<1>15. \A a \in Addr : IPInRanges(a, t) <=> IPInRanges(a, rs) /\ a # ip
  <2>. TAKE a \in Addr
  <2>. DEFINE In(r) == r.from <= a /\ a <= r.to
  <2>1. a \in Nat
    BY LowIsAddr
  <2>2. (\E j \in 1 .. m : In(mid[j])) <=> In(rs[k]) /\ a # ip
    BY <1>3, Zenon
  <2>3. IPInRanges(a, t) <=> \E j \in 1 .. l : In(t[j])
    BY <1>5, Zenon DEF IPInRanges
  <2>4. IPInRanges(a, rs) <=> \E j \in 1 .. n : In(rs[j])
    BY <1>1, Zenon DEF IPInRanges
  <2>5. \A i \in 1 .. n : i # k /\ In(rs[i]) => a # ip
    <3>. SUFFICES ASSUME NEW i \in 1 .. n, i # k, In(rs[i]), a = ip PROVE FALSE
      OBVIOUS
    <3>1. i < k \/ k < i
      BY <1>8
    <3>2. rs[i].to + 1 < rs[k].from \/ rs[k].to + 1 < rs[i].from
      BY <1>1, <1>2, <3>1, Zenon
    <3>3. /\ rs[i].from \in Nat /\ rs[i].to \in Nat
          /\ rs[k].from \in Nat /\ rs[k].to \in Nat
      BY <1>1, <1>2, Zenon
    <3>4. \A f, g, c, d, x \in Nat : (g + 1 < c \/ d + 1 < f) /\ c <= x /\ x <= d
                                        => ~(f <= x /\ x <= g)
      OBVIOUS
    <3>. QED  BY <1>2, <3>2, <3>3, <3>4, Zenon
  <2>. HIDE DEF In
  <2>6. ASSUME NEW j \in 1 .. l, In(t[j])
        PROVE  (\E i \in 1 .. n : In(rs[i])) /\ a # ip
    <3>1. CASE of(j) = k
      <4>. DEFINE p == (j - k) + 1
      <4>1. p \in 1 .. m /\ t[j] = mid[p]
        BY <1>9, <3>1, Zenon
      <4>. HIDE DEF p
      <4>. QED  BY <1>2, <2>2, <2>6, <4>1, Zenon
    <3>2. CASE of(j) # k
      BY <1>9, <2>5, <2>6, <3>2, Zenon
    <3>. QED  BY <3>1, <3>2
  <2>7. ASSUME NEW i \in 1 .. n, In(rs[i]), a # ip
        PROVE  \E j \in 1 .. l : In(t[j])
    <3>1. CASE i = k
      <4>1. PICK p \in 1 .. m : In(mid[p])
        BY <2>2, <2>7, <3>1, Zenon
      <4>2. (p + k) - 1 \in 1 .. l /\ t[(p + k) - 1] = mid[p]
        BY <1>9, <1>12, Zenon
      <4>. QED  BY <4>1, <4>2, Zenon
    <3>2. CASE i # k
      <4>1. PICK j \in 1 .. l : of(j) = i
        BY <1>11, <3>2, Zenon
      <4>2. t[j] = rs[i]
        BY <1>9, <3>2, <4>1, Zenon
      <4>. QED  BY <2>7, <4>2, Zenon
    <3>. QED  BY <3>1, <3>2
  <2>. QED  BY <2>3, <2>4, <2>6, <2>7, Zenon
<1>16. Tidy(t)
  BY <1>5, <1>13, <1>14, Zenon DEF Tidy
<1>. QED  BY <1>15, <1>16, Zenon DEF Removes, t, n

(* RemoveIPFromRange keeps the list tidy and removes exactly the address *)
LEMMA RemoveIP ==
    ASSUME NEW rs, Tidy(rs), NEW ip \in Low
    PROVE  Removes(ip, rs, RemoveIPFromRange(ip, rs))
<1>1. CASE ~IPInRanges(ip, rs)
  <2>1. RemoveIPFromRange(ip, rs) = rs
    BY <1>1, Zenon DEF RemoveIPFromRange
  <2>. QED  BY <1>1, <2>1, Zenon DEF Removes
<1>2. CASE IPInRanges(ip, rs)
  <2>1. DOMAIN rs = 1 .. Len(rs) /\ \A i \in 1 .. Len(rs) : rs[i] \in Ranges
    BY TidyFacts, Zenon
  <2>2. PICK k \in 1 .. Len(rs) : rs[k].from <= ip /\ ip <= rs[k].to
    BY <1>2, <2>1, Zenon DEF IPInRanges
  <2>. DEFINE mid == RemoveFromOne(ip, rs[k])
              t == Spliced(rs, k, mid, Len(rs))
  <2>3. RemoveIPFromRange(ip, rs) = SortRanges(t)
    BY <2>2, SplicedLeft, Zenon
  <2>4. Pieces(ip, rs[k], mid)
    BY <2>1, <2>2, OneIsCut, Zenon
  <2>. HIDE DEF mid
  <2>5. Removes(ip, rs, t)
    BY <2>2, <2>4, SplicedRemoves, Zenon
  <2>. HIDE DEF t
  <2>6. SortRanges(t) = t
    <3>1. Tidy(t)
      BY <2>5, Zenon DEF Removes
    <3>. QED  BY <3>1, TidyIncreasing, SortSorted, Zenon DEF Tidy
  <2>7. RemoveIPFromRange(ip, rs) = t
    BY <2>3, <2>6, Zenon
  <2>. QED  BY <2>5, <2>7, Zenon
<1>. QED  BY <1>1, <1>2

(***************************************************************************)
(* Networks.  The addresses of a network are an interval of the space.     *)
(***************************************************************************)
LEMMA DivisionIsUnique ==
    ASSUME NEW m \in Nat, m >= 1, NEW a \in Nat, NEW q \in Int, NEW r \in 0 .. (m - 1),
           a = m * q + r
    PROVE  a % m = r
OBVIOUS

LEMMA Division ==
    ASSUME NEW m \in Nat, m >= 1, NEW a \in Nat
    PROVE  /\ a % m \in 0 .. (m - 1) /\ a \div m \in Int /\ m * (a \div m) \in Int
           /\ a = m * (a \div m) + (a % m)
OBVIOUS

LEMMA MaskInterval ==
    ASSUME NEW m \in Nat, m >= 1, NEW x \in Nat, NEW a \in Nat
    PROVE  a - (a % m) = x - (x % m)
              <=> x - (x % m) <= a /\ a <= (x - (x % m)) + (m - 1)
<1>. DEFINE q == x \div m
            r == x % m
            p == a \div m
            s == a % m
            b == m * q
<1>1. r \in 0 .. (m - 1) /\ q \in Int /\ b \in Int /\ x = b + r
  BY Division
<1>2. s \in 0 .. (m - 1)
  BY Division
<1>3. \A t \in 0 .. (m - 1) : a = m * q + t => s = t
  <2>. HIDE DEF q
  <2>. QED  BY <1>1, DivisionIsUnique
<1>. HIDE DEF r, s, p
<1>4. x - r = b
  <2>. HIDE DEF b
  <2>. QED  BY <1>1
<1>5. a - s = b => b <= a /\ a <= b + (m - 1)
  <2>. HIDE DEF b
  <2>. QED  BY <1>1, <1>2
<1>6. ASSUME b <= a, a <= b + (m - 1) PROVE a - s = b
  <2>1. \A t \in 0 .. (m - 1) : a = b + t => s = t
    BY <1>3, Zenon
  <2>. HIDE DEF b
  <2>2. a - b \in 0 .. (m - 1) /\ a = b + (a - b)
    BY <1>1, <1>6
  <2>3. s = a - b
    BY <2>1, <2>2, Zenon
  <2>. QED  BY <1>1, <2>3
<1>7. a - s = x - r <=> x - r <= a /\ a <= (x - r) + (m - 1)
  <2>. HIDE DEF b
  <2>. QED  BY <1>4, <1>5, <1>6, Zenon
<1>. QED  BY <1>7, Zenon DEF r, s

LEMMA NetworkIs ==
    ASSUME NEW c \in CIDRs
    PROVE  /\ Network(c) \in Low /\ Broadcast(c) \in Low /\ Network(c) <= Broadcast(c)
           /\ \A a \in Nat : IPInNetwork(a, c) <=> Network(c) <= a /\ a <= Broadcast(c)
<1>. DEFINE m == 2^c.bits
            x == c.ip
            N == x - (x % m)
            B == N + (m - 1)
<1>1. c.ip \in Addr /\ c.bits \in 0 .. W /\ Broadcast(c) < 2^W - 1
  BY SubnetAssumption
<1>2. Network(c) = N /\ Broadcast(c) = B
  BY Zenon DEF Network, Broadcast, Mask
<1>3. m \in Nat /\ m >= 1
  <2>1. m \in Nat \ {0}
    BY <1>1, PowerPositive
  <2>. QED  BY <2>1
<1>4. x \in Nat
  BY <1>1, LowIsAddr
<1>5. \A a \in Nat : IPInNetwork(a, c) <=> a - (a % m) = N
  BY <1>2, Zenon DEF IPInNetwork, Mask
<1>. HIDE DEF m, x
<1>6. \A a \in Nat : a - (a % m) = N <=> N <= a /\ a <= B
  BY <1>3, <1>4, MaskInterval
<1>7. N \in Nat /\ N <= B /\ B \in Nat
  <2>1. x % m \in 0 .. (m - 1)
    BY <1>3, <1>4, Division
  <2>2. x % m <= x
    BY <1>3, <1>4
  <2>. QED  BY <1>3, <1>4, <2>1, <2>2
<1>. HIDE DEF N, B
<1>8. B < 2^W - 1
  BY <1>1, <1>2, Zenon
<1>9. N \in Low /\ B \in Low
  BY <1>7, <1>8, Space DEF Low
<1>. QED  BY <1>2, <1>5, <1>6, <1>7, <1>9, Zenon

(***************************************************************************)
(* The recount of onSubnetUpdate.  A recursive function exists because     *)
(* each of its beginnings can be extended by one more step.                *)
(***************************************************************************)
Counts(f, ips, n) ==
    f = [i \in 0 .. n |-> IF i = 0 THEN <<>> ELSE AddIPToRange(ips[i], f[i - 1])]

LEMMA CountsAt ==
    ASSUME NEW f, NEW ips, NEW n \in Nat, Counts(f, ips, n)
    PROVE  f[0] = <<>> /\ \A i \in 1 .. n : f[i] = AddIPToRange(ips[i], f[i - 1])
<1>1. \A i \in 0 .. n : f[i] = IF i = 0 THEN <<>> ELSE AddIPToRange(ips[i], f[i - 1])
  BY Zenon DEF Counts
<1>2. 0 \in 0 .. n /\ \A i \in 1 .. n : i \in 0 .. n /\ i # 0
  OBVIOUS
<1>. QED  BY <1>1, <1>2, Zenon

LEMMA CountsStep ==
    ASSUME NEW ips, NEW n \in Nat, n # 0, NEW f, Counts(f, ips, n - 1)
    PROVE  \E g : Counts(g, ips, n)
<1>. DEFINE last == AddIPToRange(ips[n], f[n - 1])
            g == [i \in 0 .. n |-> IF i = n THEN last ELSE f[i]]
<1>1. n - 1 \in Nat
  OBVIOUS
<1>2. f[0] = <<>> /\ \A i \in 1 .. (n - 1) : f[i] = AddIPToRange(ips[i], f[i - 1])
  BY <1>1, CountsAt
<1>3. \A i \in 0 .. n : g[i] = IF i = 0 THEN <<>> ELSE AddIPToRange(ips[i], g[i - 1])
  <2>. TAKE i \in 0 .. n
  <2>. HIDE DEF last
  <2>1. CASE i = 0
    BY <1>2, <2>1
  <2>2. CASE i # 0 /\ i # n
    <3>1. i \in 1 .. (n - 1) /\ i - 1 \in 0 .. n /\ i - 1 # n
      BY <2>2
    <3>2. g[i] = f[i] /\ g[i - 1] = f[i - 1]
      BY <2>2, <3>1
    <3>. HIDE DEF g
    <3>. QED  BY <1>2, <2>2, <3>1, <3>2, Zenon
  <2>3. CASE i = n
    <3>1. n - 1 \in 0 .. n /\ n - 1 # n /\ n \in 0 .. n
      OBVIOUS
    <3>2. g[n] = last /\ g[n - 1] = f[n - 1]
      BY <3>1
    <3>. HIDE DEF g
    <3>. QED  BY <2>3, <3>2, Zenon DEF last
  <2>. QED  BY <2>1, <2>2, <2>3
<1>4. g = [i \in 0 .. n |-> g[i]]
  <2>. HIDE DEF last
  <2>. QED  OBVIOUS
<1>. HIDE DEF g
<1>5. [i \in 0 .. n |-> g[i]]
        = [i \in 0 .. n |-> IF i = 0 THEN <<>> ELSE AddIPToRange(ips[i], g[i - 1])]
  BY <1>3, Zenon
<1>6. Counts(g, ips, n)
  BY <1>4, <1>5, Zenon DEF Counts
<1>. QED  BY <1>6, Zenon

LEMMA CountsExists ==
    ASSUME NEW ips, NEW n \in Nat
    PROVE  \E f : Counts(f, ips, n)
<1>. DEFINE S == {i \in 0 .. n : \E f : Counts(f, ips, i)}
<1>1. 0 \in S
  <2>. DEFINE f == [i \in 0 .. 0 |-> <<>>]
  <2>1. \A i \in 0 .. 0 : i = 0
    OBVIOUS
  <2>2. f = [i \in 0 .. 0 |-> IF i = 0 THEN <<>> ELSE AddIPToRange(ips[i], f[i - 1])]
    BY <2>1, Zenon
  <2>3. Counts(f, ips, 0)
    BY <2>2, Zenon DEF Counts
  <2>4. 0 \in 0 .. n
    OBVIOUS
  <2>. QED  BY <2>3, <2>4, Zenon
<1>2. \A i \in 1 .. n : i - 1 \in S => i \in S
  <2>. SUFFICES ASSUME NEW i \in 1 .. n, i - 1 \in S PROVE i \in S
    OBVIOUS
  <2>1. i \in Nat /\ i # 0 /\ i \in 0 .. n
    OBVIOUS
  <2>2. PICK f : Counts(f, ips, i - 1)
    BY Zenon
  <2>3. \E g : Counts(g, ips, i)
    BY <2>1, <2>2, CountsStep, Zenon
  <2>. QED  BY <2>1, <2>3, Zenon
<1>3. n \in S
  <2>. HIDE DEF S
  <2>1. \A i \in 0 .. n : i \in S
    BY <1>1, <1>2, UpTo
  <2>. QED  BY <2>1
<1>. QED  BY <1>3, Zenon

(* the informer lists every address of a set *)
LEMMA ListsAll ==
    ASSUME NEW O, IsFiniteSet(O), NEW ips \in Orders(O)
    PROVE  /\ Len(ips) \in Nat /\ \A i \in 1 .. Len(ips) : ips[i] \in O
           /\ \A a \in O : \E i \in 1 .. Len(ips) : ips[i] = a
<1>. DEFINE n == Cardinality(O)
            D == 1 .. n
<1>1. n \in Nat
  BY FS_CardinalityType
<1>2. ips \in [D -> O] /\ IsInjective(ips)
  BY Zenon DEF Orders
<1>3. Len(ips) = n
  <2>. HIDE DEF n
  <2>. QED  BY <1>1, <1>2, FunctionIsSeq
<1>4. Cardinality(D) = Cardinality(O)
  <2>. HIDE DEF n
  <2>1. Cardinality(D) = n
    BY <1>1, UpToSize
  <2>. QED  BY <2>1 DEF n
<1>. HIDE DEF D
<1>5. ips \in Injection(D, O)
  BY <1>2, Zenon DEF Injection
<1>6. ips \in Surjection(D, O)
  BY <1>4, <1>5, FS_Injection
<1>7. \A a \in O : \E i \in D : ips[i] = a
  BY <1>6, Zenon DEF Surjection
<1>8. \A i \in D : ips[i] \in O
  BY <1>2
<1>. QED  BY <1>1, <1>3, <1>7, <1>8, Zenon DEF D

LEMMA RecountIs ==
    ASSUME NEW O, O \subseteq Low, IsFiniteSet(O), NEW ips \in Orders(O),
           NEW g \in Low \cup {NoIP}
    PROVE  /\ Tidy(Recount(ips, g))
           /\ \A a \in Addr : IPInRanges(a, Recount(ips, g)) <=> a \in O \/ a = g
<1>. DEFINE n == Len(ips)
            f == CHOOSE h : Counts(h, ips, n)
<1>1. Recount(ips, g) = AddIPToRange(g, f[n])
  BY Zenon DEF Recount, Counts
<1>2. /\ n \in Nat /\ \A i \in 1 .. n : ips[i] \in O
      /\ \A a \in O : \E i \in 1 .. n : ips[i] = a
  BY ListsAll, Zenon
<1>. HIDE DEF n
<1>3. Counts(f, ips, n)
  BY <1>2, CountsExists, Zenon
<1>. HIDE DEF f
<1>4. f[0] = <<>> /\ \A i \in 1 .. n : f[i] = AddIPToRange(ips[i], f[i - 1])
  BY <1>2, <1>3, CountsAt, Zenon
<1>. DEFINE Good(i) ==
                /\ Tidy(f[i])
                /\ \A a \in Addr : IPInRanges(a, f[i]) <=> \E j \in 1 .. i : ips[j] = a
            S == {i \in 0 .. n : Good(i)}
<1>5. 0 \in S
  <2>1. 0 \in 0 .. n /\ \A j : j \notin 1 .. 0
    BY <1>2
  <2>. QED  BY <1>4, <2>1, EmptyIsTidy, Zenon
<1>6. \A i \in 1 .. n : i - 1 \in S => i \in S
  <2>. SUFFICES ASSUME NEW i \in 1 .. n, i - 1 \in S PROVE i \in S
    OBVIOUS
  <2>1. Good(i - 1)
    BY Zenon
  <2>2. ips[i] \in Low
    BY <1>2
  <2>3. Adds(ips[i], f[i - 1], f[i])
    BY <1>4, <2>1, <2>2, AddIP, Zenon
  <2>4. \A j : j \in 1 .. i <=> j \in 1 .. (i - 1) \/ j = i
    BY <1>2
  <2>5. \A a \in Addr : IPInRanges(a, f[i]) <=> \E j \in 1 .. i : ips[j] = a
    <3>. TAKE a \in Addr
    <3>1. IPInRanges(a, f[i]) <=> IPInRanges(a, f[i - 1]) \/ a = ips[i]
      BY <2>3, Zenon DEF Adds
    <3>2. IPInRanges(a, f[i - 1]) <=> \E j \in 1 .. (i - 1) : ips[j] = a
      BY <2>1, Zenon
    <3>. QED  BY <2>4, <3>1, <3>2, Zenon
  <2>6. i \in 0 .. n
    BY <1>2
  <2>. QED  BY <2>3, <2>5, <2>6, Zenon DEF Adds
<1>7. Good(n)
  <2>1. \A i \in 0 .. n : i \in S
    <3>. HIDE DEF S
    <3>. QED  BY <1>2, <1>5, <1>6, UpTo
  <2>2. n \in 0 .. n
    BY <1>2
  <2>. QED  BY <2>1, <2>2, Zenon
<1>8. \A a \in Addr : IPInRanges(a, f[n]) <=> a \in O
  BY <1>2, <1>7, Zenon
<1>9. CASE g = NoIP
  <2>1. Recount(ips, g) = f[n]
    BY <1>1, <1>9, AddNoIP, Zenon
  <2>2. \A a \in Addr : a # g
    BY <1>9, LowIsAddr DEF NoIP
  <2>. QED  BY <1>7, <1>8, <2>1, <2>2, Zenon
<1>10. CASE g \in Low
  <2>1. Adds(g, f[n], Recount(ips, g))
    BY <1>1, <1>7, <1>10, AddIP, Zenon
  <2>. QED  BY <1>8, <2>1, Zenon DEF Adds
<1>. QED  BY <1>9, <1>10

(***************************************************************************)
(* GetAvailableIP.  Jumping over a used range that begins at the start of  *)
(* the walk only passes used addresses.                                    *)
(***************************************************************************)
Skips(f, start, rs, n) ==
    f = [i \in 0 .. n |-> IF i = 0 THEN start
                          ELSE IF rs[i].from = f[i - 1] THEN rs[i].to ELSE f[i - 1]]

LEMMA SkipsAt ==
    ASSUME NEW f, NEW start, NEW rs, NEW n \in Nat, Skips(f, start, rs, n)
    PROVE  /\ f[0] = start
           /\ \A i \in 1 .. n : f[i] = IF rs[i].from = f[i - 1] THEN rs[i].to ELSE f[i - 1]
<1>1. \A i \in 0 .. n : f[i] = IF i = 0 THEN start
                               ELSE IF rs[i].from = f[i - 1] THEN rs[i].to ELSE f[i - 1]
  BY Zenon DEF Skips
<1>2. 0 \in 0 .. n /\ \A i \in 1 .. n : i \in 0 .. n /\ i # 0
  OBVIOUS
<1>. QED  BY <1>1, <1>2, Zenon

LEMMA SkipsStep ==
    ASSUME NEW start, NEW rs, NEW n \in Nat, n # 0, NEW f, Skips(f, start, rs, n - 1)
    PROVE  \E g : Skips(g, start, rs, n)
<1>. DEFINE last == IF rs[n].from = f[n - 1] THEN rs[n].to ELSE f[n - 1]
            g == [i \in 0 .. n |-> IF i = n THEN last ELSE f[i]]
<1>1. n - 1 \in Nat
  OBVIOUS
<1>2. /\ f[0] = start
      /\ \A i \in 1 .. (n - 1) : f[i] = IF rs[i].from = f[i - 1] THEN rs[i].to ELSE f[i - 1]
  BY <1>1, SkipsAt
<1>3. \A i \in 0 .. n : g[i] = IF i = 0 THEN start
                               ELSE IF rs[i].from = g[i - 1] THEN rs[i].to ELSE g[i - 1]
  <2>. TAKE i \in 0 .. n
  <2>. HIDE DEF last
  <2>1. CASE i = 0
    <3>1. 0 \in 0 .. n /\ 0 # n
      OBVIOUS
    <3>2. g[0] = start
      BY <1>2, <3>1, Zenon
    <3>. QED  BY <2>1, <3>2, Zenon
  <2>2. CASE i # 0 /\ i # n
    <3>1. i \in 1 .. (n - 1) /\ i - 1 \in 0 .. n /\ i - 1 # n
      BY <2>2
    <3>2. g[i] = f[i] /\ g[i - 1] = f[i - 1]
      BY <2>2, <3>1
    <3>. HIDE DEF g
    <3>. QED  BY <1>2, <2>2, <3>1, <3>2, Zenon
  <2>3. CASE i = n
    <3>1. n - 1 \in 0 .. n /\ n - 1 # n /\ n \in 0 .. n
      OBVIOUS
    <3>2. g[n] = last /\ g[n - 1] = f[n - 1]
      BY <3>1
    <3>. HIDE DEF g
    <3>. QED  BY <2>3, <3>2, Zenon DEF last
  <2>. QED  BY <2>1, <2>2, <2>3
<1>4. g = [i \in 0 .. n |-> g[i]]
  <2>. HIDE DEF last
  <2>. QED  OBVIOUS
<1>. HIDE DEF g
<1>5. [i \in 0 .. n |-> g[i]]
        = [i \in 0 .. n |-> IF i = 0 THEN start
                            ELSE IF rs[i].from = g[i - 1] THEN rs[i].to ELSE g[i - 1]]
  BY <1>3, Zenon
<1>6. Skips(g, start, rs, n)
  BY <1>4, <1>5, Zenon DEF Skips
<1>. QED  BY <1>6, Zenon

LEMMA SkipsExists ==
    ASSUME NEW start, NEW rs, NEW n \in Nat
    PROVE  \E f : Skips(f, start, rs, n)
<1>. DEFINE S == {i \in 0 .. n : \E f : Skips(f, start, rs, i)}
<1>1. 0 \in S
  <2>. DEFINE f == [i \in 0 .. 0 |-> start]
  <2>1. \A i \in 0 .. 0 : i = 0
    OBVIOUS
  <2>2. f = [i \in 0 .. 0 |-> IF i = 0 THEN start
                              ELSE IF rs[i].from = f[i - 1] THEN rs[i].to ELSE f[i - 1]]
    BY <2>1, Zenon
  <2>3. Skips(f, start, rs, 0)
    BY <2>2, Zenon DEF Skips
  <2>4. 0 \in 0 .. n
    OBVIOUS
  <2>. QED  BY <2>3, <2>4, Zenon
<1>2. \A i \in 1 .. n : i - 1 \in S => i \in S
  <2>. SUFFICES ASSUME NEW i \in 1 .. n, i - 1 \in S PROVE i \in S
    OBVIOUS
  <2>1. i \in Nat /\ i # 0 /\ i \in 0 .. n
    OBVIOUS
  <2>2. PICK f : Skips(f, start, rs, i - 1)
    BY Zenon
  <2>3. \E g : Skips(g, start, rs, i)
    BY <2>1, <2>2, SkipsStep, Zenon
  <2>. QED  BY <2>1, <2>3, Zenon
<1>3. n \in S
  <2>. HIDE DEF S
  <2>1. \A i \in 0 .. n : i \in S
    BY <1>1, <1>2, UpTo
  <2>. QED  BY <2>1
<1>. QED  BY <1>3, Zenon

LEMMA SkipIs ==
    ASSUME NEW rs, Tidy(rs), NEW start \in Addr
    PROVE  LET s == SkipUsed(start, rs)
           IN  /\ s \in Addr /\ start <= s
               /\ \A a \in Addr : start <= a /\ a < s => IPInRanges(a, rs)
<1>. DEFINE n == Len(rs)
            f == CHOOSE h : Skips(h, start, rs, n)
<1>1. SkipUsed(start, rs) = f[n]
  BY Zenon DEF SkipUsed, Skips
<1>2. /\ n \in Nat /\ DOMAIN rs = 1 .. n
      /\ \A i \in 1 .. n : /\ rs[i].from \in Nat /\ rs[i].to \in Nat /\ rs[i].to \in Low
                           /\ rs[i].from <= rs[i].to
  BY TidyFacts
<1>3. \A a \in Addr : a \in Nat
  BY LowIsAddr
<1>. HIDE DEF n
<1>4. Skips(f, start, rs, n)
  BY <1>2, SkipsExists, Zenon
<1>. HIDE DEF f
<1>6. /\ f[0] = start
      /\ \A i \in 1 .. n : f[i] = IF rs[i].from = f[i - 1] THEN rs[i].to ELSE f[i - 1]
  <2>1. n \in Nat
    BY <1>2
  <2>. QED  BY <1>4, <2>1, SkipsAt
<1>. DEFINE Good(i) ==
                /\ f[i] \in Addr /\ start <= f[i]
                /\ \A a \in Addr : start <= a /\ a < f[i] => IPInRanges(a, rs)
            S == {i \in 0 .. n : Good(i)}
<1>7. 0 \in S
  <2>1. 0 \in 0 .. n
    BY <1>2
  <2>2. start <= start /\ \A a \in Addr : ~(start <= a /\ a < start)
    BY <1>3
  <2>. QED  BY <1>6, <2>1, <2>2, Zenon
<1>8. \A i \in 1 .. n : i - 1 \in S => i \in S
  <2>. SUFFICES ASSUME NEW i \in 1 .. n, i - 1 \in S PROVE i \in S
    OBVIOUS
  <2>1. Good(i - 1)
    BY Zenon
  <2>2. i \in 0 .. n
    BY <1>2
  <2>3. CASE rs[i].from # f[i - 1]
    <3>1. f[i] = f[i - 1]
      BY <1>6, <2>3, Zenon
    <3>. QED  BY <2>1, <2>2, <3>1, Zenon
  <2>4. CASE rs[i].from = f[i - 1]
    <3>1. f[i] = rs[i].to
      BY <1>6, <2>4, Zenon
    <3>2. /\ rs[i].from \in Nat /\ rs[i].to \in Nat /\ rs[i].to \in Addr
          /\ rs[i].from <= rs[i].to /\ i \in DOMAIN rs
      BY <1>2, LowIsAddr
    <3>3. start <= rs[i].to
      <4>1. \A x, y, z \in Nat : x <= y /\ y <= z => x <= z
        OBVIOUS
      <4>. QED  BY <1>3, <2>1, <2>4, <3>2, <4>1, Zenon
    <3>4. ASSUME NEW a \in Addr, start <= a, a < rs[i].to PROVE IPInRanges(a, rs)
      <4>1. a < f[i - 1] \/ (rs[i].from <= a /\ a <= rs[i].to)
        <5>1. a \in Nat
          BY <1>3
        <5>2. \A x, y, z \in Nat : x < z => x < y \/ (y <= x /\ x <= z)
          OBVIOUS
        <5>. QED  BY <2>4, <3>2, <3>4, <5>1, <5>2, Zenon
      <4>. QED  BY <2>1, <3>2, <3>4, <4>1, Zenon DEF IPInRanges
    <3>. QED  BY <2>2, <3>1, <3>2, <3>3, <3>4, Zenon
  <2>. QED  BY <2>3, <2>4
<1>9. Good(n)
  <2>1. \A i \in 0 .. n : i \in S
    <3>. HIDE DEF S
    <3>. QED  BY <1>2, <1>7, <1>8, UpTo
  <2>2. n \in 0 .. n
    BY <1>2
  <2>. QED  BY <2>1, <2>2, Zenon
<1>. QED  BY <1>1, <1>9, Zenon

FreeIn(S, c, rs) == {a \in S : IsAvailableIP(a, c) /\ ~IPInRanges(a, rs)}

LEMMA MinIs ==
    ASSUME NEW S \in SUBSET Nat, NEW m \in S, \A k \in S : m <= k
    PROVE  Min(S) = m
<1>1. Min(S) \in S /\ \A k \in S : Min(S) <= k
  BY MinIsLeast
<1>2. m \in Nat /\ Min(S) \in Nat /\ m <= Min(S) /\ Min(S) <= m
  BY <1>1
<1>. QED  BY <1>2

(* The loop from start, up to hi: when everything between lo and start is
   used, it ends with the lowest free address of lo .. hi. *)
Walks(start, inLoop, lo, hi, rs) ==
    /\ start \in Addr /\ lo \in Addr /\ hi \in Low /\ lo <= start
    /\ \A a \in Addr : lo <= a /\ a < start => IPInRanges(a, rs)
    /\ \A a \in Addr : start <= a => (a \in inLoop <=> a <= hi)

LEMMA WalkIs ==
    ASSUME NEW c, NEW rs, NEW start, NEW inLoop, NEW lo, NEW hi,
           Walks(start, inLoop, lo, hi, rs)
    PROVE  Walk(start, inLoop, c, rs) = Lowest(FreeIn(lo .. hi, c, rs))
<1>. USE DEF Walks
<1>. DEFINE At(k) == (start + k) % 2^W
            Usable(k) == IsAvailableIP(At(k), c) /\ ~IPInRanges(At(k), rs)
            stops == {k \in Addr : Usable(k) \/ At(k) \notin inLoop}
            m == Min(stops)
            F == FreeIn(lo .. hi, c, rs)
            end == IF start <= hi THEN (hi + 1) - start ELSE 0
<1>1. start \in Nat /\ lo \in Nat /\ hi \in Nat /\ hi \in Addr
  BY LowIsAddr
<1>2. \A k \in Addr : start + k \in Addr => At(k) = start + k
  <2>. DEFINE size == 2^W
  <2>1. size \in Nat /\ size >= 1
    BY Space
  <2>2. Addr = 0 .. (size - 1)
    BY Zenon DEF Addr
  <2>. HIDE DEF size
  <2>3. \A x \in Addr : x % size = x
    BY <2>1, <2>2, Modulo
  <2>. QED  BY <2>3, Zenon DEF size
<1>3. end \in Addr /\ start + end \in Addr /\ ~(start + end <= hi) /\ start <= start + end
  BY <1>1, Space DEF Low, Addr
<1>. HIDE DEF end
<1>4. end \in stops
  <2>1. At(end) = start + end
    BY <1>2, <1>3, Zenon
  <2>2. At(end) \notin inLoop
    BY <1>3, <2>1, Zenon
  <2>. QED  BY <1>3, <2>2, Zenon
<1>5. stops \in SUBSET Nat /\ stops # {}
  BY <1>4, LowIsAddr
<1>6. m \in stops /\ \A k \in stops : m <= k
  <2>. HIDE DEF stops
  <2>. QED  BY <1>5, MinIsLeast
<1>7. /\ Walk(start, inLoop, c, rs) = IF At(m) \in inLoop THEN At(m) ELSE NoIP
  <2>1. Walk(start, inLoop, c, rs) =
            IF stops = {} THEN Diverges ELSE IF At(m) \in inLoop THEN At(m) ELSE NoIP
    BY Zenon DEF Walk
  <2>. HIDE DEF stops, At, m
  <2>. QED  BY <1>5, <2>1, Zenon
<1>8. /\ m \in Addr /\ (Usable(m) \/ At(m) \notin inLoop)
  BY <1>6, Zenon
<1>9. \A k \in Addr : Usable(k) => m <= k
  BY <1>6, Zenon
<1>10. m <= end
  BY <1>4, <1>6, Zenon
<1>. HIDE DEF m, stops
<1>11. start + m \in Addr /\ m \in Nat /\ start <= start + m /\ lo <= start + m
  BY <1>1, <1>3, <1>8, <1>10, Space DEF Addr
<1>12. At(m) = start + m
  BY <1>2, <1>8, <1>11, Zenon
<1>13. \A x \in F : x \in Nat /\ x <= hi /\ start + m <= x
  <2>. SUFFICES ASSUME NEW x \in F PROVE x \in Nat /\ x <= hi /\ start + m <= x
    OBVIOUS
  <2>1. x \in lo .. hi /\ IsAvailableIP(x, c) /\ ~IPInRanges(x, rs)
    BY Zenon DEF FreeIn
  <2>2. x \in Nat /\ lo <= x /\ x <= hi /\ x \in Addr
    BY <1>1, <2>1, Space DEF Addr, Low
  <2>3. ~(x < start)
    BY <2>1, <2>2, Zenon
  <2>4. x - start \in Addr /\ start + (x - start) = x
    BY <1>1, <2>2, <2>3, Space DEF Addr
  <2>5. At(x - start) = x
    BY <1>2, <2>2, <2>4, Zenon
  <2>6. m <= x - start
    BY <1>9, <2>1, <2>4, <2>5, Zenon
  <2>. QED  BY <1>1, <1>11, <2>2, <2>6
<1>14. F \in SUBSET Nat
  BY <1>13, Zenon
<1>15. CASE At(m) \in inLoop
  <2>1. start + m <= hi /\ IsAvailableIP(start + m, c) /\ ~IPInRanges(start + m, rs)
    BY <1>8, <1>11, <1>12, <1>15, Zenon
  <2>2. start + m \in lo .. hi
    BY <1>1, <1>11, <2>1
  <2>3. start + m \in F
    BY <2>1, <2>2, Zenon DEF FreeIn
  <2>4. \A x \in F : start + m <= x
    BY <1>13, Zenon
  <2>. HIDE DEF F
  <2>5. Min(F) = start + m /\ F # {}
    BY <1>14, <2>3, <2>4, MinIs
  <2>6. Lowest(F) = start + m
    BY <2>5, Zenon DEF Lowest
  <2>7. Walk(start, inLoop, c, rs) = start + m
    BY <1>7, <1>12, <1>15, Zenon
  <2>8. Walk(start, inLoop, c, rs) = Lowest(F)
    BY <2>6, <2>7, Zenon
  <2>. QED  BY <2>8, Zenon DEF F
<1>16. CASE At(m) \notin inLoop
  <2>1. ~(start + m <= hi)
    BY <1>11, <1>12, <1>16, Zenon
  <2>2. \A x \in F : FALSE
    <3>. SUFFICES ASSUME NEW x \in F PROVE FALSE
      OBVIOUS
    <3>1. x \in Nat /\ x <= hi /\ start + m <= x
      BY <1>13, Zenon
    <3>. HIDE DEF F
    <3>. QED  BY <1>1, <1>11, <2>1, <3>1
  <2>3. F = {}
    BY <2>2, Zenon
  <2>4. Walk(start, inLoop, c, rs) = NoIP
    BY <1>7, <1>16, Zenon
  <2>. QED  BY <2>3, <2>4, Zenon DEF Lowest
<1>. QED  BY <1>15, <1>16

LEMMA WalkRangeIs ==
    ASSUME NEW c, NEW rs, Tidy(rs), NEW r, r.from \in Addr, r.to \in Low
    PROVE  WalkRange(r, c, rs) = Lowest(FreeIn(r.from .. r.to, c, rs))
<1>. DEFINE lo == r.from
            start == SkipUsed(lo, rs)
            inLoop == {ip \in Addr : ip <= r.to}
<1>1. WalkRange(r, c, rs) = Walk(start, inLoop, c, rs)
  BY Zenon DEF WalkRange
<1>2. /\ start \in Addr /\ lo <= start
      /\ \A a \in Addr : lo <= a /\ a < start => IPInRanges(a, rs)
  BY SkipIs, Zenon
<1>3. \A a \in Addr : start <= a => (a \in inLoop <=> a <= r.to)
  BY Zenon
<1>. HIDE DEF start, inLoop
<1>4. Walks(start, inLoop, lo, r.to, rs)
  BY <1>2, <1>3, Zenon DEF Walks
<1>5. \A a : Walks(start, inLoop, a, r.to, rs)
               => Walk(start, inLoop, c, rs) = Lowest(FreeIn(a .. r.to, c, rs))
  BY WalkIs
<1>. QED  BY <1>1, <1>4, <1>5, Zenon

LEMMA WalkNetworkIs ==
    ASSUME NEW c \in CIDRs, NEW rs, Tidy(rs)
    PROVE  WalkNetwork(c, rs) = Lowest(FreeIn(Addr, c, rs))
<1>. DEFINE N == Network(c)
            hi == Broadcast(c)
            lo == N + 1
            start == SkipUsed(lo, rs)
            inLoop == {ip \in Addr : IPInNetwork(ip, c)}
<1>1. /\ N \in Low /\ hi \in Low
      /\ \A a \in Nat : IPInNetwork(a, c) <=> N <= a /\ a <= hi
  BY NetworkIs, Zenon
<1>2. IPIncrease(N) = lo
  <2>. HIDE DEF N
  <2>. QED  BY <1>1, Increase, Zenon
<1>3. WalkNetwork(c, rs) = Walk(start, inLoop, c, rs)
  <2>1. WalkNetwork(c, rs) = Walk(SkipUsed(IPIncrease(N), rs), inLoop, c, rs)
    BY Zenon DEF WalkNetwork
  <2>. QED  BY <1>2, <2>1, Zenon
<1>4. \A a : IsAvailableIP(a, c) <=> IPInNetwork(a, c) /\ a # N /\ a # hi
  BY Zenon DEF IsAvailableIP
<1>. HIDE DEF N, hi
<1>5. lo \in Addr /\ N \in Nat /\ hi \in Nat
  BY <1>1, Space DEF Low, Addr
<1>6. /\ start \in Addr /\ lo <= start
      /\ \A a \in Addr : lo <= a /\ a < start => IPInRanges(a, rs)
  <2>. HIDE DEF lo
  <2>. QED  BY <1>5, SkipIs, Zenon
<1>7. \A a \in Addr : start <= a => (a \in inLoop <=> a <= hi)
  <2>. SUFFICES ASSUME NEW a \in Addr, start <= a PROVE IPInNetwork(a, c) <=> a <= hi
    BY Zenon
  <2>. HIDE DEF start
  <2>1. a \in Nat /\ start \in Nat
    BY <1>6, LowIsAddr
  <2>2. N <= a
    BY <1>5, <1>6, <2>1
  <2>. QED  BY <1>1, <2>1, <2>2, Zenon
<1>8. Walk(start, inLoop, c, rs) = Lowest(FreeIn(lo .. hi, c, rs))
  <2>. HIDE DEF start, inLoop, lo
  <2>1. Walks(start, inLoop, lo, hi, rs)
    BY <1>1, <1>5, <1>6, <1>7, Zenon DEF Walks
  <2>2. \A a : Walks(start, inLoop, a, hi, rs)
                 => Walk(start, inLoop, c, rs) = Lowest(FreeIn(a .. hi, c, rs))
    BY WalkIs
  <2>. QED  BY <2>1, <2>2, Zenon
<1>9. FreeIn(lo .. hi, c, rs) = FreeIn(Addr, c, rs)
  <2>1. \A a \in lo .. hi : a \in Addr
    BY <1>1, <1>5, Space DEF Low, Addr
  <2>2. \A a \in Addr : IsAvailableIP(a, c) => a \in lo .. hi
    <3>. SUFFICES ASSUME NEW a \in Addr, IsAvailableIP(a, c) PROVE a \in lo .. hi
      OBVIOUS
    <3>1. a \in Nat
      BY LowIsAddr
    <3>2. N <= a /\ a <= hi /\ a # N
      BY <1>1, <1>4, <3>1, Zenon
    <3>. QED  BY <1>5, <3>1, <3>2
  <2>3. \A a : a \in FreeIn(lo .. hi, c, rs) <=> a \in FreeIn(Addr, c, rs)
    <3>. HIDE DEF lo
    <3>. QED  BY <2>1, <2>2, Zenon DEF FreeIn
  <2>. HIDE DEF lo
  <2>. QED  BY <2>3, Extensionality
<1>. QED  BY <1>3, <1>8, <1>9, Zenon

LEMMA LowestIsNone ==
    ASSUME NEW S, S \subseteq Nat
    PROVE  Lowest(S) = NoIP <=> S = {}
<1>1. CASE S = {}
  BY <1>1, Zenon DEF Lowest
<1>2. CASE S # {}
  <2>1. Min(S) \in Nat
    BY <1>2, MinIsLeast
  <2>2. Lowest(S) = Min(S)
    BY <1>2, Zenon DEF Lowest
  <2>3. Min(S) # NoIP
    BY <2>1 DEF NoIP
  <2>. QED  BY <1>2, <2>2, <2>3, Zenon
<1>. QED  BY <1>1, <1>2

(***************************************************************************)
(* The inductive invariant: usedIP is tidy and stands for the owned        *)
(* addresses and the gateway, which no pod owns until a user moves it onto *)
(* one that is.                                                            *)
(***************************************************************************)
SpecInv == /\ cidr \in CIDRs
           /\ ranges \in Seq(IPRange) /\ isValidRanges(ranges, cidr)
           /\ gateway \in Low \cup {NoIP}
StatusInv == /\ Tidy(usedIP)
             /\ owned \subseteq Low /\ IsFiniteSet(owned)
             /\ clash \in BOOLEAN
             /\ \A a \in owned : IPInRanges(a, usedIP)
             /\ \A a \in Addr : IPInRanges(a, usedIP) => a \in owned \cup {gateway}
             /\ gateway # NoIP /\ ~clash => /\ IPInRanges(gateway, usedIP)
                                            /\ gateway \notin owned
             /\ usedIPCount \in {Cardinality(owned), Cardinality(owned) + 1}
UsedIPInv == SpecInv /\ StatusInv

LEMMA RangeEnds ==
    ASSUME SpecInv, NEW i \in DOMAIN ranges
    PROVE  /\ ranges[i].from \in Addr /\ ranges[i].to \in Low
           /\ ranges[i].from .. ranges[i].to \subseteq Addr
<1>1. ranges[i] \in IPRange
  BY DEF SpecInv
<1>2. ranges[i].from \in Addr /\ ranges[i].to \in Addr
  BY <1>1, Zenon DEF IPRange
<1>3. IPInNetwork(ranges[i].to, cidr)
  BY Zenon DEF SpecInv, isValidRanges
<1>4. ranges[i].to \in Nat /\ Broadcast(cidr) \in Low /\ ranges[i].to <= Broadcast(cidr)
  BY <1>2, <1>3, LowIsAddr, NetworkIs DEF SpecInv
<1>5. ranges[i].to \in Low
  BY <1>4, Space DEF Low
<1>6. ranges[i].from .. ranges[i].to \subseteq Addr
  BY <1>2, Space DEF Addr
<1>. QED  BY <1>2, <1>5, <1>6

LEMMA FreeIs == ASSUME NEW S, S \subseteq Addr PROVE Free(S) = FreeIn(S, cidr, usedIP)
<1>1. \A a : a \in Free(S) <=> a \in FreeIn(S, cidr, usedIP)
  BY Zenon DEF Free, FreeIn, Used
<1>. QED  BY <1>1, Extensionality

LEMMA GetAvailable == UsedIPInv => FindsFirstFree
<1>. SUFFICES ASSUME UsedIPInv PROVE GetAvailableIP(cidr, ranges, usedIP) = FirstFree
  BY Zenon DEF FindsFirstFree
<1>. DEFINE n == Len(ranges)
            G(i) == FreeIn(ranges[i].from .. ranges[i].to, cidr, usedIP)
            frees == [i \in DOMAIN ranges |-> Free(ranges[i].from .. ranges[i].to)]
            I == {i \in 1 .. n : WalkRange(ranges[i], cidr, usedIP) # NoIP}
            J == {i \in 1 .. Len(frees) : frees[i] # {}}
<1>1. SpecInv /\ Tidy(usedIP) /\ cidr \in CIDRs
  BY Zenon DEF UsedIPInv, SpecInv, StatusInv
<1>2. CASE ranges = <<>>
  <2>1. GetAvailableIP(cidr, ranges, usedIP) = Lowest(FreeIn(Addr, cidr, usedIP))
    BY <1>1, <1>2, WalkNetworkIs, Zenon DEF GetAvailableIP
  <2>2. FirstFree = Lowest(FreeIn(Addr, cidr, usedIP))
    BY <1>2, FreeIs, Zenon DEF FirstFree
  <2>. QED  BY <2>1, <2>2, Zenon
<1>3. CASE ranges # <<>>
  <2>1. n \in Nat /\ DOMAIN ranges = 1 .. n
    BY <1>1 DEF SpecInv
  <2>2. \A i \in 1 .. n : /\ WalkRange(ranges[i], cidr, usedIP) = Lowest(G(i))
                          /\ G(i) \subseteq Nat
                          /\ frees[i] = G(i)
    <3>. SUFFICES ASSUME NEW i \in 1 .. n
                  PROVE  /\ WalkRange(ranges[i], cidr, usedIP) = Lowest(G(i))
                         /\ G(i) \subseteq Nat
                         /\ frees[i] = G(i)
      BY Zenon
    <3>1. /\ i \in DOMAIN ranges /\ ranges[i].from \in Addr /\ ranges[i].to \in Low
          /\ ranges[i].from .. ranges[i].to \subseteq Addr
      BY <1>1, <2>1, RangeEnds, Zenon
    <3>2. WalkRange(ranges[i], cidr, usedIP) = Lowest(G(i))
      BY <1>1, <3>1, WalkRangeIs, Zenon
    <3>3. G(i) \subseteq Nat
      BY <3>1, LowIsAddr, Zenon DEF FreeIn
    <3>4. frees[i] = G(i)
      BY <3>1, FreeIs, Zenon
    <3>. QED  BY <3>2, <3>3, <3>4
  <2>3. \A i \in 1 .. n : WalkRange(ranges[i], cidr, usedIP) # NoIP <=> frees[i] # {}
    <3>. HIDE DEF G, frees
    <3>. QED  BY <2>2, LowestIsNone, Zenon
  <2>4. Len(frees) = n
    <3>1. frees \in Seq(SUBSET Nat) /\ DOMAIN frees = 1 .. n
      <4>1. \A i \in 1 .. n : frees[i] \in SUBSET Nat
        BY <2>2, Zenon
      <4>. QED  BY <2>1, <4>1
    <3>2. Len(frees) \in Nat /\ 1 .. Len(frees) = 1 .. n
      <4>. HIDE DEF frees
      <4>. QED  BY <3>1
    <3>. HIDE DEF frees, n
    <3>. QED  BY <2>1, <3>2
  <2>5. I = J
    <3>1. \A i : i \in I <=> i \in J
      <4>. HIDE DEF frees, n
      <4>. QED  BY <2>3, <2>4, Zenon
    <3>. HIDE DEF I, J
    <3>. QED  BY <3>1, Extensionality
  <2>6. GetAvailableIP(cidr, ranges, usedIP) =
            IF (IF I # {} THEN Min(I) ELSE 0) = 0 THEN NoIP
            ELSE WalkRange(ranges[IF I # {} THEN Min(I) ELSE 0], cidr, usedIP)
    BY <1>3, Zenon DEF GetAvailableIP, FirstIndex
  <2>7. FirstFree = IF (IF J # {} THEN Min(J) ELSE 0) = 0 THEN NoIP
                    ELSE Min(frees[IF J # {} THEN Min(J) ELSE 0])
    BY <1>3, Zenon DEF FirstFree, FirstIndex
  <2>8. CASE I = {}
    <3>. HIDE DEF I, J, frees
    <3>. QED  BY <2>5, <2>6, <2>7, <2>8, Zenon
  <2>9. CASE I # {}
    <3>. DEFINE k == Min(I)
    <3>1. I \in SUBSET Nat
      OBVIOUS
    <3>2. k \in I
      <4>. HIDE DEF I
      <4>. QED  BY <2>9, <3>1, MinIsLeast
    <3>3. k \in 1 .. n /\ WalkRange(ranges[k], cidr, usedIP) # NoIP
      BY <3>2, Zenon
    <3>4. k # 0
      <4>. HIDE DEF k, n
      <4>. QED  BY <2>1, <3>3
    <3>5. WalkRange(ranges[k], cidr, usedIP) = Lowest(frees[k]) /\ frees[k] # {}
      <4>. HIDE DEF k, n, frees
      <4>. QED  BY <2>2, <2>3, <3>3, Zenon
    <3>. HIDE DEF I, J, frees
    <3>6. GetAvailableIP(cidr, ranges, usedIP) = WalkRange(ranges[k], cidr, usedIP)
      BY <2>6, <2>9, <3>4, Zenon
    <3>7. FirstFree = Min(frees[k])
      BY <2>5, <2>7, <2>9, <3>4, Zenon
    <3>. QED  BY <3>5, <3>6, <3>7, Zenon DEF Lowest
  <2>. QED  BY <2>8, <2>9
<1>. QED  BY <1>2, <1>3

(* an address found by GetAvailableIP is free, and below the top *)
LEMMA FoundIsFree ==
    ASSUME UsedIPInv, GetAvailableIP(cidr, ranges, usedIP) \in Addr
    PROVE  /\ GetAvailableIP(cidr, ranges, usedIP) \in Low
           /\ ~IPInRanges(GetAvailableIP(cidr, ranges, usedIP), usedIP)
<1>. DEFINE a == GetAvailableIP(cidr, ranges, usedIP)
            frees == [i \in DOMAIN ranges |-> Free(ranges[i].from .. ranges[i].to)]
            J == {i \in 1 .. Len(frees) : frees[i] # {}}
<1>0. a # NoIP /\ a \in Addr /\ a \in Nat
  <2>. HIDE DEF a
  <2>1. a \in Addr
    BY Zenon DEF a
  <2>. QED  BY <2>1, LowIsAddr DEF NoIP
<1>1. a = FirstFree
  BY GetAvailable, Zenon DEF FindsFirstFree
<1>2. PICK S : S \subseteq Addr /\ a \in Free(S)
  <2>1. CASE ranges = <<>>
    <3>1. a = Lowest(Free(Addr))
      BY <1>1, <2>1, Zenon DEF FirstFree
    <3>2. Free(Addr) # {} /\ a = Min(Free(Addr))
      BY <1>0, <3>1, Zenon DEF Lowest
    <3>3. Free(Addr) \in SUBSET Nat
      BY LowIsAddr DEF Free
    <3>4. Min(Free(Addr)) \in Free(Addr)
      BY <3>2, <3>3, MinIsLeast
    <3>. QED  BY <3>2, <3>4, Zenon
  <2>2. CASE ranges # <<>>
    <3>1. FirstFree = IF (IF J # {} THEN Min(J) ELSE 0) = 0 THEN NoIP
                      ELSE Min(frees[IF J # {} THEN Min(J) ELSE 0])
      BY <2>2, Zenon DEF FirstFree, FirstIndex
    <3>. DEFINE k == Min(J)
    <3>2. J # {} /\ a = Min(frees[k])
      <4>. HIDE DEF J, frees
      <4>. QED  BY <1>0, <1>1, <3>1, Zenon
    <3>3. J \in SUBSET Nat
      <4>1. \A i \in J : i \in 1 .. Len(frees)
        BY Zenon
      <4>. HIDE DEF J, frees
      <4>. QED  BY <4>1
    <3>4. k \in J
      <4>. HIDE DEF J
      <4>. QED  BY <3>2, <3>3, MinIsLeast
    <3>5. DOMAIN frees = 1 .. Len(frees)
      <4>1. ranges \in Seq(IPRange)
        BY Zenon DEF UsedIPInv, SpecInv
      <4>2. Len(ranges) \in Nat /\ DOMAIN ranges = 1 .. Len(ranges)
        BY <4>1
      <4>3. \A S : Free(S) \in SUBSET S
        BY Zenon DEF Free
      <4>4. frees \in Seq(SUBSET Addr)
        <5>1. \A i \in DOMAIN ranges : frees[i] \in SUBSET Addr
          BY <4>3, RangeEnds, Zenon DEF UsedIPInv
        <5>2. DOMAIN frees = DOMAIN ranges
          BY Zenon
        <5>. QED  BY <4>2, <5>1, <5>2
      <4>. HIDE DEF frees
      <4>. QED  BY <4>4
    <3>6. k \in DOMAIN ranges /\ frees[k] # {}
      <4>1. k \in DOMAIN frees /\ frees[k] # {}
        <5>. HIDE DEF frees, k
        <5>. QED  BY <3>4, <3>5, Zenon
      <4>. QED  BY <4>1, Zenon
    <3>. HIDE DEF k
    <3>7. frees[k] = Free(ranges[k].from .. ranges[k].to)
      BY <3>6, Zenon
    <3>8. ranges[k].from .. ranges[k].to \subseteq Addr
      BY <3>6, RangeEnds, Zenon DEF UsedIPInv
    <3>. HIDE DEF frees
    <3>9. frees[k] \in SUBSET Nat
      BY <3>7, <3>8, LowIsAddr DEF Free
    <3>10. Min(frees[k]) \in frees[k]
      BY <3>6, <3>9, MinIsLeast
    <3>. QED  BY <3>2, <3>7, <3>8, <3>10, Zenon DEF k
  <2>. QED  BY <2>1, <2>2
<1>3. IsAvailableIP(a, cidr) /\ ~IPInRanges(a, usedIP)
  BY <1>0, <1>2, Zenon DEF Free, Used
<1>4. a <= Broadcast(cidr) /\ Broadcast(cidr) \in Low
  <2>1. IPInNetwork(a, cidr) /\ cidr \in CIDRs
    BY <1>3, Zenon DEF IsAvailableIP, UsedIPInv, SpecInv
  <2>. QED  BY <1>0, <2>1, NetworkIs, Zenon
<1>5. a \in Low
  <2>. HIDE DEF a
  <2>. QED  BY <1>0, <1>4, Space DEF Low
<1>. QED  BY <1>3, <1>5, Zenon

(* a gateway that isValidGateway accepts is below the top of the address space *)
LEMMA GatewayIsLow ==
    ASSUME NEW c \in CIDRs, NEW g \in GatewaysOf(c), isValidGateway(g, c)
    PROVE  g \in Low \cup {NoIP}
<1>1. g \in Addr \cup {NoIP}
  BY SubnetAssumption, Zenon
<1>2. CASE g = NoIP
  BY <1>2, Zenon
<1>3. CASE g \in Addr /\ g # NoIP
  <2>1. g \in Nat
    BY <1>3, LowIsAddr
  <2>2. IPInNetwork(g, c)
    BY <1>3, Zenon DEF isValidGateway
  <2>3. g <= Broadcast(c) /\ Broadcast(c) \in Low
    BY <2>1, <2>2, NetworkIs, Zenon
  <2>. QED  BY <2>1, <2>3, Space DEF Low
<1>. QED  BY <1>1, <1>2, <1>3, Zenon

LEMMA InitUsed == Init => UsedIPInv
<1>. SUFFICES ASSUME Init PROVE UsedIPInv
  OBVIOUS
<1>1. SpecInv
  <2>1. cidr \in CIDRs /\ ranges \in RangesOf(cidr) /\ isValidRanges(ranges, cidr)
    BY Zenon DEF Init
  <2>2. gateway \in GatewaysOf(cidr) /\ isValidGateway(gateway, cidr)
    BY Zenon DEF Init
  <2>3. ranges \in Seq(IPRange)
    BY <2>1, SubnetAssumption, Zenon
  <2>4. gateway \in Low \cup {NoIP}
    BY <2>1, <2>2, GatewayIsLow, Zenon
  <2>. QED  BY <2>1, <2>3, <2>4, Zenon DEF SpecInv
<1>2. gateway \in Low \cup {NoIP}
  BY <1>1, Zenon DEF SpecInv
<1>3. /\ usedIP = AddIPToRange(gateway, <<>>) /\ usedIPCount = 0 /\ owned = {}
      /\ clash = FALSE
  BY Zenon DEF Init
<1>4. Tidy(usedIP) /\ \A a \in Addr : IPInRanges(a, usedIP) <=> a = gateway
  <2>1. CASE gateway \in Low
    <3>1. Adds(gateway, <<>>, usedIP)
      BY <1>3, <2>1, EmptyIsTidy, AddIP, Zenon
    <3>. QED  BY <3>1, EmptyIsTidy, Zenon DEF Adds
  <2>2. CASE gateway = NoIP
    <3>1. usedIP = <<>>
      BY <1>3, <2>2, AddNoIP, Zenon
    <3>2. \A a \in Addr : a # NoIP
      BY LowIsAddr DEF NoIP
    <3>. QED  BY <2>2, <3>1, <3>2, EmptyIsTidy, Zenon
  <2>. QED  BY <1>2, <2>1, <2>2, Zenon
<1>5. Cardinality(owned) = 0 /\ IsFiniteSet(owned)
  BY <1>3, FS_EmptySet, Zenon
<1>6. gateway # NoIP => gateway \in Addr
  BY <1>2, LowIsAddr, Zenon
<1>7. StatusInv
  <2>1. owned \subseteq Low /\ clash \in BOOLEAN /\ \A a \in owned : FALSE
    BY <1>3
  <2>2. usedIPCount \in {Cardinality(owned), Cardinality(owned) + 1}
    BY <1>3, <1>5, Zenon
  <2>. QED  BY <1>4, <1>5, <1>6, <2>1, <2>2, Zenon DEF StatusInv
<1>. QED  BY <1>1, <1>7, Zenon DEF UsedIPInv

-----------------------------------------------------------------------------
(* onIPCreate claims an address that is not in usedIP *)
LEMMA ClaimStep ==
    ASSUME UsedIPInv, NEW a \in Low, ~IPInRanges(a, usedIP), Claim(a)
    PROVE  UsedIPInv'
<1>1. /\ usedIP' = AddIPToRange(a, usedIP) /\ usedIPCount' = usedIPCount + 1
      /\ owned' = owned \cup {a} /\ cidr' = cidr /\ ranges' = ranges
      /\ gateway' = gateway /\ clash' = clash
  BY Zenon DEF Claim, specVars
<1>2. SpecInv' /\ gateway \in Low \cup {NoIP}
  BY <1>1, Zenon DEF UsedIPInv, SpecInv
<1>3. StatusInv
  BY Zenon DEF UsedIPInv
<1>4. Adds(a, usedIP, usedIP')
  BY <1>1, <1>3, AddIP, Zenon DEF StatusInv
<1>5. Tidy(usedIP') /\ \A b \in Addr : IPInRanges(b, usedIP') <=> IPInRanges(b, usedIP) \/ b = a
  BY <1>4, Zenon DEF Adds
<1>6. a \notin owned /\ IsFiniteSet(owned) /\ owned \subseteq Low
  BY <1>3, Zenon DEF StatusInv
<1>7. IsFiniteSet(owned') /\ Cardinality(owned') = Cardinality(owned) + 1
      /\ Cardinality(owned) \in Nat
  BY <1>1, <1>6, FS_AddElement, FS_CardinalityType
<1>8. usedIPCount' \in {Cardinality(owned'), Cardinality(owned') + 1}
  BY <1>1, <1>3, <1>7 DEF StatusInv
<1>9. owned' \subseteq Low
  BY <1>1, <1>6, Zenon
<1>10. \A b \in owned' : IPInRanges(b, usedIP')
  BY <1>1, <1>3, <1>5, <1>9, LowIsAddr, Zenon DEF StatusInv
<1>11. \A b \in Addr : IPInRanges(b, usedIP') => b \in owned' \cup {gateway'}
  BY <1>1, <1>3, <1>5, Zenon DEF StatusInv
<1>12. gateway' # NoIP /\ ~clash' => IPInRanges(gateway', usedIP') /\ gateway' \notin owned'
  <2>. SUFFICES ASSUME gateway # NoIP, ~clash
                PROVE  IPInRanges(gateway, usedIP') /\ gateway \notin owned \cup {a}
    BY <1>1, Zenon
  <2>1. gateway \in Addr
    BY <1>2, LowIsAddr, Zenon
  <2>2. IPInRanges(gateway, usedIP) /\ gateway \notin owned
    BY <1>3, Zenon DEF StatusInv
  <2>. QED  BY <1>5, <2>1, <2>2, Zenon
<1>13. clash' \in BOOLEAN
  BY <1>1, <1>3, Zenon DEF StatusInv
<1>14. StatusInv'
  BY <1>5, <1>7, <1>8, <1>9, <1>10, <1>11, <1>12, <1>13, Zenon DEF StatusInv
<1>. QED  BY <1>2, <1>14, Zenon DEF UsedIPInv

(* handleIPRemove *)
LEMMA ReleaseStep ==
    ASSUME UsedIPInv, NEW a \in owned, Release(a)
    PROVE  UsedIPInv'
<1>1. /\ usedIP' = RemoveIPFromRange(a, usedIP)
      /\ usedIPCount' = usedIPCount - (IF IPInRanges(a, usedIP) THEN 1 ELSE 0)
      /\ owned' = owned \ {a} /\ cidr' = cidr /\ ranges' = ranges
      /\ gateway' = gateway /\ clash' = clash
  BY Zenon DEF Release, specVars
<1>2. SpecInv' /\ gateway \in Low \cup {NoIP}
  BY <1>1, Zenon DEF UsedIPInv, SpecInv
<1>3. StatusInv
  BY Zenon DEF UsedIPInv
<1>4. /\ a \in Low /\ IPInRanges(a, usedIP) /\ owned \subseteq Low /\ Tidy(usedIP)
      /\ IsFiniteSet(owned)
  BY <1>3, Zenon DEF StatusInv
<1>5. Removes(a, usedIP, usedIP')
  BY <1>1, <1>4, RemoveIP, Zenon
<1>6. Tidy(usedIP') /\ \A b \in Addr : IPInRanges(b, usedIP') <=> IPInRanges(b, usedIP) /\ b # a
  BY <1>5, Zenon DEF Removes
<1>7. IsFiniteSet(owned') /\ Cardinality(owned') = Cardinality(owned) - 1
      /\ Cardinality(owned) \in Nat
  BY <1>1, <1>4, FS_RemoveElement, FS_CardinalityType
<1>8. usedIPCount' \in {Cardinality(owned'), Cardinality(owned') + 1}
  <2>1. usedIPCount' = usedIPCount - 1
    BY <1>1, <1>4, Zenon
  <2>. QED  BY <1>3, <1>7, <2>1 DEF StatusInv
<1>9. owned' \subseteq Low
  BY <1>1, <1>4, Zenon
<1>10. \A b \in owned' : IPInRanges(b, usedIP')
  <2>. SUFFICES ASSUME NEW b \in owned' PROVE IPInRanges(b, usedIP')
    OBVIOUS
  <2>1. b \in owned /\ b # a
    BY <1>1, Zenon
  <2>2. b \in Addr /\ IPInRanges(b, usedIP)
    BY <1>3, <2>1, <1>4, LowIsAddr, Zenon DEF StatusInv
  <2>. QED  BY <1>6, <2>1, <2>2, Zenon
<1>11. \A b \in Addr : IPInRanges(b, usedIP') => b \in owned' \cup {gateway'}
  BY <1>1, <1>3, <1>6, Zenon DEF StatusInv
<1>12. gateway' # NoIP /\ ~clash' => IPInRanges(gateway', usedIP') /\ gateway' \notin owned'
  <2>. SUFFICES ASSUME gateway # NoIP, ~clash
                PROVE  IPInRanges(gateway, usedIP') /\ gateway \notin owned \ {a}
    BY <1>1, Zenon
  <2>1. gateway \in Addr
    BY <1>2, LowIsAddr, Zenon
  <2>2. IPInRanges(gateway, usedIP) /\ gateway \notin owned
    BY <1>3, Zenon DEF StatusInv
  <2>. QED  BY <1>6, <2>1, <2>2, Zenon
<1>13. clash' \in BOOLEAN
  BY <1>1, <1>3, Zenon DEF StatusInv
<1>14. StatusInv'
  BY <1>6, <1>7, <1>8, <1>9, <1>10, <1>11, <1>12, <1>13, Zenon DEF StatusInv
<1>. QED  BY <1>2, <1>14, Zenon DEF UsedIPInv

(* onSubnetUpdate: a new gateway, and usedIP computed anew *)
LEMMA UpdateGatewayStep ==
    ASSUME UsedIPInv, NEW g \in GatewaysOf(cidr), UpdateGateway(g)
    PROVE  UsedIPInv'
<1>1. /\ isValidGateway(g, cidr) /\ gateway' = g
      /\ usedIPCount' = Cardinality(owned) + (IF g = NoIP THEN 0 ELSE 1)
      /\ clash' = (clash \/ g \in owned)
      /\ cidr' = cidr /\ ranges' = ranges /\ owned' = owned
  BY Zenon DEF UpdateGateway, specVars
<1>2. PICK ips \in Orders(owned) : usedIP' = Recount(ips, g)
  BY Zenon DEF UpdateGateway
<1>3. /\ SpecInv /\ StatusInv /\ cidr \in CIDRs
  BY Zenon DEF UsedIPInv, SpecInv
<1>4. g \in Low \cup {NoIP}
  BY <1>1, <1>3, GatewayIsLow, Zenon
<1>5. SpecInv'
  BY <1>1, <1>3, <1>4, Zenon DEF SpecInv
<1>6. owned \subseteq Low /\ IsFiniteSet(owned)
  BY <1>3, Zenon DEF StatusInv
<1>7. Tidy(usedIP') /\ \A a \in Addr : IPInRanges(a, usedIP') <=> a \in owned \/ a = g
  BY <1>2, <1>4, <1>6, RecountIs, Zenon
<1>8. Cardinality(owned) \in Nat
  BY <1>6, FS_CardinalityType
<1>9. usedIPCount' \in {Cardinality(owned'), Cardinality(owned') + 1}
  BY <1>1, <1>8
<1>10. \A a \in owned' : IPInRanges(a, usedIP')
  BY <1>1, <1>6, <1>7, LowIsAddr, Zenon
<1>11. \A a \in Addr : IPInRanges(a, usedIP') => a \in owned' \cup {gateway'}
  BY <1>1, <1>7, Zenon
<1>12. gateway' # NoIP /\ ~clash' => IPInRanges(gateway', usedIP') /\ gateway' \notin owned'
  <2>. SUFFICES ASSUME g # NoIP, g \notin owned PROVE IPInRanges(g, usedIP')
    BY <1>1, Zenon
  <2>1. g \in Addr
    BY <1>4, LowIsAddr, Zenon
  <2>. QED  BY <1>7, <2>1, Zenon
<1>13. clash' \in BOOLEAN
  BY <1>1, <1>3 DEF StatusInv
<1>14. IsFiniteSet(owned') /\ owned' \subseteq Low
  BY <1>1, <1>6, Zenon
<1>15. StatusInv'
  BY <1>7, <1>9, <1>10, <1>11, <1>12, <1>13, <1>14, Zenon DEF StatusInv
<1>. QED  BY <1>5, <1>15, Zenon DEF UsedIPInv

LEMMA NextUsed == UsedIPInv /\ [Next]_vars => UsedIPInv'
<1>. SUFFICES ASSUME UsedIPInv, [Next]_vars PROVE UsedIPInv'
  OBVIOUS
<1>1. CASE AllocateAuto
  <2>. DEFINE a == GetAvailableIP(cidr, ranges, usedIP)
  <2>1. a \in Addr /\ Claim(a)
    BY <1>1, Zenon DEF AllocateAuto
  <2>2. a \in Low /\ ~IPInRanges(a, usedIP)
    BY <2>1, FoundIsFree, Zenon
  <2>. HIDE DEF a
  <2>. QED  BY <2>1, <2>2, ClaimStep, Zenon
<1>2. ASSUME NEW a \in 1 .. (2^W - 2), AllocateSpecific(a) PROVE UsedIPInv'
  <2>1. a \in Low
    BY Space DEF Low
  <2>2. ~IPInRanges(a, usedIP) /\ Claim(a)
    BY <1>2, Zenon DEF AllocateSpecific
  <2>. QED  BY <2>1, <2>2, ClaimStep, Zenon
<1>3. ASSUME NEW a \in owned, Release(a) PROVE UsedIPInv'
  BY <1>3, ReleaseStep, Zenon
<1>4. ASSUME NEW g \in GatewaysOf(cidr), UpdateGateway(g) PROVE UsedIPInv'
  BY <1>4, UpdateGatewayStep, Zenon
<1>5. CASE UNCHANGED vars
  BY <1>5, Zenon DEF vars, UsedIPInv, SpecInv, StatusInv
<1>. QED  BY <1>1, <1>2, <1>3, <1>4, <1>5, Zenon DEF Next

(* The invariant holds in every reachable state. *)
LEMMA UsedIPInvariant == Spec => []UsedIPInv
BY InitUsed, NextUsed, PTL DEF Spec

-----------------------------------------------------------------------------
(* For any width of addresses, networks, ranges and gateways: the spec and the
   status of a subnet keep their types through onSubnetCreate, onIPCreate,
   handleIPRemove and onSubnetUpdate. *)
THEOREM UsedIPTypes == Spec => []TypeOK
<1>1. UsedIPInv => TypeOK
  <2>. SUFFICES ASSUME UsedIPInv PROVE TypeOK
    OBVIOUS
  <2>1. SpecInv /\ StatusInv
    BY Zenon DEF UsedIPInv
  <2>2. /\ cidr \in CIDRs /\ ranges \in Seq(IPRange) /\ gateway \in Addr \cup {NoIP}
        /\ owned \subseteq Addr /\ clash \in BOOLEAN
    BY <2>1, LowIsAddr, Zenon DEF SpecInv, StatusInv
  <2>3. usedIP \in Seq(IPRange)
    <3>1. usedIP \in Seq(Ranges)
      BY <2>1, Zenon DEF StatusInv, Tidy
    <3>2. Ranges \subseteq IPRange
      BY LowIsAddr, Zenon DEF Ranges, IPRange
    <3>. QED  BY <3>1, <3>2
  <2>4. usedIPCount \in Nat
    <3>1. Cardinality(owned) \in Nat
      BY <2>1, FS_CardinalityType DEF StatusInv
    <3>. QED  BY <2>1, <3>1 DEF StatusInv
  <2>. QED  BY <2>2, <2>3, <2>4, Zenon DEF TypeOK
<1>. QED  BY <1>1, UsedIPInvariant, PTL

(* For any history of AddIPToRange, RemoveIPFromRange and recounts on a subnet of any
   size, usedIP is sorted, and its ranges are disjoint and do not touch. *)
THEOREM NormalFormInvariant == Spec => []NormalForm
<1>1. UsedIPInv => NormalForm
  <2>. SUFFICES ASSUME UsedIPInv PROVE NormalForm
    OBVIOUS
  <2>1. Tidy(usedIP)
    BY Zenon DEF UsedIPInv, StatusInv
  <2>2. Len(usedIP) \in Nat /\ DOMAIN usedIP = 1 .. Len(usedIP)
    BY <2>1, TidyFacts, Zenon
  <2>3. \A i \in 1 .. (Len(usedIP) - 1) : i \in DOMAIN usedIP /\ i + 1 \in DOMAIN usedIP /\ i < i + 1
    BY <2>2
  <2>. QED  BY <2>1, <2>3, Zenon DEF Tidy, NormalForm
<1>. QED  BY <1>1, UsedIPInvariant, PTL

(* For any subnet and any history of its pods: the ranges of usedIP hold the addresses
   of its FlatNetworkIPs, all of them, and nothing else but the gateway, which they
   hold as long as no user has moved it onto the address of a pod. *)
THEOREM UsedIPIsOwnedInvariant == Spec => []UsedIPIsOwned
<1>1. UsedIPInv => UsedIPIsOwned
  <2>. SUFFICES ASSUME UsedIPInv PROVE UsedIPIsOwned
    OBVIOUS
  <2>1. SpecInv /\ StatusInv
    BY Zenon DEF UsedIPInv
  <2>2. owned \subseteq Used
    BY <2>1, LowIsAddr, Zenon DEF StatusInv, Used
  <2>3. Used \subseteq owned \cup {gateway}
    BY <2>1, Zenon DEF StatusInv, Used
  <2>4. gateway # NoIP /\ ~clash => gateway \in Used
    BY <2>1, LowIsAddr, Zenon DEF SpecInv, StatusInv, Used
  <2>. QED  BY <2>2, <2>3, <2>4, Zenon DEF UsedIPIsOwned
<1>. QED  BY <1>1, UsedIPInvariant, PTL

(* For any subnet: usedIPCount is the number of its FlatNetworkIPs or one more, however
   often addresses are claimed, freed and recounted. *)
THEOREM CountDoesNotDriftInvariant == Spec => []CountDoesNotDrift
<1>1. UsedIPInv => CountDoesNotDrift
  <2>. SUFFICES ASSUME UsedIPInv PROVE CountDoesNotDrift
    OBVIOUS
  <2>1. Cardinality(owned) \in Nat
    BY FS_CardinalityType DEF UsedIPInv, StatusInv
  <2>2. usedIPCount = Cardinality(owned) \/ usedIPCount = Cardinality(owned) + 1
    BY Zenon DEF UsedIPInv, StatusInv
  <2>. QED  BY <2>1, <2>2 DEF CountDoesNotDrift
<1>. QED  BY <1>1, UsedIPInvariant, PTL

(* For any network and ranges, and any usedIP that comes about: GetAvailableIP returns the
   lowest free host address of the network, or of the first of spec.ranges that has one,
   and fails only when there is none (so its loop always ends). *)
THEOREM FindsFirstFreeInvariant == Spec => []FindsFirstFree
BY GetAvailable, UsedIPInvariant, PTL
====
