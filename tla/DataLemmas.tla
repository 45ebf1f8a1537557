------------------------------ MODULE DataLemmas -----------------------------
(***************************************************************************)
(* What the proofs of several components need to know of their data: the   *)
(* extremal elements of sets of naturals (a HashMap order has a first      *)
(* entry, a configuration a last one, a map of histories an oldest one),   *)
(* and what pruning, evicting and sweeping do to a map of histories.       *)
(***************************************************************************)
EXTENDS Histories, FiniteSetTheorems, SequenceTheorems,
        WellFoundedInduction, TLAPS

-----------------------------------------------------------------------------
(* Sets of naturals *)

\* A non-empty set of naturals has a least element.
LEMMA LeastNatural ==
    ASSUME NEW T, T \subseteq Nat, T # {}
    PROVE  \E x \in T : \A y \in T : x <= y
<1>1. PICK x \in T : \A y \in T : ~ (<<y, x>> \in OpToRel(<, Nat))
  BY NatLessThanWellFounded, WFMin
<1>2. \A y \in T : ~ (y < x)
  BY <1>1 DEF OpToRel
<1>3. QED
  BY <1>2

\* A non-empty set of naturals below a bound has a greatest element.
LEMMA GreatestNatural ==
    ASSUME NEW n \in Nat, NEW T, T \subseteq 1..n, T # {}
    PROVE  \E x \in T : \A y \in T : y <= x
<1> DEFINE U == {n - x : x \in T}
<1>1. U \subseteq Nat /\ U # {}
  <2>1. \A x \in T : n - x \in Nat
    OBVIOUS
  <2> QED
    BY <2>1
<1>2. PICK u \in U : \A v \in U : u <= v
  BY <1>1, LeastNatural
<1>3. PICK x \in T : u = n - x
  OBVIOUS
<1>4. \A y \in T : y <= x
  <2> TAKE y \in T
  <2>1. n - y \in U
    OBVIOUS
  <2>2. n - x <= n - y
    BY <2>1, <1>2, <1>3
  <2>3. x \in Int /\ y \in Int
    OBVIOUS
  <2> QED
    BY <2>2, <2>3
<1>5. QED
  BY <1>4

-----------------------------------------------------------------------------
(* Histories *)

\* Pruning returns a suffix of a history: nothing is reordered or invented,
\* and if anything is left, the latest stamp is.
LEMMA RecentIsSuffix ==
    ASSUME NEW times \in Seq(Nat), NEW t \in Nat, NEW window \in Nat,
           NEW r, r = Recent(times, t, window)
    PROVE  /\ r \in Seq(Nat)
           /\ Len(r) <= Len(times)
           /\ \A i \in 1..Len(r) : r[i] = times[i + (Len(times) - Len(r))]
           /\ r # << >> => Latest(r) = Latest(times)
<1> DEFINE k == Cardinality(Expired(times, t, window))
           n == Len(times)
<1>1. n \in Nat /\ DOMAIN times = 1..n
  BY LenProperties
<1>2. k \in 0..n
  <2>1. IsFiniteSet(1..n) /\ Cardinality(1..n) = n
    <3>1. 1 \in Int /\ n \in Int
      BY <1>1
    <3>2. /\ IsFiniteSet(1..n)
          /\ Cardinality(1..n) = IF 1 > n THEN 0 ELSE n - 1 + 1
      BY <3>1, FS_Interval
    <3>3. QED
      BY <1>1, <3>2
  <2>2. Expired(times, t, window) \in SUBSET (1..n)
    BY <1>1 DEF Expired
  <2>3. IsFiniteSet(Expired(times, t, window)) /\ k <= n
    BY <2>1, <2>2, FS_Subset
  <2>4. QED
    BY <1>1, <2>3, FS_CardinalityType
<1>3. r = SubSeq(times, k + 1, n)
  BY DEF Recent, k
<1>4. \A i \in (k + 1)..n : times[i] \in Nat
  BY <1>1, <1>2
<1>5. /\ r \in Seq(Nat)
      /\ Len(r) = n - k
      /\ \A i \in 1..(n - k) : r[i] = times[i + k]
  <2> HIDE DEF k, n
  <2>1. k + 1 \in Int /\ n \in Int
    BY <1>1, <1>2
  <2>2. /\ r \in Seq(Nat)
        /\ Len(r) = IF k + 1 <= n THEN n - (k + 1) + 1 ELSE 0
        /\ \A i \in 1..(n - (k + 1) + 1) : r[i] = times[(k + 1) + i - 1]
    <3> DEFINE m == k + 1
    <3>1. m \in Int /\ \A i \in m..n : times[i] \in Nat
      BY <1>4, <2>1
    <3> HIDE DEF m
    <3>2. /\ SubSeq(times, m, n) \in Seq(Nat)
          /\ Len(SubSeq(times, m, n)) = IF m <= n THEN n - m + 1 ELSE 0
          /\ \A i \in 1..(n - m + 1) :
                SubSeq(times, m, n)[i] = times[m + i - 1]
      BY <2>1, <3>1, SubSeqProperties
    <3>3. r = SubSeq(times, m, n)
      BY <1>3 DEF m
    <3>4. /\ r \in Seq(Nat)
          /\ Len(r) = IF m <= n THEN n - m + 1 ELSE 0
          /\ \A i \in 1..(n - m + 1) : r[i] = times[m + i - 1]
      BY <3>2, <3>3, Zenon
    <3>5. QED
      BY <3>4 DEF m
  <2>3. n - (k + 1) + 1 = n - k
    BY <1>1, <1>2
  <2>4. Len(r) = n - k
    BY <1>1, <1>2, <2>2
  <2>5. ASSUME NEW i \in 1..(n - k) PROVE r[i] = times[i + k]
    <3>1. (k + 1) + i - 1 = i + k
      BY <1>1, <1>2
    <3>2. QED
      BY <2>2, <2>3, <3>1
  <2>6. QED
    BY <2>2, <2>4, <2>5
<1>6. Len(r) <= n /\ n - Len(r) = k
  <2> HIDE DEF k, n
  <2> QED
    BY <1>1, <1>2, <1>5
<1>7. \A i \in 1..Len(r) : r[i] = times[i + (Len(times) - Len(r))]
  BY <1>5, <1>6
<1>8. ASSUME r # << >> PROVE Latest(r) = Latest(times)
  <2> HIDE DEF k, n
  <2>1. Len(r) # 0
    BY <1>5, <1>8, EmptySeq
  <2>2. n - k \in 1..(n - k) /\ (n - k) + k = n
    BY <1>1, <1>2, <1>5, <2>1
  <2>3. r[n - k] = times[n]
    BY <1>5, <2>2
  <2>4. QED
    BY <1>5, <2>3 DEF Latest, n
<1>9. QED
  BY <1>5, <1>6, <1>7, <1>8

\* A suffix of an ordered history is ordered.
LEMMA RecentChronological ==
    ASSUME NEW times \in Seq(Nat), NEW t \in Nat, NEW window \in Nat,
           Chronological(times, t)
    PROVE  Chronological(Recent(times, t, window), t)
<1> DEFINE r == Recent(times, t, window)
           d == Len(times) - Len(r)
<1>1. /\ r \in Seq(Nat) /\ Len(r) <= Len(times)
      /\ \A i \in 1..Len(r) : r[i] = times[i + d]
  BY RecentIsSuffix
<1>2. /\ Len(times) \in Nat /\ DOMAIN times = 1..Len(times)
      /\ Len(r) \in Nat /\ DOMAIN r = 1..Len(r)
  BY <1>1, LenProperties
<1>3. \A i \in 1..Len(r) : i + d \in DOMAIN times
  BY <1>1, <1>2
<1>4. \A i, j \in 1..Len(r) : i <= j => i + d <= j + d
  BY <1>1, <1>2
<1>5. QED
  BY <1>1, <1>2, <1>3, <1>4 DEF Chronological

\* In an ordered history the stamps that have expired come first.
LEMMA ExpiredComeFirst ==
    ASSUME NEW times \in Seq(Nat), NEW t \in Nat, NEW window \in Nat,
           Chronological(times, t)
    PROVE  /\ Cardinality(Expired(times, t, window)) \in 0..Len(times)
           /\ Expired(times, t, window)
                 = 1..Cardinality(Expired(times, t, window))
<1> DEFINE X == Expired(times, t, window)
           n == Len(times)
<1>1. n \in Nat /\ DOMAIN times = 1..n /\ \A i \in 1..n : times[i] \in Nat
  BY LenProperties
<1>2. X \subseteq 1..n
  BY <1>1 DEF Expired
<1>3. CASE X = {}
  <2>1. Cardinality(X) = 0
    BY <1>3, FS_EmptySet
  <2>2. QED
    BY <1>1, <1>3, <2>1
<1>4. CASE X # {}
  <2>1. PICK m \in X : \A i \in X : i <= m
    <3> HIDE DEF X, n
    <3> QED
      BY <1>1, <1>2, <1>4, GreatestNatural
  <2>2. m \in 1..n
    BY <1>2, <2>1
  <2>3. ASSUME NEW i \in 1..m PROVE i \in X
    <3>1. i \in 1..n /\ i <= m
      BY <1>1, <2>2
    <3>2. times[i] <= times[m]
      BY <1>1, <2>2, <3>1 DEF Chronological
    <3>3. t - times[m] >= window
      BY <2>1 DEF Expired
    <3>4. t - times[i] >= window
      BY <1>1, <2>2, <3>1, <3>2, <3>3
    <3>5. QED
      BY <1>1, <3>1, <3>4 DEF Expired
  <2>4. X = 1..m
    <3>1. X \subseteq 1..m
      <4> HIDE DEF X, n
      <4> QED
        BY <1>1, <1>2, <2>1, <2>2
    <3>2. QED
      BY <2>3, <3>1
  <2>5. Cardinality(1..m) = m
    <3>1. 1 \in Int /\ m \in Int /\ ~(1 > m) /\ m - 1 + 1 = m
      BY <1>1, <2>2
    <3>2. Cardinality(1..m) = IF 1 > m THEN 0 ELSE m - 1 + 1
      BY <3>1, FS_Interval
    <3>3. QED
      BY <3>1, <3>2
  <2>6. QED
    BY <1>1, <2>2, <2>4, <2>5
<1>5. QED
  BY <1>3, <1>4

\* What pruning forgets has expired, and what it keeps has not.
LEMMA RecentForgetsExpired ==
    ASSUME NEW times \in Seq(Nat), NEW t \in Nat, NEW window \in Nat,
           Chronological(times, t),
           NEW r, r = Recent(times, t, window),
           NEW d, d = Len(times) - Len(r)
    PROVE  /\ d \in 0..Len(times)
           /\ \A i \in 1..d : t - times[i] >= window
           /\ \A i \in (d + 1)..Len(times) : t - times[i] < window
<1> DEFINE k == Cardinality(Expired(times, t, window))
           n == Len(times)
<1>1. n \in Nat /\ DOMAIN times = 1..n /\ \A i \in 1..n : times[i] \in Nat
  BY LenProperties
<1>2. k \in 0..n /\ Expired(times, t, window) = 1..k
  BY ExpiredComeFirst
<1>3. d = k
  <2> HIDE DEF k, n
  <2>1. k + 1 \in Int /\ n \in Int /\ \A i \in (k + 1)..n : times[i] \in Nat
    BY <1>1, <1>2
  <2>2. Len(SubSeq(times, k + 1, n)) = IF k + 1 <= n THEN n - (k + 1) + 1 ELSE 0
    <3> DEFINE m == k + 1
    <3>1. m \in Int /\ \A i \in m..n : times[i] \in Nat
      BY <2>1
    <3> HIDE DEF m
    <3>2. Len(SubSeq(times, m, n)) = IF m <= n THEN n - m + 1 ELSE 0
      BY <2>1, <3>1, SubSeqProperties
    <3>3. QED
      BY <3>2 DEF m
  <2>3. r = SubSeq(times, k + 1, n)
    BY DEF Recent, k, n
  <2>4. d = n - Len(r)
    BY DEF n
  <2>5. QED
    BY <1>1, <1>2, <2>2, <2>3, <2>4
<1>4. \A i \in 1..n : i \in 1..k <=> t - times[i] >= window
  BY <1>1, <1>2 DEF Expired
<1>5. QED
  <2> HIDE DEF k, n
  <2>1. d \in 0..n
    BY <1>1, <1>2, <1>3
  <2>2. \A i \in 1..d : t - times[i] >= window
    BY <1>1, <1>2, <1>3, <1>4
  <2>3. \A i \in (d + 1)..n : t - times[i] < window
    <3> TAKE i \in (d + 1)..n
    <3>1. i \in 1..n /\ i \notin 1..k
      BY <1>1, <1>2, <1>3
    <3>2. ~(t - times[i] >= window)
      BY <1>4, <3>1
    <3>3. QED
      BY <1>1, <3>1, <3>2
  <2>4. QED
    BY <2>1, <2>2, <2>3 DEF n

\* All of that about one pruning.
LEMMA Pruning ==
    ASSUME NEW times \in Seq(Nat), NEW t \in Nat, NEW window \in Nat,
           Chronological(times, t),
           NEW r, r = Recent(times, t, window)
    PROVE  /\ r \in Seq(Nat) /\ Chronological(r, t)
           /\ Len(r) <= Len(times)
           /\ \A i \in 1..Len(r) : r[i] = times[i + (Len(times) - Len(r))]
           /\ Len(times) - Len(r) \in 0..Len(times)
           /\ \A i \in 1..(Len(times) - Len(r)) : t - times[i] >= window
           /\ \A i \in (Len(times) - Len(r) + 1)..Len(times) :
                 t - times[i] < window
<1>1. /\ r \in Seq(Nat)
      /\ Len(r) <= Len(times)
      /\ \A i \in 1..Len(r) : r[i] = times[i + (Len(times) - Len(r))]
  <2>1. r \in Seq(Nat) /\ Len(r) <= Len(times)
    BY RecentIsSuffix
  <2>2. \A i \in 1..Len(r) : r[i] = times[i + (Len(times) - Len(r))]
    BY RecentIsSuffix
  <2>3. QED
    BY <2>1, <2>2
<1>2. Chronological(r, t)
  BY RecentChronological
<1>3. PICK d : d = Len(times) - Len(r)
  OBVIOUS
<1>4. /\ d \in 0..Len(times)
      /\ \A i \in 1..d : t - times[i] >= window
      /\ \A i \in (d + 1)..Len(times) : t - times[i] < window
  BY <1>3, RecentForgetsExpired
<1>5. QED
  BY <1>1, <1>2, <1>3, <1>4

\* A stamp taken now goes to the end of an ordered history.
LEMMA AppendChronological ==
    ASSUME NEW times \in Seq(Nat), NEW t \in Nat, Chronological(times, t)
    PROVE  /\ Append(times, t) \in Seq(Nat)
           /\ Len(Append(times, t)) = Len(times) + 1
           /\ Latest(Append(times, t)) = t
           /\ Chronological(Append(times, t), t)
<1> DEFINE a == Append(times, t)
<1>1. /\ Len(times) \in Nat /\ DOMAIN times = 1..Len(times)
      /\ a \in Seq(Nat) /\ Len(a) = Len(times) + 1
      /\ \A i \in 1..Len(times) : a[i] = times[i]
      /\ a[Len(times) + 1] = t
  BY LenProperties, AppendProperties
<1>2. DOMAIN a = 1..(Len(times) + 1)
  BY <1>1, LenProperties
<1>3. \A i \in DOMAIN a : a[i] <= t
  BY <1>1, <1>2 DEF Chronological
<1>4. \A i, j \in DOMAIN a : i <= j => a[i] <= a[j]
  <2> TAKE i, j \in DOMAIN a
  <2> HAVE i <= j
  <2>1. CASE j = Len(times) + 1
    BY <1>1, <1>3, <2>1
  <2>2. CASE j # Len(times) + 1
    <3>1. i \in 1..Len(times) /\ j \in 1..Len(times)
      BY <1>1, <1>2, <2>2
    <3>2. QED
      BY <1>1, <3>1 DEF Chronological
  <2>3. QED
    BY <2>1, <2>2
<1>5. Latest(a) = t
  BY <1>1 DEF Latest
<1>6. QED
  BY <1>1, <1>3, <1>4, <1>5 DEF Chronological

\* Of clients that all have a stamp, one is the least recently seen.
LEMMA OldestExists ==
    ASSUME NEW h, DOMAIN h # {}, h \in [DOMAIN h -> Seq(Nat)],
           \A x \in DOMAIN h : h[x] # << >>
    PROVE  Oldest(h) # {}
<1> DEFINE T == {Latest(h[x]) : x \in DOMAIN h}
<1>1. \A x \in DOMAIN h : Latest(h[x]) \in Nat
  <2> TAKE x \in DOMAIN h
  <2>1. h[x] \in Seq(Nat)
    OBVIOUS
  <2>2. /\ Len(h[x]) \in Nat /\ Len(h[x]) # 0
        /\ h[x] \in [1..Len(h[x]) -> Nat]
    BY <2>1, LenProperties, EmptySeq
  <2>3. QED
    BY <2>2 DEF Latest
<1>2. T \subseteq Nat /\ T # {}
  BY <1>1
<1>3. PICK t \in T : \A u \in T : t <= u
  BY <1>2, LeastNatural
<1>4. PICK x \in DOMAIN h : t = Latest(h[x])
  OBVIOUS
<1>5. x \in Oldest(h)
  BY <1>3, <1>4 DEF Oldest
<1>6. QED
  BY <1>5

\* Making room evicts at most one client and touches no other, and leaves
\* room for the newcomer under the cap.
LEMMA RoomForOneMore ==
    ASSUME NEW h, IsFiniteSet(DOMAIN h), h \in [DOMAIN h -> Seq(Nat)],
           \A x \in DOMAIN h : h[x] # << >>,
           NEW cap \in Nat \ {0}, Cardinality(DOMAIN h) <= cap,
           NEW ip, NEW g \in RoomFor(h, ip, cap)
    PROVE  /\ DOMAIN g \subseteq DOMAIN h
           /\ \A x \in DOMAIN g : g[x] = h[x]
           /\ g \in [DOMAIN g -> Seq(Nat)]
           /\ IsFiniteSet(DOMAIN g \cup {ip})
           /\ Cardinality(DOMAIN g \cup {ip}) <= cap
<1> DEFINE D == DOMAIN h
<1>0. Cardinality(D) \in Nat
  BY FS_CardinalityType
<1>1. CASE Cardinality(D) >= cap /\ ip \notin D
  <2>1. D # {}
    BY <1>0, <1>1, FS_EmptySet
  <2>2. PICK o \in Oldest(h) : g = Without(h, o)
    BY <1>1, <2>1, OldestExists DEF RoomFor
  <2>3. o \in D /\ DOMAIN g = D \ {o} /\ \A x \in DOMAIN g : g[x] = h[x]
    BY <2>2 DEF Oldest, Without
  <2>4. g \in [DOMAIN g -> Seq(Nat)]
    BY <2>2, <2>3 DEF Without
  <2>5. IsFiniteSet(D \ {o}) /\ Cardinality(D \ {o}) = Cardinality(D) - 1
    BY <2>3, FS_RemoveElement
  <2>6. /\ IsFiniteSet((D \ {o}) \cup {ip})
        /\ Cardinality((D \ {o}) \cup {ip}) = Cardinality(D \ {o}) + 1
    BY <1>1, <2>5, FS_AddElement
  <2>7. QED
    BY <1>0, <2>3, <2>4, <2>5, <2>6
<1>2. CASE ~(Cardinality(D) >= cap /\ ip \notin D)
  <2>1. g = h
    BY <1>2 DEF RoomFor
  <2>2. /\ IsFiniteSet(D \cup {ip})
        /\ Cardinality(D \cup {ip})
             = IF ip \in D THEN Cardinality(D) ELSE Cardinality(D) + 1
    BY FS_AddElement
  <2>3. QED
    BY <1>0, <1>2, <2>1, <2>2
<1>3. QED
  BY <1>1, <1>2

=============================================================================
