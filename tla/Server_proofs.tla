---------------------------- MODULE Server_proofs ---------------------------
(***************************************************************************)
(* Theorems about what the API server keeps for its clients (request       *)
(* limits, accounts and tokens, the log stream, the configuration) and     *)
(* about the database of the development harness.  One part per component; *)
(* only the accounts use the facts about windows of the request limits.    *)
(***************************************************************************)
EXTENDS RequestLimits, Accounts, LogStream, Configuration, HarnessLimit,
        HarnessAgents, HarnessFeatures, SequenceTheorems, FiniteSetTheorems, WellFoundedInduction, TLAPS

-----------------------------------------------------------------------------
(* A sliding window: stamps in order of time, of which the old ones are dropped. *)
Nondecreasing(s) == \A i, j \in 1 .. Len(s) : i <= j => s[i] <= s[j]

LEMMA AppendedIs ==
    ASSUME NEW s \in Seq(Nat), NEW x \in Nat
    PROVE  /\ Append(s, x) \in Seq(Nat) /\ Len(Append(s, x)) = Len(s) + 1
           /\ \A i \in 1 .. Len(s) : Append(s, x)[i] = s[i]
           /\ Append(s, x)[Len(s) + 1] = x
  OBVIOUS

(* A set of naturals has a least element. *)
LEMMA LeastOf ==
    ASSUME NEW T \in SUBSET Nat, T # {}
    PROVE  \E m \in T : \A k \in T : m <= k
<1> DEFINE R == OpToRel(<, Nat)
<1>1. IsWellFoundedOn(R, Nat)
  BY NatLessThanWellFounded
<1>2. \E x \in T : \A y \in T : ~(<<y, x>> \in R)
  <2> HIDE DEF R
  <2> QED  BY <1>1, WFMin
<1>3. \A x, y \in T : ~(<<y, x>> \in R) => x <= y
  BY DEF OpToRel
<1>. QED  BY <1>2, <1>3

(* Positions that begin at the first one are counted by the last one. *)
LEMMA InitialPositions ==
    ASSUME NEW n \in Nat, NEW D \in SUBSET (1 .. n), \A i \in D : \A j \in 1 .. i : j \in D
    PROVE  Cardinality(D) \in 0 .. n /\ D = 1 .. Cardinality(D)
<1> DEFINE T == (1 .. (n + 1)) \ D
<1>1. T \in SUBSET Nat /\ n + 1 \in T
  OBVIOUS
<1>2. PICK c \in T : \A k \in T : c <= k
  <2> HIDE DEF T
  <2> QED  BY <1>1, LeastOf
<1>3. c \in 1 .. (n + 1) /\ c \notin D /\ \A k \in 1 .. (n + 1) : k < c => k \in D
  BY <1>2
<1>4. \A i \in D : i < c
  <2> SUFFICES ASSUME NEW i \in D, ~(i < c) PROVE FALSE
    OBVIOUS
  <2>1. c \in 1 .. i
    BY <1>3
  <2>. QED  BY <1>3, <2>1
<1>5. D = 1 .. (c - 1)
  <2>1. \A i \in 1 .. (c - 1) : i \in D
    BY <1>3
  <2>2. \A i \in D : i \in 1 .. (c - 1)
    BY <1>3, <1>4
  <2>. QED  BY <2>1, <2>2
<1>6. Cardinality(1 .. (c - 1)) = c - 1
  <2>1. Cardinality(1 .. (c - 1)) = IF 1 > c - 1 THEN 0 ELSE (c - 1) - 1 + 1
    BY <1>3, FS_Interval
  <2>. QED  BY <1>3, <2>1
<1>. QED  BY <1>3, <1>5, <1>6

LEMMA Suffix ==
    ASSUME NEW S, NEW s \in Seq(S), NEW c \in 0 .. Len(s)
    PROVE  /\ SubSeq(s, 1 + c, Len(s)) \in Seq(S)
           /\ Len(SubSeq(s, 1 + c, Len(s))) = Len(s) - c
           /\ \A i \in 1 .. (Len(s) - c) : SubSeq(s, 1 + c, Len(s))[i] = s[c + i]
<1> DEFINE m == 1 + c
           n == Len(s)
<1>1. n \in Nat /\ c \in Nat /\ c <= n /\ m \in Int /\ n \in Int
  OBVIOUS
<1>2. \A i \in m .. n : s[i] \in S
  BY <1>1
<1>3. n - m + 1 = n - c /\ (\A i \in Int : m + i - 1 = c + i)
      /\ (IF m <= n THEN n - m + 1 ELSE 0) = n - c
  BY <1>1
<1> HIDE DEF m, n
<1>4. /\ SubSeq(s, m, n) \in Seq(S)
      /\ Len(SubSeq(s, m, n)) = IF m <= n THEN n - m + 1 ELSE 0
      /\ \A i \in 1 .. (n - m + 1) : SubSeq(s, m, n)[i] = s[m + i - 1]
  BY <1>1, <1>2, SubSeqProperties
<1>5. Len(SubSeq(s, m, n)) = n - c /\ \A i \in 1 .. (n - c) : SubSeq(s, m, n)[i] = s[c + i]
  BY <1>3, <1>4
<1>. QED  BY <1>4, <1>5 DEF m, n

(* Of stamps in order of time, those of a span ago are the first ones. *)
LEMMA OldComeFirst ==
    ASSUME NEW s \in Seq(Nat), Nondecreasing(s), NEW span \in Nat, NEW t \in Nat
    PROVE  \E c \in 0 .. Len(s) :
              /\ c = Cardinality({i \in DOMAIN s : ~(s[i] + span > t)})
              /\ \A i \in 1 .. Len(s) : s[i] + span <= t <=> i <= c
<1> DEFINE D == {i \in DOMAIN s : ~(s[i] + span > t)}
<1>1. Len(s) \in Nat /\ DOMAIN s = 1 .. Len(s) /\ \A i \in 1 .. Len(s) : s[i] \in Nat
  OBVIOUS
<1>2. D \in SUBSET (1 .. Len(s))
  BY <1>1
<1>3. \A i \in D : \A j \in 1 .. i : j \in D
  <2> SUFFICES ASSUME NEW i \in D, NEW j \in 1 .. i PROVE j \in D
    OBVIOUS
  <2>1. i \in 1 .. Len(s) /\ j \in 1 .. Len(s) /\ j <= i
    BY <1>1
  <2>2. s[j] <= s[i] /\ s[j] \in Nat /\ s[i] \in Nat /\ ~(s[i] + span > t)
    BY <1>1, <2>1 DEF Nondecreasing
  <2>3. ~(s[j] + span > t)
    BY <2>2
  <2>. QED  BY <1>1, <2>1, <2>3
<1>4. Cardinality(D) \in 0 .. Len(s) /\ D = 1 .. Cardinality(D)
  <2> HIDE DEF D
  <2> QED  BY <1>1, <1>2, <1>3, InitialPositions
<1>5. \A i \in 1 .. Len(s) : s[i] + span <= t <=> i <= Cardinality(D)
  <2> SUFFICES ASSUME NEW i \in 1 .. Len(s) PROVE s[i] + span <= t <=> i <= Cardinality(D)
    OBVIOUS
  <2>1. i \in D <=> i <= Cardinality(D)
    <3> HIDE DEF D
    <3> QED  BY <1>1, <1>4
  <2>2. i \in D <=> ~(s[i] + span > t)
    BY <1>1
  <2>. QED  BY <1>1, <2>1, <2>2
<1>. QED  BY <1>4, <1>5

-----------------------------------------------------------------------------
(* The request window. *)
LEMMA LimitsNat == Limit \in Nat /\ RateSpan \in Nat /\ PurgeEvery \in Nat /\ MaxNow \in Nat
  BY LimitsAssumption

(* What the window keeps of a key are the last requests let through, and those it no
   longer keeps are a window old. *)
WindowOf(s, a, t) ==
    /\ Len(s) <= Len(a)
    /\ \A i \in 1 .. Len(s) : s[i] = a[Len(a) - Len(s) + i]
    /\ \A i \in 1 .. (Len(a) - Len(s)) : a[i] + RateSpan <= t

Admissions(a, t) ==
    /\ a \in Seq(Nat) /\ Nondecreasing(a) /\ Len(a) <= Limit + 1
    /\ \A i \in 1 .. Len(a) : a[i] <= t
    /\ Len(a) = Limit + 1 => a[Limit + 1] >= a[1] + RateSpan

LimitsInv ==
    /\ wall \in Nat /\ lastPurge \in Nat
    /\ _requests \in [Senders -> Seq(Nat)]
    /\ admitted \in [Senders -> Seq(Nat)]
    /\ \A k \in Senders : /\ Len(_requests[k]) <= Limit
                          /\ WindowOf(_requests[k], admitted[k], wall)
                          /\ Admissions(admitted[k], wall)

LEMMA WindowInOrder ==
    ASSUME NEW s \in Seq(Nat), NEW a \in Seq(Nat), Nondecreasing(a), WindowOf(s, a, wall)
    PROVE  Nondecreasing(s)
<1> SUFFICES ASSUME NEW i \in 1 .. Len(s), NEW j \in 1 .. Len(s), i <= j PROVE s[i] <= s[j]
  BY DEF Nondecreasing
<1> DEFINE d == Len(a) - Len(s)
<1>1. d \in Nat /\ d + i \in 1 .. Len(a) /\ d + j \in 1 .. Len(a) /\ d + i <= d + j
  BY DEF WindowOf
<1>2. s[i] = a[d + i] /\ s[j] = a[d + j]
  BY DEF WindowOf
<1> HIDE DEF d
<1>3. a[d + i] <= a[d + j]
  BY <1>1 DEF Nondecreasing
<1>. QED  BY <1>2, <1>3

(* The window may be shortened by what is old. *)
LEMMA CleanedWindow ==
    ASSUME wall \in Nat, NEW s \in Seq(Nat), NEW a \in Seq(Nat), Nondecreasing(a), WindowOf(s, a, wall)
    PROVE  /\ CleanedUp(s) \in Seq(Nat) /\ Len(CleanedUp(s)) <= Len(s)
           /\ WindowOf(CleanedUp(s), a, wall)
<1>0. PICK c \in 0 .. Len(s) :
         /\ c = Cardinality({i \in DOMAIN s : ~(s[i] + RateSpan > wall)})
         /\ \A i \in 1 .. Len(s) : s[i] + RateSpan <= wall <=> i <= c
  BY WindowInOrder, OldComeFirst, LimitsNat
<1> DEFINE r == SubSeq(s, 1 + c, Len(s))
           d == Len(a) - Len(s)
<1>1. CleanedUp(s) = r
  BY <1>0 DEF CleanedUp, Recent
<1>2. /\ c \in 0 .. Len(s)
      /\ \A i \in 1 .. Len(s) : s[i] + RateSpan <= wall <=> i <= c
      /\ r \in Seq(Nat) /\ Len(r) = Len(s) - c
      /\ \A i \in 1 .. (Len(s) - c) : r[i] = s[c + i]
  BY <1>0, Suffix
<1> HIDE DEF r
<1>3. d \in Nat /\ Len(a) - Len(r) = d + c /\ Len(s) \in Nat /\ Len(a) \in Nat
  BY <1>2 DEF WindowOf
<1>4. (\A i \in 1 .. Len(s) : s[i] = a[d + i]) /\ \A i \in 1 .. d : a[i] + RateSpan <= wall
  BY DEF WindowOf
<1> HIDE DEF d
<1>5. \A i \in 1 .. Len(r) : r[i] = a[(d + c) + i]
  <2> SUFFICES ASSUME NEW i \in 1 .. Len(r) PROVE r[i] = a[(d + c) + i]
    OBVIOUS
  <2>1. c + i \in 1 .. Len(s) /\ r[i] = s[c + i]
    BY <1>2, <1>3
  <2>2. d + (c + i) = (d + c) + i
    BY <1>2, <1>3
  <2>. QED  BY <1>4, <2>1, <2>2
<1>6. \A i \in 1 .. (d + c) : a[i] + RateSpan <= wall
  <2> SUFFICES ASSUME NEW i \in 1 .. (d + c) PROVE a[i] + RateSpan <= wall
    OBVIOUS
  <2>1. CASE i <= d
    BY <1>3, <1>4, <2>1
  <2>2. CASE i > d
    <3>1. i - d \in 1 .. Len(s) /\ i - d <= c /\ d + (i - d) = i
      BY <1>2, <1>3, <2>2
    <3>2. s[i - d] + RateSpan <= wall /\ s[i - d] = a[i]
      BY <1>2, <1>4, <3>1
    <3>. QED  BY <3>2
  <2>. QED  BY <1>2, <1>3, <2>1, <2>2
<1>7. Len(r) <= Len(s) /\ Len(r) <= Len(a) /\ Len(r) \in Nat
  BY <1>2, <1>3 DEF WindowOf
<1>8. WindowOf(r, a, wall)
  BY <1>3, <1>5, <1>6, <1>7 DEF WindowOf
<1>. QED  BY <1>1, <1>2, <1>7, <1>8

(* A key whose last stamp is older than the window is forgotten altogether. *)
LEMMA StaleWindow ==
    ASSUME wall \in Nat, NEW s \in Seq(Nat), NEW a \in Seq(Nat), Nondecreasing(a), WindowOf(s, a, wall), Stale(s)
    PROVE  WindowOf(<<>>, a, wall)
<1>1. ASSUME NEW i \in 1 .. Len(a) PROVE a[i] + RateSpan <= wall
  <2> DEFINE d == Len(a) - Len(s)
  <2>1. CASE i <= d
    BY <2>1 DEF WindowOf
  <2>2. CASE i > d
    <3>1. Len(s) > 0 /\ Len(s) \in Nat /\ Len(a) \in Nat /\ d + Len(s) = Len(a) /\ d \in Nat
      BY <2>2 DEF WindowOf
    <3>2. s[Len(s)] + RateSpan < wall /\ s[Len(s)] \in Nat
      BY <3>1 DEF Stale
    <3>3. s[Len(s)] = a[Len(a)]
      BY <3>1 DEF WindowOf
    <3>4. a[i] <= a[Len(a)] /\ a[i] \in Nat
      BY <3>1 DEF Nondecreasing
    <3>. QED  BY <3>2, <3>3, <3>4, LimitsNat
  <2>. QED  BY <2>1, <2>2
<1>. QED  BY <1>1 DEF WindowOf

LEMMA PurgedWindow ==
    ASSUME LimitsInv, NEW k \in Senders
    PROVE  /\ Purged \in [Senders -> Seq(Nat)]
           /\ WindowOf(Purged[k], admitted[k], wall) /\ Len(Purged[k]) <= Limit
<1>1. Purged \in [Senders -> Seq(Nat)]
  BY DEF Purged, LimitsInv
<1>2. Purged[k] = _requests[k] \/ (Purged[k] = <<>> /\ Stale(_requests[k]))
  BY DEF Purged
<1>3. /\ _requests[k] \in Seq(Nat) /\ admitted[k] \in Seq(Nat) /\ Nondecreasing(admitted[k]) /\ wall \in Nat
      /\ WindowOf(_requests[k], admitted[k], wall) /\ Len(_requests[k]) <= Limit
  BY DEF LimitsInv, Admissions
<1>4. CASE Purged[k] = <<>> /\ Stale(_requests[k])
  BY <1>1, <1>3, <1>4, StaleWindow, LimitsNat
<1>. QED  BY <1>1, <1>2, <1>3, <1>4

(* What a request that is let through adds to the window and to the history. *)
LEMMA AdmittedWindow ==
    ASSUME wall \in Nat, NEW r \in Seq(Nat), NEW a \in Seq(Nat), WindowOf(r, a, wall), Admissions(a, wall),
           Len(r) < Limit
    PROVE  LET b == Latest(Append(a, wall))
               q == Append(r, wall)
           IN  /\ q \in Seq(Nat) /\ b \in Seq(Nat) /\ Len(q) <= Limit
               /\ WindowOf(q, b, wall) /\ Admissions(b, wall)
<1> DEFINE all == Append(a, wall)
           q == Append(r, wall)
           b == Latest(all)
           n == Len(a)
           m == Len(r)
<1>0. n \in Nat /\ m \in Nat /\ Limit \in Nat /\ RateSpan \in Nat /\ m <= n /\ n <= Limit + 1
  BY LimitsNat DEF WindowOf, Admissions
<1>1. /\ all \in Seq(Nat) /\ Len(all) = n + 1 /\ all[n + 1] = wall
      /\ \A i \in 1 .. n : all[i] = a[i]
  OBVIOUS
<1>2. /\ q \in Seq(Nat) /\ Len(q) = m + 1 /\ q[m + 1] = wall
      /\ \A i \in 1 .. m : q[i] = r[i]
  OBVIOUS
<1>3. PICK e \in {0, 1} : /\ b \in Seq(Nat) /\ Len(b) = n + 1 - e
                          /\ \A i \in 1 .. (n + 1 - e) : b[i] = all[i + e]
                          /\ e = 1 <=> n = Limit + 1
  <2>1. CASE n + 1 > Limit + 1
    <3>1. b = Tail(all) /\ n = Limit + 1
      BY <1>0, <1>1, <2>1 DEF Latest
    <3>2. all # <<>>
      BY <1>0, <1>1
    <3>3. Tail(all) \in Seq(Nat) /\ Len(Tail(all)) = n /\ \A i \in 1 .. n : Tail(all)[i] = all[i + 1]
      <4> HIDE DEF all
      <4>1. /\ Tail(all) \in Seq(Nat) /\ Len(Tail(all)) = Len(all) - 1
            /\ \A i \in 1 .. Len(Tail(all)) : Tail(all)[i] = all[i + 1]
        BY <1>1, <3>2, HeadTailProperties
      <4>. QED  BY <1>0, <1>1, <4>1
    <3>4. n + 1 - 1 = n
      BY <1>0
    <3> HIDE DEF all, b
    <3>. QED  BY <3>1, <3>3, <3>4
  <2>2. CASE ~(n + 1 > Limit + 1)
    <3>1. b = all /\ n # Limit + 1
      BY <1>0, <1>1, <2>2 DEF Latest
    <3> HIDE DEF all, b
    <3>2. n + 1 - 0 = n + 1 /\ \A i \in 1 .. (n + 1) : i + 0 = i
      BY <1>0
    <3>. QED  BY <1>1, <3>1, <3>2
  <2>. QED  BY <2>1, <2>2
<1>4. /\ (\A i \in 1 .. m : r[i] = a[n - m + i])
      /\ \A i \in 1 .. (n - m) : a[i] + RateSpan <= wall
  BY DEF WindowOf
<1>5. /\ (\A i \in 1 .. n : a[i] \in Nat /\ a[i] <= wall)
      /\ \A i, j \in 1 .. n : i <= j => a[i] <= a[j]
  BY DEF Admissions, Nondecreasing
<1> HIDE DEF all, q, b, n, m
<1>6. WindowOf(q, b, wall)
  <2>1. Len(b) - Len(q) = n - m - e /\ Len(q) <= Len(b) /\ n - m - e \in Nat
    BY <1>0, <1>2, <1>3 DEF m
  <2>2. \A i \in 1 .. Len(q) : q[i] = b[(n - m - e) + i]
    <3> SUFFICES ASSUME NEW i \in 1 .. (m + 1) PROVE q[i] = b[(n - m - e) + i]
      BY <1>2
    <3>1. (n - m - e) + i \in 1 .. (n + 1 - e) /\ ((n - m - e) + i) + e = (n - m) + i
      BY <1>0, <1>3, <2>1
    <3>2. b[(n - m - e) + i] = all[(n - m) + i]
      BY <1>3, <3>1
    <3>3. CASE i = m + 1
      <4>1. (n - m) + i = n + 1
        BY <1>0, <3>3
      <4>. QED  BY <1>1, <1>2, <3>2, <3>3, <4>1
    <3>4. CASE i # m + 1
      <4>1. i \in 1 .. m /\ (n - m) + i \in 1 .. n
        BY <1>0, <3>4
      <4>. QED  BY <1>1, <1>2, <1>4, <3>2, <4>1
    <3>. QED  BY <3>3, <3>4
  <2>3. \A i \in 1 .. (n - m - e) : b[i] + RateSpan <= wall
    <3> SUFFICES ASSUME NEW i \in 1 .. (n - m - e) PROVE b[i] + RateSpan <= wall
      OBVIOUS
    <3>1. i + e \in 1 .. (n - m) /\ i + e \in 1 .. n /\ i \in 1 .. (n + 1 - e)
      BY <1>0, <1>3
    <3>2. b[i] = a[i + e]
      BY <1>1, <1>3, <3>1
    <3>. QED  BY <1>4, <3>1, <3>2
  <2>. QED  BY <2>1, <2>2, <2>3 DEF WindowOf
<1>7. \A i \in 1 .. (n + 1) : all[i] \in Nat /\ all[i] <= wall
  <2> SUFFICES ASSUME NEW i \in 1 .. (n + 1) PROVE all[i] \in Nat /\ all[i] <= wall
    OBVIOUS
  <2>1. CASE i = n + 1
    BY <1>1, <2>1
  <2>2. CASE i # n + 1
    <3>1. i \in 1 .. n
      BY <1>0, <2>2
    <3>. QED  BY <1>1, <1>5, <3>1
  <2>. QED  BY <2>1, <2>2
<1>8. \A i, j \in 1 .. (n + 1) : i <= j => all[i] <= all[j]
  <2> SUFFICES ASSUME NEW i \in 1 .. (n + 1), NEW j \in 1 .. (n + 1), i <= j PROVE all[i] <= all[j]
    OBVIOUS
  <2>1. CASE j = n + 1
    BY <1>1, <1>7, <2>1
  <2>2. CASE j # n + 1
    <3>1. i \in 1 .. n /\ j \in 1 .. n
      BY <1>0, <2>2
    <3>. QED  BY <1>1, <1>5, <3>1
  <2>. QED  BY <2>1, <2>2
<1>9. Admissions(b, wall)
  <2>1. Len(b) <= Limit + 1
    BY <1>0, <1>3
  <2>2. \A i \in 1 .. Len(b) : i + e \in 1 .. (n + 1) /\ b[i] = all[i + e]
    <3> SUFFICES ASSUME NEW i \in 1 .. Len(b) PROVE i + e \in 1 .. (n + 1) /\ b[i] = all[i + e]
      OBVIOUS
    <3>1. i \in 1 .. (n + 1 - e)
      BY <1>3
    <3>2. i + e \in 1 .. (n + 1)
      BY <3>1, <1>0
    <3>3. b[i] = all[i + e]
      BY <3>1, <1>3
    <3>. QED  BY <3>2, <3>3
  <2>3. \A i, j \in 1 .. Len(b) : i <= j => b[i] <= b[j]
    <3> SUFFICES ASSUME NEW i \in 1 .. Len(b), NEW j \in 1 .. Len(b), i <= j PROVE b[i] <= b[j]
      OBVIOUS
    <3>1. i + e <= j + e /\ i + e \in 1 .. (n + 1) /\ j + e \in 1 .. (n + 1)
      BY <1>3, <2>2
    <3>2. all[i + e] <= all[j + e]
      BY <1>8, <3>1
    <3>. QED  BY <2>2, <3>2
  <2>4. ASSUME Len(b) = Limit + 1 PROVE b[Limit + 1] >= b[1] + RateSpan
    <3>0. n + 1 - e = Limit + 1
      BY <1>3, <2>4
    <3>1. n + 1 - e = Limit + 1 /\ 1 \in 1 .. Len(b) /\ Limit + 1 \in 1 .. Len(b)
      BY <1>0, <2>4, <3>0
    <3>2. b[Limit + 1] = wall
      <4>1. (Limit + 1) + e = n + 1
        BY <1>0, <1>3, <3>1
      <4>. QED  BY <1>1, <2>2, <3>1, <4>1
    <3>3. 1 + e \in 1 .. (n - m) /\ 1 + e \in 1 .. n
      <4>1. m < Limit
        BY DEF m
      <4>. QED  BY <1>0, <1>3, <3>1, <4>1
    <3>4. b[1] = a[1 + e] /\ a[1 + e] + RateSpan <= wall /\ a[1 + e] \in Nat
      BY <1>1, <1>4, <1>5, <2>2, <3>1, <3>3
    <3>. QED  BY <1>0, <3>2, <3>4
  <2>5. \A i \in 1 .. Len(b) : b[i] <= wall
    BY <1>7, <2>2
  <2>. QED  BY <1>3, <2>1, <2>3, <2>4, <2>5 DEF Admissions, Nondecreasing
<1>10. Len(q) <= Limit
  BY <1>0, <1>2 DEF m
<1>. QED  BY <1>2, <1>3, <1>6, <1>9, <1>10 DEF b, q, all

LEMMA LimitsInit == RInit => LimitsInv
<1>1. Len(<<>>) = 0 /\ <<>> \in Seq(Nat)
  OBVIOUS
<1>2. WindowOf(<<>>, <<>>, wall) /\ Admissions(<<>>, wall)
  BY LimitsNat DEF WindowOf, Admissions, Nondecreasing
<1>. QED  BY <1>1, <1>2, LimitsNat DEF RInit, LimitsInv

LEMMA LimitsStep == LimitsInv /\ [RNext]_rlvars => LimitsInv'
<1> SUFFICES ASSUME LimitsInv, [RNext]_rlvars PROVE LimitsInv'
  OBVIOUS
<1>1. CASE UNCHANGED rlvars
  BY <1>1 DEF rlvars, LimitsInv, WindowOf, Admissions
<1>2. CASE Tick
  <2>1. wall \in Nat /\ wall' = wall + 1 /\ UNCHANGED <<_requests, lastPurge, admitted>>
    BY <1>2 DEF Tick, LimitsInv
  <2>2. \A k \in Senders : WindowOf(_requests[k], admitted[k], wall)' /\ Admissions(admitted[k], wall)'
    <3> SUFFICES ASSUME NEW k \in Senders
                 PROVE  WindowOf(_requests[k], admitted[k], wall)' /\ Admissions(admitted[k], wall)'
      OBVIOUS
    <3>1. admitted[k] \in Seq(Nat) /\ _requests[k] \in Seq(Nat)
          /\ WindowOf(_requests[k], admitted[k], wall) /\ Admissions(admitted[k], wall)
      BY DEF LimitsInv
    <3>2. \A i \in 1 .. Len(admitted[k]) : admitted[k][i] \in Nat
      BY <3>1
    <3>3. WindowOf(_requests[k], admitted[k], wall)'
      <4> DEFINE s == _requests[k]
                 a == admitted[k]
      <4>1. Len(a) \in Nat /\ Len(s) \in Nat /\ RateSpan \in Nat
        BY <3>1, LimitsNat
      <4>2. \A i \in 1 .. (Len(a) - Len(s)) : i \in 1 .. Len(a) /\ a[i] + RateSpan <= wall
        BY <3>1, <4>1 DEF WindowOf
      <4>3. \A i \in 1 .. (Len(a) - Len(s)) : a[i] + RateSpan <= wall + 1
        <5> SUFFICES ASSUME NEW i \in 1 .. (Len(a) - Len(s)) PROVE a[i] + RateSpan <= wall + 1
          OBVIOUS
        <5>1. a[i] \in Nat /\ a[i] + RateSpan <= wall
          BY <3>2, <4>2
        <5>. QED  BY <2>1, <4>1, <5>1
      <4>. QED  BY <2>1, <3>1, <4>3 DEF WindowOf
    <3>4. Admissions(admitted[k], wall)'
      BY <2>1, <3>1, <3>2 DEF Admissions
    <3>. QED  BY <3>3, <3>4
  <2>. QED  BY <2>1, <2>2 DEF LimitsInv
<1>3. ASSUME NEW k \in Senders, NEW kd \in Kinds, Request(k, kd)
      PROVE  LimitsInv'
  <2>0. wall' = wall /\ wall \in Nat
    BY <1>3 DEF Request, LimitsInv
  <2>1. CASE UNCHANGED <<_requests, lastPurge, admitted>>
    BY <2>0, <2>1 DEF LimitsInv, WindowOf, Admissions
  <2>2. CASE IsAllowed(k)
    <3> DEFINE kept == CleanedUp(Purged[k])
               ok == Len(kept) < Limit
    <3>1. /\ lastPurge' = IF PurgeDue THEN wall ELSE lastPurge
          /\ _requests' = [Purged EXCEPT ![k] = IF ok THEN Append(kept, wall) ELSE kept]
          /\ admitted' = IF ok THEN [admitted EXCEPT ![k] = Latest(Append(@, wall))] ELSE admitted
      BY <2>2 DEF IsAllowed
    <3>2. /\ Purged \in [Senders -> Seq(Nat)]
          /\ \A j \in Senders : WindowOf(Purged[j], admitted[j], wall) /\ Len(Purged[j]) <= Limit
      BY PurgedWindow
    <3>3. /\ admitted \in [Senders -> Seq(Nat)]
          /\ \A j \in Senders : Admissions(admitted[j], wall)
      BY DEF LimitsInv
    <3>4. /\ kept \in Seq(Nat) /\ Len(kept) <= Len(Purged[k]) /\ WindowOf(kept, admitted[k], wall)
      BY <2>0, <3>2, <3>3, CleanedWindow DEF Admissions
    <3>5. Len(kept) <= Limit
      BY <3>2, <3>4, LimitsNat
    <3> HIDE DEF kept
    <3>6. CASE ~ok
      <4>1. /\ _requests' \in [Senders -> Seq(Nat)] /\ admitted' = admitted
            /\ \A j \in Senders : _requests'[j] = IF j = k THEN kept ELSE Purged[j]
        BY <3>1, <3>2, <3>4, <3>6
      <4>2. \A j \in Senders : WindowOf(_requests'[j], admitted'[j], wall) /\ Admissions(admitted'[j], wall)
        BY <3>2, <3>3, <3>4, <4>1
      <4>3. \A j \in Senders : Len(_requests'[j]) <= Limit
        BY <3>2, <3>5, <4>1
      <4>4. lastPurge' \in Nat
        BY <2>0, <3>1 DEF LimitsInv
      <4>. QED  BY <2>0, <3>3, <4>1, <4>2, <4>3, <4>4 DEF LimitsInv
    <3>7. CASE ok
      <4> DEFINE q == Append(kept, wall)
                 b == Latest(Append(admitted[k], wall))
      <4>1. q \in Seq(Nat) /\ b \in Seq(Nat) /\ Len(q) <= Limit /\ WindowOf(q, b, wall) /\ Admissions(b, wall)
        BY <2>0, <3>3, <3>4, <3>7, AdmittedWindow
      <4>2. _requests' = [Purged EXCEPT ![k] = q] /\ admitted' = [admitted EXCEPT ![k] = b]
        BY <3>1, <3>7
      <4> HIDE DEF q, b
      <4>3. /\ _requests' \in [Senders -> Seq(Nat)] /\ admitted' \in [Senders -> Seq(Nat)]
            /\ \A j \in Senders : /\ _requests'[j] = IF j = k THEN q ELSE Purged[j]
                                  /\ admitted'[j] = IF j = k THEN b ELSE admitted[j]
        BY <3>2, <3>3, <4>1, <4>2
      <4>4. \A j \in Senders : WindowOf(_requests'[j], admitted'[j], wall) /\ Admissions(admitted'[j], wall)
        BY <3>2, <3>3, <4>1, <4>3
      <4>5. \A j \in Senders : Len(_requests'[j]) <= Limit
        BY <3>2, <4>1, <4>3
      <4>6. lastPurge' \in Nat
        BY <2>0, <3>1 DEF LimitsInv
      <4>. QED  BY <2>0, <4>3, <4>4, <4>5, <4>6 DEF LimitsInv
    <3>. QED  BY <3>6, <3>7
  <2>. QED  BY <1>3, <2>1, <2>2 DEF Request
<1>. QED  BY <1>1, <1>2, <1>3 DEF RNext

(* However the keys are purged and the stamps cleaned up, any Limit + 1 requests of one key
   that were let through in a row span a window of time. *)
THEOREM NoWindowExceedsLimit == RSpec => []RateHolds
<1>1. LimitsInv => RateHolds
  <2> SUFFICES ASSUME LimitsInv, NEW k \in Senders, NEW i \in 1 .. Len(admitted[k]),
                      i + Limit <= Len(admitted[k])
               PROVE  admitted[k][i + Limit] >= admitted[k][i] + RateSpan
    BY DEF RateHolds
  <2>1. Admissions(admitted[k], wall) /\ Len(admitted[k]) \in Nat
    BY DEF LimitsInv, Admissions
  <2>2. i = 1 /\ Len(admitted[k]) = Limit + 1 /\ i + Limit = Limit + 1
    BY <2>1, LimitsNat DEF Admissions
  <2>. QED  BY <2>1, <2>2 DEF Admissions
<1>. QED  BY <1>1, LimitsInit, LimitsStep, PTL DEF RSpec

-----------------------------------------------------------------------------
UserRecord == [role : Roles \cup {"none"}, stamps : Seq(0 .. MaxTime),
               locked : 0 .. (MaxTime + LockTime), version : 0 .. MaxEvents]
TokenRecord == [kind : {"access", "refresh"}, sub : Usernames, role : Roles \cup {"none"},
                version : 0 .. MaxEvents, exp : Nat]

AccountTypes ==
    /\ now \in 0 .. MaxTime
    /\ users \in [Usernames -> UserRecord] /\ disk \in [Usernames -> UserRecord]
    /\ tokens \in Seq(TokenRecord) /\ Len(tokens) <= MaxTokens
    /\ blacklist \in SUBSET (1 .. MaxTokens) /\ diskList \in SUBSET (1 .. MaxTokens)
    /\ exchanged \in SUBSET (1 .. MaxTokens)
    /\ events_left \in 0 .. MaxEvents
    /\ tries \in [Usernames -> Seq(0 .. MaxTime)]
    /\ twice \in BOOLEAN /\ remade \in SUBSET Usernames /\ lost \in BOOLEAN
    /\ \A n \in Usernames : /\ users[n].version + events_left <= MaxEvents
                            /\ disk[n].version + events_left <= MaxEvents

(* A token of a user who was never deleted is not newer than the user, and if it is as
   new, it names the user's role. *)
Current(tk, us, gone) ==
    tk.sub \notin gone =>
        /\ us[tk.sub].role \in Roles
        /\ tk.version <= us[tk.sub].version
        /\ tk.version = us[tk.sub].version /\ tk.kind = "access" => tk.role = us[tk.sub].role

TokensInv ==
    /\ \A n \in Usernames : Exists(n) => users[n].role \in Roles
    /\ \A j \in DOMAIN tokens : Current(tokens[j], users, remade)

RotationInv == exchanged \subseteq blacklist /\ ~twice

(* What an account remembers of the attempts agrees with the attempts made, and those it
   does not remember are a window old. *)
Recalls(s, a, t) ==
    /\ \A i \in 1 .. Len(s), j \in 1 .. Len(a) : Len(s) - i = Len(a) - j => s[i] = a[j]
    /\ \A j \in 1 .. (Len(a) - Len(s)) : a[j] + Window <= t

(* An account with MaxFailed attempts is locked since the last of them. *)
Attempts(u, a, t) ==
    /\ Nondecreasing(u.stamps) /\ Nondecreasing(a)
    /\ \A i \in 1 .. Len(u.stamps) : u.stamps[i] <= t
    /\ \A i \in 1 .. Len(a) : a[i] <= t
    /\ Recalls(u.stamps, a, t)
    /\ Len(a) > 0 /\ (u.locked # 0 \/ Len(u.stamps) >= MaxFailed)
          => u.locked >= a[Len(a)] + LockTime
    /\ \A i \in 1 .. (Len(a) - MaxFailed) : a[i + MaxFailed] >= a[i] + Window

AttemptsInv == \A n \in Usernames : Exists(n) => Attempts(users[n], tries[n], now)

AccountsInv ==
    /\ AccountTypes
    /\ ~lost => TokensInv /\ RotationInv /\ AttemptsInv

LEMMA AccNat ==
    /\ MaxFailed \in Nat /\ Window \in Nat /\ LockTime \in Nat /\ AccessLife \in Nat
    /\ RefreshLife \in Nat /\ MaxTime \in Nat /\ MaxTokens \in Nat /\ MaxEvents \in Nat
    /\ MaxFailed > 0 /\ LockTime >= Window
  BY AccountsAssumption

LEMMA NewUserTyped ==
    \A r \in Roles : /\ NewUser(r) \in UserRecord /\ NewUser(r).role = r /\ NewUser(r).stamps = <<>>
                     /\ NewUser(r).version = 0 /\ NewUser(r).locked = 0 /\ NewUser(r) # NoUser
<1>1. 0 \in 0 .. (MaxTime + LockTime) /\ 0 \in 0 .. MaxEvents /\ <<>> \in Seq(0 .. MaxTime)
  BY AccNat
<1>. QED  BY <1>1 DEF NewUser, NoUser, UserRecord, Roles

LEMMA NoUserTyped == NoUser \in UserRecord /\ NoUser.version = 0
<1>1. 0 \in 0 .. (MaxTime + LockTime) /\ 0 \in 0 .. MaxEvents /\ <<>> \in Seq(0 .. MaxTime)
  BY AccNat
<1>. QED  BY <1>1 DEF NoUser, UserRecord

(* The tokens a client holds after a pair was issued. *)
LEMMA IssuedTokens ==
    ASSUME AccountTypes, NEW n \in Usernames, NEW u \in UserRecord, Issued(n, u)
    PROVE  /\ tokens' \in Seq(TokenRecord) /\ Len(tokens') <= MaxTokens
           /\ \A j \in DOMAIN tokens' :
                 \/ j \in DOMAIN tokens /\ tokens'[j] = tokens[j]
                 \/ tokens'[j] = Token(n, u, "access", AccessLife)
                 \/ tokens'[j] = Token(n, u, "refresh", RefreshLife)
<1> DEFINE x == Token(n, u, "access", AccessLife)
           y == Token(n, u, "refresh", RefreshLife)
           all == tokens \o <<x, y>>
           m == IF Len(all) > MaxTokens THEN MaxTokens ELSE Len(all)
<1>1. x \in TokenRecord /\ y \in TokenRecord
  <2>1. now + AccessLife \in Nat /\ now + RefreshLife \in Nat
    BY AccNat DEF AccountTypes
  <2>. QED  BY <2>1 DEF Token, TokenRecord, UserRecord, Roles
<1>2. tokens \in Seq(TokenRecord) /\ Len(tokens) \in Nat
  BY DEF AccountTypes
<1> HIDE DEF x, y
<1>3. all \in Seq(TokenRecord) /\ Len(all) = Len(tokens) + 2
      /\ \A j \in 1 .. Len(all) : all[j] = IF j <= Len(tokens) THEN tokens[j] ELSE <<x, y>>[j - Len(tokens)]
  BY <1>1, <1>2
<1>4. \A j \in 1 .. Len(all) : (j \in DOMAIN tokens /\ all[j] = tokens[j]) \/ all[j] = x \/ all[j] = y
  <2> SUFFICES ASSUME NEW j \in 1 .. Len(all)
               PROVE  (j \in DOMAIN tokens /\ all[j] = tokens[j]) \/ all[j] = x \/ all[j] = y
    OBVIOUS
  <2>1. j <= Len(tokens) \/ j - Len(tokens) = 1 \/ j - Len(tokens) = 2
    BY <1>2, <1>3
  <2>2. CASE j <= Len(tokens)
    BY <1>2, <1>3, <2>2
  <2>3. CASE ~(j <= Len(tokens)) /\ j - Len(tokens) = 1
    BY <1>3, <2>3
  <2>4. CASE ~(j <= Len(tokens)) /\ j - Len(tokens) = 2
    BY <1>3, <2>4
  <2>. QED  BY <2>1, <2>2, <2>3, <2>4
<1> HIDE DEF all
<1>5. m \in Nat /\ m <= Len(all) /\ m <= MaxTokens
  BY <1>2, <1>3, AccNat
<1>6. tokens' = SubSeq(all, 1, m)
  BY DEF Issued, all, x, y, m
<1> HIDE DEF m
<1>7. \A j \in 1 .. m : all[j] \in TokenRecord
  BY <1>3, <1>5
<1>8. tokens' \in Seq(TokenRecord) /\ Len(tokens') = m /\ \A j \in 1 .. m : tokens'[j] = all[j]
  <2>1. /\ SubSeq(all, 1, m) \in Seq(TokenRecord)
        /\ Len(SubSeq(all, 1, m)) = IF 1 <= m THEN m - 1 + 1 ELSE 0
        /\ \A i \in 1 .. (m - 1 + 1) : SubSeq(all, 1, m)[i] = all[1 + i - 1]
    BY <1>5, <1>7, SubSeqProperties
  <2>2. m - 1 + 1 = m /\ \A i \in 1 .. m : 1 + i - 1 = i
    BY <1>5
  <2>. QED  BY <1>5, <1>6, <2>1, <2>2
<1>9. DOMAIN tokens' = 1 .. m /\ \A j \in 1 .. m : j \in 1 .. Len(all)
  BY <1>5, <1>8
<1>. QED  BY <1>4, <1>5, <1>8, <1>9 DEF x, y

LEMMA KnownTokens ==
    ASSUME AccountTypes
    PROVE  /\ \A j \in DOMAIN tokens : j \in 1 .. MaxTokens /\ tokens[j] \in TokenRecord
           /\ \A j \in Bearers : j \in DOMAIN tokens /\ Accepted(j)
<1>1. tokens \in Seq(TokenRecord) /\ Len(tokens) <= MaxTokens
  BY DEF AccountTypes
<1>. QED  BY <1>1, AccNat DEF Bearers

LEMMA OldCount ==
    ASSUME NEW S, NEW s \in Seq(S), NEW D \in SUBSET (DOMAIN s)
    PROVE  Cardinality(D) \in 0 .. Len(s)
<1>1. Len(s) \in Nat /\ DOMAIN s = 1 .. Len(s) /\ IsFiniteSet(1 .. Len(s))
  BY FS_Interval
<1>2. Cardinality(1 .. Len(s)) = Len(s)
  <2>1. Cardinality(1 .. Len(s)) = IF 1 > Len(s) THEN 0 ELSE Len(s) - 1 + 1
    BY <1>1, FS_Interval
  <2>. QED  BY <1>1, <2>1
<1>3. IsFiniteSet(D) /\ Cardinality(D) <= Cardinality(1 .. Len(s))
  BY <1>1, FS_Subset
<1>4. Cardinality(D) \in Nat
  BY <1>3, FS_CardinalityType
<1>. QED  BY <1>1, <1>2, <1>3, <1>4

LEMMA ExpiredTyped ==
    ASSUME AccountTypes, NEW n \in Usernames
    PROVE  /\ users[n] \in UserRecord /\ LockExpired(n) \in UserRecord
           /\ LockExpired(n).role = users[n].role /\ LockExpired(n).version = users[n].version
           /\ users[n].locked # 0 => LockExpired(n).stamps = <<>> /\ LockExpired(n).locked = 0
           /\ users[n].locked = 0 => LockExpired(n) = users[n]
<1>1. 0 \in 0 .. (MaxTime + LockTime) /\ <<>> \in Seq(0 .. MaxTime)
  BY AccNat
<1>. QED  BY <1>1 DEF AccountTypes, LockExpired, UserRecord

LEMMA WrongTyped ==
    ASSUME AccountTypes, NEW u \in UserRecord
    PROVE  /\ InWindow(u.stamps) \in Seq(0 .. MaxTime)
           /\ AfterWrong(u) \in UserRecord
           /\ AfterWrong(u).role = u.role /\ AfterWrong(u).version = u.version
           /\ AfterWrong(u).stamps = Append(InWindow(u.stamps), now)
           /\ AfterWrong(u).locked = IF Len(Append(InWindow(u.stamps), now)) >= MaxFailed
                                     THEN now + LockTime ELSE u.locked
<1>1. u.stamps \in Seq(0 .. MaxTime)
  BY DEF UserRecord
<1>2. InWindow(u.stamps) \in Seq(0 .. MaxTime)
  <2> DEFINE D == {i \in DOMAIN u.stamps : ~(u.stamps[i] + Window > now)}
  <2>1. Cardinality(D) \in 0 .. Len(u.stamps)
    <3>1. D \in SUBSET (DOMAIN u.stamps)
      OBVIOUS
    <3> HIDE DEF D
    <3>. QED  BY <1>1, <3>1, OldCount
  <2>. QED  BY <1>1, <2>1, Suffix DEF InWindow
<1>3. now + LockTime \in 0 .. (MaxTime + LockTime) /\ now \in 0 .. MaxTime
  BY AccNat DEF AccountTypes
<1>4. Append(InWindow(u.stamps), now) \in Seq(0 .. MaxTime)
  BY <1>2, <1>3
<1>. QED  BY <1>2, <1>3, <1>4 DEF AfterWrong, UserRecord

(* One account is replaced; the file follows, or keeps what it was. *)
UserReplaced(n, w) ==
    /\ n \in Usernames /\ w \in UserRecord
    /\ users' = [users EXCEPT ![n] = w]
    /\ disk' = users' \/ disk' = disk
    /\ events_left' \in 0 .. MaxEvents /\ events_left' <= events_left
    /\ w.version + events_left' <= MaxEvents
    /\ now' = now /\ lost' = lost

(* What is left of the events bounds the versions. *)
LEMMA Budget ==
    \A w, v, e, f, k, top \in Nat :
        w <= v + k /\ v + e <= top /\ f + k <= e => f <= e /\ w + f <= top
  OBVIOUS

LEMMA LoadedBudget ==
    \A x, e, f, top \in Nat : f <= e /\ e <= top /\ (x + e <= top \/ x = 0) => x + f <= top
  OBVIOUS

LEMMA ReplacedTyped ==
    ASSUME AccountTypes, NEW n, NEW w, UserReplaced(n, w)
    PROVE  /\ users' \in [Usernames -> UserRecord] /\ disk' \in [Usernames -> UserRecord]
           /\ \A m \in Usernames : users'[m] = IF m = n THEN w ELSE users[m]
           /\ \A m \in Usernames : /\ users'[m].version + events_left' <= MaxEvents
                                   /\ disk'[m].version + events_left' <= MaxEvents
<1>1. /\ users' \in [Usernames -> UserRecord]
      /\ \A m \in Usernames : users'[m] = IF m = n THEN w ELSE users[m]
  BY DEF AccountTypes, UserReplaced
<1>2. disk' \in [Usernames -> UserRecord]
  BY <1>1 DEF AccountTypes, UserReplaced
<1>3. events_left \in Nat /\ events_left' \in Nat /\ events_left' <= events_left /\ MaxEvents \in Nat
  BY AccNat DEF AccountTypes, UserReplaced
<1>4. \A m \in Usernames : users[m].version \in Nat /\ disk[m].version \in Nat
  BY AccNat DEF AccountTypes, UserRecord
<1>5. \A m \in Usernames : users'[m].version + events_left' <= MaxEvents
  BY <1>1, <1>3, <1>4 DEF AccountTypes, UserReplaced
<1>6. \A m \in Usernames : disk'[m].version + events_left' <= MaxEvents
  <2>1. CASE disk' = users'
    BY <1>5, <2>1
  <2>2. CASE disk' = disk
    BY <1>3, <1>4, <2>2 DEF AccountTypes
  <2>. QED  BY <2>1, <2>2 DEF UserReplaced
<1>. QED  BY <1>1, <1>2, <1>5, <1>6

(* What the handlers that change an account do to it. *)
UserHandler(n) ==
    \/ SetupFirstAdmin(n) \/ LoginRight(n) \/ LoginWrong(n) \/ Register(n)
    \/ DeleteUser(n) \/ UpdateRole(n) \/ UnlockUser(n) \/ ChangePassword(n)

LEMMA SavingCosts ==
    ASSUME AccountTypes, NEW k \in 0 .. 1, SavesUsers(k) \/ SaveRaises(k)
    PROVE  /\ events_left' \in 0 .. MaxEvents /\ events_left' + k <= events_left
           /\ disk' = users' \/ disk' = disk
  BY AccNat DEF AccountTypes, SavesUsers, SaveRaises, Costs

LEMMA HandlerReplaces ==
    ASSUME AccountTypes, NEW n \in Usernames, UserHandler(n)
    PROVE  \E w : UserReplaced(n, w)
<1>0. /\ events_left \in 0 .. MaxEvents /\ users[n] \in UserRecord
      /\ users[n].version + events_left <= MaxEvents /\ users[n].version \in 0 .. MaxEvents
      /\ users \in [Usernames -> UserRecord]
  BY DEF AccountTypes, UserRecord
<1>1. ASSUME NEW w \in UserRecord, NEW k \in 0 .. 1, users' = [users EXCEPT ![n] = w],
             SavesUsers(k) \/ SaveRaises(k), w.version <= users[n].version + k,
             now' = now, lost' = lost
      PROVE  \E v : UserReplaced(n, v)
  <2>1. /\ events_left' \in 0 .. MaxEvents /\ events_left' + k <= events_left
        /\ disk' = users' \/ disk' = disk
    BY <1>1, SavingCosts
  <2>2. w.version \in Nat
    BY AccNat DEF UserRecord
  <2>3. events_left' <= events_left /\ w.version + events_left' <= MaxEvents
    <3> DEFINE v == users[n].version
               x == w.version
               e == events_left
               f == events_left'
    <3>1. v \in Nat /\ e \in Nat /\ f \in Nat /\ k \in Nat /\ MaxEvents \in Nat /\ x \in Nat
      BY <1>0, <2>1, <2>2, AccNat
    <3>2. x <= v + k /\ v + e <= MaxEvents /\ f + k <= e
      BY <1>0, <1>1, <2>1
    <3> HIDE DEF v, x, e, f
    <3>3. f <= e /\ x + f <= MaxEvents
      BY <3>1, <3>2
    <3>. QED  BY <3>3 DEF x, e, f
  <2>. QED  BY <1>1, <2>1, <2>3 DEF UserReplaced
<1>2. CASE SetupFirstAdmin(n)
  <2>1. users' = [users EXCEPT ![n] = NewUser("admin")] /\ now' = now /\ lost' = lost
    BY <1>2 DEF SetupFirstAdmin, history
  <2>2. \E k \in 0 .. 1 : SavesUsers(k) \/ SaveRaises(k)
    BY <1>2 DEF SetupFirstAdmin
  <2>3. NewUser("admin") \in UserRecord /\ NewUser("admin").version = 0
    BY NewUserTyped DEF Roles
  <2>4. \A k \in 0 .. 1 : 0 <= users[n].version + k
    BY <1>0, AccNat
  <2>. QED  BY <1>1, <2>1, <2>2, <2>3, <2>4
<1>3. CASE LoginRight(n)
  <2> DEFINE w == [users[n] EXCEPT !.stamps = <<>>, !.locked = 0]
  <2>1. users' = [users EXCEPT ![n] = w] /\ now' = now /\ lost' = lost
    BY <1>0, <1>3 DEF LoginRight, history
  <2>2. SavesUsers(0) \/ SaveRaises(0)
    BY <1>3 DEF LoginRight
  <2>3. w \in UserRecord /\ w.version = users[n].version
    <3>1. 0 \in 0 .. (MaxTime + LockTime) /\ <<>> \in Seq(0 .. MaxTime)
      BY AccNat
    <3>. QED  BY <1>0, <3>1 DEF UserRecord
  <2> HIDE DEF w
  <2>4. w.version <= users[n].version + 0 /\ 0 \in 0 .. 1
    BY <1>0, <2>3, AccNat
  <2>. QED  BY <1>1, <2>1, <2>2, <2>3, <2>4
<1>4. CASE LoginWrong(n)
  <2> DEFINE w == AfterWrong(LockExpired(n))
  <2>1. users' = [users EXCEPT ![n] = w] /\ now' = now /\ lost' = lost
    BY <1>4 DEF LoginWrong, history
  <2>2. SavesUsers(1) \/ SaveRaises(1)
    BY <1>4 DEF LoginWrong
  <2>3. w \in UserRecord /\ w.version = users[n].version
    BY ExpiredTyped, WrongTyped
  <2> HIDE DEF w
  <2>4. w.version <= users[n].version + 1 /\ 1 \in 0 .. 1
    BY <1>0, <2>3, AccNat
  <2>. QED  BY <1>1, <2>1, <2>2, <2>3, <2>4
<1>5. CASE Register(n)
  <2>1. PICK r \in Roles : users' = [users EXCEPT ![n] = NewUser(r)]
    BY <1>5 DEF Register
  <2>2. (SavesUsers(1) \/ SaveRaises(1)) /\ now' = now /\ lost' = lost
    BY <1>5 DEF Register, history
  <2>3. NewUser(r) \in UserRecord /\ NewUser(r).version = 0
    BY NewUserTyped
  <2>4. 0 <= users[n].version + 1 /\ 1 \in 0 .. 1
    BY <1>0, AccNat
  <2>. QED  BY <1>1, <2>1, <2>2, <2>3, <2>4
<1>6. CASE DeleteUser(n)
  <2>1. users' = [users EXCEPT ![n] = NoUser] /\ (SavesUsers(1) \/ SaveRaises(1))
        /\ now' = now /\ lost' = lost
    BY <1>6 DEF DeleteUser
  <2>2. 0 <= users[n].version + 1 /\ 1 \in 0 .. 1
    BY <1>0, AccNat
  <2>. QED  BY <1>1, <2>1, <2>2, NoUserTyped
<1>7. CASE UpdateRole(n)
  <2>1. PICK r \in Roles : users' = [users EXCEPT ![n].role = r, ![n].version = Bumped(users[n])]
    BY <1>7 DEF UpdateRole
  <2> DEFINE w == [users[n] EXCEPT !.role = r, !.version = users[n].version + 1]
  <2>2. users' = [users EXCEPT ![n] = w]
    BY <1>0, <2>1 DEF Bumped
  <2>3. (SavesUsers(1) \/ SaveRaises(1)) /\ now' = now /\ lost' = lost
    BY <1>7 DEF UpdateRole, history
  <2>4. users[n].version + 1 \in 0 .. MaxEvents
    BY <1>0, <2>3, AccNat DEF SavesUsers, SaveRaises, Costs
  <2>5. w \in UserRecord /\ w.version = users[n].version + 1
    BY <1>0, <2>4 DEF UserRecord, Roles
  <2> HIDE DEF w
  <2>6. w.version <= users[n].version + 1 /\ 1 \in 0 .. 1
    BY <1>0, <2>5, AccNat
  <2>. QED  BY <1>1, <2>2, <2>3, <2>5, <2>6
<1>8. CASE TakeLockOff(n)
  <2> DEFINE w == [users[n] EXCEPT !.locked = 0]
  <2>1. users' = [users EXCEPT ![n] = w] /\ now' = now /\ lost' = lost
    BY <1>0, <1>8 DEF TakeLockOff, history
  <2>2. SavesUsers(0) \/ SaveRaises(0)
    BY <1>8 DEF TakeLockOff
  <2>3. w \in UserRecord /\ w.version = users[n].version
    <3>1. 0 \in 0 .. (MaxTime + LockTime)
      BY AccNat
    <3>. QED  BY <1>0, <3>1 DEF UserRecord
  <2> HIDE DEF w
  <2>4. w.version <= users[n].version + 0 /\ 0 \in 0 .. 1
    BY <1>0, <2>3, AccNat
  <2>. QED  BY <1>1, <2>1, <2>2, <2>3, <2>4
<1>. QED  BY <1>2, <1>3, <1>4, <1>5, <1>6, <1>7, <1>8
          DEF UserHandler, UnlockUser, ChangePassword

LEMMA HandlerTokens ==
    ASSUME AccountTypes, NEW n \in Usernames, UserHandler(n)
    PROVE  \/ tokens' = tokens
           \/ SetupFirstAdmin(n) /\ Issued(n, NewUser("admin"))
           \/ LoginRight(n) /\ Issued(n, users[n])
  BY DEF UserHandler, SetupFirstAdmin, LoginRight, LoginWrong, Register, DeleteUser, UpdateRole,
         UnlockUser, ChangePassword, TakeLockOff

LEMMA HandlerKeeps ==
    ASSUME AccountTypes, NEW n \in Usernames, UserHandler(n)
    PROVE  /\ UNCHANGED <<blacklist, diskList, exchanged, twice>>
           /\ remade' = remade \/ (DeleteUser(n) /\ remade' = remade \cup {n})
           /\ \A m \in Usernames : m # n => tries'[m] = tries[m]
           /\ tries' \in [Usernames -> Seq(0 .. MaxTime)]
<1>1. UNCHANGED <<blacklist, diskList, exchanged, twice>>
      /\ (remade' = remade \/ (DeleteUser(n) /\ remade' = remade \cup {n}))
  BY DEF UserHandler, SetupFirstAdmin, LoginRight, LoginWrong, Register, DeleteUser, UpdateRole,
         UnlockUser, ChangePassword, TakeLockOff, history
<1>2. tries \in [Usernames -> Seq(0 .. MaxTime)] /\ now \in 0 .. MaxTime
  BY DEF AccountTypes
<1>3. tries' = tries \/ tries' = [tries EXCEPT ![n] = <<>>] \/ tries' = [tries EXCEPT ![n] = Append(@, now)]
  BY DEF UserHandler, SetupFirstAdmin, LoginRight, LoginWrong, Register, DeleteUser, UpdateRole,
         UnlockUser, ChangePassword, TakeLockOff, history
<1>4. Append(tries[n], now) \in Seq(0 .. MaxTime) /\ <<>> \in Seq(0 .. MaxTime)
  BY <1>2
<1>5. \E q \in Seq(0 .. MaxTime) : tries' = tries \/ tries' = [tries EXCEPT ![n] = q]
  BY <1>3, <1>4
<1>. QED  BY <1>1, <1>2, <1>5

LEMMA AccountsTypesStep ==
    ASSUME AccountTypes, [AccNext]_accvars
    PROVE  AccountTypes'
<1>1. ASSUME NEW n \in Usernames, UserHandler(n) PROVE AccountTypes'
  <2>1. PICK w : UserReplaced(n, w)
    BY <1>1, HandlerReplaces
  <2>2. /\ users' \in [Usernames -> UserRecord] /\ disk' \in [Usernames -> UserRecord]
        /\ \A m \in Usernames : /\ users'[m].version + events_left' <= MaxEvents
                                /\ disk'[m].version + events_left' <= MaxEvents
    BY <2>1, ReplacedTyped
  <2>3. tokens' \in Seq(TokenRecord) /\ Len(tokens') <= MaxTokens
    <3>1. users[n] \in UserRecord /\ NewUser("admin") \in UserRecord
      BY NewUserTyped DEF AccountTypes, Roles
    <3>2. CASE tokens' = tokens
      BY <3>2 DEF AccountTypes
    <3>. QED  BY <1>1, <3>1, <3>2, HandlerTokens, IssuedTokens
  <2>4. now' = now /\ lost' = lost /\ events_left' \in 0 .. MaxEvents
    BY <2>1 DEF UserReplaced
  <2>5. /\ UNCHANGED <<blacklist, diskList, exchanged, twice>> /\ remade' \in SUBSET Usernames
        /\ tries' \in [Usernames -> Seq(0 .. MaxTime)]
    BY <1>1, HandlerKeeps DEF AccountTypes
  <2>. QED  BY <2>2, <2>3, <2>4, <2>5 DEF AccountTypes
<1>2. ASSUME SavesList \/ ListNotSaved, blacklist' \in SUBSET (1 .. MaxTokens), UNCHANGED <<users, disk>>
      PROVE  /\ diskList' \in SUBSET (1 .. MaxTokens) /\ events_left' \in 0 .. MaxEvents
             /\ \A m \in Usernames : /\ users'[m].version + events_left' <= MaxEvents
                                     /\ disk'[m].version + events_left' <= MaxEvents
  <2>1. events_left' \in 0 .. MaxEvents /\ events_left' <= events_left /\ events_left \in 0 .. MaxEvents
    BY <1>2, AccNat DEF SavesList, ListNotSaved, Costs, AccountTypes
  <2>2. \A m \in Usernames : users[m].version \in Nat /\ disk[m].version \in Nat
    BY AccNat DEF AccountTypes, UserRecord
  <2>3. \A m \in Usernames : /\ users[m].version + events_left <= MaxEvents
                             /\ disk[m].version + events_left <= MaxEvents
    BY DEF AccountTypes
  <2>4. \A m \in Usernames : /\ users[m].version + events_left' <= MaxEvents
                             /\ disk[m].version + events_left' <= MaxEvents
    BY <2>1, <2>2, <2>3, AccNat
  <2>5. diskList' \in SUBSET (1 .. MaxTokens)
    BY <1>2 DEF SavesList, ListNotSaved, AccountTypes
  <2>. QED  BY <1>2, <2>1, <2>4, <2>5
<1>3. CASE Logout
  <2>1. blacklist' \in SUBSET (1 .. MaxTokens)
    BY <1>3, KnownTokens DEF Logout, AccountTypes
  <2>2. (SavesList \/ ListNotSaved) /\ UNCHANGED <<now, users, disk, tokens, tries, history>>
    BY <1>3 DEF Logout
  <2>. QED  BY <1>2, <2>1, <2>2 DEF AccountTypes, history
<1>4. CASE Refresh
  <2>1. PICK j \in Bearers :
          /\ Exists(tokens[j].sub) /\ blacklist' = blacklist \cup Rotated(j)
          /\ Issued(tokens[j].sub, users[tokens[j].sub])
          /\ twice' = (twice \/ j \in exchanged) /\ exchanged' = exchanged \cup {j}
    BY <1>4 DEF Refresh
  <2>2. j \in 1 .. MaxTokens /\ tokens[j].sub \in Usernames
    BY KnownTokens DEF TokenRecord
  <2>3. blacklist' \in SUBSET (1 .. MaxTokens) /\ exchanged' \in SUBSET (1 .. MaxTokens)
    BY <2>1, <2>2 DEF AccountTypes, Rotated
  <2>4. tokens' \in Seq(TokenRecord) /\ Len(tokens') <= MaxTokens
    BY <2>1, <2>2, IssuedTokens DEF AccountTypes
  <2>5. (SavesList \/ ListNotSaved) /\ UNCHANGED <<now, users, disk, tries, remade, lost>>
    BY <1>4 DEF Refresh
  <2>6. twice' \in BOOLEAN
    BY <2>1 DEF AccountTypes
  <2>. QED  BY <1>2, <2>3, <2>4, <2>5, <2>6 DEF AccountTypes
<1>5. CASE AccTick
  <2>1. now' \in 0 .. MaxTime
    BY <1>5, AccNat DEF AccTick, AccountTypes
  <2>2. UNCHANGED <<storage, tokens, events_left, tries, history>>
    BY <1>5 DEF AccTick
  <2>. QED  BY <2>1, <2>2 DEF AccountTypes, storage, history
<1>6. CASE AuthRestart
  <2>1. PICK found \in {disk, NoUsers}, list \in {diskList, {}} : LoadsFiles(found, list)
    BY <1>6 DEF AuthRestart
  <2>2. events_left' \in 0 .. MaxEvents /\ events_left' <= events_left
    BY <1>6, AccNat DEF AuthRestart, Costs, AccountTypes
  <2>3. /\ users' \in UsersLoaded(found) /\ disk' \in {disk, users'} /\ blacklist' \in {diskList, {}} /\ lost' = TRUE
        /\ UNCHANGED <<now, tokens, diskList, tries, twice, exchanged, remade>>
    BY <2>1 DEF LoadsFiles
  <2>4. /\ NewUser("admin") \in UserRecord /\ NewUser("admin").version = 0
        /\ NoUser \in UserRecord /\ NoUser.version = 0
    BY NewUserTyped, NoUserTyped DEF Roles
  <2>5. /\ found \in [Usernames -> UserRecord]
        /\ \A m \in Usernames : found[m] = disk[m] \/ found[m].version = 0
    BY <2>4 DEF AccountTypes, NoUsers
  <2>6. users' = found \/ \E n \in Usernames : users' = [found EXCEPT ![n] = NewUser("admin")]
    BY <2>3 DEF UsersLoaded
  <2>7. users' \in [Usernames -> UserRecord] /\ disk' \in [Usernames -> UserRecord]
    BY <2>3, <2>4, <2>5, <2>6 DEF AccountTypes
  <2>8. \A m \in Usernames : users'[m] = disk[m] \/ users'[m].version = 0
    BY <2>4, <2>5, <2>6
  <2>9. ASSUME NEW m \in Usernames, NEW v \in UserRecord, v = disk[m] \/ v.version = 0
        PROVE  v.version + events_left' <= MaxEvents
    <3>1. v.version \in Nat /\ events_left \in Nat /\ events_left' \in Nat /\ MaxEvents \in Nat
      BY <2>2, AccNat DEF UserRecord, AccountTypes
    <3>2. v.version + events_left <= MaxEvents \/ v.version = 0
      BY <2>9 DEF AccountTypes
    <3>3. events_left <= MaxEvents
      BY DEF AccountTypes
    <3> DEFINE x == v.version
    <3> HIDE DEF x
    <3>4. x \in Nat /\ (x + events_left <= MaxEvents \/ x = 0)
      BY <3>1, <3>2 DEF x
    <3>5. x + events_left' <= MaxEvents
      BY <2>2, <3>1, <3>3, <3>4, LoadedBudget
    <3>. QED  BY <3>5 DEF x
  <2>10. \A m \in Usernames : /\ users'[m].version + events_left' <= MaxEvents
                             /\ disk'[m].version + events_left' <= MaxEvents
    <3> SUFFICES ASSUME NEW m \in Usernames
                 PROVE  /\ users'[m].version + events_left' <= MaxEvents
                        /\ disk'[m].version + events_left' <= MaxEvents
      OBVIOUS
    <3>1. users'[m].version + events_left' <= MaxEvents
      BY <2>7, <2>8, <2>9
    <3>2. disk'[m] = disk[m] \/ disk'[m].version = 0
      BY <2>3, <2>8
    <3>. QED  BY <2>7, <2>9, <3>1, <3>2
  <2>. QED  BY <2>2, <2>3, <2>7, <2>10 DEF AccountTypes
<1>7. CASE UNCHANGED accvars
  BY <1>7 DEF accvars, AccountTypes
<1>. QED  BY <1>1, <1>3, <1>4, <1>5, <1>6, <1>7 DEF AccNext, UserHandler, WrongOldPassword

LEMMA AccountsTypesInit == AccInit => AccountTypes
<1> SUFFICES ASSUME AccInit PROVE AccountTypes
  OBVIOUS
<1> DEFINE none == [n \in Usernames |-> NoUser]
<1>1. users = none \/ \E n \in Usernames : users = [none EXCEPT ![n] = NewUser("admin")]
  BY DEF AccInit, UsersLoaded
<1>2. NewUser("admin") \in UserRecord /\ NewUser("admin").version = 0
  BY NewUserTyped DEF Roles
<1>3. none \in [Usernames -> UserRecord]
  BY NoUserTyped
<1>4. users \in [Usernames -> UserRecord] /\ \A m \in Usernames : users[m].version = 0
  BY <1>1, <1>2, <1>3, NoUserTyped
<1>5. tokens \in Seq(TokenRecord) /\ Len(tokens) = 0
  BY DEF AccInit
<1>6. tries \in [Usernames -> Seq(0 .. MaxTime)]
  BY DEF AccInit
<1>7. now \in 0 .. MaxTime /\ events_left \in 0 .. MaxEvents /\ events_left = MaxEvents
      /\ Len(tokens) <= MaxTokens
  BY <1>5, AccNat DEF AccInit
<1>8. twice \in BOOLEAN /\ lost \in BOOLEAN /\ disk = users
      /\ blacklist = {} /\ diskList = {} /\ exchanged = {} /\ remade = {}
  BY DEF AccInit
<1>9. \A m \in Usernames : users[m].version + events_left <= MaxEvents
  BY <1>4, <1>7, AccNat
<1>. QED  BY <1>4, <1>5, <1>6, <1>7, <1>8, <1>9 DEF AccountTypes
LEMMA HandlerRoles ==
    ASSUME AccountTypes, NEW n \in Usernames, UserHandler(n)
    PROVE  \E w : /\ users' = [users EXCEPT ![n] = w]
                  /\ \/ /\ Exists(n) /\ w.role = users[n].role /\ w.version = users[n].version
                        /\ remade' = remade
                     \/ ~Exists(n) /\ w.role \in Roles /\ w.version = 0 /\ remade' = remade
                     \/ /\ Exists(n) /\ w.role \in Roles /\ w.version = users[n].version + 1
                        /\ remade' = remade
                     \/ w = NoUser /\ remade' = remade \cup {n}
<1>0. users \in [Usernames -> UserRecord] /\ users[n] \in UserRecord
  BY DEF AccountTypes
<1>1. CASE SetupFirstAdmin(n)
  <2>1. users' = [users EXCEPT ![n] = NewUser("admin")] /\ remade' = remade /\ ~Exists(n)
    BY <1>1 DEF SetupFirstAdmin, AccUsers, history
  <2>2. NewUser("admin").role \in Roles /\ NewUser("admin").version = 0
    BY NewUserTyped DEF Roles
  <2>. QED  BY <2>1, <2>2
<1>2. CASE LoginRight(n)
  <2> DEFINE w == [users[n] EXCEPT !.stamps = <<>>, !.locked = 0]
  <2>1. users' = [users EXCEPT ![n] = w] /\ remade' = remade /\ Exists(n)
    BY <1>0, <1>2 DEF LoginRight, history
  <2>2. w.role = users[n].role /\ w.version = users[n].version
    BY <1>0 DEF UserRecord
  <2>. QED  BY <2>1, <2>2
<1>3. CASE LoginWrong(n)
  <2> DEFINE w == AfterWrong(LockExpired(n))
  <2>1. users' = [users EXCEPT ![n] = w] /\ remade' = remade /\ Exists(n)
    BY <1>3 DEF LoginWrong, history
  <2>2. w.role = users[n].role /\ w.version = users[n].version
    BY ExpiredTyped, WrongTyped
  <2>. QED  BY <2>1, <2>2
<1>4. CASE Register(n)
  <2>1. PICK r \in Roles : users' = [users EXCEPT ![n] = NewUser(r)]
    BY <1>4 DEF Register
  <2>2. remade' = remade /\ ~Exists(n)
    BY <1>4 DEF Register, history
  <2>3. NewUser(r).role \in Roles /\ NewUser(r).version = 0
    BY NewUserTyped
  <2>. QED  BY <2>1, <2>2, <2>3
<1>5. CASE DeleteUser(n)
  BY <1>5 DEF DeleteUser
<1>6. CASE UpdateRole(n)
  <2>1. PICK r \in Roles : users' = [users EXCEPT ![n].role = r, ![n].version = Bumped(users[n])]
    BY <1>6 DEF UpdateRole
  <2> DEFINE w == [users[n] EXCEPT !.role = r, !.version = users[n].version + 1]
  <2>2. users' = [users EXCEPT ![n] = w] /\ remade' = remade /\ Exists(n)
    BY <1>0, <1>6, <2>1 DEF Bumped, UpdateRole, history
  <2>3. w.role \in Roles /\ w.version = users[n].version + 1
    BY <1>0 DEF UserRecord
  <2>. QED  BY <2>2, <2>3
<1>7. CASE TakeLockOff(n)
  <2> DEFINE w == [users[n] EXCEPT !.locked = 0]
  <2>1. users' = [users EXCEPT ![n] = w] /\ remade' = remade /\ Exists(n)
    BY <1>0, <1>7 DEF TakeLockOff, history
  <2>2. w.role = users[n].role /\ w.version = users[n].version
    BY <1>0 DEF UserRecord
  <2>. QED  BY <2>1, <2>2
<1>. QED  BY <1>1, <1>2, <1>3, <1>4, <1>5, <1>6, <1>7
          DEF UserHandler, UnlockUser, ChangePassword

(* The tokens that are given out name the role and the version of their user. *)
LEMMA IssuedCurrent ==
    ASSUME NEW n, NEW u, NEW us, NEW gone, us[n].version = u.version, us[n].role = u.role,
           u.role \in Roles, u.version \in Nat
    PROVE  /\ Current(Token(n, u, "access", AccessLife), us, gone)
           /\ Current(Token(n, u, "refresh", RefreshLife), us, gone)
  BY DEF Current, Token

LEMMA TokensStep ==
    ASSUME AccountTypes, TokensInv, AccNext, ~lost'
    PROVE  TokensInv'
<1>0. /\ users \in [Usernames -> UserRecord] /\ users' \in [Usernames -> UserRecord]
      /\ \A n \in Usernames : users[n].version \in Nat /\ users'[n].version \in Nat
  <2>1. AccountTypes'
    BY AccountsTypesStep
  <2>. QED  BY <2>1, AccNat DEF AccountTypes, UserRecord
<1>1. ASSUME NEW n \in Usernames, UserHandler(n)
      PROVE  TokensInv'
  <2>1. PICK w : /\ users' = [users EXCEPT ![n] = w]
                 /\ \/ /\ Exists(n) /\ w.role = users[n].role /\ w.version = users[n].version
                       /\ remade' = remade
                    \/ ~Exists(n) /\ w.role \in Roles /\ w.version = 0 /\ remade' = remade
                    \/ /\ Exists(n) /\ w.role \in Roles /\ w.version = users[n].version + 1
                       /\ remade' = remade
                    \/ w = NoUser /\ remade' = remade \cup {n}
    BY <1>1, HandlerRoles
  <2>2. \A m \in Usernames : users'[m] = IF m = n THEN w ELSE users[m]
    BY <1>0, <2>1
  <2>3. \A m \in Usernames : users'[m] # NoUser => users'[m].role \in Roles
    BY <2>1, <2>2 DEF TokensInv, Exists
  <2>4. ASSUME NEW j \in DOMAIN tokens
        PROVE  Current(tokens[j], users', remade')
    <3>1. Current(tokens[j], users, remade) /\ tokens[j].sub \in Usernames /\ tokens[j].version \in Nat
      BY KnownTokens, AccNat DEF TokensInv, TokenRecord
    <3>2. CASE tokens[j].sub # n
      BY <2>1, <2>2, <3>1, <3>2 DEF Current
    <3>3. CASE tokens[j].sub = n
      <4>1. users'[n] = w
        BY <2>2
      <4>2. CASE Exists(n) /\ w.role = users[n].role /\ w.version = users[n].version /\ remade' = remade
        BY <3>1, <3>3, <4>1, <4>2 DEF Current
      <4>3. CASE ~Exists(n) /\ w.role \in Roles /\ w.version = 0 /\ remade' = remade
        <5>1. users[n].role \notin Roles
          BY <4>3 DEF Exists, NoUser, Roles
        <5>. QED  BY <3>1, <3>3, <4>3, <5>1 DEF Current
      <4>4. CASE Exists(n) /\ w.role \in Roles /\ w.version = users[n].version + 1 /\ remade' = remade
        BY <1>0, <3>1, <3>3, <4>1, <4>4 DEF Current
      <4>5. CASE w = NoUser /\ remade' = remade \cup {n}
        BY <3>3, <4>5 DEF Current
      <4>. QED  BY <2>1, <4>2, <4>3, <4>4, <4>5
    <3>. QED  BY <3>2, <3>3
  <2>5. CASE tokens' = tokens
    BY <2>3, <2>4, <2>5 DEF TokensInv, Exists
  <2>6. ASSUME NEW u \in UserRecord, Issued(n, u), users'[n].version = u.version,
               users'[n].role = u.role, u.role \in Roles
        PROVE  TokensInv'
    <3>1. \A j \in DOMAIN tokens' :
                 \/ j \in DOMAIN tokens /\ tokens'[j] = tokens[j]
                 \/ tokens'[j] = Token(n, u, "access", AccessLife)
                 \/ tokens'[j] = Token(n, u, "refresh", RefreshLife)
      BY <2>6, IssuedTokens
    <3>2. /\ Current(Token(n, u, "access", AccessLife), users', remade')
          /\ Current(Token(n, u, "refresh", RefreshLife), users', remade')
      BY <1>0, <2>6, IssuedCurrent
    <3>3. \A j \in DOMAIN tokens' : Current(tokens'[j], users', remade')
      BY <2>4, <3>1, <3>2
    <3>. QED  BY <2>3, <3>3 DEF TokensInv, Exists
  <2>7. CASE SetupFirstAdmin(n) /\ Issued(n, NewUser("admin"))
    <3>1. users'[n] = NewUser("admin")
      BY <1>0, <2>7 DEF SetupFirstAdmin
    <3>2. NewUser("admin") \in UserRecord /\ NewUser("admin").role \in Roles
      BY NewUserTyped DEF Roles
    <3>. QED  BY <2>6, <2>7, <3>1, <3>2
  <2>8. CASE LoginRight(n) /\ Issued(n, users[n])
    <3>1. users'[n] = [users[n] EXCEPT !.stamps = <<>>, !.locked = 0] /\ users[n] \in UserRecord
      BY <1>0, <2>8 DEF LoginRight
    <3>2. users'[n].version = users[n].version /\ users'[n].role = users[n].role
      BY <3>1 DEF UserRecord
    <3>3. users[n].role \in Roles
      BY <2>8 DEF LoginRight, TokensInv
    <3>. QED  BY <2>6, <2>8, <3>1, <3>2, <3>3
  <2>. QED  BY <1>1, <2>5, <2>7, <2>8, HandlerTokens
<1>2. CASE Logout \/ AccTick
  BY <1>2 DEF Logout, AccTick, TokensInv, Exists, storage, history
<1>3. CASE Refresh
  <2>1. PICK j \in Bearers : Exists(tokens[j].sub) /\ Issued(tokens[j].sub, users[tokens[j].sub])
    BY <1>3 DEF Refresh
  <2>2. tokens[j].sub \in Usernames
    BY KnownTokens DEF TokenRecord
  <2> DEFINE n == tokens[j].sub
             u == users[n]
  <2>3. n \in Usernames /\ Issued(n, u) /\ u \in UserRecord /\ u.role \in Roles /\ u.version \in Nat
    BY <1>0, <2>1, <2>2 DEF TokensInv
  <2>4. users[n].version = u.version /\ users[n].role = u.role
    OBVIOUS
  <2>5. users' = users /\ remade' = remade
    BY <1>3 DEF Refresh
  <2> HIDE DEF n, u
  <2>6. \A i \in DOMAIN tokens' :
                 \/ i \in DOMAIN tokens /\ tokens'[i] = tokens[i]
                 \/ tokens'[i] = Token(n, u, "access", AccessLife)
                 \/ tokens'[i] = Token(n, u, "refresh", RefreshLife)
    BY <2>3, IssuedTokens
  <2>7. /\ Current(Token(n, u, "access", AccessLife), users, remade)
        /\ Current(Token(n, u, "refresh", RefreshLife), users, remade)
    BY <2>3, <2>4, IssuedCurrent
  <2>8. \A i \in DOMAIN tokens' : Current(tokens'[i], users, remade)
    BY <2>6, <2>7 DEF TokensInv
  <2>. QED  BY <2>5, <2>8 DEF TokensInv, Exists
<1>4. CASE AuthRestart
  BY <1>4 DEF AuthRestart, LoadsFiles
<1>5. CASE UNCHANGED accvars
  BY <1>5 DEF accvars, TokensInv, Exists
<1>. QED  BY <1>1, <1>2, <1>3, <1>4, <1>5 DEF AccNext, UserHandler, WrongOldPassword

(* A refresh token that was exchanged is on the blacklist, so it is not accepted again. *)
LEMMA RotationStep ==
    ASSUME AccountTypes, RotationInv, AccNext, ~lost'
    PROVE  RotationInv'
<1>1. ASSUME NEW n \in Usernames, UserHandler(n) PROVE RotationInv'
  BY <1>1, HandlerKeeps DEF RotationInv
<1>2. CASE Logout
  BY <1>2 DEF Logout, RotationInv, history
<1>3. CASE Refresh
  <2>1. PICK j \in Bearers : /\ blacklist' = blacklist \cup {j}
                             /\ twice' = (twice \/ j \in exchanged) /\ exchanged' = exchanged \cup {j}
    BY <1>3 DEF Refresh, Rotated
  <2>2. j \notin exchanged
    BY KnownTokens DEF Accepted, RotationInv
  <2>. QED  BY <2>1, <2>2 DEF RotationInv
<1>4. CASE AccTick
  BY <1>4 DEF AccTick, RotationInv, storage, history
<1>5. CASE AuthRestart
  BY <1>5 DEF AuthRestart, LoadsFiles
<1>6. CASE UNCHANGED accvars
  BY <1>6 DEF accvars, RotationInv
<1>. QED  BY <1>1, <1>2, <1>3, <1>4, <1>5, <1>6 DEF AccNext, UserHandler, WrongOldPassword

(* After a wrong password that was looked at: the account is not locked, so either all it
   remembers is a window old, or it remembers fewer than MaxFailed attempts. *)
LEMMA WrongAttempt ==
    ASSUME now \in Nat, NEW u, NEW e, NEW r, NEW a \in Seq(Nat), NEW w,
           u.stamps \in Seq(Nat), u.locked \in Nat, u.locked <= now, Attempts(u, a, now),
           e.stamps \in Seq(Nat),
           u.locked # 0 => e.stamps = <<>> /\ e.locked = 0,
           u.locked = 0 => e = u,
           r = InWindow(e.stamps), w.stamps = Append(r, now),
           w.locked = IF Len(Append(r, now)) >= MaxFailed THEN now + LockTime ELSE e.locked
    PROVE  Attempts(w, Append(a, now), now)
<1> DEFINE s == e.stamps
           n == Len(a)
           l == Len(s)
           b == Append(a, now)
           q == Append(r, now)
<1>0. /\ n \in Nat /\ l \in Nat /\ Window \in Nat /\ LockTime \in Nat /\ MaxFailed \in Nat
      /\ MaxFailed > 0 /\ LockTime >= Window /\ e.locked = 0 /\ s \in Seq(Nat)
      /\ \A j \in 1 .. n : a[j] \in Nat /\ a[j] <= now
  BY AccNat DEF Attempts
<1>1. \A i, j \in 1 .. n : i <= j => a[i] <= a[j]
  BY DEF Attempts, Nondecreasing
<1>2. (n > 0 /\ (u.locked # 0 \/ Len(u.stamps) >= MaxFailed)) => \A j \in 1 .. n : a[j] + Window <= now
  <2> SUFFICES ASSUME n > 0, u.locked # 0 \/ Len(u.stamps) >= MaxFailed, NEW j \in 1 .. n
               PROVE  a[j] + Window <= now
    OBVIOUS
  <2>1. u.locked >= a[n] + LockTime
    BY DEF Attempts
  <2>2. a[j] <= a[n] /\ a[j] \in Nat /\ a[n] \in Nat
    BY <1>0, <1>1
  <2>. QED  BY <1>0, <2>1, <2>2
<1>3. /\ Nondecreasing(s) /\ (\A i \in 1 .. l : s[i] <= now)
      /\ (\A i \in 1 .. l, j \in 1 .. n : l - i = n - j => s[i] = a[j])
      /\ \A j \in 1 .. (n - l) : a[j] + Window <= now
  <2>1. CASE u.locked = 0
    BY <2>1 DEF Attempts, Recalls
  <2>2. CASE u.locked # 0
    <3>1. l = 0
      BY <2>2
    <3>2. \A j \in 1 .. n : a[j] + Window <= now
      BY <1>0, <1>2, <2>2
    <3> HIDE DEF n
    <3>. QED  BY <1>0, <3>1, <3>2 DEF Nondecreasing
  <2>. QED  BY <2>1, <2>2
<1>4. PICK c \in 0 .. l : /\ c = Cardinality({i \in DOMAIN s : ~(s[i] + Window > now)})
                          /\ \A i \in 1 .. l : s[i] + Window <= now <=> i <= c
  BY <1>0, <1>3, OldComeFirst
<1>5. r \in Seq(Nat) /\ Len(r) = l - c /\ \A i \in 1 .. (l - c) : r[i] = s[c + i]
  <2>1. r = SubSeq(s, 1 + c, Len(s))
    BY <1>4 DEF InWindow
  <2>2. s \in Seq(Nat) /\ c \in 0 .. Len(s)
    BY <1>0
  <2> HIDE DEF s
  <2>3. /\ SubSeq(s, 1 + c, Len(s)) \in Seq(Nat)
        /\ Len(SubSeq(s, 1 + c, Len(s))) = Len(s) - c
        /\ \A i \in 1 .. (Len(s) - c) : SubSeq(s, 1 + c, Len(s))[i] = s[c + i]
    BY <2>2, Suffix
  <2>. QED  BY <2>1, <2>3
<1>6. /\ q \in Seq(Nat) /\ Len(q) = l - c + 1 /\ q[l - c + 1] = now
      /\ \A i \in 1 .. (l - c) : q[i] = s[c + i]
  <2>1. /\ Append(r, now) \in Seq(Nat) /\ Len(Append(r, now)) = Len(r) + 1
        /\ \A i \in 1 .. Len(r) : Append(r, now)[i] = r[i]
        /\ Append(r, now)[Len(r) + 1] = now
    <3>1. r \in Seq(Nat) /\ now \in Nat
      BY <1>5
    <3>. QED  BY <3>1, AppendedIs
  <2> HIDE DEF s, l
  <2>. QED  BY <1>5, <2>1
<1>7. /\ b \in Seq(Nat) /\ Len(b) = n + 1 /\ b[n + 1] = now
      /\ \A j \in 1 .. n : b[j] = a[j]
  OBVIOUS
<1>8. n < MaxFailed \/ (\A j \in 1 .. n : a[j] + Window <= now) \/ l < MaxFailed
  BY <1>0, <1>2
<1>9. \A i, j \in 1 .. l : i <= j => s[i] <= s[j]
  BY <1>3 DEF Nondecreasing
<1>10. \A i \in 1 .. l : s[i] \in Nat
  BY <1>0
<1> HIDE DEF s, n, l, b, q
<1>a. n \in Nat /\ l \in Nat /\ c \in Nat /\ c <= l /\ MaxFailed \in Nat /\ MaxFailed > 0
  BY <1>0, <1>4
<1>11. \A j \in 1 .. (n - (l - c)) : a[j] + Window <= now
  <2> SUFFICES ASSUME NEW j \in 1 .. (n - (l - c)) PROVE a[j] + Window <= now
    OBVIOUS
  <2>1. CASE j <= n - l
    BY <1>0, <1>3, <2>1
  <2>2. CASE ~(j <= n - l)
    <3>1. j - (n - l) \in 1 .. l /\ j - (n - l) <= c /\ j \in 1 .. n
          /\ l - (j - (n - l)) = n - j
      BY <1>0, <1>4, <2>2
    <3>2. s[j - (n - l)] = a[j] /\ s[j - (n - l)] + Window <= now
      BY <1>3, <1>4, <3>1
    <3>. QED  BY <3>2
  <2>. QED  BY <2>1, <2>2
<1>12. ASSUME NEW i \in 1 .. (l - c + 1)
       PROVE  /\ q[i] <= now /\ q[i] \in Nat
              /\ \A j \in 1 .. (l - c + 1) : i <= j => q[i] <= q[j]
  <2>1. CASE i = l - c + 1
    <3>1. \A j \in 1 .. (l - c + 1) : i <= j => j = i
      BY <1>0, <1>4, <2>1
    <3>. QED  BY <1>6, <2>1, <3>1
  <2>2. CASE i # l - c + 1
    <3>1. i \in 1 .. (l - c) /\ c + i \in 1 .. l
      BY <1>0, <1>4, <2>2
    <3>2. q[i] = s[c + i] /\ s[c + i] <= now /\ s[c + i] \in Nat
      BY <1>3, <1>6, <1>10, <3>1
    <3>3. ASSUME NEW j \in 1 .. (l - c + 1), i <= j PROVE q[i] <= q[j]
      <4>1. CASE j = l - c + 1
        BY <1>6, <3>2, <4>1
      <4>2. CASE j # l - c + 1
        <5>1. j \in 1 .. (l - c) /\ c + j \in 1 .. l /\ c + i <= c + j
          BY <1>a, <3>1, <3>3, <4>2
        <5>. QED  BY <1>6, <1>9, <3>1, <3>2, <5>1
      <4>. QED  BY <4>1, <4>2
    <3>. QED  BY <3>2, <3>3
  <2>. QED  BY <2>1, <2>2
<1>13. ASSUME NEW i \in 1 .. (n + 1)
       PROVE  /\ b[i] <= now /\ b[i] \in Nat
              /\ \A j \in 1 .. (n + 1) : i <= j => b[i] <= b[j]
  <2>1. CASE i = n + 1
    <3>1. \A j \in 1 .. (n + 1) : i <= j => j = i
      BY <1>0, <2>1
    <3>. QED  BY <1>7, <2>1, <3>1
  <2>2. CASE i # n + 1
    <3>1. i \in 1 .. n
      BY <1>a, <2>2
    <3>2. b[i] = a[i] /\ a[i] <= now /\ a[i] \in Nat
      BY <1>0, <1>7, <3>1
    <3>3. ASSUME NEW j \in 1 .. (n + 1), i <= j PROVE b[i] <= b[j]
      <4>1. CASE j = n + 1
        BY <1>7, <3>2, <4>1
      <4>2. CASE j # n + 1
        <5>1. j \in 1 .. n
          BY <1>0, <4>2
        <5>. QED  BY <1>1, <1>7, <3>1, <3>3, <5>1
      <4>. QED  BY <4>1, <4>2
    <3>. QED  BY <3>2, <3>3
  <2>. QED  BY <2>1, <2>2
<1>14. Recalls(q, b, now)
  <2>1. ASSUME NEW i \in 1 .. (l - c + 1), NEW j \in 1 .. (n + 1), (l - c + 1) - i = (n + 1) - j
        PROVE  q[i] = b[j]
    <3>1. CASE i = l - c + 1
      <4>1. j = n + 1
        BY <1>0, <1>4, <2>1, <3>1
      <4>. QED  BY <1>6, <1>7, <3>1, <4>1
    <3>2. CASE i # l - c + 1
      <4>1. i \in 1 .. (l - c) /\ j \in 1 .. n /\ c + i \in 1 .. l /\ l - (c + i) = n - j
        BY <1>a, <2>1, <3>2
      <4>2. q[i] = s[c + i] /\ b[j] = a[j] /\ s[c + i] = a[j]
        BY <1>3, <1>6, <1>7, <4>1
      <4>. QED  BY <4>2
    <3>. QED  BY <3>1, <3>2
  <2>2. ASSUME NEW j \in 1 .. ((n + 1) - (l - c + 1)) PROVE b[j] + Window <= now
    <3>1. j \in 1 .. (n - (l - c)) /\ j \in 1 .. n
      BY <1>a
    <3>. QED  BY <1>7, <1>11, <3>1
  <2>. QED  BY <1>6, <1>7, <2>1, <2>2 DEF Recalls
<1>15. ASSUME NEW i \in 1 .. ((n + 1) - MaxFailed) PROVE b[i + MaxFailed] >= b[i] + Window
  <2>1. i \in 1 .. n /\ i + MaxFailed \in 1 .. (n + 1)
    BY <1>0
  <2>2. CASE i + MaxFailed = n + 1
    <3>1. b[i + MaxFailed] = now /\ b[i] = a[i] /\ a[i] \in Nat
      BY <1>0, <1>7, <2>1, <2>2
    <3>2. a[i] + Window <= now
      <4>1. ~(n < MaxFailed)
        BY <1>0, <2>1, <2>2
      <4>2. CASE l < MaxFailed
        <5>1. i \in 1 .. (n - l)
          BY <1>0, <2>2, <4>2
        <5>. QED  BY <1>3, <5>1
      <4>. QED  BY <1>8, <2>1, <4>1, <4>2
    <3>. QED  BY <1>0, <3>1, <3>2
  <2>3. CASE i + MaxFailed # n + 1
    <3>1. i + MaxFailed \in 1 .. n /\ i \in 1 .. (n - MaxFailed)
      BY <1>a, <2>1, <2>3
    <3>2. a[i + MaxFailed] >= a[i] + Window
      BY <3>1 DEF Attempts, n
    <3>. QED  BY <1>7, <2>1, <3>1, <3>2
  <2>. QED  BY <2>2, <2>3
<1>16. (w.locked # 0 \/ Len(q) >= MaxFailed) => w.locked >= b[n + 1] + LockTime
  <2>1. w.locked = IF Len(q) >= MaxFailed THEN now + LockTime ELSE 0
    BY <1>0 DEF q
  <2>. QED  BY <1>0, <1>7, <2>1
<1>17. w.stamps = q
  BY DEF q
<1>18. Nondecreasing(q) /\ Nondecreasing(b)
  <2>1. Nondecreasing(q)
    BY <1>6, <1>12 DEF Nondecreasing
  <2>2. Nondecreasing(b)
    BY <1>7, <1>13 DEF Nondecreasing
  <2>. QED  BY <2>1, <2>2
<1>19. Attempts(w, b, now)
  BY <1>6, <1>7, <1>12, <1>13, <1>14, <1>15, <1>16, <1>17, <1>18 DEF Attempts
<1>. QED  BY <1>19 DEF b

(* An account of which no attempt counts. *)
LEMMA NoAttempts ==
    ASSUME NEW u, NEW t, u.stamps \in Seq(Nat), Nondecreasing(u.stamps), \A i \in 1 .. Len(u.stamps) : u.stamps[i] <= t
    PROVE  Attempts(u, <<>>, t)
<1>1. Len(<<>>) = 0 /\ Len(u.stamps) \in Nat /\ MaxFailed \in Nat
  BY AccNat
<1>2. Nondecreasing(<<>>) /\ Recalls(u.stamps, <<>>, t)
  BY <1>1 DEF Nondecreasing, Recalls
<1>3. \A i \in 1 .. (0 - MaxFailed) : FALSE
  BY <1>1
<1>. QED  BY <1>1, <1>2, <1>3 DEF Attempts

LEMMA AttemptsStep ==
    ASSUME AccountTypes, AttemptsInv, AccNext, ~lost'
    PROVE  AttemptsInv'
<1>0. /\ users \in [Usernames -> UserRecord] /\ now \in Nat
      /\ tries \in [Usernames -> Seq(Nat)]
      /\ \A n \in Usernames : /\ users[n] \in UserRecord /\ users[n].stamps \in Seq(Nat)
                              /\ users[n].locked \in Nat
                              /\ \A i \in 1 .. Len(users[n].stamps) : users[n].stamps[i] \in Nat
                              /\ \A i \in 1 .. Len(tries[n]) : tries[n][i] \in Nat
  <2>1. \A q \in Seq(0 .. MaxTime) : q \in Seq(Nat)
    BY AccNat
  <2>2. users \in [Usernames -> UserRecord] /\ now \in Nat /\ tries \in [Usernames -> Seq(0 .. MaxTime)]
    BY AccNat DEF AccountTypes
  <2>3. \A n \in Usernames : users[n].stamps \in Seq(0 .. MaxTime) /\ users[n].locked \in Nat
                             /\ users[n] \in UserRecord
    BY <2>2, AccNat DEF UserRecord
  <2>4. tries \in [Usernames -> Seq(Nat)] /\ \A n \in Usernames : users[n].stamps \in Seq(Nat)
    BY <2>1, <2>2, <2>3
  <2>. QED  BY <2>2, <2>3, <2>4
<1>1. ASSUME NEW n \in Usernames, NEW w, users' = [users EXCEPT ![n] = w], now' = now,
             \A m \in Usernames : m # n => tries'[m] = tries[m],
             w # NoUser => Attempts(w, tries'[n], now)
      PROVE  AttemptsInv'
  <2>1. \A m \in Usernames : users'[m] = IF m = n THEN w ELSE users[m]
    BY <1>0, <1>1
  <2> SUFFICES ASSUME NEW m \in Usernames, users'[m] # NoUser
               PROVE  Attempts(users'[m], tries'[m], now)
    BY <1>1 DEF AttemptsInv, Exists
  <2>2. CASE m = n
    BY <1>1, <2>1, <2>2
  <2>3. CASE m # n
    BY <1>1, <2>1, <2>3 DEF AttemptsInv, Exists
  <2>. QED  BY <2>2, <2>3
<1>2. ASSUME NEW n \in Usernames, UserHandler(n) PROVE AttemptsInv'
  <2>1. \A m \in Usernames : m # n => tries'[m] = tries[m]
    BY <1>2, HandlerKeeps
  <2>2. now' = now
    BY <1>2 DEF UserHandler, SetupFirstAdmin, LoginRight, LoginWrong, Register, DeleteUser, UpdateRole,
         UnlockUser, ChangePassword, TakeLockOff
  <2>3. ASSUME NEW r \in Roles PROVE Attempts(NewUser(r), <<>>, now)
    <3>1. NewUser(r).stamps = <<>>
      BY NewUserTyped
    <3>2. <<>> \in Seq(Nat) /\ Len(<<>>) = 0 /\ Nondecreasing(<<>>)
          /\ \A i \in 1 .. Len(<<>>) : <<>>[i] <= now
      BY DEF Nondecreasing
    <3>. QED  BY <3>1, <3>2, NoAttempts
  <2>4. CASE SetupFirstAdmin(n)
    <3>1. users' = [users EXCEPT ![n] = NewUser("admin")] /\ tries'[n] = <<>>
      BY <1>0, <2>4 DEF SetupFirstAdmin
    <3>. QED  BY <1>1, <2>1, <2>2, <2>3, <3>1 DEF Roles
  <2>5. CASE LoginRight(n)
    <3> DEFINE w == [users[n] EXCEPT !.stamps = <<>>, !.locked = 0]
    <3>1. users' = [users EXCEPT ![n] = w] /\ tries'[n] = <<>>
      BY <1>0, <2>5 DEF LoginRight
    <3>2. w.stamps = <<>>
      BY <1>0 DEF UserRecord
    <3> HIDE DEF w
    <3>3. <<>> \in Seq(Nat) /\ Len(<<>>) = 0 /\ Nondecreasing(<<>>)
          /\ \A i \in 1 .. Len(<<>>) : <<>>[i] <= now
      BY DEF Nondecreasing
    <3>4. Attempts(w, <<>>, now)
      BY <3>2, <3>3, NoAttempts
    <3>. QED  BY <1>1, <2>1, <2>2, <3>1, <3>4
  <2>6. CASE LoginWrong(n)
    <3> DEFINE u == users[n]
               e == LockExpired(n)
               w == AfterWrong(e)
               r == InWindow(e.stamps)
    <3>1. users' = [users EXCEPT ![n] = w] /\ tries'[n] = Append(tries[n], now) /\ Exists(n) /\ ~Locked(n)
      BY <1>0, <2>6 DEF LoginWrong
    <3>2. /\ e \in UserRecord /\ (u.locked # 0 => e.stamps = <<>> /\ e.locked = 0)
          /\ (u.locked = 0 => e = u)
      BY ExpiredTyped
    <3>3. /\ w.stamps = Append(r, now)
          /\ w.locked = IF Len(Append(r, now)) >= MaxFailed THEN now + LockTime ELSE e.locked
      BY <3>2, WrongTyped
    <3>4. u.locked <= now /\ u.stamps \in Seq(Nat) /\ u.locked \in Nat /\ tries[n] \in Seq(Nat)
      BY <1>0, <3>1 DEF Locked
    <3>5. e.stamps \in Seq(Nat)
      <4>1. e.stamps \in Seq(0 .. MaxTime)
        BY <3>2 DEF UserRecord
      <4>. QED  BY <4>1, AccNat
    <3>6. Attempts(u, tries[n], now)
      BY <3>1 DEF AttemptsInv
    <3> HIDE DEF u, e, w, r
    <3>7. r = InWindow(e.stamps)
      BY DEF r
    <3>8. Attempts(w, Append(tries[n], now), now)
      BY <1>0, <3>2, <3>3, <3>4, <3>5, <3>6, <3>7, WrongAttempt
    <3>. QED  BY <1>1, <2>1, <2>2, <3>1, <3>8
  <2>7. CASE Register(n)
    <3>1. PICK r \in Roles : users' = [users EXCEPT ![n] = NewUser(r)]
      BY <2>7 DEF Register
    <3>2. tries'[n] = <<>>
      BY <1>0, <2>7 DEF Register
    <3>. QED  BY <1>1, <2>1, <2>2, <2>3, <3>1, <3>2
  <2>8. CASE DeleteUser(n)
    BY <1>1, <2>1, <2>2, <2>8 DEF DeleteUser
  <2>9. CASE UpdateRole(n)
    <3>1. PICK r \in Roles : users' = [users EXCEPT ![n].role = r, ![n].version = Bumped(users[n])]
      BY <2>9 DEF UpdateRole
    <3> DEFINE w == [users[n] EXCEPT !.role = r, !.version = users[n].version + 1]
    <3>2. users' = [users EXCEPT ![n] = w] /\ tries'[n] = tries[n] /\ Exists(n)
      BY <1>0, <2>9, <3>1 DEF Bumped, UpdateRole
    <3>3. w.stamps = users[n].stamps /\ w.locked = users[n].locked
      BY <1>0 DEF UserRecord
    <3> HIDE DEF w
    <3>4. Attempts(users[n], tries[n], now)
      BY <3>2 DEF AttemptsInv
    <3>5. Attempts(w, tries[n], now)
      BY <3>3, <3>4 DEF Attempts
    <3>. QED  BY <1>1, <2>1, <2>2, <3>2, <3>5
  <2>10. CASE TakeLockOff(n)
    <3> DEFINE w == [users[n] EXCEPT !.locked = 0]
    <3>1. users' = [users EXCEPT ![n] = w] /\ tries'[n] = <<>> /\ Exists(n)
      BY <1>0, <2>10 DEF TakeLockOff
    <3>2. w.stamps = users[n].stamps
      BY <1>0 DEF UserRecord
    <3> HIDE DEF w
    <3>3. Nondecreasing(w.stamps) /\ w.stamps \in Seq(Nat) /\ \A i \in 1 .. Len(w.stamps) : w.stamps[i] <= now
      BY <1>0, <3>1, <3>2 DEF AttemptsInv, Attempts
    <3>4. Attempts(w, <<>>, now)
      BY <3>3, NoAttempts
    <3>. QED  BY <1>1, <2>1, <2>2, <3>1, <3>4
  <2>. QED  BY <1>2, <2>4, <2>5, <2>6, <2>7, <2>8, <2>9, <2>10
            DEF UserHandler, UnlockUser, ChangePassword
<1>3. CASE Logout \/ Refresh
  BY <1>3 DEF Logout, Refresh, AttemptsInv, Exists
<1>4. CASE AccTick
  <2>1. users' = users /\ tries' = tries /\ now' = now + 1
    BY <1>4 DEF AccTick, storage
  <2> SUFFICES ASSUME NEW n \in Usernames, Exists(n) PROVE Attempts(users[n], tries[n], now + 1)
    BY <2>1 DEF AttemptsInv, Exists
  <2> DEFINE u == users[n]
             a == tries[n]
             s == users[n].stamps
  <2>2. Attempts(u, a, now)
    BY DEF AttemptsInv
  <2>3. /\ Len(a) \in Nat /\ Len(s) \in Nat /\ u.stamps = s /\ Window \in Nat
        /\ (\A i \in 1 .. Len(a) : a[i] \in Nat) /\ \A i \in 1 .. Len(s) : s[i] \in Nat
    BY <1>0, AccNat
  <2> HIDE DEF u, a, s
  <2>4. \A j \in 1 .. (Len(a) - Len(s)) : a[j] + Window <= now + 1
    <3> SUFFICES ASSUME NEW j \in 1 .. (Len(a) - Len(s)) PROVE a[j] + Window <= now + 1
      OBVIOUS
    <3>1. a[j] + Window <= now /\ a[j] \in Nat
      BY <2>2, <2>3 DEF Attempts, Recalls
    <3>. QED  BY <1>0, <2>3, <3>1
  <2>5. Recalls(s, a, now + 1)
    BY <2>2, <2>3, <2>4 DEF Recalls, Attempts
  <2>6. (\A i \in 1 .. Len(a) : a[i] <= now + 1) /\ \A i \in 1 .. Len(s) : s[i] <= now + 1
    BY <1>0, <2>2, <2>3 DEF Attempts
  <2>7. Attempts(u, a, now + 1)
    BY <2>2, <2>3, <2>5, <2>6 DEF Attempts
  <2>. QED  BY <2>7 DEF u, a
<1>5. CASE AuthRestart
  BY <1>5 DEF AuthRestart, LoadsFiles
<1>6. CASE UNCHANGED accvars
  BY <1>6 DEF accvars, AttemptsInv, Exists
<1>. QED  BY <1>2, <1>3, <1>4, <1>5, <1>6 DEF AccNext, UserHandler, WrongOldPassword

LEMMA AccountsInit == AccInit => AccountsInv
<1> SUFFICES ASSUME AccInit PROVE AccountsInv
  OBVIOUS
<1>1. AccountTypes
  BY AccountsTypesInit
<1>2. /\ users \in UsersLoaded([n \in Usernames |-> NoUser]) /\ tokens = <<>>
      /\ tries = [n \in Usernames |-> <<>>] /\ ~twice /\ exchanged = {} /\ now = 0
  BY DEF AccInit
<1>3. \A m \in Usernames : users[m] = NoUser \/ users[m] = NewUser("admin")
  BY <1>2 DEF UsersLoaded
<1>4. NewUser("admin").stamps = <<>> /\ NewUser("admin").role \in Roles
  BY NewUserTyped DEF Roles
<1>5. TokensInv
  <2>1. DOMAIN tokens = {}
    BY <1>2
  <2>. QED  BY <1>3, <1>4, <2>1 DEF TokensInv, Exists
<1>6. RotationInv
  BY <1>2 DEF RotationInv
<1>7. AttemptsInv
  <2> SUFFICES ASSUME NEW m \in Usernames, Exists(m) PROVE Attempts(users[m], tries[m], now)
    BY DEF AttemptsInv
  <2>1. users[m].stamps = <<>> /\ tries[m] = <<>>
    BY <1>2, <1>3, <1>4 DEF Exists
  <2>2. <<>> \in Seq(Nat) /\ Len(<<>>) = 0 /\ Nondecreasing(<<>>) /\ \A i \in 1 .. Len(<<>>) : <<>>[i] <= now
    BY DEF Nondecreasing
  <2>. QED  BY <2>1, <2>2, NoAttempts
<1>. QED  BY <1>1, <1>5, <1>6, <1>7 DEF AccountsInv

LEMMA AccountsStep == AccountsInv /\ [AccNext]_accvars => AccountsInv'
<1> SUFFICES ASSUME AccountsInv, [AccNext]_accvars PROVE AccountsInv'
  OBVIOUS
<1>1. AccountTypes /\ AccountTypes'
  BY AccountsTypesStep DEF AccountsInv
<1>2. CASE UNCHANGED accvars
  BY <1>1, <1>2 DEF accvars, AccountsInv, TokensInv, RotationInv, AttemptsInv, Exists
<1>3. CASE AccNext
  <2>1. ASSUME ~lost' PROVE ~lost
    <3>1. ASSUME NEW n \in Usernames, UserHandler(n) PROVE lost' = lost
      BY <1>1, <3>1, HandlerReplaces DEF UserReplaced
    <3>2. CASE Logout \/ Refresh \/ AccTick
      BY <2>1, <3>2 DEF Logout, Refresh, AccTick, history
    <3>3. CASE AuthRestart
      BY <2>1, <3>3 DEF AuthRestart, LoadsFiles
    <3>4. CASE UNCHANGED accvars
      BY <2>1, <3>4 DEF accvars
    <3>. QED  BY <1>3, <2>1, <3>1, <3>2, <3>3, <3>4 DEF AccNext, UserHandler, WrongOldPassword
  <2>2. ASSUME ~lost' PROVE (TokensInv /\ RotationInv /\ AttemptsInv)'
    BY <1>1, <1>3, <2>1, <2>2, TokensStep, RotationStep, AttemptsStep DEF AccountsInv
  <2>. QED  BY <1>1, <2>2 DEF AccountsInv
<1>. QED  BY <1>2, <1>3

LEMMA AccountsAlways == AccSpec => []AccountsInv
  BY AccountsInit, AccountsStep, PTL DEF AccSpec

(* The types of Accounts, with the bound the events left put on the versions. *)
THEOREM AccountsTyped == AccSpec => []AccTypeOK
<1>1. AccountsInv => AccTypeOK
  BY DEF AccountsInv, AccountTypes, AccTypeOK, UserRecord
<1>. QED  BY <1>1, AccountsAlways, PTL

(* However roles change, users are made and saves fail, an access token that is accepted
   names its user's present role, unless the user was deleted or a restart lost a change. *)
THEOREM AcceptedTokenHasRole == AccSpec => []TokenRoleIsCurrent
<1>1. AccountsInv => TokenRoleIsCurrent
  <2> SUFFICES ASSUME AccountsInv, ~lost, NEW j \in Bearers, tokens[j].kind = "access",
                      tokens[j].sub \notin remade
               PROVE  tokens[j].role = users[tokens[j].sub].role
    BY DEF TokenRoleIsCurrent
  <2> DEFINE n == tokens[j].sub
  <2>1. AccountTypes /\ TokensInv
    BY DEF AccountsInv
  <2>2. j \in DOMAIN tokens /\ tokens[j] \in TokenRecord /\ tokens[j].version >= users[n].version
    BY <2>1, KnownTokens DEF Accepted
  <2>3. n \in Usernames /\ tokens[j].version \in Nat /\ users[n].version \in Nat
    BY <2>1, <2>2, AccNat DEF TokenRecord, AccountTypes, UserRecord
  <2>4. Current(tokens[j], users, remade)
    BY <2>1, <2>2 DEF TokensInv
  <2>. QED  BY <2>2, <2>3, <2>4 DEF Current
<1>. QED  BY <1>1, AccountsAlways, PTL

(* No refresh token buys two pairs of tokens, unless a restart lost the blacklist. *)
THEOREM RefreshTokensRotate == AccSpec => []RefreshedOnce
<1>1. AccountsInv => RefreshedOnce
  BY DEF AccountsInv, RotationInv, RefreshedOnce
<1>. QED  BY <1>1, AccountsAlways, PTL

(* Whatever locks expire and whatever windows slide, MaxFailed + 1 wrong passwords in a row
   that logins to one account looked at span a window of time. *)
THEOREM WrongPasswordsAreBounded == AccSpec => []TriesAreBounded
<1>1. AccountsInv => TriesAreBounded
  BY DEF AccountsInv, AttemptsInv, Attempts, TriesAreBounded, AccUsers
<1>. QED  BY <1>1, AccountsAlways, PTL

-----------------------------------------------------------------------------
(* The log stream. *)
PostRecord == [at : {"idle", "kept", "sliced", "posting"}, msg : Nat, kept : Seq(Nat)]
DeliveryRecord == [msg : Nat, left : SUBSET Sockets, dead : SUBSET Sockets]
HandlerRecord == [at : {"none", "replaying", "listening", "ended"}, replay : Seq(Nat)]

LogTypes ==
    /\ log_buffer \in Seq(Nat) /\ scheduled \in Seq(Nat) /\ begun \in Nat
    /\ subscribers \in SUBSET Sockets /\ open \in SUBSET Sockets
    /\ posting \in [Threads -> PostRecord]
    /\ delivering \in SUBSET DeliveryRecord
    /\ handler \in [Sockets -> HandlerRecord]
    /\ received \in [Sockets -> SUBSET Nat] /\ since \in [Sockets -> Nat]

(* A client that is there is subscribed, and no delivery takes it for dead: whom a delivery
   found gone has connected before, and nobody connects twice. *)
Subscribed ==
    /\ open \subseteq subscribers
    /\ \A w \in subscribers : handler[w].at # "none"
    /\ \A d \in delivering : /\ d.dead \cap open = {}
                             /\ \A w \in d.left \cup d.dead : handler[w].at # "none"
    /\ \A t \in Threads : posting[t].at = "idle" => posting[t].msg = 0

LogInv == LogTypes /\ Subscribed /\ NothingMissed

LEMMA LogNat == MaxBuffer \in Nat /\ Replayed \in Nat /\ MaxMessages \in Nat
  BY LogAssumption

LEMMA NewestTyped == ASSUME NEW s \in Seq(Nat), NEW n \in Nat PROVE NewestOf(s, n) \in Seq(Nat)
<1>1. CASE Len(s) > n
  <2> DEFINE a == Len(s) - n + 1
             b == Len(s)
  <2>1. a \in Int /\ b \in Int /\ \A i \in a .. b : s[i] \in Nat
    BY <1>1
  <2>2. NewestOf(s, n) = SubSeq(s, a, b)
    BY <1>1 DEF NewestOf
  <2> HIDE DEF a, b
  <2>. QED  BY <2>1, <2>2, SubSeqProperties
<1>2. CASE ~(Len(s) > n)
  BY <1>2 DEF NewestOf
<1>. QED  BY <1>1, <1>2

(* Nothing is missed in a step that keeps every message on its way, or delivers it. *)
LEMMA StillOnTheWay ==
    ASSUME LogInv, LogTypes', open' \subseteq open, UNCHANGED <<since, begun>>,
           \A w \in open' : received[w] \subseteq received'[w],
           \A w \in open', m \in Nat \ {0} : OnItsWay(m, w) => m \in received'[w] \/ OnItsWay(m, w)'
    PROVE  NothingMissed'
<1> SUFFICES ASSUME NEW w \in open', NEW m \in since[w] + 1 .. begun
             PROVE  m \in received'[w] \/ OnItsWay(m, w)'
  BY DEF NothingMissed
<1>1. m \in Nat \ {0} /\ w \in open
  BY DEF LogInv, LogTypes
<1>2. m \in received[w] \/ OnItsWay(m, w)
  BY <1>1 DEF LogInv, NothingMissed
<1>. QED  BY <1>1, <1>2

LEMMA LogInit == LSInit => LogInv
<1> SUFFICES ASSUME LSInit PROVE LogInv
  OBVIOUS
<1>1. Idle \in PostRecord /\ Idle.msg = 0
  BY DEF Idle, PostRecord
<1>2. [at |-> "none", replay |-> <<>>] \in HandlerRecord
  BY DEF HandlerRecord
<1>3. LogTypes
  BY <1>1, <1>2 DEF LSInit, LogTypes
<1>4. Subscribed /\ NothingMissed
  BY <1>1 DEF LSInit, Subscribed, NothingMissed
<1>. QED  BY <1>3, <1>4 DEF LogInv

LEMMA Broadcasts ==
    ASSUME LogInv, NEW t \in Threads, BroadcastLine(t) \/ BroadcastEvent(t)
    PROVE  LogInv'
<1> DEFINE n == begun + 1
<1>1. /\ begun \in Nat /\ posting \in [Threads -> PostRecord] /\ posting[t].msg = 0
      /\ log_buffer \in Seq(Nat) /\ n \in Nat
  BY DEF BroadcastLine, BroadcastEvent, LogInv, LogTypes, Subscribed
<1>2. /\ begun' = n
      /\ UNCHANGED <<subscribers, scheduled, delivering, handler, open, received, since>>
      /\ log_buffer' \in Seq(Nat)
      /\ \E at \in {"kept", "posting"} : posting' = [posting EXCEPT ![t] = [Idle EXCEPT !.at = at, !.msg = n]]
  <2>1. begun' = n /\ UNCHANGED <<subscribers, scheduled, delivering, handler, open, received, since>>
    BY DEF BroadcastLine, BroadcastEvent
  <2>2. log_buffer' = log_buffer \/ log_buffer' = Append(log_buffer, n)
    BY <2>1 DEF BroadcastLine, BroadcastEvent
  <2>3. \E at \in {"kept", "posting"} : posting' = [posting EXCEPT ![t] = [Idle EXCEPT !.at = at, !.msg = begun']]
    BY DEF BroadcastLine, BroadcastEvent
  <2>4. log_buffer' \in Seq(Nat)
    BY <1>1, <2>2
  <2>5. \E at \in {"kept", "posting"} : posting' = [posting EXCEPT ![t] = [Idle EXCEPT !.at = at, !.msg = n]]
    BY <2>1, <2>3, Zenon
  <2>. QED  BY <2>1, <2>4, <2>5, Zenon
<1>3. PICK at \in {"kept", "posting"} : posting' = [posting EXCEPT ![t] = [Idle EXCEPT !.at = at, !.msg = n]]
  BY <1>2
<1> DEFINE r == [Idle EXCEPT !.at = at, !.msg = n]
<1>4. r \in PostRecord /\ r.at # "idle" /\ r.msg = n
  <2>1. Idle \in PostRecord
    BY DEF Idle, PostRecord
  <2> HIDE DEF Idle
  <2>. QED  BY <1>1, <2>1 DEF PostRecord
<1>5. posting' = [posting EXCEPT ![t] = r]
  BY <1>3
<1> HIDE DEF r
<1>6. posting' \in [Threads -> PostRecord] /\ \A u \in Threads : posting'[u] = IF u = t THEN r ELSE posting[u]
  BY <1>1, <1>4, <1>5
<1>7. LogTypes'
  BY <1>1, <1>2, <1>6 DEF LogInv, LogTypes
<1>8. Subscribed'
  BY <1>2, <1>4, <1>6 DEF LogInv, Subscribed
<1>9. NothingMissed'
  <2> SUFFICES ASSUME NEW w \in open, NEW m \in since[w] + 1 .. begun' PROVE m \in received[w] \/ OnItsWay(m, w)'
    BY <1>2 DEF NothingMissed
  <2>1. since[w] \in Nat /\ m \in Nat /\ m # 0 /\ (m = n \/ m \in since[w] + 1 .. begun)
    <3>1. since[w] \in Nat
      BY DEF LogInv, LogTypes
    <3>. QED  BY <1>1, <1>2, <3>1
  <2>2. CASE m = n
    BY <1>4, <1>6, <2>2 DEF OnItsWay
  <2>3. CASE m \in since[w] + 1 .. begun
    <3>1. m \in received[w] \/ OnItsWay(m, w)
      BY <2>3 DEF LogInv, NothingMissed
    <3>2. \A u \in Threads : posting[u].msg = m => posting'[u].msg = m
      BY <1>1, <1>6, <2>1
    <3>. QED  BY <1>2, <3>1, <3>2 DEF OnItsWay
  <2>. QED  BY <2>1, <2>2, <2>3
<1>. QED  BY <1>7, <1>8, <1>9 DEF LogInv

LEMMA SlicesReplaces ==
    ASSUME LogInv, NEW t \in Threads, Slice(t) \/ Replace(t)
    PROVE  LogInv'
<1>1. posting \in [Threads -> PostRecord] /\ log_buffer \in Seq(Nat) /\ posting[t].kept \in Seq(Nat)
      /\ posting[t] \in PostRecord
  BY DEF LogInv, LogTypes, PostRecord
<1>2. UNCHANGED <<subscribers, scheduled, delivering, handler, open, received, since, begun>>
  BY DEF Slice, Replace
<1>3. log_buffer' \in Seq(Nat)
  BY <1>1 DEF Slice, Replace
<1>4. \E r \in PostRecord : posting' = [posting EXCEPT ![t] = r] /\ r.msg = posting[t].msg /\ r.at # "idle"
  <2>1. CASE Replace(t)
    <3> DEFINE r == [posting[t] EXCEPT !.at = "posting", !.kept = <<>>]
    <3>1. posting' = [posting EXCEPT ![t] = r]
      BY <1>1, <2>1 DEF Replace
    <3>2. r \in PostRecord
      <4>1. <<>> \in Seq(Nat)
        OBVIOUS
      <4>. QED  BY <1>1, <4>1 DEF PostRecord
    <3>3. r.msg = posting[t].msg /\ r.at # "idle"
      BY <1>1 DEF PostRecord
    <3>. QED  BY <3>1, <3>2, <3>3
  <2>2. CASE Slice(t) /\ Len(log_buffer) > MaxBuffer
    <3> DEFINE k == NewestOf(log_buffer, MaxBuffer)
               r == [posting[t] EXCEPT !.at = "sliced", !.kept = k]
    <3>1. posting' = [posting EXCEPT ![t] = r]
      BY <1>1, <2>2 DEF Slice
    <3>2. k \in Seq(Nat)
      BY <1>1, LogNat, NewestTyped
    <3> HIDE DEF k
    <3>3. r \in PostRecord /\ r.msg = posting[t].msg /\ r.at # "idle"
      BY <1>1, <3>2 DEF PostRecord
    <3>. QED  BY <3>1, <3>3
  <2>3. CASE Slice(t) /\ ~(Len(log_buffer) > MaxBuffer)
    <3> DEFINE r == [posting[t] EXCEPT !.at = "posting"]
    <3>1. posting' = [posting EXCEPT ![t] = r]
      BY <1>1, <2>3 DEF Slice
    <3>2. r \in PostRecord /\ r.msg = posting[t].msg /\ r.at # "idle"
      BY <1>1 DEF PostRecord
    <3>. QED  BY <3>1, <3>2
  <2>. QED  BY <2>1, <2>2, <2>3
<1>5. PICK r \in PostRecord : posting' = [posting EXCEPT ![t] = r] /\ r.msg = posting[t].msg /\ r.at # "idle"
  BY <1>4
<1>6. posting' \in [Threads -> PostRecord] /\ \A u \in Threads : posting'[u] = IF u = t THEN r ELSE posting[u]
  BY <1>1, <1>5
<1>7. LogTypes'
  BY <1>2, <1>3, <1>6 DEF LogInv, LogTypes
<1>8. Subscribed'
  BY <1>2, <1>5, <1>6 DEF LogInv, Subscribed
<1>9. \A u \in Threads : posting'[u].msg = posting[u].msg
  BY <1>5, <1>6
<1>10. \A w, m : OnItsWay(m, w) => OnItsWay(m, w)'
  BY <1>2, <1>9 DEF OnItsWay
<1>11. NothingMissed'
  BY <1>2, <1>7, <1>10, StillOnTheWay
<1>. QED  BY <1>7, <1>8, <1>11 DEF LogInv

LEMMA Posts ==
    ASSUME LogInv, NEW t \in Threads, Post(t)
    PROVE  LogInv'
<1> DEFINE n == posting[t].msg
<1>1. posting \in [Threads -> PostRecord] /\ scheduled \in Seq(Nat) /\ n \in Nat
  BY DEF LogInv, LogTypes, PostRecord
<1>2. /\ posting' = [posting EXCEPT ![t] = Idle]
      /\ scheduled' = IF subscribers # {} THEN Append(scheduled, n) ELSE scheduled
      /\ UNCHANGED <<log_buffer, subscribers, delivering, handler, open, received, begun, since>>
  BY DEF Post
<1> HIDE DEF n
<1>3. Idle \in PostRecord /\ Idle.msg = 0
  BY DEF Idle, PostRecord
<1>4. posting' \in [Threads -> PostRecord] /\ \A u \in Threads : posting'[u] = IF u = t THEN Idle ELSE posting[u]
  BY <1>1, <1>2, <1>3
<1>5. scheduled' \in Seq(Nat)
  BY <1>1, <1>2
<1>6. LogTypes'
  BY <1>2, <1>4, <1>5 DEF LogInv, LogTypes
<1>7. Subscribed'
  BY <1>2, <1>3, <1>4 DEF LogInv, Subscribed
<1>8. ASSUME NEW w \in open, NEW m \in Nat \ {0}, OnItsWay(m, w) PROVE OnItsWay(m, w)'
  <2>1. subscribers # {}
    BY DEF LogInv, Subscribed
  <2>2. /\ Len(scheduled') = Len(scheduled) + 1 /\ scheduled'[Len(scheduled) + 1] = n
        /\ \A i \in 1 .. Len(scheduled) : scheduled'[i] = scheduled[i] /\ i \in 1 .. Len(scheduled')
        /\ Len(scheduled) + 1 \in 1 .. Len(scheduled')
    BY <1>1, <1>2, <2>1
  <2>3. CASE \E u \in Threads : posting[u].msg = m
    BY <1>4, <2>2, <2>3 DEF OnItsWay, n
  <2>4. CASE \E i \in 1 .. Len(scheduled) : scheduled[i] = m
    BY <2>2, <2>4 DEF OnItsWay
  <2>5. CASE \E d \in delivering : d.msg = m /\ w \in d.left
    BY <1>2, <2>5 DEF OnItsWay
  <2>. QED  BY <1>8, <2>3, <2>4, <2>5 DEF OnItsWay
<1>9. NothingMissed'
  BY <1>2, <1>6, <1>8, StillOnTheWay
<1>. QED  BY <1>6, <1>7, <1>9 DEF LogInv

LEMMA BeginsDelivery ==
    ASSUME LogInv, BeginDelivery
    PROVE  LogInv'
<1> DEFINE e == [msg |-> Head(scheduled), left |-> subscribers, dead |-> {}]
<1>1. scheduled \in Seq(Nat) /\ scheduled # <<>> /\ subscribers \in SUBSET Sockets /\ delivering \in SUBSET DeliveryRecord
  BY DEF LogInv, LogTypes, BeginDelivery
<1>2. /\ delivering' = delivering \cup {e} /\ scheduled' = Tail(scheduled)
      /\ UNCHANGED <<log_buffer, subscribers, posting, handler, open, received, begun, since>>
  BY DEF BeginDelivery
<1>3. /\ Head(scheduled) = scheduled[1] /\ Head(scheduled) \in Nat /\ Tail(scheduled) \in Seq(Nat)
      /\ Len(Tail(scheduled)) = Len(scheduled) - 1
      /\ \A i \in 1 .. Len(Tail(scheduled)) : Tail(scheduled)[i] = scheduled[i + 1]
  BY <1>1, HeadTailProperties
<1>4. e \in DeliveryRecord /\ e.msg = Head(scheduled) /\ e.left = subscribers /\ e.dead = {}
  BY <1>1, <1>3 DEF DeliveryRecord
<1> HIDE DEF e
<1>5. LogTypes'
  BY <1>1, <1>2, <1>3, <1>4 DEF LogInv, LogTypes
<1>6. Subscribed'
  <2>1. \A d \in delivering' : d \in delivering \/ d = e
    BY <1>2
  <2>. QED  BY <1>2, <1>4, <2>1 DEF LogInv, Subscribed
<1>7. ASSUME NEW w \in open, NEW m \in Nat \ {0}, OnItsWay(m, w) PROVE OnItsWay(m, w)'
  <2>1. CASE \E u \in Threads : posting[u].msg = m
    BY <1>2, <2>1 DEF OnItsWay
  <2>2. ASSUME NEW i \in 1 .. Len(scheduled), scheduled[i] = m PROVE OnItsWay(m, w)'
    <3>1. CASE i = 1
      <4>1. e.msg = m /\ w \in e.left
        BY <1>3, <1>4, <2>2, <3>1 DEF LogInv, Subscribed
      <4>. QED  BY <1>2, <4>1 DEF OnItsWay
    <3>2. CASE i # 1
      <4>1. i - 1 \in 1 .. Len(Tail(scheduled)) /\ (i - 1) + 1 = i
        BY <1>1, <1>3, <3>2
      <4>2. Tail(scheduled)[i - 1] = m
        BY <1>3, <2>2, <4>1
      <4>. QED  BY <1>2, <4>1, <4>2 DEF OnItsWay
    <3>. QED  BY <3>1, <3>2
  <2>3. CASE \E d \in delivering : d.msg = m /\ w \in d.left
    BY <1>2, <2>3 DEF OnItsWay
  <2>. QED  BY <1>7, <2>1, <2>2, <2>3 DEF OnItsWay
<1>8. NothingMissed'
  BY <1>2, <1>5, <1>7, StillOnTheWay
<1>. QED  BY <1>5, <1>6, <1>8 DEF LogInv

LEMMA Delivers ==
    ASSUME LogInv, NEW d \in delivering, NEW v \in d.left, Deliver(d, v)
    PROVE  LogInv'
<1> DEFINE e == AfterSend(d, v)
<1>1. delivering \in SUBSET DeliveryRecord /\ d \in DeliveryRecord /\ received \in [Sockets -> SUBSET Nat]
      /\ v \in Sockets /\ d.msg \in Nat
  BY DEF LogInv, LogTypes, DeliveryRecord
<1>2. /\ delivering' = (delivering \ {d}) \cup {e}
      /\ received' = IF v \in open THEN [received EXCEPT ![v] = @ \cup {d.msg}] ELSE received
      /\ UNCHANGED <<log_buffer, subscribers, posting, scheduled, handler, open, begun, since>>
  BY DEF Deliver
<1>3. /\ e \in DeliveryRecord /\ e.msg = d.msg /\ e.left = d.left \ {v}
      /\ e.dead = IF v \in open THEN d.dead ELSE d.dead \cup {v}
  BY <1>1 DEF AfterSend, DeliveryRecord
<1> HIDE DEF e
<1>4. /\ received' \in [Sockets -> SUBSET Nat] /\ \A w \in Sockets : received[w] \subseteq received'[w]
      /\ v \in open => d.msg \in received'[v]
  BY <1>1, <1>2
<1>5. LogTypes'
  BY <1>1, <1>2, <1>3, <1>4 DEF LogInv, LogTypes
<1>6. Subscribed'
  <2>1. \A c \in delivering' : c \in delivering \/ c = e
    BY <1>2
  <2>2. e.dead \cap open = {} /\ \A w \in e.left \cup e.dead : handler[w].at # "none"
    BY <1>3 DEF LogInv, Subscribed
  <2>. QED  BY <1>2, <2>1, <2>2 DEF LogInv, Subscribed
<1>7. ASSUME NEW w \in open, NEW m \in Nat \ {0}, OnItsWay(m, w) PROVE m \in received'[w] \/ OnItsWay(m, w)'
  <2>1. CASE (\E u \in Threads : posting[u].msg = m) \/ (\E i \in 1 .. Len(scheduled) : scheduled[i] = m)
    BY <1>2, <2>1 DEF OnItsWay
  <2>2. ASSUME NEW c \in delivering, c.msg = m, w \in c.left PROVE m \in received'[w] \/ OnItsWay(m, w)'
    <3>1. CASE c # d
      BY <1>2, <2>2, <3>1 DEF OnItsWay
    <3>2. CASE c = d /\ w # v
      BY <1>2, <1>3, <2>2, <3>2 DEF OnItsWay
    <3>3. CASE c = d /\ w = v
      BY <1>4, <2>2, <3>3
    <3>. QED  BY <3>1, <3>2, <3>3
  <2>. QED  BY <1>7, <2>1, <2>2 DEF OnItsWay
<1>8. NothingMissed'
  <2>1. open' \in SUBSET Sockets
    BY <1>2 DEF LogInv, LogTypes
  <2>. QED  BY <1>2, <1>4, <1>5, <1>7, <2>1, StillOnTheWay
<1>. QED  BY <1>5, <1>6, <1>8 DEF LogInv

LEMMA EndsDelivery ==
    ASSUME LogInv, NEW d \in delivering, EndDelivery(d)
    PROVE  LogInv'
<1>1. /\ d.left = {} /\ subscribers' = subscribers \ d.dead /\ delivering' = delivering \ {d}
      /\ UNCHANGED <<log_buffer, posting, scheduled, handler, open, received, begun, since>>
  BY DEF EndDelivery
<1>2. LogTypes'
  BY <1>1 DEF LogInv, LogTypes
<1>3. Subscribed'
  BY <1>1 DEF LogInv, Subscribed
<1>4. \A w, m : OnItsWay(m, w) => OnItsWay(m, w)'
  BY <1>1 DEF OnItsWay
<1>5. NothingMissed'
  BY <1>1, <1>2, <1>4, StillOnTheWay
<1>. QED  BY <1>2, <1>3, <1>5 DEF LogInv

LEMMA Connects ==
    ASSUME LogInv, NEW v \in Sockets, Connect(v)
    PROVE  LogInv'
<1> DEFINE k == NewestOf(log_buffer, Replayed)
           h == [at |-> "replaying", replay |-> k]
<1>1. handler[v].at = "none" /\ handler \in [Sockets -> HandlerRecord] /\ since \in [Sockets -> Nat]
      /\ begun \in Nat /\ log_buffer \in Seq(Nat)
  BY DEF Connect, LogInv, LogTypes
<1>2. /\ open' = open \cup {v} /\ subscribers' = subscribers \cup {v}
      /\ handler' = [handler EXCEPT ![v] = h] /\ since' = [since EXCEPT ![v] = begun]
      /\ UNCHANGED <<log_buffer, posting, scheduled, delivering, received, begun>>
  BY DEF Connect
<1>3. k \in Seq(Nat)
  BY <1>1, LogNat, NewestTyped
<1> HIDE DEF k
<1>4. h \in HandlerRecord /\ h.at # "none"
  BY <1>3 DEF HandlerRecord
<1> HIDE DEF h
<1>5. /\ handler' \in [Sockets -> HandlerRecord] /\ since' \in [Sockets -> Nat]
      /\ \A w \in Sockets : /\ handler'[w] = IF w = v THEN h ELSE handler[w]
                            /\ since'[w] = IF w = v THEN begun ELSE since[w]
  BY <1>1, <1>2, <1>4
<1>6. LogTypes'
  BY <1>2, <1>5 DEF LogInv, LogTypes
<1>7. Subscribed'
  <2>1. \A d \in delivering : d.dead \cap open' = {}
    BY <1>1, <1>2 DEF LogInv, Subscribed
  <2>2. \A d \in delivering : d.left \subseteq Sockets /\ d.dead \subseteq Sockets
    BY DEF LogInv, LogTypes, DeliveryRecord
  <2>3. \A d \in delivering : \A w \in d.left \cup d.dead : handler'[w].at # "none"
    BY <1>4, <1>5, <2>2 DEF LogInv, Subscribed
  <2>4. \A w \in subscribers' : handler'[w].at # "none"
    BY <1>2, <1>4, <1>5 DEF LogInv, LogTypes, Subscribed
  <2>. QED  BY <1>2, <2>1, <2>3, <2>4 DEF LogInv, Subscribed
<1>8. NothingMissed'
  <2> SUFFICES ASSUME NEW w \in open', NEW m \in since'[w] + 1 .. begun PROVE m \in received[w] \/ OnItsWay(m, w)'
    BY <1>2 DEF NothingMissed
  <2>1. w # v
    BY <1>1, <1>5
  <2>2. w \in open /\ w \in Sockets
    BY <1>2, <2>1 DEF LogInv, LogTypes
  <2>3. m \in since[w] + 1 .. begun
    BY <1>5, <2>1, <2>2
  <2>. QED  BY <1>2, <2>2, <2>3 DEF LogInv, NothingMissed, OnItsWay
<1>. QED  BY <1>6, <1>7, <1>8 DEF LogInv

LEMMA HandlerMoves ==
    ASSUME LogInv, NEW v \in Sockets, NEW h \in HandlerRecord, h.at # "none",
           handler' = [handler EXCEPT ![v] = h], open' = open,
           subscribers' = subscribers \/ (subscribers' = subscribers \ {v} /\ v \notin open),
           received' \in [Sockets -> SUBSET Nat], \A w \in Sockets : received[w] \subseteq received'[w],
           UNCHANGED <<log_buffer, posting, scheduled, delivering, begun, since>>
    PROVE  LogInv'
<1>1. handler \in [Sockets -> HandlerRecord]
  BY DEF LogInv, LogTypes
<1>2. handler' \in [Sockets -> HandlerRecord] /\ \A w \in Sockets : handler'[w] = IF w = v THEN h ELSE handler[w]
  BY <1>1
<1>3. LogTypes'
  BY <1>2 DEF LogInv, LogTypes
<1>4. Subscribed'
  <2>1. \A d \in delivering : d.left \subseteq Sockets /\ d.dead \subseteq Sockets
    BY DEF LogInv, LogTypes, DeliveryRecord
  <2>2. subscribers \subseteq Sockets /\ open \subseteq subscribers /\ subscribers' \subseteq subscribers
    BY DEF LogInv, LogTypes, Subscribed
  <2>. QED  BY <1>2, <2>1, <2>2 DEF LogInv, Subscribed
<1>5. \A w, m : OnItsWay(m, w) => OnItsWay(m, w)'
  BY DEF OnItsWay
<1>6. NothingMissed'
  <2>1. open' \in SUBSET Sockets
    BY DEF LogInv, LogTypes
  <2>. QED  BY <1>3, <1>5, <2>1, StillOnTheWay
<1>. QED  BY <1>3, <1>4, <1>6 DEF LogInv

LEMMA LogStep == LogInv /\ [LSNext]_lsvars => LogInv'
<1> SUFFICES ASSUME LogInv, [LSNext]_lsvars PROVE LogInv'
  OBVIOUS
<1>0. /\ handler \in [Sockets -> HandlerRecord] /\ received \in [Sockets -> SUBSET Nat]
      /\ open \in SUBSET Sockets
  BY DEF LogInv, LogTypes
<1>1. CASE UNCHANGED lsvars
  BY <1>1 DEF lsvars, LogInv, LogTypes, Subscribed, NothingMissed, OnItsWay
<1>2. ASSUME NEW v \in Sockets, Replay(v) PROVE LogInv'
  <2> DEFINE h == handler[v]
             more == h.replay # <<>> /\ v \in open
             x == IF more THEN [h EXCEPT !.replay = Tail(h.replay)] ELSE [at |-> "listening", replay |-> <<>>]
  <2>1. h \in HandlerRecord /\ h.at = "replaying" /\ h.replay \in Seq(Nat)
    BY <1>0, <1>2 DEF Replay, HandlerRecord
  <2>2. /\ received' = IF more THEN [received EXCEPT ![v] = @ \cup {Head(h.replay)}] ELSE received
        /\ handler' = [handler EXCEPT ![v] = x]
        /\ UNCHANGED <<log_buffer, subscribers, posting, scheduled, delivering, open, begun, since>>
    BY <1>2 DEF Replay
  <2>3. more => Head(h.replay) \in Nat /\ Tail(h.replay) \in Seq(Nat)
    BY <2>1, HeadTailProperties
  <2>4. x \in HandlerRecord /\ x.at # "none"
    <3>1. CASE more
      <4>1. x = [h EXCEPT !.replay = Tail(h.replay)] /\ Tail(h.replay) \in Seq(Nat)
        BY <2>3, <3>1
      <4> HIDE DEF h, x
      <4>. QED  BY <2>1, <4>1 DEF HandlerRecord
    <3>2. CASE ~more
      <4>1. x = [at |-> "listening", replay |-> <<>>]
        BY <3>2
      <4>2. <<>> \in Seq(Nat)
        OBVIOUS
      <4> HIDE DEF h, x
      <4>. QED  BY <4>1, <4>2 DEF HandlerRecord
    <3>. QED  BY <3>1, <3>2
  <2> HIDE DEF x
  <2>5. received' \in [Sockets -> SUBSET Nat] /\ \A w \in Sockets : received[w] \subseteq received'[w]
    BY <1>0, <2>2, <2>3
  <2>. QED  BY <2>2, <2>4, <2>5, HandlerMoves
<1>3. ASSUME NEW v \in Sockets, Disconnect(v) PROVE LogInv'
  <2> DEFINE x == [handler[v] EXCEPT !.at = "ended"]
  <2>1. /\ handler' = [handler EXCEPT ![v] = x] /\ subscribers' = subscribers \ {v} /\ v \notin open
        /\ UNCHANGED <<log_buffer, posting, scheduled, delivering, open, received, begun, since>>
    BY <1>3 DEF Disconnect
  <2>2. x \in HandlerRecord /\ x.at # "none"
    BY <1>0 DEF HandlerRecord
  <2> HIDE DEF x
  <2>. QED  BY <1>0, <2>1, <2>2, HandlerMoves
<1>4. ASSUME NEW v \in Sockets, ClientLeaves(v) PROVE LogInv'
  <2>1. /\ open' = open \ {v}
        /\ UNCHANGED <<log_buffer, subscribers, posting, scheduled, delivering, handler, received, begun, since>>
    BY <1>4 DEF ClientLeaves
  <2>2. LogTypes'
    BY <2>1 DEF LogInv, LogTypes
  <2>3. Subscribed'
    BY <2>1 DEF LogInv, Subscribed
  <2>4. \A w, m : OnItsWay(m, w) => OnItsWay(m, w)'
    BY <2>1 DEF OnItsWay
  <2>5. NothingMissed'
    BY <2>1, <2>2, <2>4, StillOnTheWay
  <2>. QED  BY <2>2, <2>3, <2>5 DEF LogInv
<1>. QED  BY <1>1, <1>2, <1>3, <1>4, Broadcasts, SlicesReplaces, Posts, BeginsDelivery, Delivers, EndsDelivery, Connects DEF LSNext

(* Whatever threads, deliveries and clients do in between, a client that stays has been sent,
   or is going to be, every message that was broadcast since it subscribed. *)
THEOREM ClientsMissNothing == LSSpec => []NothingMissed
<1>1. LogInv => NothingMissed
  BY DEF LogInv
<1>. QED  BY <1>1, LogInit, LogStep, PTL DEF LSSpec

-----------------------------------------------------------------------------
(* The configuration: memory, file and pipeline. *)
IsConfig(c) == c = [chunk |-> c.chunk, on |-> c.on, outs |-> c.outs]
IsGiven(p) == p = [chunk |-> p.chunk, on |-> p.on]

SettledInv ==
    /\ IsConfig(memory) /\ IsConfig(file) /\ IsGiven(pipe)
    /\ SettledAgrees

LEMMA ConfigShape ==
    /\ IsConfig(DEFAULT_CONFIG)
    /\ \A c, p, failed : IsGiven(Given(c, p, failed))
    /\ \A c, p, failed : "chunk" \notin failed => Given(c, p, failed).chunk = c.chunk
    /\ \A c, p, failed : \A m \in Modules \ failed : m \in Given(c, p, failed).on <=> m \in c.on
    /\ \A c, fault : IsConfig(c) => IsConfig(Loaded(c, fault))
  BY DEF IsConfig, IsGiven, DEFAULT_CONFIG, Given, Loaded

LEMMA ConfigChanged ==
    ASSUME NEW c, IsConfig(c), NEW d, NEW s, NEW o
    PROVE  /\ IsConfig([c EXCEPT !.chunk = d]) /\ IsConfig([c EXCEPT !.chunk = d, !.on = s])
           /\ IsConfig([c EXCEPT !.chunk = d, !.on = s, !.outs = o])
           /\ IsConfig([c EXCEPT !.on = s]) /\ [c EXCEPT !.on = s].on = s
           /\ [c EXCEPT !.on = s].chunk = c.chunk
           /\ IsConfig([c EXCEPT !.outs = o]) /\ [c EXCEPT !.outs = o].on = c.on
           /\ [c EXCEPT !.outs = o].chunk = c.chunk
<1> DEFINE f == [chunk |-> c.chunk, on |-> c.on, outs |-> c.outs]
<1>1. c = f
  BY DEF IsConfig
<1>2. [c EXCEPT !.chunk = d] = [chunk |-> d, on |-> c.on, outs |-> c.outs]
  <2>1. [f EXCEPT !.chunk = d] = [chunk |-> d, on |-> c.on, outs |-> c.outs]
    OBVIOUS
  <2>. QED  BY <1>1, <2>1
<1>3. [c EXCEPT !.chunk = d, !.on = s] = [chunk |-> d, on |-> s, outs |-> c.outs]
  <2>1. [f EXCEPT !.chunk = d, !.on = s] = [chunk |-> d, on |-> s, outs |-> c.outs]
    <3>1. [f EXCEPT !.chunk = d, !.on = s] = [[f EXCEPT !.chunk = d] EXCEPT !.on = s]
      OBVIOUS
    <3>2. [f EXCEPT !.chunk = d] = [chunk |-> d, on |-> c.on, outs |-> c.outs]
      OBVIOUS
    <3>3. [[chunk |-> d, on |-> c.on, outs |-> c.outs] EXCEPT !.on = s] = [chunk |-> d, on |-> s, outs |-> c.outs]
      OBVIOUS
    <3> HIDE DEF f
    <3>. QED  BY <3>1, <3>2, <3>3
  <2>. QED  BY <1>1, <2>1
<1>4. [c EXCEPT !.chunk = d, !.on = s, !.outs = o] = [chunk |-> d, on |-> s, outs |-> o]
  <2>1. [f EXCEPT !.chunk = d, !.on = s, !.outs = o] = [chunk |-> d, on |-> s, outs |-> o]
    <3>1. [f EXCEPT !.chunk = d, !.on = s, !.outs = o] = [[f EXCEPT !.chunk = d, !.on = s] EXCEPT !.outs = o]
      OBVIOUS
    <3>2. [f EXCEPT !.chunk = d, !.on = s] = [chunk |-> d, on |-> s, outs |-> c.outs]
      BY <1>1, <1>3
    <3>3. [[chunk |-> d, on |-> s, outs |-> c.outs] EXCEPT !.outs = o] = [chunk |-> d, on |-> s, outs |-> o]
      OBVIOUS
    <3> HIDE DEF f
    <3>. QED  BY <3>1, <3>2, <3>3
  <2>. QED  BY <1>1, <2>1
<1>5. [c EXCEPT !.on = s] = [chunk |-> c.chunk, on |-> s, outs |-> c.outs]
  <2>1. [f EXCEPT !.on = s] = [chunk |-> c.chunk, on |-> s, outs |-> c.outs]
    OBVIOUS
  <2>. QED  BY <1>1, <2>1
<1>6. [c EXCEPT !.outs = o] = [chunk |-> c.chunk, on |-> c.on, outs |-> o]
  <2>1. [f EXCEPT !.outs = o] = [chunk |-> c.chunk, on |-> c.on, outs |-> o]
    OBVIOUS
  <2>. QED  BY <1>1, <2>1
<1> HIDE DEF f
<1>7. IsConfig([c EXCEPT !.chunk = d])
  BY <1>2 DEF IsConfig
<1>8. IsConfig([c EXCEPT !.chunk = d, !.on = s])
  BY <1>3 DEF IsConfig
<1>9. IsConfig([c EXCEPT !.chunk = d, !.on = s, !.outs = o])
  BY <1>4 DEF IsConfig
<1>10. IsConfig([c EXCEPT !.on = s]) /\ [c EXCEPT !.on = s].on = s /\ [c EXCEPT !.on = s].chunk = c.chunk
  BY <1>5 DEF IsConfig
<1>11. IsConfig([c EXCEPT !.outs = o]) /\ [c EXCEPT !.outs = o].on = c.on /\ [c EXCEPT !.outs = o].chunk = c.chunk
  BY <1>6 DEF IsConfig
<1>. QED  BY <1>7, <1>8, <1>9, <1>10, <1>11

LEMMA GivenChanged ==
    ASSUME NEW p, IsGiven(p), NEW s
    PROVE  IsGiven([p EXCEPT !.on = s]) /\ [p EXCEPT !.on = s].on = s
           /\ [p EXCEPT !.on = s].chunk = p.chunk
  BY DEF IsGiven

(* What was handed over agrees, but for the parts that failed. *)
LEMMA HandedOver ==
    ASSUME NEW c, NEW p, NEW fault, Reconfigures(c, p, fault)
    PROVE  /\ IsGiven(pipe')
           /\ "chunk" \notin behind' => pipe'.chunk = c.chunk
           /\ \A m \in Modules \ behind' : m \in pipe'.on <=> m \in c.on
<1>1. PICK failed \in SUBSET Parts : pipe' = Given(c, p, failed) /\ behind' = failed
  BY DEF Reconfigures
<1>. QED  BY <1>1, ConfigShape

(* The common end of the requests that give the pipeline what they stored. *)
LEMMA ConfigStored ==
    ASSUME SettledInv, NEW c, IsConfig(c), NEW fault, NEW inv, Store(c, fault, inv)
    PROVE  SettledInv'
<1>1. CASE Saves(c, fault)
  <2>1. /\ file' = c /\ memory' = Loaded(c, fault) /\ Reconfigures(memory', pipe, fault)
        /\ unsettled' = (fault = "load")
    BY <1>1 DEF Store
  <2>2. fault # "load" => memory' = c
    BY <2>1 DEF Loaded
  <2>3. IsConfig(memory')
    BY <2>1, ConfigShape
  <2>. QED  BY <2>1, <2>2, <2>3, HandedOver DEF SettledInv, SettledAgrees
<1>2. CASE ~Saves(c, fault)
  <2>1. memory' = c /\ unsettled' = TRUE /\ behind' = behind \cup Changed(c) /\ UNCHANGED <<file, pipe>>
    BY <1>2 DEF Store
  <2>2. "chunk" \notin Changed(c) => c.chunk = memory.chunk
    BY DEF Changed
  <2>3. \A m \in Modules \ Changed(c) : m \in c.on <=> m \in memory.on
    BY DEF Changed
  <2>. QED  BY <2>1, <2>2, <2>3 DEF SettledInv, SettledAgrees
<1>. QED  BY <1>1, <1>2

LEMMA Synced ==
    ASSUME SettledInv, NEW fault, SyncOutputs(fault)
    PROVE  SettledInv'
<1> DEFINE o == [x \in DOMAIN live' |-> TRUE]
           c == [memory EXCEPT !.outs = o]
<1>1. memory' = c /\ pipe' = pipe /\ behind' = behind
  BY DEF SyncOutputs
<1>2. IsConfig(c) /\ c.on = memory.on /\ c.chunk = memory.chunk
  BY ConfigChanged DEF SettledInv
<1>3. CASE Saves(memory', fault)
  <2>1. file' = memory' /\ unsettled' = FALSE
    BY <1>3 DEF SyncOutputs
  <2> HIDE DEF c
  <2>. QED  BY <1>1, <1>2, <2>1 DEF SettledInv, SettledAgrees
<1>4. CASE ~Saves(memory', fault)
  <2>1. file' = file /\ unsettled' = TRUE
    BY <1>4 DEF SyncOutputs
  <2> HIDE DEF c
  <2>. QED  BY <1>1, <1>2, <2>1 DEF SettledInv, SettledAgrees
<1>. QED  BY <1>3, <1>4

LEMMA Toggled ==
    ASSUME SettledInv, NEW m \in Modules, NEW enable, NEW fault, ToggleModule(m, enable, fault)
    PROVE  SettledInv'
<1> DEFINE c == [memory EXCEPT !.on = IF enable THEN @ \cup {m} ELSE @ \ {m}]
           hot == [pipe EXCEPT !.on = IF enable THEN @ \cup {m} ELSE @ \ {m}]
           s == IF enable THEN memory.on \cup {m} ELSE memory.on \ {m}
           h == IF enable THEN pipe.on \cup {m} ELSE pipe.on \ {m}
<1>1. c = [memory EXCEPT !.on = s] /\ hot = [pipe EXCEPT !.on = h]
  OBVIOUS
<1>2. /\ memory' = c
      /\ IF Saves(c, fault)
           THEN /\ file' = c /\ unsettled' = FALSE
                /\ \/ pipe' = hot /\ behind' = behind \ {m}
                   \/ Reconfigures(c, hot, fault)
           ELSE pipe' = hot /\ behind' = behind \ {m} /\ unsettled' = TRUE /\ UNCHANGED file
  BY DEF ToggleModule
<1>3. /\ "chunk" # m
      /\ m \in h <=> m \in s
      /\ \A x \in Modules \ {m} : (x \in h <=> x \in pipe.on) /\ (x \in s <=> x \in memory.on)
  BY DEF Modules
<1> HIDE DEF c, hot, s, h
<1>4. IsConfig(c) /\ c.on = s /\ c.chunk = memory.chunk
  BY <1>1, ConfigChanged DEF SettledInv
<1>5. IsGiven(hot) /\ hot.on = h /\ hot.chunk = pipe.chunk
  BY <1>1, GivenChanged DEF SettledInv
<1>6. ASSUME pipe' = hot, behind' = behind \ {m}
      PROVE  /\ "chunk" \notin behind' => pipe'.chunk = c.chunk
             /\ \A x \in Modules \ behind' : x \in pipe'.on <=> x \in c.on
  <2>1. "chunk" \notin behind' => pipe'.chunk = c.chunk
    BY <1>3, <1>4, <1>5, <1>6 DEF SettledInv, SettledAgrees
  <2>2. ASSUME NEW x \in Modules \ behind' PROVE x \in h <=> x \in s
    <3>1. CASE x = m
      BY <1>3, <3>1
    <3>2. CASE x # m
      BY <1>3, <1>6, <2>2, <3>2 DEF SettledInv, SettledAgrees
    <3>. QED  BY <3>1, <3>2
  <2>. QED  BY <1>4, <1>5, <1>6, <2>1, <2>2
<1>7. CASE Saves(c, fault)
  <2>1. CASE pipe' = hot /\ behind' = behind \ {m}
    BY <1>2, <1>4, <1>5, <1>6, <1>7, <2>1 DEF SettledInv, SettledAgrees
  <2>2. CASE Reconfigures(c, hot, fault)
    BY <1>2, <1>4, <1>7, <2>2, HandedOver DEF SettledInv, SettledAgrees
  <2>. QED  BY <1>2, <1>7, <2>1, <2>2
<1>8. CASE ~Saves(c, fault)
  BY <1>2, <1>4, <1>5, <1>6, <1>8 DEF SettledInv, SettledAgrees
<1>. QED  BY <1>7, <1>8

LEMMA SettledStep == SettledInv /\ [CNext]_cvars => SettledInv'
<1> SUFFICES ASSUME SettledInv, [CNext]_cvars PROVE SettledInv'
  OBVIOUS
<1>0. IsConfig(memory) /\ \A u : IsConfig(Merged(memory, u))
  BY ConfigChanged DEF SettledInv, Merged
<1>1. CASE UNCHANGED <<memory, file, pipe, unsettled, behind>>
  BY <1>1 DEF SettledInv, SettledAgrees
<1>2. CASE GetConfig \/ CacheExpires
  BY <1>1, <1>2 DEF GetConfig, CacheExpires
<1>3. ASSUME NEW o, UpdateOutput(o) PROVE SettledInv'
  BY <1>1, <1>3 DEF UpdateOutput
<1>4. ASSUME NEW u, NEW fault, UpdateConfig(u, fault) \/ ApplyBuiltIn(u, fault) PROVE SettledInv'
  BY <1>0, <1>4, ConfigStored DEF UpdateConfig, ApplyBuiltIn
<1>5. ASSUME NEW d, NEW fault, UpdateChunk(d, fault) PROVE SettledInv'
  <2>1. IsConfig([memory EXCEPT !.chunk = d])
    BY <1>0, ConfigChanged
  <2>. QED  BY <1>5, <2>1, ConfigStored DEF UpdateChunk
<1>6. ASSUME NEW p, NEW fault, ApplyPreset(p, fault) PROVE SettledInv'
  <2> DEFINE c == [memory EXCEPT !.chunk = presets[p].chunk, !.on = presets[p].on, !.outs = presets[p].outs]
  <2>1. IsConfig(c)
    BY <1>0, ConfigChanged
  <2>2. Store(c, fault, FALSE)
    BY <1>6 DEF ApplyPreset
  <2> HIDE DEF c
  <2>. QED  BY <2>1, <2>2, ConfigStored
<1>7. ASSUME NEW p, NEW fault, SavePreset(p, fault) \/ DeletePreset(p, fault) PROVE SettledInv'
  BY <1>1, <1>7 DEF SavePreset, DeletePreset
<1>8. ASSUME NEW o, NEW fault, AddOutput(o, fault) \/ RemoveOutput(o, fault) \/ ToggleOutput(o, fault) PROVE SettledInv'
  BY <1>8, Synced DEF AddOutput, RemoveOutput, ToggleOutput
<1>9. ASSUME NEW fault, Restart(fault) PROVE SettledInv'
  <2>1. /\ memory' = Loaded(file, fault) /\ pipe' = Given(memory', pipe, {}) /\ behind' = {}
        /\ unsettled' = (fault = "load") /\ file' = file
    BY <1>9 DEF Restart
  <2>2. fault # "load" => memory' = file
    BY <2>1 DEF Loaded
  <2>. QED  BY <2>1, <2>2, ConfigShape DEF SettledInv, SettledAgrees
<1>10. CASE UNCHANGED cvars
  BY <1>1, <1>10 DEF cvars
<1>. QED  BY <1>2, <1>3, <1>4, <1>5, <1>6, <1>7, <1>8, <1>9, <1>10, Toggled DEF CNext

(* Whatever fails in the middle of a request, memory and file differ only after a failed save
   or a read that gave the defaults, and each part of the pipeline is what memory says unless
   a request that failed half-way has left this part behind. *)
THEOREM ConfigurationSettles == CSpec => []SettledAgrees
<1>1. CInit => SettledInv
  <2> SUFFICES ASSUME CInit PROVE SettledInv
    OBVIOUS
  <2>1. memory = DEFAULT_CONFIG /\ file = DEFAULT_CONFIG /\ pipe = [chunk |-> DefaultChunk, on |-> Modules]
    BY DEF CInit
  <2>2. DEFAULT_CONFIG.chunk = DefaultChunk /\ DEFAULT_CONFIG.on = Modules
    BY DEF DEFAULT_CONFIG
  <2>. QED  BY <2>1, <2>2, ConfigShape DEF SettledInv, SettledAgrees, IsGiven
<1>2. SettledInv => SettledAgrees
  BY DEF SettledInv
<1>. QED  BY <1>1, <1>2, SettledStep, PTL DEF CSpec

-----------------------------------------------------------------------------
(* The request limiter of the harness.  The window of a client is read with the current time
   as its default and written only once a window that began has ended: it never begins, so the
   counter is never reset. *)
NeverBegun ==
    /\ clock \in Nat
    /\ windowStart \in [Clients -> {NotBegun}]
    /\ asked \in [Clients -> Seq(Nat)]
    /\ counter \in [Clients -> Nat] /\ refused \in [Clients -> BOOLEAN]
    /\ \A k \in Clients : counter[k] = Len(asked[k])
    /\ \A k \in Clients : refused[k] <=> Len(asked[k]) > RateLimit

LEMMA NothingBegins == NeverBegun /\ [HLNext]_hlvars => NeverBegun'
<1> SUFFICES ASSUME NeverBegun, [HLNext]_hlvars PROVE NeverBegun'
  OBVIOUS
<1>1. CASE ClockTick
  BY <1>1 DEF ClockTick, NeverBegun
<1>2. ASSUME NEW k \in Clients, Asks(k, FALSE)
      PROVE  NeverBegun'
  BY <1>2 DEF Asks, NeverBegun
<1>3. ASSUME NEW k \in Clients, Asks(k, TRUE)
      PROVE  NeverBegun'
  <2>1. /\ clock \in Nat /\ windowStart[k] = NotBegun /\ counter[k] \in Nat /\ asked[k] \in Seq(Nat)
        /\ counter[k] = Len(asked[k]) /\ RateWindow \in Nat /\ RateLimit \in Nat
    BY HarnessLimitAssumption DEF NeverBegun
  <2>2. ~(clock > clock + RateWindow)
    BY <2>1
  <2>3. /\ counter' = [counter EXCEPT ![k] = counter[k] + 1] /\ windowStart' = windowStart
        /\ refused' = [refused EXCEPT ![k] = counter[k] + 1 > RateLimit]
        /\ asked' = [asked EXCEPT ![k] = Append(asked[k], clock)] /\ clock' = clock
    BY <1>3, <2>1, <2>2 DEF Asks, CheckRateLimit
  <2>4. Append(asked[k], clock) \in Seq(Nat) /\ Len(Append(asked[k], clock)) = counter[k] + 1
    BY <2>1, AppendProperties
  <2>5. \A j \in Clients : asked'[j] = IF j = k THEN Append(asked[k], clock) ELSE asked[j]
    BY <2>3 DEF NeverBegun
  <2>6. \A j \in Clients : counter'[j] = Len(asked'[j])
    BY <2>3, <2>4, <2>5 DEF NeverBegun
  <2>7. asked' \in [Clients -> Seq(Nat)]
    BY <2>3, <2>4 DEF NeverBegun
  <2>8. counter' \in [Clients -> Nat]
    BY <2>1, <2>3 DEF NeverBegun
  <2>9. refused' \in [Clients -> BOOLEAN]
    BY <2>1, <2>3 DEF NeverBegun
  <2>10. ASSUME NEW j \in Clients
         PROVE  refused'[j] <=> Len(asked'[j]) > RateLimit
    <3>1. CASE j = k
      <4>1. refused'[k] = (counter[k] + 1 > RateLimit)
        BY <2>3 DEF NeverBegun
      <4>2. Len(asked'[k]) = counter[k] + 1
        BY <2>4, <2>5
      <4>. QED  BY <3>1, <4>1, <4>2
    <3>2. CASE j # k
      <4>1. refused'[j] = refused[j] /\ asked'[j] = asked[j]
        BY <2>3, <2>5, <3>2 DEF NeverBegun
      <4>. QED  BY <4>1 DEF NeverBegun
    <3>. QED  BY <3>1, <3>2
  <2>. QED  BY <2>1, <2>3, <2>6, <2>7, <2>8, <2>9, <2>10 DEF NeverBegun
<1>4. CASE UNCHANGED hlvars
  BY <1>4 DEF hlvars, NeverBegun
<1>5. ASSUME NEW k \in Clients, NEW authentic \in BOOLEAN, Asks(k, authentic)
      PROVE  NeverBegun'
  BY <1>2, <1>3, <1>5
<1>. QED  BY <1>1, <1>4, <1>5 DEF HLNext

(* What the limiter does for every limit and every window: the requests of a client are
   counted from the start of the server, and once it has made RateLimit of them it is refused
   for good, however slowly it asks (_check_rate_limit, _rate_window_start).  It is the
   counterpart of RefusedOnlyTheBusy, which the code does not keep. *)
RefusedForGood ==
    \A k \in Clients : /\ counter[k] = Len(asked[k])
                       /\ refused[k] <=> Len(asked[k]) > RateLimit

(* No window of a client ever begins, so no count is ever reset: RefusedForGood holds for
   every limit, every window and every run of the clock. *)
THEOREM WindowNeverBegins == HLSpec => []RefusedForGood
<1>1. HLInit => NeverBegun
  <2> SUFFICES ASSUME HLInit PROVE NeverBegun
    OBVIOUS
  <2>1. RateLimit \in Nat
    BY HarnessLimitAssumption
  <2>2. \A k \in Clients : Len(asked[k]) = 0 /\ counter[k] = 0
    BY DEF HLInit
  <2>3. clock \in Nat /\ windowStart \in [Clients -> {NotBegun}] /\ counter \in [Clients -> Nat]
    BY DEF HLInit
  <2>4. asked \in [Clients -> Seq(Nat)] /\ refused \in [Clients -> BOOLEAN]
    BY DEF HLInit
  <2>5. \A k \in Clients : ~refused[k] /\ ~(Len(asked[k]) > RateLimit)
    <3>1. \A k \in Clients : ~refused[k]
      BY DEF HLInit
    <3>2. ~(0 > RateLimit)
      BY <2>1
    <3>3. \A k \in Clients : ~(Len(asked[k]) > RateLimit)
      BY <2>2, <3>2, Zenon
    <3>. QED  BY <3>1, <3>3
  <2>. QED  BY <2>2, <2>3, <2>4, <2>5 DEF NeverBegun
<1>2. NeverBegun => RefusedForGood
  BY DEF NeverBegun, RefusedForGood
<1>. QED  BY <1>1, <1>2, NothingBegins, PTL DEF HLSpec

-----------------------------------------------------------------------------
(* The harness: rounds and rejections. *)
TaskRecord == [status : {"none"} \cup Statuses,
               iterations : Nat, rejections : Nat, byHand : Nat, at : Nat]
DriverRecord == [pc : {"idle", "test", "testing", "open", "reopen", "create", "hook",
                       "verify", "checking", "approve", "reject", "count"},
                 cmd : {"none", "test", "cycle", "hooked", "verify"},
                 round : Nat, task : {0} \cup BuildTasks, seen : Nat]

LEMMA Grants == \A w \in TaskRecord : RoundsDue(w) \in Nat
  BY DEF TaskRecord, RoundsDue

(* The task a command works on exists; what it read of the rounds before the checks is no
   more than the rounds granted, and less by one once it has saved its own. *)
Charges(r, ts) ==
    /\ r.pc \in {"reopen", "hook", "verify", "checking", "approve", "reject", "count"}
          => r.task \in BuildTasks /\ ts[r.task].status # "none"
    /\ r.pc \in {"checking", "approve", "reject"} => r.seen <= RoundsDue(ts[r.task])
    /\ r.pc = "count" => r.seen + 1 <= RoundsDue(ts[r.task])

AgentsInv ==
    /\ tasks \in [BuildTasks -> TaskRecord]
    /\ driver \in [Drivers -> DriverRecord]
    /\ \A t \in BuildTasks : tasks[t].iterations <= RoundsDue(tasks[t])
    /\ \A d \in Drivers : Charges(driver[d], tasks)

LEMMA AgentsNat == MaxTasks \in Nat /\ MaxIterations \in Nat /\ MaxRounds \in Nat
  BY HarnessAssumption

(* A task is written: it goes on existing, and loses no rejection. *)
LEMMA TaskWritten ==
    ASSUME AgentsInv, NEW t \in BuildTasks, NEW w \in TaskRecord, tasks' = [tasks EXCEPT ![t] = w],
           w.iterations <= RoundsDue(w),
           tasks[t].status # "none" => w.status # "none" /\ RoundsDue(w) >= RoundsDue(tasks[t])
    PROVE  /\ tasks' \in [BuildTasks -> TaskRecord]
           /\ \A u \in BuildTasks : tasks'[u].iterations <= RoundsDue(tasks'[u])
           /\ \A r \in DriverRecord : Charges(r, tasks) => Charges(r, tasks')
<1>1. tasks \in [BuildTasks -> TaskRecord]
  BY DEF AgentsInv
<1>2. tasks' \in [BuildTasks -> TaskRecord] /\ \A u \in BuildTasks : tasks'[u] = IF u = t THEN w ELSE tasks[u]
  BY <1>1
<1>3. \A u \in BuildTasks : tasks'[u].iterations <= RoundsDue(tasks'[u])
  BY <1>2 DEF AgentsInv
<1>4. ASSUME NEW r \in DriverRecord, Charges(r, tasks) PROVE Charges(r, tasks')
  <2>1. r.seen \in Nat
    BY DEF DriverRecord
  <2>2. CASE r.pc \in {"reopen", "hook", "verify", "checking", "approve", "reject", "count"}
    <3> DEFINE u == r.task
    <3>1. u \in BuildTasks /\ tasks[u].status # "none"
      BY <1>4, <2>2 DEF Charges
    <3>2. tasks'[u].status # "none" /\ RoundsDue(tasks'[u]) >= RoundsDue(tasks[u])
          /\ RoundsDue(tasks'[u]) \in Nat /\ RoundsDue(tasks[u]) \in Nat
      BY <1>1, <1>2, <3>1, Grants
    <3>3. r.pc \in {"checking", "approve", "reject"} => r.seen <= RoundsDue(tasks'[u])
      BY <1>4, <2>1, <3>2 DEF Charges
    <3>4. r.pc = "count" => r.seen + 1 <= RoundsDue(tasks'[u])
      BY <1>4, <2>1, <3>2 DEF Charges
    <3>. QED  BY <3>1, <3>2, <3>3, <3>4 DEF Charges
  <2>3. CASE r.pc \notin {"reopen", "hook", "verify", "checking", "approve", "reject", "count"}
    BY <2>3 DEF Charges
  <2>. QED  BY <2>2, <2>3
<1>. QED  BY <1>2, <1>3, <1>4

(* A command moves on; the tasks have been written or not. *)
LEMMA DriverMoves ==
    ASSUME AgentsInv, NEW d \in Drivers, NEW r \in DriverRecord, driver' = [driver EXCEPT ![d] = r],
           tasks' \in [BuildTasks -> TaskRecord],
           \A u \in BuildTasks : tasks'[u].iterations <= RoundsDue(tasks'[u]),
           \A q \in DriverRecord : Charges(q, tasks) => Charges(q, tasks'),
           Charges(r, tasks')
    PROVE  AgentsInv'
<1>1. driver \in [Drivers -> DriverRecord] /\ \A e \in Drivers : Charges(driver[e], tasks)
  BY DEF AgentsInv
<1>2. driver' \in [Drivers -> DriverRecord] /\ \A e \in Drivers : driver'[e] = IF e = d THEN r ELSE driver[e]
  BY <1>1
<1>3. \A e \in Drivers : Charges(driver'[e], tasks')
  BY <1>1, <1>2
<1>. QED  BY <1>2, <1>3 DEF AgentsInv

LEMMA OnlyDriverMoves ==
    ASSUME AgentsInv, NEW d \in Drivers, NEW r \in DriverRecord, driver' = [driver EXCEPT ![d] = r],
           UNCHANGED tasks, Charges(r, tasks)
    PROVE  AgentsInv'
<1>1. /\ tasks' \in [BuildTasks -> TaskRecord]
      /\ \A u \in BuildTasks : tasks'[u].iterations <= RoundsDue(tasks'[u])
      /\ \A q \in DriverRecord : Charges(q, tasks) => Charges(q, tasks')
  BY DEF AgentsInv
<1>. QED  BY <1>1, DriverMoves

LEMMA OnlyTasksMove ==
    ASSUME AgentsInv, UNCHANGED driver,
           tasks' \in [BuildTasks -> TaskRecord],
           \A u \in BuildTasks : tasks'[u].iterations <= RoundsDue(tasks'[u]),
           \A q \in DriverRecord : Charges(q, tasks) => Charges(q, tasks')
    PROVE  AgentsInv'
  BY DEF AgentsInv

LEMMA Rests == Resting \in DriverRecord /\ \A ts : Charges(Resting, ts)
  BY DEF Resting, DriverRecord, Charges

LEMMA MadeTask ==
    ASSUME AgentsInv, NEW t \in BuildTasks \ Existing, Made(t)
    PROVE  /\ tasks' \in [BuildTasks -> TaskRecord] /\ tasks'[t].status # "none"
           /\ \A u \in BuildTasks : tasks'[u].iterations <= RoundsDue(tasks'[u])
           /\ \A q \in DriverRecord : Charges(q, tasks) => Charges(q, tasks')
<1>1. tasks \in [BuildTasks -> TaskRecord]
  BY DEF AgentsInv
<1>2. PICK s \in Seconds : tasks' = [tasks EXCEPT ![t] = [NoTask EXCEPT !.status = "pending", !.at = s]]
  BY DEF Made
<1>3. s \in Nat
  <2>1. \A u \in Existing : tasks[u].at \in Nat
    BY <1>1 DEF Existing, TaskRecord, Statuses
  <2>2. s = 1 \/ \E u \in Existing, k \in {0, 1} : s = tasks[u].at + k
    BY <1>2 DEF Seconds, Newest
  <2>. QED  BY <2>1, <2>2
<1> DEFINE w == [NoTask EXCEPT !.status = "pending", !.at = s]
<1>4. w \in TaskRecord /\ w.iterations <= RoundsDue(w) /\ w.status # "none"
  <2>1. NoTask \in TaskRecord /\ NoTask.iterations = 0 /\ RoundsDue(NoTask) = 0
    BY DEF NoTask, TaskRecord, Statuses, RoundsDue
  <2> HIDE DEF NoTask
  <2>2. w \in TaskRecord /\ w.iterations = 0 /\ RoundsDue(w) = 0 /\ w.status # "none"
    BY <1>3, <2>1 DEF TaskRecord, Statuses, RoundsDue
  <2> HIDE DEF w
  <2>. QED  BY <2>2
<1>5. tasks[t].status = "none" /\ tasks' = [tasks EXCEPT ![t] = w] /\ t \in BuildTasks
  BY <1>2 DEF Existing
<1> HIDE DEF w
<1>6. tasks'[t] = w
  BY <1>1, <1>5
<1>. QED  BY <1>4, <1>5, <1>6, TaskWritten

LEMMA FeedbackSaved ==
    ASSUME AgentsInv, NEW t \in Existing, NEW ok \in BOOLEAN, Feedback(t, ok)
    PROVE  /\ tasks' \in [BuildTasks -> TaskRecord] /\ tasks'[t].status # "none"
           /\ ~ok => RoundsDue(tasks'[t]) = RoundsDue(tasks[t]) + 1
           /\ \A u \in BuildTasks : tasks'[u].iterations <= RoundsDue(tasks'[u])
           /\ \A q \in DriverRecord : Charges(q, tasks) => Charges(q, tasks')
<1>1. tasks \in [BuildTasks -> TaskRecord] /\ t \in BuildTasks /\ tasks[t] \in TaskRecord
      /\ tasks[t].iterations <= RoundsDue(tasks[t])
  BY DEF AgentsInv, Existing
<1>2. CASE ok
  <2> DEFINE w == [tasks[t] EXCEPT !.status = "completed"]
  <2>1. tasks' = [tasks EXCEPT ![t] = w]
    BY <1>1, <1>2 DEF Feedback
  <2>2. w \in TaskRecord /\ w.iterations <= RoundsDue(w) /\ w.status # "none" /\ RoundsDue(w) >= RoundsDue(tasks[t])
    BY <1>1, Grants DEF TaskRecord, Statuses, RoundsDue
  <2> HIDE DEF w
  <2>3. tasks'[t] = w
    BY <1>1, <2>1
  <2>. QED  BY <1>1, <1>2, <2>1, <2>2, <2>3, TaskWritten
<1>3. CASE ~ok
  <2> DEFINE w == [tasks[t] EXCEPT !.status = "feedback_received", !.rejections = tasks[t].rejections + 1]
  <2>1. tasks' = [tasks EXCEPT ![t] = w]
    BY <1>1, <1>3 DEF Feedback
  <2>2. w \in TaskRecord /\ w.iterations <= RoundsDue(w) /\ w.status # "none" /\ RoundsDue(w) >= RoundsDue(tasks[t])
        /\ RoundsDue(w) = RoundsDue(tasks[t]) + 1
    <3>1. tasks[t].rejections \in Nat /\ tasks[t].iterations \in Nat /\ tasks[t].rejections + 1 \in Nat /\ RoundsDue(tasks[t]) \in Nat
      BY <1>1, Grants DEF TaskRecord, Statuses
    <3>2. /\ w \in TaskRecord /\ w.status # "none" /\ w.iterations = tasks[t].iterations
          /\ w.rejections = tasks[t].rejections + 1 /\ w.byHand = tasks[t].byHand
      BY <1>1, <3>1 DEF TaskRecord, Statuses
    <3>3. tasks[t].byHand \in Nat
      BY <1>1 DEF TaskRecord
    <3>4. RoundsDue(w) = RoundsDue(tasks[t]) + 1
      <4> HIDE DEF w
      <4>. QED  BY <3>1, <3>2, <3>3 DEF RoundsDue
    <3> HIDE DEF w
    <3>. QED  BY <1>1, <3>1, <3>2, <3>4
  <2> HIDE DEF w
  <2>3. tasks'[t] = w
    BY <1>1, <2>1
  <2>. QED  BY <1>1, <2>1, <2>2, <2>3, TaskWritten
<1>. QED  BY <1>2, <1>3

LEMMA StatusSet ==
    ASSUME AgentsInv, NEW t \in BuildTasks, NEW s \in Statuses, Status(t, s)
    PROVE  /\ tasks' \in [BuildTasks -> TaskRecord] /\ tasks'[t].status # "none"
           /\ \A u \in BuildTasks : tasks'[u].iterations <= RoundsDue(tasks'[u])
           /\ \A q \in DriverRecord : Charges(q, tasks) => Charges(q, tasks')
<1>1. tasks \in [BuildTasks -> TaskRecord] /\ tasks[t] \in TaskRecord
      /\ tasks[t].iterations <= RoundsDue(tasks[t])
  BY DEF AgentsInv
<1> DEFINE w == [tasks[t] EXCEPT !.status = s]
<1>2. tasks' = [tasks EXCEPT ![t] = w]
  BY <1>1 DEF Status
<1>3. w \in TaskRecord /\ w.iterations <= RoundsDue(w) /\ w.status # "none" /\ RoundsDue(w) >= RoundsDue(tasks[t])
  BY <1>1, Grants DEF TaskRecord, Statuses, RoundsDue
<1> HIDE DEF w
<1>4. tasks'[t] = w
  BY <1>1, <1>2
<1>. QED  BY <1>2, <1>3, <1>4, TaskWritten

LEMMA HandSet ==
    ASSUME AgentsInv, NEW t \in BuildTasks, NEW s \in Statuses, NEW n \in Nat, SetByHand(t, s, n)
    PROVE  /\ tasks' \in [BuildTasks -> TaskRecord]
           /\ \A u \in BuildTasks : tasks'[u].iterations <= RoundsDue(tasks'[u])
           /\ \A q \in DriverRecord : Charges(q, tasks) => Charges(q, tasks')
<1>1. tasks \in [BuildTasks -> TaskRecord] /\ tasks[t] \in TaskRecord
  BY DEF AgentsInv
<1> DEFINE m == IF n > tasks[t].byHand THEN n ELSE tasks[t].byHand
           w == [tasks[t] EXCEPT !.status = s, !.iterations = n, !.byHand = m]
<1>2. tasks' = [tasks EXCEPT ![t] = w]
  BY <1>1 DEF SetByHand
<1>3. m \in Nat /\ n <= m /\ tasks[t].byHand <= m /\ tasks[t].byHand \in Nat
  BY <1>1 DEF TaskRecord
<1> HIDE DEF m
<1>4. /\ w \in TaskRecord /\ w.iterations = n /\ w.status = s
      /\ w.byHand = m /\ w.rejections = tasks[t].rejections /\ tasks[t].rejections \in Nat
  BY <1>1, <1>3 DEF TaskRecord
<1> HIDE DEF w
<1>5. w.iterations <= RoundsDue(w) /\ RoundsDue(w) >= RoundsDue(tasks[t]) /\ w.status # "none"
  BY <1>3, <1>4 DEF RoundsDue, Statuses
<1>. QED  BY <1>2, <1>4, <1>5, TaskWritten

LEMMA AgentsInit == AInit => AgentsInv
<1>1. NoTask \in TaskRecord /\ NoTask.iterations <= RoundsDue(NoTask)
  BY DEF NoTask, TaskRecord, Statuses, RoundsDue
<1>. QED  BY <1>1, Rests DEF AInit, AgentsInv

LEMMA AgentsStep == AgentsInv /\ [ANext]_avars => AgentsInv'
<1> SUFFICES ASSUME AgentsInv, [ANext]_avars PROVE AgentsInv'
  OBVIOUS
<1>0. /\ tasks \in [BuildTasks -> TaskRecord] /\ driver \in [Drivers -> DriverRecord]
      /\ \A t \in BuildTasks : tasks[t] \in TaskRecord
      /\ \A d \in Drivers : driver[d] \in DriverRecord /\ Charges(driver[d], tasks)
  BY DEF AgentsInv
<1>a. ASSUME NEW d \in Drivers, Exit(d), UNCHANGED tasks PROVE AgentsInv'
  BY <1>a, Rests, OnlyDriverMoves DEF Exit
<1>b. ASSUME NEW d \in Drivers, NEW pc \in {"testing", "open", "create", "verify", "approve", "reject"}, Goto(d, pc),
             UNCHANGED tasks, Charges([driver[d] EXCEPT !.pc = pc], tasks)
      PROVE  AgentsInv'
  <2> DEFINE r == [driver[d] EXCEPT !.pc = pc]
  <2>1. driver' = [driver EXCEPT ![d] = r]
    BY <1>0, <1>b DEF Goto
  <2>2. r \in DriverRecord
    BY <1>0 DEF DriverRecord
  <2>. QED  BY <1>b, <2>1, <2>2, OnlyDriverMoves
<1>1. ASSUME NEW d \in Drivers, Command(d) PROVE AgentsInv'
  <2>1. UNCHANGED tasks
    BY <1>1 DEF Command
  <2>2. ASSUME NEW c \in {"test", "cycle", "hooked"}, driver' = [driver EXCEPT ![d].pc = "test", ![d].cmd = c]
        PROVE  AgentsInv'
    <3> DEFINE r == [driver[d] EXCEPT !.pc = "test", !.cmd = c]
    <3>1. driver' = [driver EXCEPT ![d] = r]
      BY <1>0, <2>2
    <3>2. r \in DriverRecord /\ Charges(r, tasks)
      BY <1>0 DEF DriverRecord, Charges
    <3>. QED  BY <2>1, <3>1, <3>2, OnlyDriverMoves
  <2>3. ASSUME NEW t \in Existing,
               driver' = [driver EXCEPT ![d].pc = "verify", ![d].cmd = "verify", ![d].task = t]
        PROVE  AgentsInv'
    <3> DEFINE r == [driver[d] EXCEPT !.pc = "verify", !.cmd = "verify", !.task = t]
    <3>1. driver' = [driver EXCEPT ![d] = r]
      BY <1>0, <2>3
    <3>2. t \in BuildTasks /\ tasks[t].status # "none"
      BY DEF Existing
    <3>3. r \in DriverRecord /\ r.pc = "verify" /\ r.task = t
      BY <1>0, <3>2 DEF DriverRecord
    <3> HIDE DEF r
    <3>4. Charges(r, tasks)
      BY <3>2, <3>3 DEF Charges
    <3>. QED  BY <2>1, <3>1, <3>3, <3>4, OnlyDriverMoves
  <2>. QED  BY <1>1, <2>2, <2>3 DEF Command
<1>c. ASSUME NEW d \in Drivers, NEW pc \in {"testing", "open", "create"}
      PROVE  Charges([driver[d] EXCEPT !.pc = pc], tasks)
  BY <1>0 DEF Charges, DriverRecord
<1>2. ASSUME NEW d \in Drivers, RunTester(d) \/ TesterEnds(d) PROVE AgentsInv'
  <2>1. UNCHANGED tasks /\ (Exit(d) \/ Goto(d, "testing") \/ Goto(d, "open"))
    BY <1>2 DEF RunTester, TesterEnds
  <2>. QED  BY <1>a, <1>b, <1>c, <2>1
<1>3. ASSUME NEW d \in Drivers, FindTask(d) PROVE AgentsInv'
  <2>1. UNCHANGED tasks
    BY <1>3 DEF FindTask
  <2>2. CASE Goto(d, "create")
    BY <1>b, <1>c, <2>1, <2>2
  <2>3. ASSUME NEW t \in Newest, driver' = [driver EXCEPT ![d].pc = "reopen", ![d].task = t]
        PROVE  AgentsInv'
    <3> DEFINE r == [driver[d] EXCEPT !.pc = "reopen", !.task = t]
    <3>1. driver' = [driver EXCEPT ![d] = r]
      BY <1>0, <2>3
    <3>2. t \in BuildTasks /\ tasks[t].status # "none"
      BY DEF Newest, Existing
    <3>3. r \in DriverRecord /\ r.pc = "reopen" /\ r.task = t
      BY <1>0, <3>2 DEF DriverRecord
    <3> HIDE DEF r
    <3>4. Charges(r, tasks)
      BY <3>2, <3>3 DEF Charges
    <3>. QED  BY <2>1, <3>1, <3>3, <3>4, OnlyDriverMoves
  <2>. QED  BY <1>3, <2>2, <2>3 DEF FindTask
<1>4. ASSUME NEW d \in Drivers, NEW t \in BuildTasks, Handed(d, t),
             tasks' \in [BuildTasks -> TaskRecord], tasks'[t].status # "none",
             \A u \in BuildTasks : tasks'[u].iterations <= RoundsDue(tasks'[u]),
             \A q \in DriverRecord : Charges(q, tasks) => Charges(q, tasks')
      PROVE  AgentsInv'
  <2>1. CASE Exit(d)
    BY <1>4, <2>1, Rests, DriverMoves DEF Exit
  <2>2. CASE driver' = [driver EXCEPT ![d].pc = "hook", ![d].task = t]
    <3> DEFINE r == [driver[d] EXCEPT !.pc = "hook", !.task = t]
    <3>1. driver' = [driver EXCEPT ![d] = r]
      BY <1>0, <2>2
    <3>2. r \in DriverRecord /\ r.pc = "hook" /\ r.task = t
      BY <1>0 DEF DriverRecord
    <3> HIDE DEF r
    <3>3. Charges(r, tasks')
      BY <1>4, <3>2 DEF Charges
    <3>. QED  BY <1>4, <3>1, <3>2, <3>3, DriverMoves
  <2>. QED  BY <1>4, <2>1, <2>2 DEF Handed
<1>5. ASSUME NEW d \in Drivers, Reopen(d) PROVE AgentsInv'
  <2>1. Status(driver[d].task, "pending") /\ Handed(d, driver[d].task)
        /\ driver[d].task \in BuildTasks
    BY <1>0, <1>5 DEF Reopen, DriverAt, Charges
  <2>2. "pending" \in Statuses
    BY DEF Statuses
  <2>. QED  BY <1>4, <2>1, <2>2, StatusSet
<1>6. ASSUME NEW d \in Drivers, Create(d) PROVE AgentsInv'
  <2>1. PICK t \in BuildTasks \ Existing : Made(t) /\ Handed(d, t)
    BY <1>6 DEF Create
  <2>. QED  BY <1>4, <2>1, MadeTask
<1>7. ASSUME NEW d \in Drivers, HookEnds(d) PROVE AgentsInv'
  <2>1. UNCHANGED tasks /\ (Exit(d) \/ Goto(d, "verify")) /\ driver[d].pc = "hook"
    BY <1>7 DEF HookEnds, DriverAt
  <2>2. Charges([driver[d] EXCEPT !.pc = "verify"], tasks)
    BY <1>0, <2>1 DEF Charges, DriverRecord
  <2>. QED  BY <1>a, <1>b, <2>1, <2>2
<1>8. ASSUME NEW d \in Drivers, RunVerifier(d) PROVE AgentsInv'
  <2> DEFINE t == driver[d].task
             r == [driver[d] EXCEPT !.pc = "checking", !.seen = tasks[t].iterations]
  <2>1. UNCHANGED tasks /\ (Exit(d) \/ driver' = [driver EXCEPT ![d].pc = "checking", ![d].seen = tasks[t].iterations])
        /\ driver[d].pc = "verify"
    BY <1>8 DEF RunVerifier, DriverAt
  <2>2. CASE driver' = [driver EXCEPT ![d].pc = "checking", ![d].seen = tasks[t].iterations]
    <3>1. driver' = [driver EXCEPT ![d] = r]
      BY <1>0, <2>2
    <3>2. t \in BuildTasks /\ tasks[t].status # "none" /\ tasks[t].iterations <= RoundsDue(tasks[t])
          /\ tasks[t].iterations \in Nat
      BY <1>0, <2>1 DEF Charges, AgentsInv, TaskRecord, Statuses
    <3>3. r \in DriverRecord /\ r.pc = "checking" /\ r.task = t /\ r.seen = tasks[t].iterations
      BY <1>0, <3>2 DEF DriverRecord
    <3> HIDE DEF r, t
    <3>4. Charges(r, tasks)
      BY <3>2, <3>3 DEF Charges
    <3>. QED  BY <2>1, <3>1, <3>3, <3>4, OnlyDriverMoves
  <2>. QED  BY <1>a, <2>1, <2>2
<1>9. ASSUME NEW d \in Drivers, ChecksEnd(d) PROVE AgentsInv'
  <2>1. UNCHANGED tasks /\ (Exit(d) \/ Goto(d, "approve") \/ Goto(d, "reject")) /\ driver[d].pc = "checking"
    BY <1>9 DEF ChecksEnd, DriverAt
  <2>2. \A pc \in {"approve", "reject"} : Charges([driver[d] EXCEPT !.pc = pc], tasks)
    BY <1>0, <2>1 DEF Charges, DriverRecord
  <2>. QED  BY <1>a, <1>b, <2>1, <2>2
<1>10. ASSUME NEW d \in Drivers, Approve(d) PROVE AgentsInv'
  <2>1. Feedback(driver[d].task, TRUE) /\ Exit(d) /\ driver[d].task \in Existing
    BY <1>0, <1>10 DEF Approve, DriverAt, Charges, Existing
  <2>. QED  BY <2>1, FeedbackSaved, Rests, DriverMoves DEF Exit
<1>11. ASSUME NEW d \in Drivers, Reject(d) PROVE AgentsInv'
  <2> DEFINE t == driver[d].task
             r == [driver[d] EXCEPT !.pc = "count"]
  <2>1. Feedback(t, FALSE) /\ t \in Existing /\ driver[d].pc = "reject"
        /\ driver' = [driver EXCEPT ![d] = r]
    BY <1>0, <1>11 DEF Reject, DriverAt, Charges, Existing, Goto
  <2>2. r \in DriverRecord /\ r.pc = "count" /\ r.task = t /\ r.seen = driver[d].seen /\ r.seen \in Nat
    BY <1>0 DEF DriverRecord
  <2>3. driver[d].seen <= RoundsDue(tasks[t]) /\ RoundsDue(tasks[t]) \in Nat /\ t \in BuildTasks
    BY <1>0, <2>1, Grants DEF Charges, Existing, TaskRecord, Statuses
  <2> HIDE DEF r, t
  <2>4. /\ tasks' \in [BuildTasks -> TaskRecord] /\ tasks'[t].status # "none"
        /\ RoundsDue(tasks'[t]) = RoundsDue(tasks[t]) + 1
        /\ \A u \in BuildTasks : tasks'[u].iterations <= RoundsDue(tasks'[u])
        /\ \A q \in DriverRecord : Charges(q, tasks) => Charges(q, tasks')
    BY <2>1, FeedbackSaved
  <2>5. r.seen + 1 <= RoundsDue(tasks'[t])
    BY <2>2, <2>3, <2>4
  <2>6. Charges(r, tasks')
    BY <2>2, <2>3, <2>4, <2>5 DEF Charges
  <2>. QED  BY <2>1, <2>2, <2>4, <2>6, DriverMoves
<1>12. ASSUME NEW d \in Drivers, Count(d) PROVE AgentsInv'
  <2> DEFINE t == driver[d].task
             n == driver[d].seen + 1
             w == [tasks[t] EXCEPT !.iterations = n,
                                   !.status = IF n >= MaxIterations THEN "failed" ELSE "feedback_received"]
             r == [driver[d] EXCEPT !.pc = "test", !.round = driver[d].round + 1]
  <2>1. t \in BuildTasks /\ n \in Nat /\ n <= RoundsDue(tasks[t]) /\ tasks[t] \in TaskRecord
        /\ RoundsDue(tasks[t]) \in Nat
    BY <1>0, <1>12, Grants DEF Count, DriverAt, Charges, DriverRecord, TaskRecord, Statuses
  <2>2. tasks' = [tasks EXCEPT ![t] = w]
    BY <1>0, <1>12, <2>1 DEF Count
  <2>3. w \in TaskRecord /\ w.iterations <= RoundsDue(w) /\ w.status # "none" /\ RoundsDue(w) >= RoundsDue(tasks[t])
    <3> HIDE DEF n, t
    <3>1. w \in TaskRecord /\ w.status # "none" /\ RoundsDue(w) = RoundsDue(tasks[t]) /\ w.iterations = n
      BY <2>1 DEF TaskRecord, Statuses, RoundsDue
    <3> HIDE DEF w
    <3>. QED  BY <2>1, <3>1
  <2>4. driver' = [driver EXCEPT ![d] = Resting] \/ driver' = [driver EXCEPT ![d] = r]
    BY <1>0, <1>12 DEF Count, Exit
  <2>5. r \in DriverRecord /\ r.pc = "test"
    <3>1. driver[d] \in DriverRecord /\ driver[d].round + 1 \in Nat
      BY <1>0 DEF DriverRecord
    <3>. QED  BY <3>1 DEF DriverRecord
  <2> HIDE DEF w, r, t, n
  <2>6. /\ tasks' \in [BuildTasks -> TaskRecord]
        /\ \A u \in BuildTasks : tasks'[u].iterations <= RoundsDue(tasks'[u])
        /\ \A q \in DriverRecord : Charges(q, tasks) => Charges(q, tasks')
    BY <2>1, <2>2, <2>3, TaskWritten
  <2>7. Charges(r, tasks')
    BY <2>5 DEF Charges
  <2>. QED  BY <2>2, <2>4, <2>5, <2>6, <2>7, Rests, DriverMoves
<1>13. ASSUME NEW d \in Drivers, Killed(d) PROVE AgentsInv'
  BY <1>13, <1>a DEF Killed
<1>14. CASE Complete
  <2>1. "completed" \in Statuses
    BY DEF Statuses
  <2>. QED  BY <1>14, <2>1, StatusSet, OnlyTasksMove DEF Complete, Existing
<1>15. CASE TaskUpdate
  <2>1. \A n \in 0..MaxIterations : n \in Nat
    BY AgentsNat
  <2>. QED  BY <1>15, <2>1, StatusSet, HandSet, OnlyTasksMove DEF TaskUpdate, Existing
<1>16. CASE TaskCreate
  BY <1>16, MadeTask, OnlyTasksMove DEF TaskCreate
<1>17. CASE GiveFeedback
  BY <1>17, FeedbackSaved, OnlyTasksMove DEF GiveFeedback
<1>18. CASE AgentInit \/ DeleteFeature \/ UNCHANGED avars
  BY <1>18 DEF AgentInit, DeleteFeature, avars, AgentsInv
<1>. QED  BY <1>1, <1>2, <1>3, <1>5, <1>6, <1>7, <1>8, <1>9, <1>10, <1>11, <1>12, <1>13,
             <1>14, <1>15, <1>16, <1>17, <1>18 DEF ANext

(* However the verifications of a task overlap and wherever a command is killed, the task
   is charged with no more rounds than rejections were recorded against it, counted on from
   what was set by hand. *)
THEOREM NoRoundWithoutRejection == ASpec => []RoundsAreRejections
<1>1. AgentsInv => RoundsAreRejections
  BY DEF AgentsInv, RoundsAreRejections
<1>. QED  BY <1>1, AgentsInit, AgentsStep, PTL DEF ASpec

(* The counts of the harness.  A row that is pending was opened by a command that is still in
   its phase, or by one that has left it without a result; and as many commands were given as
   are under way elsewhere or have left such a row behind. *)
AgentPcs == {"idle", "test", "testing", "open", "reopen", "create", "hook",
             "verify", "checking", "approve", "reject", "count"}
PhasePc(p) == IF p = "tester" THEN "testing" ELSE "checking"
DriversIn(pcs) == {d \in Drivers : driver[d].pc \in pcs}
InPhase(p)   == DriversIn({PhasePc(p)})
Elsewhere(p) == DriversIn(AgentPcs \ {"idle", PhasePc(p)})

RowsCounted(p) ==
    /\ IsFiniteSet(InPhase(p)) /\ IsFiniteSet(Elsewhere(p))
    /\ Cardinality(InPhase(p)) <= pending[p]
    /\ pending[p] + Cardinality(Elsewhere(p)) <= MaxCommands - commands

AgentCounts ==
    /\ feature \in BOOLEAN
    /\ agents \in [Phases \cup {"builder"} -> {"idle", "working"}]
    /\ current \in {0} \cup BuildTasks
    /\ pending \in [Phases -> Nat]
    /\ commands \in 0..MaxCommands
    /\ \A d \in Drivers : driver[d].round \in 1..MaxRounds
    /\ \A t \in BuildTasks : tasks[t].at <= Cardinality(Existing)
    /\ \A p \in Phases : RowsCounted(p)

One(c) == IF c THEN 1 ELSE 0

(* A command that goes from one point to another leaves one set of commands and joins another. *)
LEMMA DriverCounted ==
    ASSUME NEW pcs, NEW d \in Drivers, NEW r, driver \in [Drivers -> DriverRecord],
           driver' = [driver EXCEPT ![d] = r], IsFiniteSet(DriversIn(pcs))
    PROVE  /\ IsFiniteSet(DriversIn(pcs)')
           /\ Cardinality(DriversIn(pcs)) \in Nat /\ Cardinality(DriversIn(pcs)') \in Nat
           /\ Cardinality(DriversIn(pcs)') + One(driver[d].pc \in pcs)
                = Cardinality(DriversIn(pcs)) + One(r.pc \in pcs)
           /\ driver[d].pc \in pcs => Cardinality(DriversIn(pcs)) >= 1
<1> DEFINE S == DriversIn(pcs)
           T == {e \in Drivers : driver'[e].pc \in pcs}
           R == S \ {d}
<1>1. DriversIn(pcs)' = T
  BY DEF DriversIn
<1>2. \A e \in Drivers : driver'[e] = IF e = d THEN r ELSE driver[e]
  OBVIOUS
<1>3. T = IF r.pc \in pcs THEN R \cup {d} ELSE R
  <2>1. \A e \in Drivers : e \in T <=> (IF e = d THEN r.pc \in pcs ELSE e \in S)
    BY <1>2 DEF DriversIn
  <2>. QED  BY <2>1 DEF DriversIn
<1>4. d \in S <=> driver[d].pc \in pcs
  BY DEF DriversIn
<1>5. IsFiniteSet(R) /\ Cardinality(R) = IF d \in S THEN Cardinality(S) - 1 ELSE Cardinality(S)
  BY FS_RemoveElement
<1>6. Cardinality(S) \in Nat /\ Cardinality(R) \in Nat
  BY <1>5, FS_CardinalityType
<1>7. IsFiniteSet(R \cup {d}) /\ Cardinality(R \cup {d}) = Cardinality(R) + 1
  BY <1>5, FS_AddElement
<1> HIDE DEF S, T, R
<1>8. IsFiniteSet(T) /\ Cardinality(T) = Cardinality(R) + One(r.pc \in pcs)
  BY <1>3, <1>5, <1>6, <1>7 DEF One
<1>9. Cardinality(S) = Cardinality(R) + One(d \in S)
  BY <1>5, <1>6 DEF One
<1>10. One(d \in S) = One(driver[d].pc \in pcs) /\ (d \in S => One(d \in S) = 1)
       /\ One(d \in S) \in Nat /\ One(r.pc \in pcs) \in Nat
  BY <1>4 DEF One
<1>. QED  BY <1>1, <1>4, <1>6, <1>8, <1>9, <1>10 DEF S

(* What a step owes each phase: a command that enters it opens a row, one that enters anything
   else was counted before, or is now. *)
LEMMA RowsKept ==
    ASSUME NEW p \in Phases, RowsCounted(p), NEW d \in Drivers, NEW r \in DriverRecord,
           driver \in [Drivers -> DriverRecord], driver' = [driver EXCEPT ![d] = r],
           pending[p] \in Nat, commands \in Int, commands' \in Int, MaxCommands \in Nat,
           NEW n \in Int, pending'[p] = pending[p] + n,
           n + One(driver[d].pc = PhasePc(p)) >= One(r.pc = PhasePc(p)),
           n + One(r.pc \notin {"idle", PhasePc(p)})
             <= One(driver[d].pc \notin {"idle", PhasePc(p)}) + (commands - commands')
    PROVE  RowsCounted(p)' /\ pending'[p] \in Nat
<1> DEFINE x == PhasePc(p)
           a == driver[d].pc
           b == r.pc
<1>1. a \in AgentPcs /\ b \in AgentPcs
  BY DEF DriverRecord, AgentPcs
<1>2. /\ IsFiniteSet(InPhase(p)') /\ Cardinality(InPhase(p)) \in Nat /\ Cardinality(InPhase(p)') \in Nat
      /\ Cardinality(InPhase(p)') + One(a \in {x}) = Cardinality(InPhase(p)) + One(b \in {x})
  <2>1. IsFiniteSet(DriversIn({x}))
    BY DEF RowsCounted, InPhase
  <2> HIDE DEF x, a, b
  <2>2. /\ IsFiniteSet(DriversIn({x})') /\ Cardinality(DriversIn({x})) \in Nat
        /\ Cardinality(DriversIn({x})') \in Nat
        /\ Cardinality(DriversIn({x})') + One(a \in {x}) = Cardinality(DriversIn({x})) + One(b \in {x})
    BY <2>1, DriverCounted DEF a, b
  <2>. QED  BY <2>2 DEF InPhase, x
<1>3. /\ IsFiniteSet(Elsewhere(p)') /\ Cardinality(Elsewhere(p)) \in Nat /\ Cardinality(Elsewhere(p)') \in Nat
      /\ Cardinality(Elsewhere(p)') + One(a \in AgentPcs \ {"idle", x})
           = Cardinality(Elsewhere(p)) + One(b \in AgentPcs \ {"idle", x})
  <2> DEFINE E == AgentPcs \ {"idle", x}
  <2>1. IsFiniteSet(DriversIn(E))
    BY DEF RowsCounted, Elsewhere
  <2> HIDE DEF x, a, b, E
  <2>2. /\ IsFiniteSet(DriversIn(E)') /\ Cardinality(DriversIn(E)) \in Nat
        /\ Cardinality(DriversIn(E)') \in Nat
        /\ Cardinality(DriversIn(E)') + One(a \in E) = Cardinality(DriversIn(E)) + One(b \in E)
    BY <2>1, DriverCounted DEF a, b
  <2>. QED  BY <2>2 DEF Elsewhere, x, E
<1>4. /\ One(a \in {x}) = One(a = x) /\ One(b \in {x}) = One(b = x)
      /\ One(a \in AgentPcs \ {"idle", x}) = One(a \notin {"idle", x})
      /\ One(b \in AgentPcs \ {"idle", x}) = One(b \notin {"idle", x})
  BY <1>1 DEF One
<1>5. /\ n + One(a = x) >= One(b = x)
      /\ n + One(b \notin {"idle", x}) <= One(a \notin {"idle", x}) + (commands - commands')
  OBVIOUS
<1>6. /\ One(a = x) \in Nat /\ One(b = x) \in Nat
      /\ One(a \notin {"idle", x}) \in Nat /\ One(b \notin {"idle", x}) \in Nat
  BY DEF One
<1>7. /\ Cardinality(InPhase(p)) <= pending[p]
      /\ pending[p] + Cardinality(Elsewhere(p)) <= MaxCommands - commands
  BY DEF RowsCounted
<1> HIDE DEF x, a, b
<1>8. /\ Cardinality(InPhase(p)') <= pending'[p]
      /\ pending'[p] + Cardinality(Elsewhere(p)') <= MaxCommands - commands'
      /\ pending'[p] \in Nat
  BY <1>2, <1>3, <1>4, <1>5, <1>6, <1>7
<1>. QED  BY <1>2, <1>3, <1>8 DEF RowsCounted, InPhase, Elsewhere, DriversIn

(* The rows of both phases after a command moves: it opens a row as it enters a phase, closes
   it or leaves it as it ends one, and otherwise the rows are as they were. *)
Paid == commands' = commands - 1 /\ commands > 0
RowsMove(a, b) ==
    \/ pending' = pending /\ a # "idle" /\ b = "idle" /\ (commands' = commands \/ Paid)
    \/ pending' = pending /\ a \notin {"idle", "testing", "checking"}
         /\ b \notin {"testing", "checking"} /\ commands' = commands
    \/ pending' = pending /\ a = "idle" /\ b \notin {"testing", "checking"} /\ Paid
    \/ \E p \in Phases :
          /\ commands' = commands
          /\ \/ Row(p, pending[p] + 1) /\ a \notin {"idle", "testing", "checking"} /\ b = PhasePc(p)
             \/ Row(p, pending[p] - 1) /\ a = PhasePc(p) /\ b \notin {"testing", "checking"}

LEMMA RowsAfterMove ==
    ASSUME AgentsInv, AgentCounts, NEW d \in Drivers, NEW r \in DriverRecord,
           driver' = [driver EXCEPT ![d] = r], RowsMove(driver[d].pc, r.pc)
    PROVE  /\ pending' \in [Phases -> Nat] /\ commands' \in 0..MaxCommands
           /\ \A p \in Phases : RowsCounted(p)'
<1>1. /\ pending \in [Phases -> Nat] /\ commands \in 0..MaxCommands /\ MaxCommands \in Nat
      /\ driver \in [Drivers -> DriverRecord] /\ driver[d] \in DriverRecord
      /\ \A p \in Phases : RowsCounted(p)
  BY HarnessAssumption DEF AgentCounts, AgentsInv
<1> DEFINE a == driver[d].pc
           b == r.pc
<1>2. commands' \in 0..MaxCommands /\ (commands' = commands \/ Paid)
  BY <1>1 DEF RowsMove, Paid
<1>3. pending' \in [Phases -> Int]
  BY <1>1 DEF RowsMove, Row
<1>4. ASSUME NEW q \in Phases
      PROVE  RowsCounted(q)' /\ pending'[q] \in Nat
  <2> DEFINE n == pending'[q] - pending[q]
             x == PhasePc(q)
  <2>1. n \in Int /\ pending'[q] = pending[q] + n /\ pending[q] \in Nat
    BY <1>1, <1>3
  <2>2. x \in {"testing", "checking"} /\ \A p \in Phases : PhasePc(p) = x <=> p = q
    BY DEF Phases, PhasePc
  <2>3. /\ n + One(a = x) >= One(b = x)
        /\ n + One(b \notin {"idle", x}) <= One(a \notin {"idle", x}) + (commands - commands')
    <3>1. CASE pending' = pending
      <4>1. n = 0
        BY <2>1, <3>1
      <4>2. CASE a # "idle" /\ b = "idle" /\ (commands' = commands \/ Paid)
        <5>1. One(b = x) = 0 /\ One(b \notin {"idle", x}) = 0 /\ One(a = x) \in Nat
              /\ One(a \notin {"idle", x}) \in Nat
          BY <2>2, <4>2 DEF One
        <5>2. commands - commands' \in {0, 1}
          <6>1. commands \in Int /\ commands' \in Int
            BY <1>1, <1>2
          <6>2. CASE commands' = commands
            BY <6>1, <6>2
          <6>3. CASE commands' = commands - 1
            BY <6>1, <6>3
          <6>. QED  BY <1>2, <6>2, <6>3 DEF Paid
        <5> HIDE DEF n, x, a, b
        <5>. QED  BY <4>1, <5>1, <5>2
      <4>3. CASE a \notin {"idle", "testing", "checking"} /\ b \notin {"testing", "checking"} /\ commands' = commands
        <5>1. One(b = x) = 0 /\ One(a = x) = 0 /\ One(b \notin {"idle", x}) \in {0, 1}
              /\ One(a \notin {"idle", x}) = 1
          BY <2>2, <4>3 DEF One
        <5>2. commands - commands' = 0
          BY <1>1, <4>3
        <5> HIDE DEF n, x, a, b
        <5>. QED  BY <4>1, <5>1, <5>2
      <4>4. CASE a = "idle" /\ b \notin {"testing", "checking"} /\ Paid
        <5>1. One(b = x) = 0 /\ One(a = x) = 0 /\ One(b \notin {"idle", x}) \in {0, 1}
              /\ One(a \notin {"idle", x}) = 0
          BY <2>2, <4>4 DEF One
        <5>2. commands - commands' = 1
          BY <1>1, <4>4 DEF Paid
        <5> HIDE DEF n, x, a, b
        <5>. QED  BY <4>1, <5>1, <5>2
      <4>5. \A p \in Phases : ~Row(p, pending[p] + 1) /\ ~Row(p, pending[p] - 1)
        <5>1. \A p \in Phases : pending'[p] = pending[p] /\ pending[p] \in Nat
          BY <1>1, <3>1
        <5>. QED  BY <1>1, <5>1 DEF Row
      <4>. QED  BY <4>2, <4>3, <4>4, <4>5 DEF RowsMove
    <3>2. ASSUME NEW p \in Phases, commands' = commands, Row(p, pending[p] + 1),
                 a \notin {"idle", "testing", "checking"}, b = PhasePc(p)
          PROVE  /\ n + One(a = x) >= One(b = x)
                 /\ n + One(b \notin {"idle", x}) <= One(a \notin {"idle", x}) + (commands - commands')
      <4>1. n = IF p = q THEN 1 ELSE 0
        BY <1>1, <3>2, <2>1 DEF Row
      <4>2. One(a = x) = 0 /\ One(a \notin {"idle", x}) = 1 /\ commands - commands' = 0
        BY <1>1, <2>2, <3>2 DEF One
      <4>3. b = x <=> p = q
        BY <2>2, <3>2
      <4>4. One(b = x) = n /\ One(b \notin {"idle", x}) = 1 - n
        BY <2>2, <3>2, <4>1, <4>3 DEF One, PhasePc
      <4> HIDE DEF n, x, a, b
      <4>. QED  BY <2>1, <4>2, <4>4
    <3>3. ASSUME NEW p \in Phases, commands' = commands, Row(p, pending[p] - 1),
                 a = PhasePc(p), b \notin {"testing", "checking"}
          PROVE  /\ n + One(a = x) >= One(b = x)
                 /\ n + One(b \notin {"idle", x}) <= One(a \notin {"idle", x}) + (commands - commands')
      <4>1. n = IF p = q THEN 0 - 1 ELSE 0
        BY <1>1, <3>3, <2>1 DEF Row
      <4>2. One(b = x) = 0 /\ One(b \notin {"idle", x}) \in {0, 1} /\ commands - commands' = 0
        BY <1>1, <2>2, <3>3 DEF One
      <4>3. a = x <=> p = q
        BY <2>2, <3>3
      <4>4. One(a = x) = 0 - n /\ One(a \notin {"idle", x}) = 1 + n
        BY <2>2, <3>3, <4>1, <4>3 DEF One, PhasePc
      <4> HIDE DEF n, x, a, b
      <4>. QED  BY <2>1, <4>2, <4>4
    <3> HIDE DEF n, x
    <3>. QED  BY <3>1, <3>2, <3>3 DEF RowsMove
  <2> HIDE DEF n
  <2>4. RowsCounted(q)
    BY <1>1
  <2>5. commands \in Int /\ commands' \in Int
    BY <1>1, <1>2
  <2>. QED  BY <1>1, <2>1, <2>3, <2>4, <2>5, RowsKept
<1>5. pending' \in [Phases -> Nat]
  BY <1>3, <1>4
<1>. QED  BY <1>2, <1>4, <1>5

(* The rest of the counts, when a command moves: its round, and the times of the tasks. *)
TimesOrdered == \A t \in BuildTasks : tasks[t].at <= Cardinality(Existing)

LEMMA CountsAfterMove ==
    ASSUME AgentsInv, AgentCounts, NEW d \in Drivers, NEW r \in DriverRecord,
           driver' = [driver EXCEPT ![d] = r], RowsMove(driver[d].pc, r.pc),
           r.round \in 1..MaxRounds, feature' \in BOOLEAN,
           agents' \in [Phases \cup {"builder"} -> {"idle", "working"}],
           current' \in {0} \cup BuildTasks, TimesOrdered'
    PROVE  AgentCounts'
<1>1. /\ pending' \in [Phases -> Nat] /\ commands' \in 0..MaxCommands
      /\ \A p \in Phases : RowsCounted(p)'
  BY RowsAfterMove
<1>2. \A e \in Drivers : driver'[e].round \in 1..MaxRounds
  BY DEF AgentCounts, AgentsInv
<1>. QED  BY <1>1, <1>2 DEF AgentCounts, TimesOrdered

(* No command moves. *)
LEMMA CountsAfterOther ==
    ASSUME AgentsInv, AgentCounts, UNCHANGED <<driver, pending>>,
           commands' = commands \/ Paid, feature' \in BOOLEAN,
           agents' \in [Phases \cup {"builder"} -> {"idle", "working"}],
           current' \in {0} \cup BuildTasks, TimesOrdered'
    PROVE  AgentCounts'
<1>1. commands \in 0..MaxCommands /\ MaxCommands \in Nat
  BY HarnessAssumption DEF AgentCounts
<1>2. commands' \in 0..MaxCommands /\ commands' <= commands
  BY <1>1 DEF Paid
<1>3. ASSUME NEW p \in Phases
      PROVE  RowsCounted(p)'
  <2>1. RowsCounted(p) /\ pending[p] \in Nat
    BY DEF AgentCounts
  <2>2. UNCHANGED <<InPhase(p), Elsewhere(p)>>
    BY DEF InPhase, Elsewhere, DriversIn
  <2>3. Cardinality(Elsewhere(p)) \in Nat
    BY <2>1, FS_CardinalityType DEF RowsCounted
  <2>. QED  BY <1>1, <1>2, <2>1, <2>2, <2>3 DEF RowsCounted
<1>. QED  BY <1>2, <1>3 DEF AgentCounts, TimesOrdered

(* The times of the tasks are those of the tasks before them, or one second later: there are
   no more of them than there are tasks. *)
LEMMA ExistingIsFinite ==
    IsFiniteSet(Existing) /\ Cardinality(Existing) \in Nat /\ Cardinality(Existing) <= MaxTasks
<1>1. MaxTasks \in Nat
  BY HarnessAssumption
<1>2. IsFiniteSet(BuildTasks) /\ Cardinality(BuildTasks) = MaxTasks
  BY <1>1, FS_Interval DEF BuildTasks
<1>3. Existing \subseteq BuildTasks
  BY DEF Existing
<1>. QED  BY <1>1, <1>2, <1>3, FS_Subset, FS_CardinalityType

LEMMA TimesAfterWrite ==
    ASSUME AgentsInv, AgentCounts,
           \A u \in BuildTasks : tasks'[u].at = tasks[u].at,
           \A u \in BuildTasks : tasks[u].status # "none" => tasks'[u].status # "none"
    PROVE  TimesOrdered'
<1>1. Existing \subseteq Existing'
  BY DEF Existing
<1>2. IsFiniteSet(Existing') /\ Cardinality(Existing') \in Nat
  <2>1. MaxTasks \in Nat
    BY HarnessAssumption
  <2>2. IsFiniteSet(BuildTasks)
    BY <2>1, FS_Interval DEF BuildTasks
  <2>3. Existing' \subseteq BuildTasks
    BY DEF Existing
  <2>. QED  BY <2>2, <2>3, FS_Subset, FS_CardinalityType
<1>3. Cardinality(Existing) <= Cardinality(Existing') /\ Cardinality(Existing) \in Nat
  BY <1>1, <1>2, FS_Subset, ExistingIsFinite
<1>4. \A u \in BuildTasks : tasks[u].at <= Cardinality(Existing) /\ tasks[u].at \in Nat
  BY DEF AgentCounts, AgentsInv, TaskRecord, Statuses
<1>. QED  BY <1>2, <1>3, <1>4 DEF TimesOrdered

LEMMA TimesAfterMade ==
    ASSUME AgentsInv, AgentCounts, NEW t \in BuildTasks \ Existing, Made(t)
    PROVE  TimesOrdered'
<1>1. PICK s \in Seconds : tasks' = [tasks EXCEPT ![t] = [NoTask EXCEPT !.status = "pending", !.at = s]]
  BY DEF Made
<1>2. tasks \in [BuildTasks -> TaskRecord]
  BY DEF AgentsInv
<1>3. \A u \in BuildTasks : tasks[u].at <= Cardinality(Existing) /\ tasks[u].at \in Nat
  BY <1>2 DEF AgentCounts, TaskRecord, Statuses
<1>4. s \in Nat /\ s <= Cardinality(Existing) + 1
  <2>1. s = 1 \/ \E u \in Existing, k \in {0, 1} : s = tasks[u].at + k
    BY <1>1 DEF Seconds, Newest
  <2>2. Existing \subseteq BuildTasks
    BY DEF Existing
  <2>. QED  BY <1>3, <2>1, <2>2, ExistingIsFinite
<1> DEFINE w == [NoTask EXCEPT !.status = "pending", !.at = s]
<1>5. w.status = "pending" /\ w.at = s
  BY DEF NoTask
<1>6. tasks' = [tasks EXCEPT ![t] = w]
  BY <1>1
<1> HIDE DEF w
<1>7. \A u \in BuildTasks : tasks'[u] = IF u = t THEN w ELSE tasks[u]
  BY <1>2, <1>6
<1>8. Existing' = Existing \cup {t}
  BY <1>5, <1>7 DEF Existing
<1>9. Cardinality(Existing') = Cardinality(Existing) + 1
  BY <1>8, FS_AddElement, ExistingIsFinite
<1>10. ASSUME NEW u \in BuildTasks
       PROVE  tasks'[u].at <= Cardinality(Existing')
  <2>1. CASE u = t
    BY <1>4, <1>5, <1>7, <1>9, <2>1
  <2>2. CASE u # t
    BY <1>3, <1>7, <1>9, <2>2, ExistingIsFinite
  <2>. QED  BY <2>1, <2>2
<1>. QED  BY <1>10 DEF TimesOrdered

LEMMA CountsInit == AInit => AgentCounts
<1> SUFFICES ASSUME AInit PROVE AgentCounts
  OBVIOUS
<1>1. MaxCommands \in Nat /\ MaxRounds \in Nat \ {0}
  BY HarnessAssumption
<1>2. \A d \in Drivers : driver[d].pc = "idle" /\ driver[d].round = 1
  BY DEF AInit, Resting
<1>3. Existing = {} /\ \A t \in BuildTasks : tasks[t].at = 0
  BY DEF AInit, Existing, NoTask
<1>4. \A p \in Phases : pending[p] = 0 /\ commands = MaxCommands
  BY DEF AInit
<1>5. ASSUME NEW p \in Phases
      PROVE  RowsCounted(p)
  <2>1. InPhase(p) = {} /\ Elsewhere(p) = {}
    BY <1>2 DEF InPhase, Elsewhere, DriversIn, PhasePc
  <2>. QED  BY <1>1, <1>4, <2>1, FS_EmptySet DEF RowsCounted
<1>6. TimesOrdered
  BY <1>3, FS_EmptySet DEF TimesOrdered
<1>7. pending \in [Phases -> Nat] /\ agents \in [Phases \cup {"builder"} -> {"idle", "working"}]
  BY DEF AInit
<1>8. /\ feature \in BOOLEAN /\ current \in {0} \cup BuildTasks /\ commands \in 0..MaxCommands
      /\ \A d \in Drivers : driver[d].round \in 1..MaxRounds
  BY <1>1, <1>2 DEF AInit
<1>. QED  BY <1>5, <1>6, <1>7, <1>8 DEF AgentCounts, TimesOrdered

LEMMA CountsStep == AgentsInv /\ AgentCounts /\ [ANext]_avars => AgentCounts'
<1> SUFFICES ASSUME AgentsInv, AgentCounts, [ANext]_avars PROVE AgentCounts'
  OBVIOUS
<1>0. /\ tasks \in [BuildTasks -> TaskRecord] /\ driver \in [Drivers -> DriverRecord]
      /\ \A t \in BuildTasks : tasks[t] \in TaskRecord
      /\ \A d \in Drivers : driver[d] \in DriverRecord /\ Charges(driver[d], tasks)
                            /\ driver[d].round \in 1..MaxRounds
      /\ feature \in BOOLEAN /\ current \in {0} \cup BuildTasks
      /\ agents \in [Phases \cup {"builder"} -> {"idle", "working"}]
  BY DEF AgentsInv, AgentCounts
<1>t. tasks' = tasks => TimesOrdered'
  BY DEF AgentCounts, TimesOrdered, Existing
<1>s. ASSUME NEW a \in Phases \cup {"builder"}, NEW s \in {"idle", "working"}, Shown(a, s)
      PROVE  agents' \in [Phases \cup {"builder"} -> {"idle", "working"}]
  BY <1>0, <1>s DEF Shown
<1>p. "tester" \in Phases /\ "verifier" \in Phases /\ PhasePc("tester") = "testing" /\ PhasePc("verifier") = "checking"
  BY DEF Phases, PhasePc
<1>r. Resting \in DriverRecord /\ Resting.pc = "idle" /\ Resting.round \in 1..MaxRounds
  <2>1. MaxRounds \in Nat \ {0}
    BY HarnessAssumption
  <2>. QED  BY <2>1, Rests DEF Resting
<1>a. ASSUME NEW d \in Drivers, Exit(d), RowsMove(driver[d].pc, "idle"), feature' = feature, current' \in {0} \cup BuildTasks,
             agents' \in [Phases \cup {"builder"} -> {"idle", "working"}], TimesOrdered'
      PROVE  AgentCounts'
  BY <1>0, <1>a, <1>r, CountsAfterMove DEF Exit
<1>b. ASSUME NEW d \in Drivers, NEW pc \in AgentPcs, Goto(d, pc), RowsMove(driver[d].pc, pc), feature' = feature,
             current' = current, agents' \in [Phases \cup {"builder"} -> {"idle", "working"}], TimesOrdered'
      PROVE  AgentCounts'
  <2> DEFINE r == [driver[d] EXCEPT !.pc = pc]
  <2>1. driver' = [driver EXCEPT ![d] = r]
    BY <1>0, <1>b DEF Goto
  <2>2. r \in DriverRecord /\ r.pc = pc /\ r.round \in 1..MaxRounds
    BY <1>0 DEF DriverRecord, AgentPcs
  <2> HIDE DEF r
  <2>. QED  BY <1>0, <1>b, <2>1, <2>2, CountsAfterMove
<1>1. ASSUME NEW d \in Drivers, Command(d) PROVE AgentCounts'
  <2>1. UNCHANGED <<feature, tasks, agents, current, pending>> /\ driver[d].pc = "idle" /\ Paid
    BY <1>1 DEF Command, DriverAt, Spend, Paid
  <2>2. PICK r \in DriverRecord : /\ driver' = [driver EXCEPT ![d] = r] /\ r.pc \in {"test", "verify"}
                                  /\ r.round = driver[d].round
    <3>1. ASSUME NEW c \in {"test", "cycle", "hooked"}, driver' = [driver EXCEPT ![d].pc = "test", ![d].cmd = c]
          PROVE  \E r \in DriverRecord : /\ driver' = [driver EXCEPT ![d] = r] /\ r.pc \in {"test", "verify"}
                                         /\ r.round = driver[d].round
      <4> DEFINE r == [driver[d] EXCEPT !.pc = "test", !.cmd = c]
      <4>1. driver' = [driver EXCEPT ![d] = r]
        BY <1>0, <3>1
      <4>2. r \in DriverRecord /\ r.pc = "test" /\ r.round = driver[d].round
        BY <1>0 DEF DriverRecord
      <4> HIDE DEF r
      <4>. QED  BY <4>1, <4>2
    <3>2. ASSUME NEW t \in Existing,
                 driver' = [driver EXCEPT ![d].pc = "verify", ![d].cmd = "verify", ![d].task = t]
          PROVE  \E r \in DriverRecord : /\ driver' = [driver EXCEPT ![d] = r] /\ r.pc \in {"test", "verify"}
                                         /\ r.round = driver[d].round
      <4> DEFINE r == [driver[d] EXCEPT !.pc = "verify", !.cmd = "verify", !.task = t]
      <4>1. driver' = [driver EXCEPT ![d] = r]
        BY <1>0, <3>2
      <4>2. t \in BuildTasks
        BY DEF Existing
      <4>3. r \in DriverRecord /\ r.pc = "verify" /\ r.round = driver[d].round
        BY <1>0, <4>2 DEF DriverRecord
      <4> HIDE DEF r
      <4>. QED  BY <4>1, <4>3
    <3>. QED  BY <1>1, <3>1, <3>2 DEF Command
  <2>3. RowsMove(driver[d].pc, r.pc)
    BY <2>1, <2>2 DEF RowsMove
  <2>. QED  BY <1>0, <1>t, <2>1, <2>2, <2>3, CountsAfterMove
<1>2. ASSUME NEW d \in Drivers, RunTester(d) PROVE AgentCounts'
  <2>1. UNCHANGED <<feature, tasks, current, commands>> /\ driver[d].pc = "test"
    BY <1>2 DEF RunTester, DriverAt
  <2>2. CASE Exit(d) /\ UNCHANGED <<agents, pending>>
    BY <1>0, <1>a, <1>t, <2>1, <2>2 DEF RowsMove
  <2>3. CASE Shown("tester", "working") /\ Row("tester", pending["tester"] + 1) /\ Goto(d, "testing")
    <3>1. RowsMove(driver[d].pc, "testing")
      BY <1>p, <2>1, <2>3 DEF RowsMove
    <3>. QED  BY <1>b, <1>p, <1>s, <1>t, <2>1, <2>3, <3>1 DEF AgentPcs
  <2>. QED  BY <1>2, <2>2, <2>3 DEF RunTester
<1>3. ASSUME NEW d \in Drivers, TesterEnds(d) PROVE AgentCounts'
  <2>1. UNCHANGED <<feature, tasks, current, commands>> /\ driver[d].pc = "testing" /\ Shown("tester", "idle")
    BY <1>3 DEF TesterEnds, DriverAt
  <2>2. agents' \in [Phases \cup {"builder"} -> {"idle", "working"}]
    BY <1>p, <1>s, <2>1
  <2>3. CASE Exit(d) /\ UNCHANGED pending
    BY <1>0, <1>a, <1>t, <2>1, <2>2, <2>3 DEF RowsMove
  <2>4. CASE Row("tester", pending["tester"] - 1)
    <3>1. RowsMove(driver[d].pc, "idle") /\ RowsMove(driver[d].pc, "open")
      BY <1>p, <2>1, <2>4 DEF RowsMove
    <3>2. Exit(d) \/ Goto(d, "open")
      BY <1>3, <2>1, <2>4, <1>0, <1>p DEF TesterEnds, Row, AgentCounts
    <3>. QED  BY <1>0, <1>a, <1>b, <1>t, <2>1, <2>2, <3>1, <3>2 DEF AgentPcs
  <2>. QED  BY <1>3, <2>3, <2>4 DEF TesterEnds
<1>4. ASSUME NEW d \in Drivers, FindTask(d) PROVE AgentCounts'
  <2>1. UNCHANGED <<feature, tasks, agents, current, pending, commands>> /\ driver[d].pc = "open"
    BY <1>4 DEF FindTask, DriverAt
  <2>2. RowsMove(driver[d].pc, "create") /\ RowsMove(driver[d].pc, "reopen")
    BY <2>1 DEF RowsMove
  <2>3. CASE Goto(d, "create")
    BY <1>0, <1>b, <1>t, <2>1, <2>2, <2>3 DEF AgentPcs
  <2>4. ASSUME NEW t \in Newest, driver' = [driver EXCEPT ![d].pc = "reopen", ![d].task = t]
        PROVE  AgentCounts'
    <3> DEFINE r == [driver[d] EXCEPT !.pc = "reopen", !.task = t]
    <3>1. driver' = [driver EXCEPT ![d] = r]
      BY <1>0, <2>4
    <3>2. t \in BuildTasks
      BY DEF Newest, Existing
    <3>3. r \in DriverRecord /\ r.pc = "reopen" /\ r.round = driver[d].round
      BY <1>0, <3>2 DEF DriverRecord
    <3> HIDE DEF r
    <3>. QED  BY <1>0, <1>t, <2>1, <2>2, <3>1, <3>3, CountsAfterMove
  <2>. QED  BY <1>4, <2>3, <2>4 DEF FindTask
<1>5. ASSUME NEW d \in Drivers, NEW t \in BuildTasks, Handed(d, t), driver[d].pc \in {"reopen", "create"},
             UNCHANGED <<feature, pending, commands>>, TimesOrdered'
      PROVE  AgentCounts'
  <2>1. agents' \in [Phases \cup {"builder"} -> {"idle", "working"}] /\ current' \in {0} \cup BuildTasks
    BY <1>5, <1>s DEF Handed
  <2>2. RowsMove(driver[d].pc, "idle") /\ RowsMove(driver[d].pc, "hook")
    BY <1>5 DEF RowsMove
  <2>3. CASE Exit(d)
    BY <1>5, <1>a, <2>1, <2>2, <2>3
  <2>4. CASE driver' = [driver EXCEPT ![d].pc = "hook", ![d].task = t]
    <3> DEFINE r == [driver[d] EXCEPT !.pc = "hook", !.task = t]
    <3>1. driver' = [driver EXCEPT ![d] = r]
      BY <1>0, <2>4
    <3>2. r \in DriverRecord /\ r.pc = "hook" /\ r.round = driver[d].round
      BY <1>0 DEF DriverRecord
    <3> HIDE DEF r
    <3>. QED  BY <1>0, <1>5, <2>1, <2>2, <3>1, <3>2, CountsAfterMove
  <2>. QED  BY <1>5, <2>3, <2>4 DEF Handed
<1>w. ASSUME NEW t \in BuildTasks, NEW w \in TaskRecord, tasks' = [tasks EXCEPT ![t] = w],
             w.at = tasks[t].at, w.status # "none"
      PROVE  TimesOrdered'
  <2>1. \A u \in BuildTasks : tasks'[u] = IF u = t THEN w ELSE tasks[u]
    BY <1>0, <1>w
  <2>. QED  BY <1>w, <2>1, TimesAfterWrite
<1>x. ASSUME NEW t \in BuildTasks, NEW s \in Statuses, Status(t, s)
      PROVE  TimesOrdered'
  <2> DEFINE w == [tasks[t] EXCEPT !.status = s]
  <2>1. tasks' = [tasks EXCEPT ![t] = w]
    BY <1>0, <1>x DEF Status
  <2>2. w \in TaskRecord /\ w.at = tasks[t].at /\ w.status # "none"
    BY <1>0 DEF TaskRecord, Statuses
  <2> HIDE DEF w
  <2>. QED  BY <1>w, <2>1, <2>2
<1>f. ASSUME NEW t \in BuildTasks, NEW ok \in BOOLEAN, Feedback(t, ok)
      PROVE  TimesOrdered'
  <2>1. CASE ok
    <3> DEFINE w == [tasks[t] EXCEPT !.status = "completed"]
    <3>1. tasks' = [tasks EXCEPT ![t] = w]
      BY <1>0, <1>f, <2>1 DEF Feedback
    <3>2. w \in TaskRecord /\ w.at = tasks[t].at /\ w.status # "none"
      BY <1>0 DEF TaskRecord, Statuses
    <3> HIDE DEF w
    <3>. QED  BY <1>w, <3>1, <3>2
  <2>2. CASE ~ok
    <3> DEFINE w == [tasks[t] EXCEPT !.status = "feedback_received", !.rejections = tasks[t].rejections + 1]
    <3>1. tasks' = [tasks EXCEPT ![t] = w]
      BY <1>0, <1>f, <2>2 DEF Feedback
    <3>2. tasks[t].rejections + 1 \in Nat
      BY <1>0 DEF TaskRecord, Statuses
    <3>3. w \in TaskRecord /\ w.at = tasks[t].at /\ w.status # "none"
      BY <1>0, <3>2 DEF TaskRecord, Statuses
    <3> HIDE DEF w
    <3>. QED  BY <1>w, <3>1, <3>3
  <2>. QED  BY <2>1, <2>2
<1>6. ASSUME NEW d \in Drivers, Reopen(d) PROVE AgentCounts'
  <2>1. /\ Status(driver[d].task, "pending") /\ Handed(d, driver[d].task)
        /\ driver[d].pc = "reopen" /\ driver[d].task \in BuildTasks
        /\ UNCHANGED <<feature, pending, commands>>
    BY <1>0, <1>6 DEF Reopen, DriverAt, Charges
  <2>2. TimesOrdered'
    BY <1>x, <2>1 DEF Statuses
  <2>. QED  BY <1>5, <2>1, <2>2
<1>7. ASSUME NEW d \in Drivers, Create(d) PROVE AgentCounts'
  <2>1. PICK t \in BuildTasks \ Existing : Made(t) /\ Handed(d, t)
    BY <1>7 DEF Create
  <2>2. driver[d].pc = "create" /\ UNCHANGED <<feature, pending, commands>>
    BY <1>7 DEF Create, DriverAt
  <2>3. TimesOrdered'
    BY <2>1, TimesAfterMade
  <2>. QED  BY <1>5, <2>1, <2>2, <2>3
<1>8. ASSUME NEW d \in Drivers, HookEnds(d) PROVE AgentCounts'
  <2>1. /\ UNCHANGED <<feature, tasks, current, pending, commands>> /\ driver[d].pc = "hook"
        /\ \/ Shown("builder", "idle") /\ Goto(d, "verify")
           \/ Exit(d) /\ UNCHANGED agents
    BY <1>8 DEF HookEnds, DriverAt
  <2>2. RowsMove(driver[d].pc, "idle") /\ RowsMove(driver[d].pc, "verify")
    BY <2>1 DEF RowsMove
  <2>3. CASE Exit(d) /\ UNCHANGED agents
    BY <1>0, <1>a, <1>t, <2>1, <2>2, <2>3
  <2>4. CASE Shown("builder", "idle") /\ Goto(d, "verify")
    BY <1>b, <1>s, <1>t, <2>1, <2>2, <2>4 DEF AgentPcs
  <2>. QED  BY <2>1, <2>3, <2>4
<1>9. ASSUME NEW d \in Drivers, RunVerifier(d) PROVE AgentCounts'
  <2> DEFINE t == driver[d].task
  <2>1. UNCHANGED <<feature, tasks, current, commands>> /\ driver[d].pc = "verify"
    BY <1>9 DEF RunVerifier, DriverAt
  <2>2. CASE Exit(d) /\ UNCHANGED <<agents, pending>>
    BY <1>0, <1>a, <1>t, <2>1, <2>2 DEF RowsMove
  <2>3. CASE /\ Shown("verifier", "working") /\ Row("verifier", pending["verifier"] + 1)
             /\ driver' = [driver EXCEPT ![d].pc = "checking", ![d].seen = tasks[t].iterations]
    <3> DEFINE r == [driver[d] EXCEPT !.pc = "checking", !.seen = tasks[t].iterations]
    <3>1. driver' = [driver EXCEPT ![d] = r]
      BY <1>0, <2>3
    <3>2. t \in BuildTasks /\ tasks[t].iterations \in Nat
      BY <1>0, <2>1 DEF Charges, TaskRecord, Statuses
    <3>3. r \in DriverRecord /\ r.pc = "checking" /\ r.round = driver[d].round
      BY <1>0, <3>2 DEF DriverRecord
    <3> HIDE DEF r
    <3>4. RowsMove(driver[d].pc, r.pc)
      BY <1>p, <2>1, <2>3, <3>3 DEF RowsMove
    <3>5. agents' \in [Phases \cup {"builder"} -> {"idle", "working"}]
      BY <1>p, <1>s, <2>3
    <3>. QED  BY <1>0, <1>t, <2>1, <3>1, <3>3, <3>4, <3>5, CountsAfterMove
  <2>. QED  BY <1>9, <2>2, <2>3 DEF RunVerifier
<1>10. ASSUME NEW d \in Drivers, ChecksEnd(d) PROVE AgentCounts'
  <2>1. UNCHANGED <<feature, tasks, current, commands>> /\ driver[d].pc = "checking" /\ Shown("verifier", "idle")
    BY <1>10 DEF ChecksEnd, DriverAt
  <2>2. agents' \in [Phases \cup {"builder"} -> {"idle", "working"}]
    BY <1>p, <1>s, <2>1
  <2>3. CASE Exit(d) /\ UNCHANGED pending
    BY <1>0, <1>a, <1>t, <2>1, <2>2, <2>3 DEF RowsMove
  <2>4. ASSUME NEW pc \in {"approve", "reject"}, Row("verifier", pending["verifier"] - 1), Goto(d, pc)
        PROVE  AgentCounts'
    <3>1. RowsMove(driver[d].pc, pc)
      BY <1>p, <2>1, <2>4 DEF RowsMove
    <3>. QED  BY <1>b, <1>t, <2>1, <2>2, <2>4, <3>1 DEF AgentPcs
  <2>. QED  BY <1>10, <2>3, <2>4 DEF ChecksEnd
<1>11. ASSUME NEW d \in Drivers, Approve(d) PROVE AgentCounts'
  <2>1. /\ Feedback(driver[d].task, TRUE) /\ Exit(d) /\ driver[d].task \in BuildTasks
        /\ UNCHANGED <<feature, agents, current, pending, commands>> /\ driver[d].pc = "approve"
    BY <1>0, <1>11 DEF Approve, DriverAt, Charges
  <2>2. TimesOrdered'
    BY <1>f, <2>1
  <2>. QED  BY <1>0, <1>a, <2>1, <2>2 DEF RowsMove
<1>12. ASSUME NEW d \in Drivers, Reject(d) PROVE AgentCounts'
  <2>1. /\ Feedback(driver[d].task, FALSE) /\ Goto(d, "count") /\ driver[d].task \in BuildTasks
        /\ UNCHANGED <<feature, agents, current, pending, commands>> /\ driver[d].pc = "reject"
    BY <1>0, <1>12 DEF Reject, DriverAt, Charges
  <2>2. TimesOrdered'
    BY <1>f, <2>1
  <2>3. RowsMove(driver[d].pc, "count")
    BY <2>1 DEF RowsMove
  <2>. QED  BY <1>0, <1>b, <2>1, <2>2, <2>3 DEF AgentPcs
<1>13. ASSUME NEW d \in Drivers, Count(d) PROVE AgentCounts'
  <2> DEFINE t == driver[d].task
             n == driver[d].seen + 1
             w == [tasks[t] EXCEPT !.iterations = n,
                                   !.status = IF n >= MaxIterations THEN "failed" ELSE "feedback_received"]
             r == [driver[d] EXCEPT !.pc = "test", !.round = driver[d].round + 1]
  <2>1. /\ t \in BuildTasks /\ n \in Nat /\ tasks[t] \in TaskRecord /\ driver[d].pc = "count"
        /\ UNCHANGED <<feature, agents, current, pending, commands>>
    BY <1>0, <1>13 DEF Count, DriverAt, Charges, DriverRecord
  <2>2. tasks' = [tasks EXCEPT ![t] = w]
    BY <1>0, <1>13, <2>1 DEF Count
  <2>3. w \in TaskRecord /\ w.at = tasks[t].at /\ w.status # "none"
    <3> HIDE DEF n, t
    <3>. QED  BY <2>1 DEF TaskRecord, Statuses
  <2>4. TimesOrdered'
    <3> HIDE DEF w, t
    <3>. QED  BY <1>w, <2>1, <2>2, <2>3
  <2>5. CASE Exit(d)
    BY <1>0, <1>a, <2>1, <2>4, <2>5 DEF RowsMove
  <2>6. CASE driver[d].round # MaxRounds /\ driver' = [driver EXCEPT ![d].pc = "test", ![d].round = @ + 1]
    <3>1. driver' = [driver EXCEPT ![d] = r]
      BY <1>0, <2>6
    <3>2. driver[d].round + 1 \in 1..MaxRounds /\ MaxRounds \in Nat
      <4>1. MaxRounds \in Nat
        BY HarnessAssumption
      <4>. QED  BY <1>0, <2>6, <4>1
    <3>3. r \in DriverRecord /\ r.pc = "test" /\ r.round = driver[d].round + 1
      <4>1. driver[d] \in DriverRecord /\ driver[d].round + 1 \in Nat
        BY <1>0 DEF DriverRecord
      <4>. QED  BY <4>1 DEF DriverRecord
    <3> HIDE DEF r
    <3>4. RowsMove(driver[d].pc, r.pc)
      BY <2>1, <3>3 DEF RowsMove
    <3>. QED  BY <1>0, <2>1, <2>4, <3>1, <3>2, <3>3, <3>4, CountsAfterMove
  <2>. QED  BY <1>13, <2>5, <2>6 DEF Count
<1>14. ASSUME NEW d \in Drivers, Killed(d) PROVE AgentCounts'
  <2>1. /\ Exit(d) /\ UNCHANGED <<feature, tasks, agents, current, pending>> /\ driver[d].pc # "idle" /\ Paid
    BY <1>14 DEF Killed, Spend, Paid, DriverAt
  <2>. QED  BY <1>0, <1>a, <1>t, <2>1 DEF RowsMove
<1>15. CASE Complete
  <2>1. UNCHANGED <<feature, agents, current, pending, driver, commands>>
    BY <1>15 DEF Complete
  <2>2. TimesOrdered'
    BY <1>15, <1>x DEF Complete, Existing, Statuses
  <2>. QED  BY <1>0, <2>1, <2>2, CountsAfterOther
<1>16. CASE TaskUpdate
  <2>1. UNCHANGED <<feature, agents, current, pending, driver>> /\ Paid
    BY <1>16 DEF TaskUpdate, Spend, Paid
  <2>2. ASSUME NEW t \in Existing, NEW s \in Statuses, NEW n \in Nat, SetByHand(t, s, n)
        PROVE  TimesOrdered'
    <3> DEFINE m == IF n > tasks[t].byHand THEN n ELSE tasks[t].byHand
               w == [tasks[t] EXCEPT !.status = s, !.iterations = n, !.byHand = m]
    <3>1. t \in BuildTasks /\ tasks' = [tasks EXCEPT ![t] = w]
      BY <1>0, <2>2 DEF SetByHand, Existing
    <3>2. tasks[t].byHand \in Nat
      BY <1>0, <3>1 DEF TaskRecord
    <3>3. w \in TaskRecord /\ w.at = tasks[t].at /\ w.status # "none"
      BY <1>0, <3>1, <3>2 DEF TaskRecord, Statuses
    <3> HIDE DEF w
    <3>. QED  BY <1>w, <3>1, <3>3
  <2>3. TimesOrdered'
    BY <1>16, <2>2, <1>x, AgentsNat DEF TaskUpdate, Existing
  <2>. QED  BY <1>0, <2>1, <2>3, CountsAfterOther
<1>17. CASE TaskCreate
  <2>1. UNCHANGED <<feature, agents, current, pending, driver>> /\ Paid
    BY <1>17 DEF TaskCreate, Spend, Paid
  <2>2. TimesOrdered'
    BY <1>17, TimesAfterMade DEF TaskCreate
  <2>. QED  BY <1>0, <2>1, <2>2, CountsAfterOther
<1>18. CASE GiveFeedback
  <2>1. UNCHANGED <<feature, agents, current, pending, driver>> /\ Paid
    BY <1>18 DEF GiveFeedback, Spend, Paid
  <2>2. TimesOrdered'
    BY <1>18, <1>f DEF GiveFeedback, Existing
  <2>. QED  BY <1>0, <2>1, <2>2, CountsAfterOther
<1>19. CASE AgentInit
  <2>1. UNCHANGED <<feature, tasks, pending, driver>> /\ Paid /\ current' = 0
        /\ agents' \in [Phases \cup {"builder"} -> {"idle", "working"}]
    BY <1>0, <1>19 DEF AgentInit, Spend, Paid
  <2>. QED  BY <1>0, <1>t, <2>1, CountsAfterOther
<1>20. CASE DeleteFeature
  <2>1. UNCHANGED <<tasks, agents, current, pending, driver>> /\ Paid /\ feature' = FALSE
    BY <1>20 DEF DeleteFeature, Spend, Paid
  <2>. QED  BY <1>0, <1>t, <2>1, CountsAfterOther
<1>21. CASE UNCHANGED avars
  <2>1. UNCHANGED <<feature, tasks, agents, current, pending, driver, commands>>
    BY <1>21 DEF avars
  <2>. QED  BY <1>0, <1>t, <2>1, CountsAfterOther
<1>. QED  BY <1>1, <1>2, <1>3, <1>4, <1>6, <1>7, <1>8, <1>9, <1>10, <1>11, <1>12, <1>13, <1>14,
             <1>15, <1>16, <1>17, <1>18, <1>19, <1>20, <1>21 DEF ANext

(* In every reachable state of the harness: the rows of a phase that are pending are no more
   than the commands that were given, no agent is shown in an unknown state, the times of the
   tasks are spread over no more seconds than there are tasks, and a cycle is in one of its
   rounds (AgentTask, run_tester_phase, run_verify_phase, run_agent_cycle). *)
THEOREM AgentsTyped == ASpec => []ATypeOK
<1>1. AgentsInv /\ AgentCounts => ATypeOK
  <2> SUFFICES ASSUME AgentsInv, AgentCounts PROVE ATypeOK
    OBVIOUS
  <2>1. MaxTasks \in Nat /\ MaxCommands \in Nat
    BY HarnessAssumption
  <2>2. ASSUME NEW t \in BuildTasks
        PROVE  tasks[t].at \in 0..MaxTasks
    <3>1. tasks[t].at \in Nat /\ tasks[t].at <= Cardinality(Existing)
      BY DEF AgentsInv, AgentCounts, TaskRecord, Statuses
    <3>. QED  BY <2>1, <3>1, ExistingIsFinite
  <2>3. tasks \in [BuildTasks -> [status : {"none"} \cup Statuses,
                                  iterations : Nat, rejections : Nat, byHand : Nat, at : 0..MaxTasks]]
    BY <2>2 DEF AgentsInv, TaskRecord, Statuses
  <2>4. ASSUME NEW p \in Phases
        PROVE  pending[p] \in 0..MaxCommands
    <3>1. pending[p] \in Nat /\ pending[p] + Cardinality(Elsewhere(p)) <= MaxCommands - commands
          /\ commands \in Nat /\ Cardinality(Elsewhere(p)) \in Nat
      BY FS_CardinalityType DEF AgentCounts, RowsCounted
    <3>. QED  BY <2>1, <3>1
  <2>5. pending \in [Phases -> 0..MaxCommands]
    BY <2>4 DEF AgentCounts
  <2>6. driver \in [Drivers -> [pc : {"idle", "test", "testing", "open", "reopen", "create", "hook",
                                      "verify", "checking", "approve", "reject", "count"},
                                cmd : {"none", "test", "cycle", "hooked", "verify"},
                                round : 1..MaxRounds, task : {0} \cup BuildTasks, seen : Nat]]
    BY DEF AgentsInv, AgentCounts, DriverRecord
  <2>. QED  BY <2>3, <2>5, <2>6 DEF ATypeOK, AgentsInv, AgentCounts
<1>. QED  BY <1>1, AgentsInit, AgentsStep, CountsInit, CountsStep, PTL DEF ASpec

-----------------------------------------------------------------------------
(* The harness: features and their audit trail. *)
MaybeRow == Rows \cup {NoRow}
WriterRecord == [pc : {"idle", "date", "check", "read", "write", "upsert", "merge", "rename"},
                 seen : MaybeRow, to : MaybeRow, named : BOOLEAN]

(* A writer under way writes a status. *)
FeaturesInv ==
    /\ row \in MaybeRow /\ legacy \in MaybeRow /\ entry \in FStatus \cup {"none"}
    /\ writer \in [Writers -> WriterRecord]
    /\ untold \in BOOLEAN /\ writes \in 0 .. MaxWrites
    /\ \A w \in Writers : writer[w].pc \in {"date", "check", "read", "write", "upsert"} => writer[w].to \in Rows
    /\ row # NoRow /\ ~untold => entry \in {"none", row.status}

LEMMA RowFacts ==
    /\ NoRow \notin Rows /\ \A r \in Rows : r.status \in FStatus /\ r.dated \in BOOLEAN
    /\ \A r \in MaybeRow, s \in FStatus : [r EXCEPT !.status = s] \in Rows
    /\ \A r \in MaybeRow : r = NoRow \/ r \in Rows
    /\ \A r \in Rows, b \in BOOLEAN : [r EXCEPT !.dated = b] \in Rows
    /\ "none" \notin FStatus
<1>1. "none" \notin FStatus
  BY DEF FStatus
<1>2. NoRow \notin Rows /\ NoRow.dated = FALSE /\ NoRow = [status |-> "none", dated |-> FALSE]
  BY <1>1 DEF NoRow, Rows
<1>3. \A r \in Rows : r.status \in FStatus /\ r.dated \in BOOLEAN
  BY DEF Rows
<1>4. \A r \in MaybeRow : r = NoRow \/ r \in Rows
  BY DEF MaybeRow
<1>5. \A s \in FStatus : [NoRow EXCEPT !.status = s] \in Rows
  BY DEF NoRow, Rows
<1>6. \A r \in Rows, s \in FStatus : [r EXCEPT !.status = s] \in Rows
  BY DEF Rows
<1>7. \A r \in Rows, b \in BOOLEAN : [r EXCEPT !.dated = b] \in Rows
  BY DEF Rows
<1>8. \A r \in MaybeRow, s \in FStatus : [r EXCEPT !.status = s] \in Rows
  BY <1>4, <1>5, <1>6
<1>. QED  BY <1>1, <1>2, <1>3, <1>4, <1>7, <1>8

LEMMA StatusKept == \A r \in Rows, b \in BOOLEAN : [r EXCEPT !.dated = b].status = r.status
  BY DEF Rows

LEMMA StatusWritten == \A r \in MaybeRow, s \in FStatus : [r EXCEPT !.status = s].status = s
  BY DEF Rows, NoRow, MaybeRow

LEMMA AwayTyped == Away \in WriterRecord /\ Away.pc = "idle"
<1>1. NoRow \in MaybeRow
  BY DEF MaybeRow
<1>. QED  BY <1>1 DEF Away, WriterRecord

(* Only the writer moves. *)
LEMMA WriterMoves ==
    ASSUME FeaturesInv, NEW w \in Writers, NEW r \in WriterRecord, writer' = [writer EXCEPT ![w] = r],
           r.pc \in {"date", "check", "read", "write", "upsert"} => r.to \in Rows
    PROVE  /\ writer' \in [Writers -> WriterRecord]
           /\ \A v \in Writers : writer'[v].pc \in {"date", "check", "read", "write", "upsert"} => writer'[v].to \in Rows
<1>1. writer \in [Writers -> WriterRecord]
  BY DEF FeaturesInv
<1>2. writer' \in [Writers -> WriterRecord] /\ \A v \in Writers : writer'[v] = IF v = w THEN r ELSE writer[v]
  BY <1>1
<1>. QED  BY <1>2 DEF FeaturesInv

LEMMA Leaving ==
    ASSUME FeaturesInv, NEW w \in Writers, Leaves(w)
    PROVE  /\ writer' \in [Writers -> WriterRecord]
           /\ \A v \in Writers : writer'[v].pc \in {"date", "check", "read", "write", "upsert"} => writer'[v].to \in Rows
  BY WriterMoves, AwayTyped DEF Leaves

LEMMA Beginning ==
    ASSUME FeaturesInv, FBegin
    PROVE  writes' \in 0 .. MaxWrites
  BY FeatureAssumption DEF FeaturesInv, FBegin

LEMMA FeaturesInit == FInit => FeaturesInv
<1> SUFFICES ASSUME FInit PROVE FeaturesInv
  OBVIOUS
<1>1. row \in MaybeRow /\ legacy \in MaybeRow /\ entry = "none" /\ row = NoRow /\ untold = FALSE
  BY DEF FInit, MaybeRow
<1>2. writes \in 0 .. MaxWrites
  BY FeatureAssumption DEF FInit
<1>3. writer \in [Writers -> WriterRecord] /\ \A w \in Writers : writer[w].pc = "idle"
  BY AwayTyped DEF FInit
<1>. QED  BY <1>1, <1>2, <1>3 DEF FeaturesInv

LEMMA FeaturesStep == FeaturesInv /\ [FNext]_fvars => FeaturesInv'
<1> SUFFICES ASSUME FeaturesInv, [FNext]_fvars PROVE FeaturesInv'
  OBVIOUS
<1>0. /\ row \in MaybeRow /\ legacy \in MaybeRow
      /\ writer \in [Writers -> WriterRecord]
      /\ \A w \in Writers : /\ writer[w] \in WriterRecord
                            /\ writer[w].seen \in MaybeRow /\ writer[w].to \in MaybeRow
  BY DEF FeaturesInv, WriterRecord
<1>1. CASE UNCHANGED fvars
  BY <1>1 DEF fvars, FeaturesInv
<1>2. ASSUME NEW w \in Writers, NEW pc \in {"check", "read", "date"}, NEW s \in FStatus, NEW n \in BOOLEAN,
             writer' = [writer EXCEPT ![w].pc = pc, ![w].to.status = s, ![w].named = n], FBegin,
             UNCHANGED <<row, legacy, entry, untold>>
      PROVE  FeaturesInv'
  <2> DEFINE t == [writer[w].to EXCEPT !.status = s]
             r == [writer[w] EXCEPT !.pc = pc, !.to = t, !.named = n]
  <2>1. writer' = [writer EXCEPT ![w] = r]
    BY <1>0, <1>2
  <2>2. t \in Rows
    BY <1>0, RowFacts
  <2> HIDE DEF t
  <2>3. r \in WriterRecord /\ r.to \in Rows
    BY <1>0, <2>2 DEF WriterRecord, MaybeRow
  <2> HIDE DEF r
  <2>4. /\ writer' \in [Writers -> WriterRecord]
        /\ \A v \in Writers : writer'[v].pc \in {"date", "check", "read", "write", "upsert"} => writer'[v].to \in Rows
    BY <2>1, <2>3, WriterMoves
  <2>. QED  BY <1>2, <2>4, Beginning DEF FeaturesInv
<1>3. ASSUME NEW w \in Writers, AddBegins(w) \/ UpdateBegins(w) \/ WebUpdates(w) PROVE FeaturesInv'
  <2>0. writer[w].named \in BOOLEAN /\ writer \in [Writers -> WriterRecord]
    BY <1>0 DEF WriterRecord
  <2>a. ASSUME NEW pc \in {"check", "read", "date"}, NEW s \in FStatus,
               writer' = [writer EXCEPT ![w].pc = pc, ![w].to.status = s],
               FBegin, UNCHANGED <<row, legacy, entry, untold>>
        PROVE  FeaturesInv'
    <3>1. PICK n \in BOOLEAN : n = writer[w].named
      BY <2>0
    <3>2. writer' = [writer EXCEPT ![w].pc = pc, ![w].to.status = s, ![w].named = n]
      BY <2>0, <2>a, <3>1 DEF WriterRecord
    <3>. QED  BY <1>2, <2>a, <3>2
  <2>2. FBegin /\ UNCHANGED <<row, legacy, entry, untold>>
    BY <1>3 DEF AddBegins, UpdateBegins, WebUpdates
  <2>3. CASE WebUpdates(w)
    BY <1>2, <2>2, <2>3 DEF WebUpdates
  <2>4. CASE UpdateBegins(w)
    <3>1. PICK s \in FStatus : writer' = [writer EXCEPT ![w].pc = IF s = "done" /\ ~row.dated THEN "date" ELSE "read",
                                                       ![w].to.status = s]
      BY <2>4 DEF UpdateBegins
    <3> DEFINE pc == IF s = "done" /\ ~row.dated THEN "date" ELSE "read"
    <3>2. writer' = [writer EXCEPT ![w].pc = pc, ![w].to.status = s] /\ pc \in {"check", "read", "date"}
      BY <3>1
    <3> HIDE DEF pc
    <3>. QED  BY <2>2, <2>a, <3>2
  <2>5. CASE AddBegins(w)
    <3>1. PICK s \in FStatus :
             \/ writer' = [writer EXCEPT ![w].pc = "check", ![w].to.status = s]
             \/ \E n \in BOOLEAN :
                   writer' = [writer EXCEPT ![w].pc = "check", ![w].to.status = s, ![w].named = n]
      BY <2>5 DEF AddBegins
    <3>. QED  BY <1>2, <2>2, <2>a, <3>1
  <2>. QED  BY <1>3, <2>3, <2>4, <2>5
<1>4. ASSUME NEW w \in Writers, NEW pc \in {"upsert", "write"},
             writer' = [writer EXCEPT ![w].pc = pc, ![w].seen = row], writer[w].to \in Rows,
             UNCHANGED <<row, legacy, entry, untold, writes>>
      PROVE  FeaturesInv'
  <2> DEFINE r == [writer[w] EXCEPT !.pc = pc, !.seen = row]
  <2>1. writer' = [writer EXCEPT ![w] = r]
    BY <1>0, <1>4
  <2>2. r \in WriterRecord /\ r.to \in Rows
    BY <1>0, <1>4 DEF WriterRecord
  <2> HIDE DEF r
  <2>3. /\ writer' \in [Writers -> WriterRecord]
        /\ \A v \in Writers : writer'[v].pc \in {"date", "check", "read", "write", "upsert"} => writer'[v].to \in Rows
    BY <2>1, <2>2, WriterMoves
  <2>. QED  BY <1>4, <2>3 DEF FeaturesInv
<1>5. ASSUME NEW w \in Writers, UpsertReads(w) PROVE FeaturesInv'
  BY <1>4, <1>5 DEF UpsertReads, FeaturesInv
<1>6. ASSUME NEW w \in Writers, Leaves(w), UNCHANGED <<row, legacy, entry, untold, writes>> PROVE FeaturesInv'
  BY <1>6, Leaving DEF FeaturesInv
<1>7. ASSUME NEW w \in Writers, FieldReads(w) PROVE FeaturesInv'
  BY <1>4, <1>6, <1>7 DEF FieldReads, FeaturesInv
<1>8. ASSUME NEW w \in Writers, Upsert(w) PROVE FeaturesInv'
  <2> DEFINE old == writer[w].seen
             new == writer[w].to
             told == writer[w].named /\ old # NoRow /\ old.status # new.status
  <2>1. new \in Rows /\ old \in MaybeRow
    BY <1>0, <1>8 DEF Upsert, FeaturesInv
  <2>2. /\ row' = new /\ legacy' = legacy /\ writes' = writes
        /\ entry' = IF told THEN new.status ELSE entry
        /\ untold' = /\ ~told
                     /\ untold \/ ~writer[w].named \/ row # old \/ (row = NoRow /\ entry # "none")
        /\ Leaves(w)
    BY <1>8 DEF Upsert
  <2>3. row' \in MaybeRow /\ row' # NoRow /\ new.status \in FStatus
    BY <2>1, <2>2, RowFacts DEF MaybeRow
  <2>4. entry' \in FStatus \cup {"none"}
    BY <2>2, <2>3 DEF FeaturesInv
  <2>5. ASSUME ~untold' PROVE entry' \in {"none", new.status}
    <3>1. CASE told
      BY <2>2, <3>1
    <3>2. CASE ~told
      <4>1. ~untold /\ writer[w].named /\ row = old /\ entry' = entry /\ (row = NoRow => entry = "none")
        BY <2>2, <2>5, <3>2
      <4>2. row # NoRow => row.status = new.status
        BY <3>2, <4>1
      <4>. QED  BY <4>1, <4>2 DEF FeaturesInv
    <3>. QED  BY <3>1, <3>2
  <2>6. untold' \in BOOLEAN
    BY <2>2
  <2>. QED  BY <2>2, <2>3, <2>4, <2>5, <2>6, Leaving DEF FeaturesInv
<1>9. ASSUME NEW w \in Writers, Dates(w) PROVE FeaturesInv'
  <2> DEFINE r == [writer[w] EXCEPT !.pc = "read"]
  <2>1. writer' = [writer EXCEPT ![w] = r] /\ UNCHANGED <<legacy, entry, untold, writes>>
        /\ row' = (IF row = NoRow THEN row ELSE [row EXCEPT !.dated = TRUE])
    BY <1>0, <1>9 DEF Dates
  <2>2. writer[w].to \in Rows
    BY <1>9 DEF Dates, FeaturesInv
  <2>3. r \in WriterRecord /\ r.to \in Rows
    BY <1>0, <2>2 DEF WriterRecord
  <2> HIDE DEF r
  <2>4. /\ writer' \in [Writers -> WriterRecord]
        /\ \A v \in Writers : writer'[v].pc \in {"date", "check", "read", "write", "upsert"} => writer'[v].to \in Rows
    BY <2>1, <2>3, WriterMoves
  <2>5. CASE row = NoRow
    BY <2>1, <2>4, <2>5 DEF FeaturesInv
  <2>6. CASE row # NoRow
    <3>1. row \in Rows
      BY <1>0, <2>6, RowFacts
    <3>2. row' \in Rows /\ row'.status = row.status
      BY <2>1, <2>6, <3>1, RowFacts, StatusKept
    <3>3. row' # NoRow /\ row' \in MaybeRow
      BY <3>2, RowFacts DEF MaybeRow
    <3>. QED  BY <2>1, <2>4, <2>6, <3>2, <3>3 DEF FeaturesInv
  <2>. QED  BY <2>5, <2>6
<1>10. CASE WebEditsDate
  <2>1. UNCHANGED <<legacy, entry, writer, untold>> /\ FBegin /\ row # NoRow
        /\ row' = [row EXCEPT !.dated = ~row.dated]
    BY <1>10 DEF WebEditsDate
  <2>2. row \in Rows
    BY <1>0, <2>1, RowFacts
  <2>3. (~row.dated) \in BOOLEAN
    OBVIOUS
  <2>4. row' \in Rows /\ row'.status = row.status
    BY <2>1, <2>2, <2>3, RowFacts, StatusKept
  <2>5. row' # NoRow /\ row' \in MaybeRow
    BY <2>4, RowFacts DEF MaybeRow
  <2>. QED  BY <2>1, <2>4, <2>5, Beginning DEF FeaturesInv
<1>11. ASSUME NEW w \in Writers, FieldWrites(w) PROVE FeaturesInv'
  <2> DEFINE s == writer[w].to.status
  <2>1. /\ row' = (IF row = NoRow THEN row ELSE [row EXCEPT !.status = s])
        /\ entry' = (IF writer[w].named THEN s ELSE entry)
        /\ untold' = ~writer[w].named
        /\ Leaves(w) /\ UNCHANGED <<legacy, writes>>
    BY <1>11 DEF FieldWrites, Audited
  <2>2. writer[w].to \in Rows
    BY <1>11 DEF FieldWrites, FeaturesInv
  <2>3. s \in FStatus
    BY <2>2, RowFacts
  <2> HIDE DEF s
  <2>4. untold' \in BOOLEAN /\ entry' \in FStatus \cup {"none"} /\ (~untold' => entry' = s)
    BY <2>1, <2>3 DEF FeaturesInv
  <2>5. row' \in MaybeRow /\ (row' # NoRow => row'.status = s)
    <3>1. CASE row = NoRow
      BY <1>0, <2>1, <3>1
    <3>2. CASE row # NoRow
      BY <1>0, <2>1, <2>3, <3>2, RowFacts, StatusWritten DEF MaybeRow
    <3>. QED  BY <3>1, <3>2
  <2>. QED  BY <2>1, <2>4, <2>5, Leaving DEF FeaturesInv
<1>12. ASSUME NEW w \in Writers, WriterDies(w) PROVE FeaturesInv'
  BY <1>6, <1>12 DEF WriterDies
<1>13. ASSUME NEW w \in Writers, SanitizeReads(w) PROVE FeaturesInv'
  <2> DEFINE r == [Away EXCEPT !.pc = "merge", !.seen = row, !.to = legacy]
  <2>1. writer' = [writer EXCEPT ![w] = r] /\ FBegin /\ UNCHANGED <<row, legacy, entry, untold>>
    BY <1>13 DEF SanitizeReads
  <2>2. r \in WriterRecord /\ r.pc = "merge"
    BY <1>0, AwayTyped DEF WriterRecord
  <2> HIDE DEF r
  <2>3. /\ writer' \in [Writers -> WriterRecord]
        /\ \A v \in Writers : writer'[v].pc \in {"date", "check", "read", "write", "upsert"} => writer'[v].to \in Rows
    BY <2>1, <2>2, WriterMoves
  <2>. QED  BY <2>1, <2>3, Beginning DEF FeaturesInv
<1>14. ASSUME NEW k \in MaybeRow, NEW a \in Rows, NEW b \in Rows
       PROVE  /\ MergedInto(k, a, b) \in MaybeRow
              /\ k = NoRow => MergedInto(k, a, b) = NoRow
              /\ k # NoRow => /\ MergedInto(k, a, b) # NoRow /\ MergedInto(k, a, b).status = k.status
  <2>1. CASE k = NoRow
    BY <2>1 DEF MergedInto
  <2>2. CASE k # NoRow
    <3> DEFINE dd == k.dated \/ (b.dated /\ ~a.dated)
    <3>1. k \in Rows /\ dd \in BOOLEAN
      BY <2>2, RowFacts
    <3>2. MergedInto(k, a, b) = [k EXCEPT !.dated = dd]
      BY <2>2 DEF MergedInto
    <3> HIDE DEF dd
    <3>3. MergedInto(k, a, b) \in Rows /\ MergedInto(k, a, b).status = k.status
      BY <3>1, <3>2, RowFacts, StatusKept
    <3>. QED  BY <2>2, <3>3, RowFacts DEF MaybeRow
  <2>. QED  BY <2>1, <2>2
<1>15. ASSUME NEW w \in Writers, Merges(w) PROVE FeaturesInv'
  <2> DEFINE mine == writer[w].seen
             other == writer[w].to
             r == [writer[w] EXCEPT !.pc = "rename"]
  <2>1. writer' = [writer EXCEPT ![w] = r] /\ writes' = writes
    BY <1>0, <1>15 DEF Merges
  <2>2. r \in WriterRecord /\ r.pc = "rename"
    BY <1>0 DEF WriterRecord
  <2>3. \/ /\ mine # NoRow /\ other # NoRow
           /\ row' = MergedInto(row, mine, other) /\ legacy' = NoRow
        \/ /\ mine # NoRow /\ other # NoRow
           /\ legacy' = MergedInto(legacy, other, mine) /\ row' = NoRow
        \/ UNCHANGED <<row, legacy>>
    BY <1>15 DEF Merges
  <2>0. UNCHANGED <<entry, untold>>
    BY <1>15 DEF Merges
  <2>4. mine \in MaybeRow /\ other \in MaybeRow /\ NoRow \in MaybeRow
    BY <1>0 DEF MaybeRow
  <2> HIDE DEF mine, other, r
  <2>5. /\ writer' \in [Writers -> WriterRecord]
        /\ \A v \in Writers : writer'[v].pc \in {"date", "check", "read", "write", "upsert"} => writer'[v].to \in Rows
    BY <2>1, <2>2, WriterMoves
  <2>6. CASE /\ mine # NoRow /\ other # NoRow
             /\ row' = MergedInto(row, mine, other) /\ legacy' = NoRow
    <3>1. mine \in Rows /\ other \in Rows
      BY <2>4, <2>6, RowFacts
    <3>2. row' \in MaybeRow /\ (row = NoRow => row' = NoRow)
          /\ (row # NoRow => row' # NoRow /\ row'.status = row.status)
      BY <1>0, <1>14, <2>6, <3>1
    <3>. QED  BY <2>0, <2>1, <2>4, <2>5, <2>6, <3>2 DEF FeaturesInv
  <2>7. CASE /\ mine # NoRow /\ other # NoRow
             /\ legacy' = MergedInto(legacy, other, mine) /\ row' = NoRow
    <3>1. mine \in Rows /\ other \in Rows
      BY <2>4, <2>7, RowFacts
    <3>2. legacy' \in MaybeRow
      BY <1>0, <1>14, <2>7, <3>1
    <3>. QED  BY <2>0, <2>1, <2>4, <2>5, <2>7, <3>2 DEF FeaturesInv
  <2>8. CASE UNCHANGED <<row, legacy>>
    BY <2>0, <2>1, <2>5, <2>8 DEF FeaturesInv
  <2>. QED  BY <2>3, <2>6, <2>7, <2>8
<1>16. ASSUME NEW w \in Writers, Renames(w) PROVE FeaturesInv'
  <2>1. /\ Leaves(w) /\ UNCHANGED <<entry, writes>> /\ NoRow \in MaybeRow
        /\ \/ row' = legacy /\ legacy' = NoRow /\ untold' = TRUE
           \/ UNCHANGED <<row, legacy, untold>>
    BY <1>16 DEF Renames, MaybeRow
  <2>2. untold' \in BOOLEAN /\ row' \in MaybeRow /\ legacy' \in MaybeRow
    BY <1>0, <2>1 DEF FeaturesInv
  <2>3. row' # NoRow /\ ~untold' => entry' \in {"none", row'.status}
    BY <2>1 DEF FeaturesInv
  <2>. QED  BY <2>1, <2>2, <2>3, Leaving DEF FeaturesInv
<1>17. CASE Delete
  <2>1. NoRow \in MaybeRow
    BY DEF MaybeRow
  <2>. QED  BY <1>17, <2>1, Beginning DEF Delete, FeaturesInv
<1>. QED  BY <1>1, <1>3, <1>5, <1>7, <1>8, <1>9, <1>10, <1>11, <1>12, <1>13, <1>15, <1>16, <1>17 DEF FNext

(* The types of HarnessFeatures: what is written is always a row. *)
THEOREM FeaturesTyped == FSpec => []FTypeOK
<1>1. FeaturesInv => FTypeOK
  BY DEF FeaturesInv, FTypeOK, MaybeRow, WriterRecord
<1>. QED  BY <1>1, FeaturesInit, FeaturesStep, PTL DEF FSpec

(* Although writers compare with a row they read before their transaction, and a row may be
   deleted, made anew, merged and renamed in between, the last entry leads to the present
   status, unless a write that no entry tells of came after it. *)
THEOREM AuditTrailFollows == FSpec => []AuditTrailIsCurrent
<1>1. FeaturesInv => AuditTrailIsCurrent
  BY DEF FeaturesInv, AuditTrailIsCurrent
<1>. QED  BY <1>1, FeaturesInit, FeaturesStep, PTL DEF FSpec
=============================================================================
