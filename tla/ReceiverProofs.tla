--------------------------- MODULE ReceiverProofs ---------------------------
(***************************************************************************)
(* Proof that a receiver accepts the checksums of a packet that was cut,   *)
(* whatever its bytes are and however many (Checksum.tla).                 *)
(*                                                                         *)
(* Sums and RouteEnd are recursive functions.  That they are what their    *)
(* definitions say is shown by induction, in the form that a set of        *)
(* numbers, were it not empty, would have a least one: SumsStep and        *)
(* RouteEndStep.  From SumsStep follows how sums of words are put          *)
(* together (WeighedConcat, FieldCounts), and from RouteEndStep where the  *)
(* way of ipv4_pseudo_dst through the options ends (FoundStep).            *)
(*                                                                         *)
(* The invariant relates what has been added, and the ranges yet to be     *)
(* added, to the words that the checksum covers (Adding).  FoldingKeeps    *)
(* does the rest: with the checksum in place these words sum up to zero.   *)
(***************************************************************************)
EXTENDS ChecksumProofs, WellFoundedInduction

-----------------------------------------------------------------------------
(* Induction, by the least element of a set of numbers.                    *)

LEMMA Less == OpToRel(<, Nat) = {ss \in Nat \X Nat : ss[1] < ss[2]}
BY DEF OpToRel

LEMMA Least ==
    ASSUME NEW T, T \subseteq Nat, T # {}
    PROVE  \E x \in T : \A y \in T : x <= y
<1> DEFINE R == {ss \in Nat \X Nat : ss[1] < ss[2]}
<1>1. IsWellFoundedOn(R, Nat)
  BY NatLessThanWellFounded, Less
<1> HIDE DEF R
<1>2. \E x \in T : \A y \in T : ~(<<y, x>> \in R)
  BY <1>1, WFMin
<1>3. ASSUME NEW x \in T, NEW y \in T, ~(<<y, x>> \in R) PROVE x <= y
  <2>1. x \in Nat /\ y \in Nat
    OBVIOUS
  <2>2. ~(y < x)
    BY <1>3, <2>1 DEF R
  <2> QED
    BY <2>1, <2>2
<1> QED
  BY <1>2, <1>3

\* What holds of 0, and of a number if it holds of the one before, holds of
\* all: T is where it does not.
LEMMA NoneFails ==
    ASSUME NEW T, T \subseteq Nat, 0 \notin T,
           \A m \in T : m - 1 \in Nat => m - 1 \in T
    PROVE  T = {}
<1> SUFFICES ASSUME T # {} PROVE FALSE
  OBVIOUS
<1>1. PICK m \in T : \A y \in T : m <= y
  BY Least
<1>2. m \in Nat /\ m - 1 \in Nat /\ ~(m <= m - 1)
  OBVIOUS
<1> QED
  BY <1>1, <1>2

-----------------------------------------------------------------------------
(* The sum of the words of a sequence.                                     *)

LEMMA WeightType ==
    ASSUME NEW b \in Seq(Byte), NEW k \in 1..Len(b)
    PROVE  Weight(b, k) \in Nat
<1>1. b[k] \in Nat
  BY ByteNat
<1> QED
  BY <1>1 DEF Weight

\* The sums of the first bytes, up to n of them.
AddsUp(f, b, n) ==
    f = [k \in 0..n |-> IF k = 0 THEN 0 ELSE f[k - 1] + Weight(b, k)]

LEMMA SumsExist ==
    ASSUME NEW b \in Seq(Byte), NEW n \in 0..Len(b)
    PROVE  \E f \in [0..n -> Nat] : AddsUp(f, b, n)
<1> DEFINE Has(m) == \E f \in [0..m -> Nat] : AddsUp(f, b, m)
           T == {m \in Nat : m <= Len(b) /\ ~Has(m)}
<1>0. Len(b) \in Nat
  OBVIOUS
<1>1. Has(0)
  <2> DEFINE f == [k \in 0..0 |-> 0]
  <2>1. f \in [0..0 -> Nat] /\ \A k \in 0..0 : k = 0
    OBVIOUS
  <2>2. AddsUp(f, b, 0)
    BY <2>1 DEF AddsUp
  <2> QED
    BY <2>1, <2>2
<1>2. ASSUME NEW m \in Nat, m + 1 <= Len(b), Has(m) PROVE Has(m + 1)
  <2>1. PICK f \in [0..m -> Nat] : AddsUp(f, b, m)
    BY <1>2
  <2> DEFINE last == f[m] + Weight(b, m + 1)
             g == [k \in 0..(m + 1) |-> IF k <= m THEN f[k] ELSE last]
  <2>2. last \in Nat
    <3>1. m + 1 \in 1..Len(b) /\ f[m] \in Nat
      BY <1>0, <1>2
    <3> QED
      BY <3>1, WeightType
  <2> HIDE DEF last
  <2>3. g \in [0..(m + 1) -> Nat]
    BY <2>2
  <2>4. ASSUME NEW k \in 0..(m + 1)
        PROVE  g[k] = IF k = 0 THEN 0 ELSE g[k - 1] + Weight(b, k)
    <3>1. CASE k <= m
      <4>1. k \in 0..m /\ (k # 0 => k - 1 \in 0..(m + 1) /\ k - 1 <= m)
        BY <3>1
      <4>2. g[k] = f[k] /\ (k # 0 => g[k - 1] = f[k - 1])
        BY <3>1, <4>1
      <4>3. f[k] = IF k = 0 THEN 0 ELSE f[k - 1] + Weight(b, k)
        BY <2>1, <4>1 DEF AddsUp
      <4> QED
        BY <4>2, <4>3
    <3>2. CASE ~(k <= m)
      <4>1. k = m + 1 /\ k # 0 /\ k - 1 = m /\ m \in 0..(m + 1) /\ m <= m
        BY <3>2
      <4>2. g[k] = last /\ g[k - 1] = f[m]
        BY <3>2, <4>1
      <4> QED
        BY <4>1, <4>2 DEF last
    <3> QED
      BY <3>1, <3>2
  <2>5. AddsUp(g, b, m + 1)
    <3> HIDE DEF g
    <3>1. DOMAIN g = 0..(m + 1) /\ g = [k \in DOMAIN g |-> g[k]]
      BY <2>3
    <3> QED
      BY <2>4, <3>1 DEF AddsUp
  <2> QED
    BY <2>3, <2>5
<1> HIDE DEF Has
<1>3. 0 \notin T
  BY <1>1
<1>4. \A m \in T : m - 1 \in Nat => m - 1 \in T
  <2> SUFFICES ASSUME NEW m \in T, m - 1 \in Nat PROVE m - 1 \in T
    OBVIOUS
  <2>1. m \in Nat /\ m <= Len(b) /\ ~Has(m) /\ (m - 1) + 1 = m /\ m - 1 <= Len(b)
    BY <1>0
  <2>2. ~Has(m - 1)
    BY <1>2, <2>1
  <2> QED
    BY <2>1, <2>2
<1>5. T = {}
  <2>1. T \subseteq Nat
    OBVIOUS
  <2> HIDE DEF T
  <2> QED
    BY <1>3, <1>4, <2>1, NoneFails
<1>6. n \in Nat /\ n <= Len(b) /\ n \notin T
  BY <1>0, <1>5
<1> QED
  BY <1>6 DEF Has

LEMMA SumsStep ==
    ASSUME NEW b \in Seq(Byte)
    PROVE  /\ Sums(b) \in [0..Len(b) -> Nat]
           /\ Sums(b)[0] = 0
           /\ \A k \in 1..Len(b) : Sums(b)[k] = Sums(b)[k - 1] + Weight(b, k)
<1>0. Len(b) \in Nat /\ Len(b) \in 0..Len(b)
  OBVIOUS
<1>1. PICK f \in [0..Len(b) -> Nat] : AddsUp(f, b, Len(b))
  BY <1>0, SumsExist
<1> DEFINE s == Sums(b)
<1>2. s = [k \in 0..Len(b) |-> IF k = 0 THEN 0 ELSE s[k - 1] + Weight(b, k)]
  BY <1>1 DEF Sums, AddsUp
<1> HIDE DEF s
<1>3. /\ DOMAIN s = 0..Len(b) /\ s = [k \in DOMAIN s |-> s[k]]
      /\ \A k \in 0..Len(b) : s[k] = IF k = 0 THEN 0 ELSE s[k - 1] + Weight(b, k)
  BY <1>2
<1>4. s[0] = 0 /\ \A k \in 1..Len(b) : s[k] = s[k - 1] + Weight(b, k)
  <2>1. 0 \in 0..Len(b) /\ \A k \in 1..Len(b) : k \in 0..Len(b) /\ k # 0
    BY <1>0
  <2> QED
    BY <1>3, <2>1
<1>5. \A k \in 0..Len(b) : s[k] \in Nat
  <2> DEFINE T == {m \in Nat : m <= Len(b) /\ s[m] \notin Nat}
  <2>1. 0 \notin T
    BY <1>4
  <2>2. \A m \in T : m - 1 \in Nat => m - 1 \in T
    <3> SUFFICES ASSUME NEW m \in T, m - 1 \in Nat PROVE m - 1 \in T
      OBVIOUS
    <3>1. m \in Nat /\ m <= Len(b) /\ s[m] \notin Nat /\ m \in 1..Len(b) /\ m - 1 <= Len(b)
      BY <1>0
    <3>2. s[m] = s[m - 1] + Weight(b, m) /\ Weight(b, m) \in Nat
      BY <1>4, <3>1, WeightType
    <3>3. s[m - 1] \notin Nat
      BY <3>1, <3>2
    <3> QED
      BY <3>1, <3>3
  <2>3. T = {}
    <3>1. T \subseteq Nat
      OBVIOUS
    <3> HIDE DEF T
    <3> QED
      BY <2>1, <2>2, <3>1, NoneFails
  <2>4. \A k \in 0..Len(b) : k \in Nat /\ k <= Len(b)
    BY <1>0
  <2> QED
    BY <2>3, <2>4
<1> QED
  BY <1>3, <1>4, <1>5 DEF s

LEMMA WeighedType ==
    ASSUME NEW b \in Seq(Byte)
    PROVE  Weighed(b) \in Nat
<1>1. Len(b) \in 0..Len(b)
  OBVIOUS
<1> QED
  BY <1>1, SumsStep DEF Weighed

\* What grows alike stays as far apart as it was.
LEMMA Alike ==
    ASSUME NEW n \in Nat, NEW f \in [0..n -> Nat], NEW g \in [0..n -> Nat],
           \A k \in 1..n : f[k] - f[k - 1] = g[k] - g[k - 1]
    PROVE  f[n] - g[n] = f[0] - g[0]
<1> DEFINE T == {m \in Nat : m <= n /\ f[m] - g[m] # f[0] - g[0]}
<1>1. 0 \notin T
  OBVIOUS
<1>2. \A m \in T : m - 1 \in Nat => m - 1 \in T
  <2> SUFFICES ASSUME NEW m \in T, m - 1 \in Nat PROVE m - 1 \in T
    OBVIOUS
  <2>1. m \in Nat /\ m <= n /\ f[m] - g[m] # f[0] - g[0] /\ m \in 1..n /\ m - 1 <= n
    OBVIOUS
  <2>2. /\ m \in 0..n /\ m - 1 \in 0..n
        /\ f[m] \in Nat /\ g[m] \in Nat /\ f[m - 1] \in Nat /\ g[m - 1] \in Nat
    BY <2>1
  <2>3. f[m] - f[m - 1] = g[m] - g[m - 1]
    BY <2>1
  <2>4. f[m - 1] - g[m - 1] # f[0] - g[0]
    <3> DEFINE u == f[m]
               v == g[m]
               x == f[m - 1]
               y == g[m - 1]
    <3>2. u \in Nat /\ v \in Nat /\ x \in Nat /\ y \in Nat /\ u - x = v - y
      BY <2>2, <2>3
    <3> HIDE DEF u, v, x, y
    <3>3. u - v = x - y
      BY ONLY <3>2
    <3>1. f[m] - g[m] = f[m - 1] - g[m - 1]
      BY <3>3 DEF u, v, x, y
    <3> QED
      BY <2>1, <3>1
  <2> QED
    BY <2>1, <2>4
<1>3. T = {}
  <2>1. T \subseteq Nat
    OBVIOUS
  <2> HIDE DEF T
  <2> QED
    BY <1>1, <1>2, <2>1, NoneFails
<1>4. n \notin T
  BY <1>3
<1> QED
  BY <1>4

LEMMA EvenShift ==
    ASSUME NEW l \in Nat, NEW k \in Nat, l % 2 = 0
    PROVE  (l + k) % 2 = k % 2
OBVIOUS

\* Words that follow one another may be added one after the other, if the
\* first ones are whole.
LEMMA WeighedConcat ==
    ASSUME NEW a \in Seq(Byte), NEW b \in Seq(Byte), Len(a) % 2 = 0
    PROVE  /\ a \o b \in Seq(Byte)
           /\ Len(a \o b) = Len(a) + Len(b)
           /\ Weighed(a \o b) = Weighed(a) + Weighed(b)
<1> DEFINE c == a \o b
           la == Len(a)
           lb == Len(b)
           s == Sums(c)
<1>1. /\ c \in Seq(Byte) /\ la \in Nat /\ lb \in Nat /\ Len(c) = la + lb
      /\ \A k \in 1..la : c[k] = a[k]
      /\ \A k \in 1..lb : c[la + k] = b[k]
  OBVIOUS
<1>2. /\ s \in [0..(la + lb) -> Nat] /\ s[0] = 0
      /\ \A k \in 1..(la + lb) : s[k] = s[k - 1] + Weight(c, k)
  BY <1>1, SumsStep
<1>3. /\ Sums(a) \in [0..la -> Nat] /\ Sums(a)[0] = 0
      /\ \A k \in 1..la : Sums(a)[k] = Sums(a)[k - 1] + Weight(a, k)
      /\ Sums(b) \in [0..lb -> Nat] /\ Sums(b)[0] = 0
      /\ \A k \in 1..lb : Sums(b)[k] = Sums(b)[k - 1] + Weight(b, k)
  BY SumsStep
<1>4. /\ \A k \in 1..la : Weight(c, k) = Weight(a, k) /\ Weight(a, k) \in Nat
      /\ \A k \in 1..lb : Weight(c, la + k) = Weight(b, k) /\ Weight(b, k) \in Nat
  <2>1. \A k \in 1..la : Weight(c, k) = Weight(a, k)
    BY <1>1 DEF Weight
  <2>2. la % 2 = 0
    OBVIOUS
  <2> HIDE DEF c, la, lb
  <2>3. ASSUME NEW k \in 1..lb PROVE Weight(c, la + k) = Weight(b, k)
    <3>1. k \in Nat /\ la \in Nat /\ c[la + k] = b[k]
      BY <1>1
    <3>2. (la + k) % 2 = k % 2
      BY <2>2, <3>1, EvenShift
    <3> QED
      BY <3>1, <3>2 DEF Weight
  <2> QED
    BY <2>1, <2>3, WeightType DEF la, lb
<1> HIDE DEF c, la, lb, s
<1>5. s[la] = Sums(a)[la]
  <2> DEFINE f == [k \in 0..la |-> s[k]]
             g == Sums(a)
  <2>1. f \in [0..la -> Nat] /\ \A k \in 0..la : f[k] = s[k]
    BY <1>1, <1>2
  <2>2. \A k \in 1..la : f[k] - f[k - 1] = g[k] - g[k - 1]
    <3> SUFFICES ASSUME NEW k \in 1..la PROVE f[k] - f[k - 1] = g[k] - g[k - 1]
      OBVIOUS
    <3>1. k \in 0..la /\ k - 1 \in 0..la /\ k \in 1..(la + lb)
      BY <1>1
    <3>2. /\ f[k] = s[k] /\ f[k - 1] = s[k - 1] /\ s[k - 1] \in Nat /\ g[k - 1] \in Nat
          /\ s[k] = s[k - 1] + Weight(a, k) /\ g[k] = g[k - 1] + Weight(a, k)
          /\ Weight(a, k) \in Nat
      BY <1>2, <1>3, <1>4, <2>1, <3>1
    <3> HIDE DEF f, g
    <3> QED
      BY <3>2
  <2>3. f[0] = 0 /\ g[0] = 0 /\ f[la] = s[la] /\ f[la] \in Nat /\ g[la] \in Nat
    BY <1>1, <1>2, <1>3, <2>1
  <2> HIDE DEF f
  <2>4. f[la] - g[la] = f[0] - g[0]
    BY <1>1, <1>3, <2>1, <2>2, Alike
  <2> HIDE DEF g
  <2>5. f[la] = g[la]
    BY <2>3, <2>4
  <2> QED
    BY <2>3, <2>5 DEF g
<1>6. s[la + lb] - Sums(b)[lb] = s[la]
  <2> DEFINE f == [k \in 0..lb |-> s[la + k]]
             g == Sums(b)
  <2>1. f \in [0..lb -> Nat] /\ \A k \in 0..lb : f[k] = s[la + k]
    BY <1>1, <1>2
  <2>2. \A k \in 1..lb : f[k] - f[k - 1] = g[k] - g[k - 1]
    <3> SUFFICES ASSUME NEW k \in 1..lb PROVE f[k] - f[k - 1] = g[k] - g[k - 1]
      OBVIOUS
    <3>1. /\ k \in 0..lb /\ k - 1 \in 0..lb /\ la + k \in 1..(la + lb)
          /\ la + (k - 1) = (la + k) - 1 /\ la + (k - 1) \in 0..(la + lb)
      BY <1>1
    <3>2. /\ f[k] = s[la + k] /\ f[k - 1] = s[(la + k) - 1] /\ s[la + (k - 1)] \in Nat
          /\ g[k - 1] \in Nat
          /\ s[la + k] = s[(la + k) - 1] + Weight(b, k) /\ g[k] = g[k - 1] + Weight(b, k)
          /\ Weight(b, k) \in Nat
      BY <1>2, <1>3, <1>4, <2>1, <3>1
    <3> DEFINE prev == la + (k - 1)
    <3>3. /\ f[k] = s[la + k] /\ f[k - 1] = s[prev] /\ s[prev] \in Nat /\ g[k - 1] \in Nat
          /\ s[la + k] = s[prev] + Weight(b, k) /\ g[k] = g[k - 1] + Weight(b, k)
          /\ Weight(b, k) \in Nat
      BY <3>1, <3>2
    <3> HIDE DEF f, g, prev
    <3> QED
      BY <3>3
  <2>3. /\ f[0] = s[la] /\ g[0] = 0 /\ f[lb] = s[la + lb] /\ s[la] \in Nat /\ f[lb] \in Nat
        /\ g[lb] \in Nat
    <3>1. 0 \in 0..lb /\ lb \in 0..lb /\ la + 0 = la /\ la \in 0..(la + lb)
      BY <1>1
    <3> QED
      BY <1>2, <1>3, <2>1, <3>1
  <2> HIDE DEF f
  <2>4. f[lb] - g[lb] = f[0] - g[0]
    BY <1>1, <1>3, <2>1, <2>2, Alike
  <2> HIDE DEF g
  <2>5. f[lb] - g[lb] = f[0]
    BY <2>3, <2>4
  <2> QED
    BY <2>3, <2>5 DEF g
<1>7. /\ s[la + lb] = Weighed(c) /\ Sums(a)[la] = Weighed(a) /\ Sums(b)[lb] = Weighed(b)
      /\ Weighed(a) \in Nat /\ Weighed(b) \in Nat /\ Weighed(c) \in Nat
  BY <1>1, WeighedType DEF Weighed, s, la, lb
<1>8. Weighed(c) = Weighed(a) + Weighed(b)
  BY <1>5, <1>6, <1>7
<1> QED
  BY <1>1, <1>8 DEF c, la, lb

\* Two bytes are one word.
LEMMA WeighedPair ==
    ASSUME NEW x \in Byte, NEW y \in Byte
    PROVE  Weighed(<<x, y>>) = 256 * x + y
<1> DEFINE b == <<x, y>>
           s == Sums(b)
<1>1. b \in Seq(Byte) /\ Len(b) = 2 /\ b[1] = x /\ b[2] = y /\ x \in Nat /\ y \in Nat
  BY ByteNat
<1>2. s[0] = 0 /\ \A k \in 1..2 : s[k] = s[k - 1] + Weight(b, k)
  BY <1>1, SumsStep
<1>3. Weight(b, 1) = 256 * x /\ Weight(b, 2) = y
  BY <1>1 DEF Weight
<1> HIDE DEF s, b
<1>4. s[1] = 256 * x
  <2>1. s[1] = s[0] + Weight(b, 1)
    BY <1>2
  <2> QED
    BY <1>1, <1>2, <1>3, <2>1
<1>5. s[2] = s[1] + Weight(b, 2)
  BY <1>2
<1>6. Weighed(b) = s[2]
  BY <1>1 DEF Weighed, s
<1> QED
  BY <1>1, <1>3, <1>4, <1>5, <1>6 DEF b

-----------------------------------------------------------------------------
(* Ranges of the packet, and the fields in them.                           *)

LEMMA SliceShape ==
    ASSUME NEW n \in Nat, NEW b \in [0..(n - 1) -> Byte],
           NEW from \in Nat, NEW to \in Nat, from <= to, to <= n
    PROVE  /\ Slice(b, from, to) \in Seq(Byte)
           /\ Len(Slice(b, from, to)) = to - from
           /\ \A k \in 1..(to - from) : Slice(b, from, to)[k] = b[from + k - 1]
<1>1. Slice(b, from, to) \in Seq(Byte)
  BY SliceType
<1>2. to - from \in Nat
  OBVIOUS
<1> QED
  BY <1>1, <1>2 DEF Slice

LEMMA SliceLen ==
    ASSUME NEW b, NEW from \in Nat, NEW to \in Nat, from <= to
    PROVE  Len(Slice(b, from, to)) = to - from
<1>1. to - from \in Nat
  OBVIOUS
<1> QED
  BY <1>1 DEF Slice

LEMMA SliceSame ==
    ASSUME NEW b, NEW c, NEW from \in Nat, NEW to \in Nat,
           \A k \in Nat : from <= k /\ k < to => b[k] = c[k]
    PROVE  Slice(b, from, to) = Slice(c, from, to)
<1>1. ASSUME NEW k \in 1..(to - from) PROVE b[from + k - 1] = c[from + k - 1]
  <2>1. from + k - 1 \in Nat /\ from <= from + k - 1 /\ from + k - 1 < to
    OBVIOUS
  <2> QED
    BY <2>1
<1> QED
  BY <1>1 DEF Slice

LEMMA Elementwise ==
    ASSUME NEW a \in Seq(Byte), NEW b \in Seq(Byte), NEW n, Len(a) = Len(b), n = Len(b),
           \A k \in 1..n : a[k] = b[k]
    PROVE  b = a
OBVIOUS

LEMMA ConcatSecond ==
    ASSUME NEW a \in Seq(Byte), NEW b \in Seq(Byte), NEW k \in Nat,
           ~(k <= Len(a)), k <= Len(a) + Len(b)
    PROVE  (a \o b)[k] = b[k - Len(a)]
<1>1. Len(a) \in Nat /\ Len(b) \in Nat
  OBVIOUS
<1>2. k \in 1..(Len(a) + Len(b))
  BY <1>1
<1> QED
  BY <1>1, <1>2

LEMMA SliceConcat ==
    ASSUME NEW n \in Nat, NEW b \in [0..(n - 1) -> Byte],
           NEW from \in Nat, NEW mid \in Nat, NEW to \in Nat,
           from <= mid, mid <= to, to <= n
    PROVE  Slice(b, from, to) = Slice(b, from, mid) \o Slice(b, mid, to)
<1>0. mid <= n /\ from <= to
  OBVIOUS
<1> DEFINE one == Slice(b, from, mid)
           two == Slice(b, mid, to)
           whole == Slice(b, from, to)
<1>t. one \in Seq(Byte) /\ two \in Seq(Byte) /\ whole \in Seq(Byte)
  BY <1>0, SliceType
<1>l. Len(one) = mid - from /\ Len(two) = to - mid /\ Len(whole) = to - from
  BY <1>0, SliceLen
<1>1. \A k \in 1..(mid - from) : one[k] = b[from + k - 1]
  BY DEF Slice
<1>2. \A k \in 1..(to - mid) : two[k] = b[mid + k - 1]
  BY DEF Slice
<1>3. \A k \in 1..(to - from) : whole[k] = b[from + k - 1]
  BY DEF Slice
<1> HIDE DEF one, two, whole
<1>4. one \o two \in Seq(Byte) /\ Len(one \o two) = Len(whole)
  <2>1. one \o two \in Seq(Byte) /\ Len(one \o two) = Len(one) + Len(two)
    BY <1>t
  <2>2. (mid - from) + (to - mid) = to - from
    OBVIOUS
  <2> QED
    BY <1>l, <2>1, <2>2
<1>5. ASSUME NEW k \in 1..(to - from) PROVE (one \o two)[k] = whole[k]
  <2>1. CASE k <= mid - from
    <3>1. k \in 1..(mid - from)
      BY <2>1
    <3>2. (one \o two)[k] = one[k]
      BY <1>t, <1>l, <3>1
    <3> QED
      BY <1>1, <1>3, <3>1, <3>2
  <2>2. CASE ~(k <= mid - from)
    <3>1. k \in Nat /\ k - (mid - from) \in 1..(to - mid) /\ k <= (mid - from) + (to - mid)
      BY <2>2
    <3>2. (one \o two)[k] = two[k - (mid - from)]
      <4>1. k \in Nat /\ ~(k <= Len(one)) /\ k <= Len(one) + Len(two)
        BY <1>l, <2>2, <3>1
      <4>2. (one \o two)[k] = two[k - Len(one)]
        BY <1>t, <4>1, ConcatSecond
      <4> QED
        BY <1>l, <4>2
    <3>3. mid + (k - (mid - from)) - 1 = from + k - 1
      OBVIOUS
    <3> QED
      BY <1>2, <1>3, <3>1, <3>2, <3>3
  <2> QED
    BY <2>1, <2>2
<1>6. whole = one \o two
  BY <1>t, <1>l, <1>4, <1>5, Elementwise
<1> QED
  BY <1>6 DEF one, two, whole

LEMMA SliceSplit ==
    ASSUME NEW n \in Nat, NEW b \in [0..(n - 1) -> Byte],
           NEW from \in Nat, NEW mid \in Nat, NEW to \in Nat,
           from <= mid, mid <= to, to <= n, (mid - from) % 2 = 0
    PROVE  Weighed(Slice(b, from, to)) = Weighed(Slice(b, from, mid)) + Weighed(Slice(b, mid, to))
<1>1. Slice(b, from, mid) \in Seq(Byte) /\ Slice(b, mid, to) \in Seq(Byte)
  BY SliceType
<1>2. Len(Slice(b, from, mid)) % 2 = 0
  BY SliceLen
<1>3. Slice(b, from, to) = Slice(b, from, mid) \o Slice(b, mid, to)
  BY SliceConcat
<1> DEFINE one == Slice(b, from, mid)
           two == Slice(b, mid, to)
<1> HIDE DEF one, two
<1>4. one \in Seq(Byte) /\ two \in Seq(Byte) /\ Len(one) % 2 = 0
  BY <1>1, <1>2 DEF one, two
<1>5. Weighed(one \o two) = Weighed(one) + Weighed(two)
  BY ONLY <1>4, WeighedConcat
<1> QED
  BY <1>3, <1>5 DEF one, two

\* A number of 16 bits is in the two bytes at a place.
NumberAt(b, at, v) == b[at] = Hi(v) /\ b[at + 1] = Lo(v)

LEMMA Zero == Hi(0) = 0 /\ Lo(0) = 0
BY DEF Hi, Lo

LEMMA Sixteen ==
    ASSUME NEW v \in Nat, v < 65536
    PROVE  256 * Hi(v) + Lo(v) = v
BY DEF Hi, Lo

LEMMA WeighedNumber ==
    ASSUME NEW n \in Nat, NEW b \in [0..(n - 1) -> Byte], NEW at \in Nat, at + 2 <= n,
           NEW v \in Nat, v < 65536, NumberAt(b, at, v)
    PROVE  Weighed(Slice(b, at, at + 2)) = v
<1>1. Slice(b, at, at + 2) = <<b[at], b[at + 1]>>
  <2>1. at + 1 - 1 = at /\ at + 2 - 1 = at + 1 /\ at + 2 - at = 2
    OBVIOUS
  <2>2. \A k \in 1..2 : k = 1 \/ k = 2
    OBVIOUS
  <2> QED
    BY <2>1, <2>2 DEF Slice
<1>2. b[at] \in Byte /\ b[at + 1] \in Byte
  BY Bytes DEF NumberAt
<1> QED
  BY <1>1, <1>2, WeighedPair, Sixteen DEF NumberAt

\* A field that was zero adds its value to the sum of the range around it.
LEMMA FieldCounts ==
    ASSUME NEW n \in Nat, NEW b \in [0..(n - 1) -> Byte],
           NEW from \in Nat, NEW at \in Nat, NEW to \in Nat,
           from <= at, at + 2 <= to, to <= n, (at - from) % 2 = 0,
           NumberAt(b, at, 0), NEW v \in Nat, v < 65536
    PROVE  Weighed(Slice(Patch(b, at, v), from, to)) = Weighed(Slice(b, from, to)) + v
<1> DEFINE c == Patch(b, at, v)
<1>1. /\ c \in [0..(n - 1) -> Byte] /\ NumberAt(c, at, v)
      /\ \A k \in Nat : k < n /\ k # at /\ k # at + 1 => c[k] = b[k]
  <2>1. n \in Int /\ at + 1 < n
    OBVIOUS
  <2> QED
    BY <2>1, PatchType DEF NumberAt
<1> HIDE DEF c
<1>2. \A d \in [0..(n - 1) -> Byte] :
         Weighed(Slice(d, from, to))
            = Weighed(Slice(d, from, at))
                 + (Weighed(Slice(d, at, at + 2)) + Weighed(Slice(d, at + 2, to)))
  <2> SUFFICES ASSUME NEW d \in [0..(n - 1) -> Byte]
               PROVE  Weighed(Slice(d, from, to))
                         = Weighed(Slice(d, from, at))
                              + (Weighed(Slice(d, at, at + 2)) + Weighed(Slice(d, at + 2, to)))
    OBVIOUS
  <2>1. at + 2 \in Nat /\ at <= to /\ at <= at + 2 /\ ((at + 2) - at) % 2 = 0
    OBVIOUS
  <2>2. Weighed(Slice(d, from, to)) = Weighed(Slice(d, from, at)) + Weighed(Slice(d, at, to))
    BY <2>1, SliceSplit
  <2>3. Weighed(Slice(d, at, to)) = Weighed(Slice(d, at, at + 2)) + Weighed(Slice(d, at + 2, to))
    BY <2>1, SliceSplit
  <2> QED
    BY <2>2, <2>3
<1>3. Slice(c, from, at) = Slice(b, from, at)
  BY <1>1, SliceSame
<1>4. Slice(c, at + 2, to) = Slice(b, at + 2, to)
  BY <1>1, SliceSame
<1>5. Weighed(Slice(b, at, at + 2)) = 0 /\ Weighed(Slice(c, at, at + 2)) = v
  <2>1. 0 \in Nat /\ 0 < 65536 /\ at + 2 <= n
    OBVIOUS
  <2> QED
    BY <1>1, <2>1, WeighedNumber
<1>6. Weighed(Slice(b, from, at)) \in Nat /\ Weighed(Slice(b, at + 2, to)) \in Nat
  <2>1. at + 2 \in Nat /\ at <= n
    OBVIOUS
  <2> QED
    BY <2>1, SliceType, WeighedType
<1> DEFINE x == Weighed(Slice(b, from, at))
           y == Weighed(Slice(b, at + 2, to))
<1>7. /\ Weighed(Slice(b, from, to)) = x + (0 + y)
      /\ Weighed(Slice(c, from, to)) = x + (v + y)
      /\ x \in Nat /\ y \in Nat /\ v \in Nat
  BY <1>1, <1>2, <1>3, <1>4, <1>5, <1>6
<1> HIDE DEF x, y
<1> QED
  BY ONLY <1>7 DEF c

-----------------------------------------------------------------------------
(* The way through the options.                                            *)

\* Where the option at i leads if those after it lead where f says.
Leads(f, p, i) ==
    IF ~Whole(p, i) THEN Slice(p.buf, 16, 20)
    ELSE LET next == i + p.buf[i + 1] IN
         IF Routes(p, i) THEN Slice(p.buf, next - 4, next) ELSE f[next]

LEMMA WholeAhead ==
    ASSUME NEW p \in Packets, NEW i \in Nat, Whole(p, i)
    PROVE  /\ i + p.buf[i + 1] \in Nat
           /\ i + 2 <= i + p.buf[i + 1] /\ i + p.buf[i + 1] <= p.ihl
<1>1. i + 1 < p.ihl /\ p.buf[i + 1] >= 2 /\ i + p.buf[i + 1] <= p.ihl
  BY DEF Whole
<1>2. p.buf[i + 1] \in Nat
  <2>1. p.ihl \in Nat /\ p.len \in Nat /\ p.ihl <= p.len
    BY Numbers
  <2>2. i + 1 \in 0..(p.len - 1) /\ p.buf \in [0..(p.len - 1) -> Byte]
    BY <1>1, <2>1, Numbers
  <2> QED
    BY <2>2, ByteNat
<1> DEFINE length == p.buf[i + 1]
<1>3. length \in Nat /\ length >= 2 /\ i + length <= p.ihl
  BY <1>1, <1>2
<1> HIDE DEF length
<1>4. i + length \in Nat /\ i + 2 <= i + length
  BY <1>3
<1> QED
  BY <1>3, <1>4 DEF length

LEMMA LeadsExist ==
    ASSUME NEW p \in Packets, NEW d \in Nat, d + 20 <= p.ihl
    PROVE  \E f : f = [i \in (p.ihl - d)..p.ihl |-> Leads(f, p, i)]
<1> DEFINE to == p.ihl
           Has(m) == \E f : f = [i \in (to - m)..to |-> Leads(f, p, i)]
           T == {m \in Nat : m + 20 <= to /\ ~Has(m)}
<1>0. to \in Nat
  BY Numbers
<1>1. Has(0)
  <2> DEFINE f == [i \in (to - 0)..to |-> Leads(<<>>, p, i)]
  <2>1. ASSUME NEW i \in (to - 0)..to PROVE Leads(f, p, i) = Leads(<<>>, p, i)
    <3>1. i = to /\ i \in Nat
      BY <1>0
    <3>2. ~Whole(p, i)
      BY <1>0, <3>1 DEF Whole
    <3> QED
      BY <3>2 DEF Leads
  <2> HIDE DEF f
  <2>2. f = [i \in (to - 0)..to |-> Leads(f, p, i)]
    BY <2>1 DEF f
  <2> QED
    BY <2>2
<1>2. ASSUME NEW m \in Nat, m + 1 + 20 <= to, Has(m) PROVE Has(m + 1)
  <2>1. PICK f : f = [i \in (to - m)..to |-> Leads(f, p, i)]
    BY <1>2
  <2> DEFINE g == [i \in (to - (m + 1))..to |-> Leads(f, p, i)]
  <2>2. \A i \in (to - m)..to : g[i] = f[i]
    <3> SUFFICES ASSUME NEW i \in (to - m)..to PROVE g[i] = f[i]
      OBVIOUS
    <3>1. i \in (to - (m + 1))..to
      BY <1>0
    <3>2. f[i] = Leads(f, p, i)
      BY <2>1
    <3> QED
      BY <3>1, <3>2
  <2> HIDE DEF g
  <2>3. ASSUME NEW i \in (to - (m + 1))..to PROVE Leads(g, p, i) = Leads(f, p, i)
    <3>1. CASE ~Whole(p, i)
      BY <3>1 DEF Leads
    <3>2. CASE Whole(p, i)
      <4>1. i \in Nat
        BY <1>0, <1>2
      <4> DEFINE next == i + p.buf[i + 1]
      <4>2. next \in Nat /\ i + 2 <= next /\ next <= to
        BY <3>2, <4>1, WholeAhead
      <4> HIDE DEF next
      <4>3. next \in (to - m)..to
        BY <1>0, <4>1, <4>2
      <4>4. g[next] = f[next]
        BY <2>2, <4>3
      <4> QED
        BY <3>2, <4>4 DEF Leads, next
    <3> QED
      BY <3>1, <3>2
  <2>4. g = [i \in (to - (m + 1))..to |-> Leads(g, p, i)]
    BY <2>3 DEF g
  <2> QED
    BY <2>4
<1> HIDE DEF Has
<1>3. 0 \notin T
  BY <1>1
<1>4. \A m \in T : m - 1 \in Nat => m - 1 \in T
  <2> SUFFICES ASSUME NEW m \in T, m - 1 \in Nat PROVE m - 1 \in T
    OBVIOUS
  <2>1. m \in Nat /\ m + 20 <= to /\ ~Has(m) /\ (m - 1) + 1 = m /\ (m - 1) + 20 <= to
    BY <1>0
  <2>2. ~Has(m - 1)
    BY <1>2, <2>1
  <2> QED
    BY <2>1, <2>2
<1>5. T = {}
  <2>1. T \subseteq Nat
    OBVIOUS
  <2> HIDE DEF T
  <2> QED
    BY <1>3, <1>4, <2>1, NoneFails
<1> QED
  BY <1>5 DEF Has

LEMMA RouteEndStep ==
    ASSUME NEW p \in Packets, NEW i \in 20..p.ihl
    PROVE  RouteEnd(p)[i] = Leads(RouteEnd(p), p, i)
<1>0. p.ihl \in Nat /\ p.ihl - 20 \in Nat /\ (p.ihl - 20) + 20 <= p.ihl /\ p.ihl - (p.ihl - 20) = 20
  BY Numbers
<1>1. PICK f : f = [k \in 20..p.ihl |-> Leads(f, p, k)]
  <2> DEFINE d == p.ihl - 20
  <2>1. d \in Nat /\ d + 20 <= p.ihl /\ p.ihl - d = 20
    BY <1>0
  <2> HIDE DEF d
  <2>2. \E f : f = [k \in (p.ihl - d)..p.ihl |-> Leads(f, p, k)]
    BY <2>1, LeadsExist
  <2> QED
    BY <2>1, <2>2
<1> DEFINE r == RouteEnd(p)
<1>2. r = [k \in 20..p.ihl |-> Leads(r, p, k)]
  BY <1>1 DEF RouteEnd, Leads
<1> QED
  BY <1>2

-----------------------------------------------------------------------------
(* The inductive invariant.                                                *)

Cutting == pc \notin {"cut", "kept"}

\* What a transport checksum is about, of bytes b.
Size == End - packet.l4
Source(b) == IF packet.ipv6 THEN Slice(b, 8, 24) ELSE Slice(b, 12, 16)
Covered(b) ==
    Source(b) \o dst \o Word(packet.proto) \o Word(Size) \o Slice(b, packet.l4, End)

\* The order of the checksums.
Phases ==
    /\ pc \in {"cut", "kept", "header", "lengths"} => field = "ip"
    /\ pc \in {"route", "done"} => field = "l4"
    /\ OnlyIpv4

\* The lengths in the packet are those of what is left, and have 16 bits.
LengthsWritten ==
    /\ Cutting => IF packet.ipv6 THEN End - 40 < 65536 /\ NumberAt(buf, 4, End - 40)
                  ELSE End < 65536 /\ NumberAt(buf, 2, End)
    /\ field = "l4" /\ packet.proto = UDP => NumberAt(buf, packet.l4 + 4, Size)

\* While a checksum is computed, its field is zero.
Zeroed == pc \in {"route", "sum"} => NumberAt(buf, ChecksumAt(packet, field), 0)

\* What is read of the options leads to where all of them lead.
Found ==
    /\ field = "l4" => Len(dst) = IF packet.ipv6 THEN 16 ELSE 4
    /\ pc = "route" /\ ~packet.ipv6 =>
          /\ opt \in 20..packet.ihl
          /\ \/ /\ dst = Slice(packet.buf, 16, 20)
                /\ RouteEnd(packet)[opt] = Destination(packet)
             \/ opt = packet.ihl /\ dst = Destination(packet)
    /\ field = "l4" /\ (pc # "route" \/ packet.ipv6) => dst = Destination(packet)

\* What has been added, and what is yet to be, is what the checksum is about.
WeighedPart(ranges, i) == IF i <= Len(ranges) THEN Weighed(ranges[i]) ELSE 0
WeighedParts(ranges) ==
    WeighedPart(ranges, 1) + WeighedPart(ranges, 2) + WeighedPart(ranges, 3)
       + WeighedPart(ranges, 4) + WeighedPart(ranges, 5)
Added(ranges, n) ==
    IF ranges = <<>> THEN 0
    ELSE LET first == Head(ranges) IN Sums(first)[IF n <= Len(first) THEN n ELSE Len(first)]
About == Weighed(IF field = "ip" THEN Slice(buf, 0, packet.ihl) ELSE Covered(buf))
Adding ==
    pc = "sum" =>
       /\ Len(parts) <= 5 /\ pos % 2 = 0 /\ (parts = <<>> => pos = 0)
       /\ total + WeighedParts(parts) = About + Added(parts, pos)

HeaderSound ==
    ~packet.ipv6 /\ (pc = "lengths" \/ field = "l4") => Sound(Slice(buf, 0, packet.ihl))
SegmentSound == pc = "done" => Sound(Covered(buf))

LEMMA Places ==
    ASSUME TypeOK
    PROVE  /\ packet \in Packets
           /\ ChecksumAt(packet, "ip") = 10
           /\ ChecksumAt(packet, "l4") \in Nat
           /\ packet.l4 + 6 <= ChecksumAt(packet, "l4") /\ ChecksumAt(packet, "l4") + 2 <= End
           /\ (ChecksumAt(packet, "l4") - packet.l4) % 2 = 0
           /\ Size \in Nat /\ Size = packet.hlen + TRUNCATE_PAYLOAD_BYTES
           /\ packet.ipv6 => End - 40 \in Nat
<1>1. packet \in Packets
  BY DEF TypeOK
<1>2. /\ packet.l4 \in Nat /\ packet.hlen \in Nat /\ packet.hlen >= 8
      /\ TRUNCATE_PAYLOAD_BYTES \in Nat /\ packet.l4 >= packet.ihl /\ packet.ihl \in Nat
      /\ packet.ipv6 => packet.ihl = 40
      /\ packet.proto \in {TCP, UDP} /\ (packet.proto = TCP => packet.hlen >= 20)
  BY <1>1, Numbers
<1> DEFINE at == IF packet.proto = TCP THEN 16 ELSE 6
<1>3. /\ ChecksumAt(packet, "l4") = packet.l4 + at /\ ChecksumAt(packet, "ip") = 10
      /\ at \in {6, 16} /\ at + 2 <= packet.hlen
  BY <1>2 DEF ChecksumAt
<1> HIDE DEF at
<1>4. End = packet.l4 + packet.hlen + TRUNCATE_PAYLOAD_BYTES
  BY DEF End
<1>5. /\ ChecksumAt(packet, "l4") \in Nat
      /\ packet.l4 + 6 <= ChecksumAt(packet, "l4") /\ ChecksumAt(packet, "l4") + 2 <= End
  BY <1>2, <1>3, <1>4
<1>6. (ChecksumAt(packet, "l4") - packet.l4) % 2 = 0
  <2>1. ChecksumAt(packet, "l4") - packet.l4 = at
    BY <1>2, <1>3
  <2> QED
    BY <1>3, <2>1
<1>7. Size \in Nat /\ Size = packet.hlen + TRUNCATE_PAYLOAD_BYTES
  BY <1>2, <1>4 DEF Size
<1>8. packet.ipv6 => End - 40 \in Nat
  BY <1>2, <1>4
<1> QED
  BY <1>1, <1>3, <1>5, <1>6, <1>7, <1>8

\* The addresses and options are those of the capture.
LEMMA AddressesKept ==
    ASSUME TypeOK, OthersKept, Cutting
    PROVE  \A k \in Nat : 12 <= k /\ k < packet.ihl => buf[k] = packet.buf[k]
<1> SUFFICES ASSUME NEW k \in Nat, 12 <= k, k < packet.ihl PROVE buf[k] = packet.buf[k]
  OBVIOUS
<1>1. /\ packet.ihl \in Nat /\ packet.l4 \in Nat /\ packet.ihl <= packet.l4
      /\ packet.l4 + packet.hlen <= End /\ packet.hlen \in Nat
      /\ buf \in [0..(End - 1) -> Byte] /\ End \in Nat
  BY Shape DEF Cutting
<1>2. k \in DOMAIN buf
  BY <1>1
<1>3. k \notin Rewritten(packet)
  <2>1. \A c \in {ChecksumAt(packet, "l4")} \union (IF packet.ipv6 THEN {4} ELSE {2, 10})
                    \union (IF packet.proto = UDP THEN {packet.l4 + 4} ELSE {}) :
           c \in {2, 4, 10} \/ c = ChecksumAt(packet, "l4") \/ c = packet.l4 + 4
    OBVIOUS
  <2>2. /\ ChecksumAt(packet, "ip") = 10 /\ ChecksumAt(packet, "l4") \in Nat
        /\ packet.l4 + 6 <= ChecksumAt(packet, "l4")
    BY Places
  <2>3. \A c : c \in {2, 4, 10} \/ c = ChecksumAt(packet, "l4") \/ c = packet.l4 + 4 =>
                 k # c /\ k # c + 1
    <3> DEFINE a == ChecksumAt(packet, "l4")
               t == packet.l4
    <3>1. k \in Nat /\ 12 <= k /\ k < t /\ t \in Nat /\ a \in Nat /\ t + 6 <= a
      BY <1>1, <2>2
    <3> HIDE DEF a, t
    <3>2. \A c : c \in {2, 4, 10} \/ c = a \/ c = t + 4 => k # c /\ k # c + 1
      BY ONLY <3>1
    <3> QED
      BY <3>2 DEF a, t
  <2> QED
    BY <2>1, <2>2, <2>3 DEF Rewritten
<1> QED
  BY <1>2, <1>3 DEF OthersKept

LEMMA PhasesStep == TypeOK /\ Phases /\ [Next]_vars => Phases'
<1> SUFFICES ASSUME TypeOK, Phases, [Next]_vars PROVE Phases'
  OBVIOUS
<1>1. CASE Cut \/ IpHeader \/ Lengths
  BY <1>1 DEF Cut, IpHeader, Lengths, Begin, Phases, OnlyIpv4, TypeOK, PCs, sums, walk
<1>2. CASE PassOption \/ Transport
  BY <1>2 DEF PassOption, Transport, Begin, Phases, OnlyIpv4, TypeOK, PCs, sums, walk
<1>3. CASE AddWord \/ FoldSum \/ EndPart \/ FoldAcc \/ WriteChecksum
  BY <1>3 DEF AddWord, FoldSum, EndPart, FoldAcc, WriteChecksum, Phases, OnlyIpv4, TypeOK, PCs
<1>4. CASE UNCHANGED vars
  BY <1>4 DEF vars, Phases, OnlyIpv4
<1> QED
  BY <1>1, <1>2, <1>3, <1>4 DEF Next

LEMMA NumberWritten ==
    ASSUME NEW n \in Nat, NEW b \in [0..(n - 1) -> Byte],
           NEW at \in Nat, at + 2 <= n, NEW v \in Nat
    PROVE  /\ Patch(b, at, v) \in [0..(n - 1) -> Byte]
           /\ NumberAt(Patch(b, at, v), at, v)
           /\ \A k \in Nat : k < n /\ k # at /\ k # at + 1 => Patch(b, at, v)[k] = b[k]
<1>1. n \in Int /\ at + 1 < n /\ \A k \in Nat : k < n => k \in DOMAIN b
  OBVIOUS
<1> QED
  BY <1>1, PatchType DEF NumberAt

LEMMA NumberKept ==
    ASSUME NEW n \in Nat, NEW b \in [0..(n - 1) -> Byte],
           NEW at \in Nat, at + 2 <= n, NEW v \in Nat,
           NEW other \in Nat, other + 2 <= n, NEW w, other + 1 < at \/ at + 1 < other,
           NumberAt(b, other, w)
    PROVE  NumberAt(Patch(b, at, v), other, w)
<1>1. /\ other < n /\ other # at /\ other # at + 1 /\ other + 1 \in Nat
      /\ other + 1 < n /\ other + 1 # at /\ other + 1 # at + 1
  OBVIOUS
<1> DEFINE c == Patch(b, at, v)
<1>2. \A k \in Nat : k < n /\ k # at /\ k # at + 1 => c[k] = b[k]
  BY NumberWritten
<1> HIDE DEF c
<1> QED
  BY <1>1, <1>2 DEF NumberAt, c

LEMMA LengthsStep == TypeOK /\ TypeOK' /\ Phases /\ LengthsWritten /\ [Next]_vars => LengthsWritten'
<1> SUFFICES ASSUME TypeOK, TypeOK', Phases, LengthsWritten, [Next]_vars PROVE LengthsWritten'
  OBVIOUS
<1>0. UNCHANGED packet => End' = End /\ Size' = Size
  BY DEF End, Size
<1>s. /\ End \in Nat /\ packet.l4 \in Nat /\ packet.l4 + packet.hlen <= End
      /\ packet.l4 >= 20 /\ packet.hlen \in Nat /\ packet.hlen >= 8
      /\ packet.ipv6 \in BOOLEAN
      /\ Cutting => buf \in [0..(End - 1) -> Byte]
  BY Shape DEF Cutting
<1>1. CASE Cut
  <2>1. CASE pc' = "kept"
    BY <1>1, <2>1 DEF Cut, Cutting, LengthsWritten, Phases
  <2>2. CASE pc' # "kept"
    <3> DEFINE rest == [k \in 0..(End - 1) |-> buf[k]]
    <3>0. ~(packet.payload <= TRUNCATE_PAYLOAD_BYTES) /\ ~(End >= packet.len)
      BY <1>1, <2>2 DEF Cut
    <3>1. End < packet.len /\ packet.len \in Nat /\ End \in Nat
      <4>1. packet \in Packets
        BY DEF TypeOK
      <4>2. packet.len \in Nat
        BY <4>1, Numbers
      <4> QED
        BY <1>s, <3>0, <4>2
    <3>2. buf \in [0..(packet.len - 1) -> Byte]
      BY <1>1 DEF Cut, TypeOK
    <3>3. rest \in [0..(End - 1) -> Byte]
      BY <3>1, <3>2
    <3>4. /\ packet' = packet /\ field' = field
          /\ IF packet.ipv6 THEN buf' = Patch(rest, 4, End - packet.ihl)
             ELSE buf' = Patch(rest, 2, End)
      BY <1>1, <2>2 DEF Cut
    <3> HIDE DEF rest
    <3>5. field' = "ip"
      BY <1>1, <3>4 DEF Cut, Phases
    <3>6. CASE packet.ipv6
      <4>1. packet.ihl = 40 /\ End - 40 \in Nat
        BY <3>6, Shape, Places
      <4>2. NumberAt(buf', 4, End - 40)
        BY <3>3, <3>4, <3>6, <4>1, <1>s, NumberWritten
      <4>3. End - 40 < 65536
        <5>1. IsPacket(packet)
          BY ConstantsAssumption DEF TypeOK
        <5>2. End < 40 + 65536
          BY <5>1, <3>6 DEF IsPacket, End
        <5> QED
          BY <1>s, <5>2
      <4> QED
        BY <1>0, <3>4, <3>5, <3>6, <4>2, <4>3 DEF LengthsWritten
    <3>7. CASE ~packet.ipv6
      <4>1. NumberAt(buf', 2, End)
        BY <3>3, <3>4, <3>7, <1>s, NumberWritten
      <4>2. End < 65536
        <5>1. packet.l4 + packet.hlen + packet.payload < 65536
          BY <3>7, ConstantsAssumption DEF IsPacket, TypeOK
        <5>2. packet.payload \in Nat /\ TRUNCATE_PAYLOAD_BYTES \in Nat
          BY Numbers DEF TypeOK
        <5> QED
          BY <1>s, <3>0, <5>1, <5>2 DEF End
      <4> QED
        BY <1>0, <3>4, <3>5, <3>7, <4>1, <4>2 DEF LengthsWritten
    <3> QED
      BY <3>6, <3>7, <1>s
  <2> QED
    BY <2>1, <2>2
<1>2. CASE IpHeader
  <2>1. ~packet.ipv6 /\ Cutting /\ field' = "ip" /\ packet' = packet /\ buf' = Patch(buf, 10, 0)
    BY <1>2 DEF IpHeader, Phases, OnlyIpv4, Cutting
  <2>2. NumberAt(buf', 2, End)
    <3>1. NumberAt(buf, 2, End)
      BY <2>1 DEF LengthsWritten
    <3>2. 10 + 2 <= End /\ 2 + 2 <= End /\ 2 + 1 < 10
      BY <1>s
    <3> QED
      BY <1>s, <2>1, <3>1, <3>2, NumberKept
  <2> QED
    BY <1>0, <2>1, <2>2 DEF LengthsWritten
<1>3. CASE Lengths
  <2> DEFINE sized == IF packet.proto = UDP THEN Patch(buf, packet.l4 + 4, Size) ELSE buf
             place == ChecksumAt(packet, "l4")
  <2>1. Cutting /\ packet' = packet /\ buf' = Patch(sized, place, 0)
    BY <1>3, Places DEF Lengths, Cutting
  <2>2. /\ Size \in Nat /\ place \in Nat /\ packet.l4 + 6 <= place /\ place + 2 <= End
        /\ packet.l4 + 4 \in Nat /\ (packet.l4 + 4) + 2 <= End
    <3>1. Size \in Nat /\ place \in Nat /\ packet.l4 + 6 <= place /\ place + 2 <= End
      BY Places
    <3> HIDE DEF place
    <3> QED
      BY <1>s, <3>1
  <2>3. /\ sized \in [0..(End - 1) -> Byte]
        /\ packet.proto = UDP => NumberAt(sized, packet.l4 + 4, Size)
    BY <1>s, <2>1, <2>2, NumberWritten
  <2>4. IF packet.ipv6 THEN End - 40 < 65536 /\ NumberAt(sized, 4, End - 40)
        ELSE End < 65536 /\ NumberAt(sized, 2, End)
    <3>1. IF packet.ipv6 THEN End - 40 < 65536 /\ NumberAt(buf, 4, End - 40)
          ELSE End < 65536 /\ NumberAt(buf, 2, End)
      BY <2>1 DEF LengthsWritten
    <3>2. /\ 4 \in Nat /\ 2 \in Nat /\ 4 + 1 < packet.l4 + 4 /\ 2 + 1 < packet.l4 + 4
          /\ 4 + 2 <= End /\ 2 + 2 <= End
      BY <1>s
    <3> DEFINE other == IF packet.ipv6 THEN 4 ELSE 2
               w == IF packet.ipv6 THEN End - 40 ELSE End
    <3>3. /\ other \in Nat /\ other + 2 <= End /\ other + 1 < packet.l4 + 4
          /\ NumberAt(buf, other, w)
      BY <3>1, <3>2
    <3> HIDE DEF other, w
    <3>4. NumberAt(sized, other, w)
      BY <1>s, <2>1, <2>2, <3>3, NumberKept
    <3> QED
      BY <3>1, <3>4 DEF other, w
  <2> HIDE DEF sized, place
  <2>5. IF packet.ipv6 THEN End - 40 < 65536 /\ NumberAt(buf', 4, End - 40)
        ELSE End < 65536 /\ NumberAt(buf', 2, End)
    <3>1. 4 + 1 < place /\ 2 + 1 < place /\ 4 + 2 <= End /\ 2 + 2 <= End
      BY <1>s, <2>2
    <3>2. /\ buf' = Patch(sized, place, 0) /\ sized \in [0..(End - 1) -> Byte] /\ End \in Nat
          /\ place \in Nat /\ place + 2 <= End /\ 4 \in Nat /\ 2 \in Nat /\ 0 \in Nat
      BY <1>s, <2>1, <2>2, <2>3
    <3>3. CASE packet.ipv6
      BY <2>4, <3>1, <3>2, <3>3, NumberKept
    <3>4. CASE ~packet.ipv6
      BY <2>4, <3>1, <3>2, <3>4, NumberKept
    <3> QED
      BY <3>3, <3>4
  <2>6. packet.proto = UDP => NumberAt(buf', packet.l4 + 4, Size)
    <3>1. (packet.l4 + 4) + 1 < place
      BY <1>s, <2>2
    <3> QED
      BY <1>s, <2>1, <2>2, <2>3, <3>1, NumberKept
  <2> QED
    BY <1>0, <2>1, <2>5, <2>6 DEF LengthsWritten
<1>4. CASE WriteChecksum
  <2> DEFINE place == ChecksumAt(packet, field)
  <2>1. Cutting /\ packet' = packet /\ field' = field /\ buf' = Patch(buf, place, OnTheWire)
    BY <1>4 DEF WriteChecksum, Cutting
  <2>2. /\ OnTheWire \in Nat /\ place \in Nat /\ place + 2 <= End
        /\ IF packet.ipv6 THEN 4 + 1 < place ELSE 2 + 1 < place
        /\ field = "l4" => (packet.l4 + 4) + 1 < place
    <3>1. OnTheWire \in Nat
      BY <1>4 DEF WriteChecksum, OnTheWire, TypeOK
    <3>2. field = "ip" => ~packet.ipv6 /\ place = 10
      BY <1>4, Places DEF WriteChecksum, Phases, OnlyIpv4
    <3>3. field = "l4" => place \in Nat /\ packet.l4 + 6 <= place /\ place + 2 <= End
      BY Places
    <3>4. field \in {"ip", "l4"}
      BY DEF TypeOK
    <3> HIDE DEF place
    <3> QED
      BY <1>s, <3>1, <3>2, <3>3, <3>4
  <2> HIDE DEF place
  <2>3. IF packet.ipv6 THEN End - 40 < 65536 /\ NumberAt(buf, 4, End - 40)
        ELSE End < 65536 /\ NumberAt(buf, 2, End)
    BY <2>1 DEF LengthsWritten
  <2>4. field = "l4" /\ packet.proto = UDP => NumberAt(buf, packet.l4 + 4, Size)
    BY DEF LengthsWritten
  <2>5. IF packet.ipv6 THEN End - 40 < 65536 /\ NumberAt(buf', 4, End - 40)
        ELSE End < 65536 /\ NumberAt(buf', 2, End)
    <3>1. 4 + 2 <= End /\ 2 + 2 <= End
      BY <1>s
    <3> QED
      BY <1>s, <2>1, <2>2, <2>3, <3>1, NumberKept
  <2>6. field = "l4" /\ packet.proto = UDP => NumberAt(buf', packet.l4 + 4, Size)
    <3>1. packet.l4 + 4 \in Nat /\ (packet.l4 + 4) + 2 <= End
      BY <1>s
    <3> QED
      BY <1>s, <2>1, <2>2, <2>4, <3>1, NumberKept
  <2> QED
    BY <1>0, <2>1, <2>5, <2>6 DEF LengthsWritten
<1>5. CASE PassOption \/ Transport \/ AddWord \/ FoldSum \/ EndPart \/ FoldAcc
  <2>1. UNCHANGED <<packet, buf, field>> /\ Cutting /\ Cutting'
    BY <1>5 DEF PassOption, Transport, Begin, AddWord, FoldSum, EndPart, FoldAcc, Cutting
  <2> QED
    BY <1>0, <2>1 DEF LengthsWritten
<1>6. CASE UNCHANGED vars
  BY <1>0, <1>6 DEF vars, LengthsWritten, Cutting
<1> QED
  BY <1>1, <1>2, <1>3, <1>4, <1>5, <1>6 DEF Next

LEMMA ZeroedStep == TypeOK /\ Phases /\ Zeroed /\ [Next]_vars => Zeroed'
<1> SUFFICES ASSUME TypeOK, Phases, Zeroed, [Next]_vars PROVE Zeroed'
  OBVIOUS
<1>0. /\ End \in Nat /\ packet.l4 \in Nat /\ packet.l4 >= 20 /\ packet.hlen \in Nat
      /\ packet.hlen >= 8 /\ packet.l4 + packet.hlen <= End
      /\ Cutting => buf \in [0..(End - 1) -> Byte]
  BY Shape DEF Cutting
<1>1. CASE IpHeader
  <2>1. Cutting /\ field' = "ip" /\ packet' = packet /\ buf' = Patch(buf, 10, 0)
    BY <1>1 DEF IpHeader, Cutting
  <2>2. NumberAt(buf', 10, 0)
    <3>1. 10 + 2 <= End
      BY <1>0
    <3> QED
      BY <1>0, <2>1, <3>1, NumberWritten
  <2> QED
    BY <2>1, <2>2 DEF Zeroed, ChecksumAt
<1>2. CASE Lengths
  <2> DEFINE sized == IF packet.proto = UDP THEN Patch(buf, packet.l4 + 4, Size) ELSE buf
             place == ChecksumAt(packet, "l4")
  <2>1. Cutting /\ field' = "l4" /\ packet' = packet /\ buf' = Patch(sized, place, 0)
    BY <1>2, Places DEF Lengths, Cutting
  <2>2. /\ Size \in Nat /\ place \in Nat /\ place + 2 <= End
        /\ packet.l4 + 4 \in Nat /\ (packet.l4 + 4) + 2 <= End
    <3>1. Size \in Nat /\ place \in Nat /\ place + 2 <= End
      BY Places
    <3> HIDE DEF place
    <3> QED
      BY <1>0, <3>1
  <2>3. sized \in [0..(End - 1) -> Byte]
    BY <1>0, <2>1, <2>2, NumberWritten
  <2> HIDE DEF sized, place
  <2>4. NumberAt(buf', place, 0)
    BY <1>0, <2>1, <2>2, <2>3, NumberWritten
  <2> QED
    BY <2>1, <2>4 DEF Zeroed, place
<1>3. CASE PassOption \/ Transport \/ AddWord \/ FoldSum \/ EndPart \/ FoldAcc
  <2>1. UNCHANGED <<packet, buf, field>> /\ pc \in {"route", "sum"}
    BY <1>3 DEF PassOption, Transport, Begin, AddWord, FoldSum, EndPart, FoldAcc
  <2> QED
    BY <2>1 DEF Zeroed
<1>4. CASE Cut \/ WriteChecksum
  BY <1>4 DEF Cut, WriteChecksum, Zeroed
<1>5. CASE UNCHANGED vars
  BY <1>5 DEF vars, Zeroed
<1> QED
  BY <1>1, <1>2, <1>3, <1>4, <1>5 DEF Next

\* The options that the code reads are those of the packet.
LEMMA OptionsRead ==
    ASSUME TypeOK, OthersKept, Cutting, ~packet.ipv6, opt \in 20..packet.ihl
    PROVE  /\ AtOption <=> Whole(packet, opt)
           /\ AtOption => /\ AtRoute <=> Routes(packet, opt)
                          /\ buf[opt + 1] = packet.buf[opt + 1]
<1>1. packet.ihl \in Nat
  BY Shape
<1>2. ASSUME opt + 1 < packet.ihl
      PROVE  buf[opt] = packet.buf[opt] /\ buf[opt + 1] = packet.buf[opt + 1]
  <2>1. /\ opt \in Nat /\ 12 <= opt /\ opt < packet.ihl
        /\ opt + 1 \in Nat /\ 12 <= opt + 1 /\ opt + 1 < packet.ihl
    BY <1>1, <1>2
  <2> QED
    BY <2>1, AddressesKept
<1>3. AtOption <=> Whole(packet, opt)
  BY <1>2 DEF AtOption, Whole
<1>4. AtOption => opt + 1 < packet.ihl
  BY DEF AtOption
<1> QED
  BY <1>2, <1>3, <1>4 DEF AtRoute, Routes

LEMMA FoundStep ==
    TypeOK /\ OthersKept /\ Phases /\ Found /\ [Next]_vars => Found'
<1> SUFFICES ASSUME TypeOK, OthersKept, Phases, Found, [Next]_vars PROVE Found'
  OBVIOUS
<1>0. /\ packet \in Packets /\ End \in Nat /\ packet.ihl \in Nat /\ packet.ihl >= 20
      /\ packet.ihl <= packet.l4 /\ packet.l4 \in Nat /\ packet.hlen \in Nat
      /\ packet.l4 + packet.hlen <= End /\ packet.ipv6 \in BOOLEAN
      /\ packet.ipv6 => packet.ihl = 40
      /\ Cutting => buf \in [0..(End - 1) -> Byte]
  BY Shape DEF Cutting
<1>1. CASE Lengths
  <2>1. /\ Cutting /\ field' = "l4" /\ packet' = packet /\ pc' = "route" /\ opt' = 20
        /\ dst' = IF packet.ipv6 THEN Slice(buf, 24, 40) ELSE Slice(buf, 16, 20)
    BY <1>1 DEF Lengths, Cutting
  <2>2. \A k \in Nat : 12 <= k /\ k < packet.ihl => buf[k] = packet.buf[k]
    BY <2>1, AddressesKept
  <2>3. CASE packet.ipv6
    <3>1. Slice(buf, 24, 40) = Slice(packet.buf, 24, 40)
      <4>1. \A k \in Nat : 24 <= k /\ k < 40 => buf[k] = packet.buf[k]
        BY <1>0, <2>2, <2>3
      <4> QED
        BY <4>1, SliceSame
    <3>2. Len(Slice(buf, 24, 40)) = 16
      <4>1. 24 \in Nat /\ 40 \in Nat /\ 24 <= 40 /\ 40 - 24 = 16
        OBVIOUS
      <4>2. Len(Slice(buf, 24, 40)) = 40 - 24
        BY <4>1, SliceLen
      <4> QED
        BY <4>1, <4>2
    <3>3. dst' = Destination(packet) /\ Len(dst') = 16
      BY <2>1, <2>3, <3>1, <3>2 DEF Destination
    <3> QED
      BY <2>1, <2>3, <3>3 DEF Found
  <2>4. CASE ~packet.ipv6
    <3>1. Slice(buf, 16, 20) = Slice(packet.buf, 16, 20)
      <4>1. \A k \in Nat : 16 <= k /\ k < 20 => buf[k] = packet.buf[k]
        BY <1>0, <2>2
      <4> QED
        BY <4>1, SliceSame
    <3>2. Len(Slice(buf, 16, 20)) = 4
      <4>1. 16 \in Nat /\ 20 \in Nat /\ 16 <= 20 /\ 20 - 16 = 4
        OBVIOUS
      <4>2. Len(Slice(buf, 16, 20)) = 20 - 16
        BY <4>1, SliceLen
      <4> QED
        BY <4>1, <4>2
    <3>3. /\ dst' = Slice(packet.buf, 16, 20) /\ Len(dst') = 4 /\ opt' \in 20..packet.ihl
          /\ RouteEnd(packet)[opt'] = Destination(packet)
      BY <1>0, <2>1, <2>4, <3>1, <3>2 DEF Destination
    <3> QED
      BY <2>1, <2>4, <3>3 DEF Found
  <2> QED
    BY <1>0, <2>3, <2>4
<1>2. CASE PassOption
  <2> DEFINE next == opt + buf[opt + 1]
  <2>1. /\ AtOption /\ ~packet.ipv6 /\ opt + 1 < packet.ihl /\ pc = "route" /\ Cutting
        /\ field = "l4" /\ field' = "l4" /\ packet' = packet /\ pc' = "route"
    BY <1>2 DEF PassOption, AtOption, Cutting, Phases
  <2>2. IF AtRoute THEN dst' = Slice(buf, next - 4, next) /\ opt' = packet.ihl
        ELSE opt' = next /\ dst' = dst
    BY <1>2 DEF PassOption
  <2>3. /\ opt \in 20..packet.ihl /\ dst = Slice(packet.buf, 16, 20) /\ Len(dst) = 4
        /\ RouteEnd(packet)[opt] = Destination(packet)
    <3>1. opt # packet.ihl
      BY <1>0, <2>1
    <3> QED
      BY <2>1, <3>1 DEF Found
  <2>4. /\ Whole(packet, opt)
        /\ AtRoute <=> Routes(packet, opt)
        /\ next = opt + packet.buf[opt + 1]
    BY <2>1, <2>3, OptionsRead
  <2>5. next \in Nat /\ opt + 2 <= next /\ next <= packet.ihl
    <3>1. opt \in Nat
      BY <1>0, <2>3
    <3>2. /\ opt + packet.buf[opt + 1] \in Nat /\ opt + 2 <= opt + packet.buf[opt + 1]
          /\ opt + packet.buf[opt + 1] <= packet.ihl
      BY <1>0, <2>4, <3>1, WholeAhead
    <3> QED
      BY <2>4, <3>2
  <2>6. Destination(packet) = IF Routes(packet, opt) THEN Slice(packet.buf, next - 4, next)
                              ELSE RouteEnd(packet)[next]
    <3>1. RouteEnd(packet)[opt] = Leads(RouteEnd(packet), packet, opt)
      BY <1>0, <2>3, RouteEndStep
    <3> HIDE DEF next
    <3>2. RouteEnd(packet)[opt] = IF Routes(packet, opt) THEN Slice(packet.buf, next - 4, next)
                                  ELSE RouteEnd(packet)[next]
      BY <2>4, <3>1 DEF Leads
    <3> QED
      BY <2>3, <3>2
  <2>7. CASE AtRoute
    <3> HIDE DEF next
    <3>1. next - 4 \in Nat /\ 12 <= next - 4 /\ next - 4 <= next /\ next <= End
      <4>1. opt \in Nat /\ 20 <= opt
        BY <1>0, <2>3
      <4> QED
        BY <1>0, <2>5, <4>1
    <3>2. \A k \in Nat : next - 4 <= k /\ k < next => buf[k] = packet.buf[k]
      <4>1. \A k \in Nat : 12 <= k /\ k < packet.ihl => buf[k] = packet.buf[k]
        BY <2>1, AddressesKept
      <4> QED
        BY <1>0, <2>5, <3>1, <4>1
    <3>3. Slice(buf, next - 4, next) = Slice(packet.buf, next - 4, next)
      BY <2>5, <3>1, <3>2, SliceSame
    <3>4. Len(Slice(buf, next - 4, next)) = 4
      <4>1. Len(Slice(buf, next - 4, next)) = next - (next - 4)
        BY <2>5, <3>1, SliceLen
      <4> QED
        BY <2>5, <4>1
    <3>5. dst' = Destination(packet) /\ Len(dst') = 4 /\ opt' = packet.ihl
      BY <2>2, <2>4, <2>6, <2>7, <3>3, <3>4
    <3>6. packet.ihl \in 20..packet.ihl
      BY <1>0
    <3> QED
      BY <2>1, <3>5, <3>6 DEF Found
  <2>8. CASE ~AtRoute
    <3>1. opt' = next /\ dst' = dst /\ RouteEnd(packet)[next] = Destination(packet)
      BY <2>2, <2>4, <2>6, <2>8
    <3>2. next \in 20..packet.ihl
      BY <1>0, <2>3, <2>5
    <3> HIDE DEF next
    <3> QED
      BY <2>1, <2>3, <3>1, <3>2 DEF Found
  <2> QED
    BY <2>7, <2>8
<1>3. CASE Transport
  <2>1. /\ ~AtOption /\ pc = "route" /\ Cutting /\ field = "l4"
        /\ UNCHANGED <<packet, dst, field>> /\ pc' = "sum"
    BY <1>3 DEF Transport, Begin, walk, Cutting, Phases
  <2>2. dst = Destination(packet)
    <3>1. CASE packet.ipv6
      BY <2>1, <3>1 DEF Found
    <3>2. CASE ~packet.ipv6
      <4>1. opt \in 20..packet.ihl
        BY <2>1, <3>2 DEF Found
      <4>2. ~Whole(packet, opt)
        BY <2>1, <3>2, <4>1, OptionsRead
      <4>3. RouteEnd(packet)[opt] = Slice(packet.buf, 16, 20)
        BY <1>0, <4>1, <4>2, RouteEndStep DEF Leads
      <4> QED
        BY <2>1, <3>2, <4>3 DEF Found
    <3> QED
      BY <3>1, <3>2
  <2> QED
    BY <2>1, <2>2 DEF Found
<1>4. CASE AddWord \/ FoldSum \/ EndPart \/ FoldAcc \/ WriteChecksum
  <2>1. UNCHANGED <<packet, field, dst>> /\ pc = "sum" /\ pc' # "route"
    BY <1>4 DEF AddWord, FoldSum, EndPart, FoldAcc, WriteChecksum, walk
  <2> QED
    BY <2>1 DEF Found
<1>5. CASE Cut \/ IpHeader
  <2>1. field' = "ip" /\ pc' # "route"
    BY <1>5 DEF Cut, IpHeader, Begin, Phases
  <2> QED
    BY <2>1 DEF Found
<1>6. CASE UNCHANGED vars
  BY <1>6 DEF vars, walk, Found
<1> QED
  BY <1>1, <1>2, <1>3, <1>4, <1>5, <1>6 DEF Next

-----------------------------------------------------------------------------
(* The sum of the ranges.                                                  *)

LEMMA PartType ==
    ASSUME NEW r \in Seq(Seq(Byte)), NEW i \in 1..5
    PROVE  WeighedPart(r, i) \in Nat
<1>1. CASE i <= Len(r)
  <2>1. i \in 1..Len(r)
    BY <1>1
  <2>2. r[i] \in Seq(Byte)
    BY <2>1
  <2> QED
    BY <1>1, <2>2, WeighedType DEF WeighedPart
<1>2. CASE ~(i <= Len(r))
  BY <1>2 DEF WeighedPart
<1> QED
  BY <1>1, <1>2

LEMMA PartsType ==
    ASSUME NEW r \in Seq(Seq(Byte))
    PROVE  WeighedParts(r) \in Nat
<1>1. /\ WeighedPart(r, 1) \in Nat /\ WeighedPart(r, 2) \in Nat /\ WeighedPart(r, 3) \in Nat
      /\ WeighedPart(r, 4) \in Nat /\ WeighedPart(r, 5) \in Nat
  BY PartType
<1> QED
  BY <1>1 DEF WeighedParts

LEMMA PartsTail ==
    ASSUME NEW r \in Seq(Seq(Byte)), r # <<>>, Len(r) <= 5
    PROVE  /\ Head(r) \in Seq(Byte) /\ Tail(r) \in Seq(Seq(Byte)) /\ Len(Tail(r)) <= 4
           /\ WeighedParts(r) = Weighed(Head(r)) + WeighedParts(Tail(r))
<1> DEFINE t == Tail(r)
<1>1. /\ Len(r) \in Nat /\ Len(r) >= 1 /\ Head(r) = r[1] /\ r[1] \in Seq(Byte)
      /\ t \in Seq(Seq(Byte)) /\ Len(t) = Len(r) - 1
      /\ \A i \in 1..Len(t) : t[i] = r[i + 1]
  OBVIOUS
<1> HIDE DEF t
<1>2. ASSUME NEW i \in 1..4 PROVE WeighedPart(t, i) = WeighedPart(r, i + 1)
  <2>1. (i <= Len(t)) = (i + 1 <= Len(r)) /\ (i <= Len(t) => t[i] = r[i + 1])
    BY <1>1
  <2> QED
    BY <2>1 DEF WeighedPart
<1>3. WeighedPart(r, 1) = Weighed(Head(r)) /\ WeighedPart(t, 5) = 0 /\ Len(t) <= 4
  BY <1>1 DEF WeighedPart
<1>4. /\ WeighedPart(t, 1) = WeighedPart(r, 2) /\ WeighedPart(t, 2) = WeighedPart(r, 3)
      /\ WeighedPart(t, 3) = WeighedPart(r, 4) /\ WeighedPart(t, 4) = WeighedPart(r, 5)
  <2>1. 1 + 1 = 2 /\ 2 + 1 = 3 /\ 3 + 1 = 4 /\ 4 + 1 = 5
    OBVIOUS
  <2> QED
    BY <1>2, <2>1
<1>5. /\ WeighedPart(r, 1) \in Nat /\ WeighedPart(r, 2) \in Nat /\ WeighedPart(r, 3) \in Nat
      /\ WeighedPart(r, 4) \in Nat /\ WeighedPart(r, 5) \in Nat
  BY PartType
<1>6. WeighedParts(r) = Weighed(Head(r)) + WeighedParts(t)
  <2> DEFINE a == WeighedPart(r, 1)
             b == WeighedPart(r, 2)
             c == WeighedPart(r, 3)
             d == WeighedPart(r, 4)
             e == WeighedPart(r, 5)
  <2>1. /\ WeighedParts(r) = a + b + c + d + e
        /\ WeighedParts(t) = b + c + d + e + 0 /\ Weighed(Head(r)) = a
    BY <1>3, <1>4 DEF WeighedParts
  <2>2. a \in Nat /\ b \in Nat /\ c \in Nat /\ d \in Nat /\ e \in Nat
    BY <1>5
  <2> HIDE DEF a, b, c, d, e
  <2>3. a + b + c + d + e = a + (b + c + d + e + 0)
    BY ONLY <2>2
  <2> QED
    BY <2>1, <2>3
<1> QED
  BY <1>1, <1>3, <1>6 DEF t

LEMMA AddedNone ==
    ASSUME NEW r \in Seq(Seq(Byte))
    PROVE  Added(r, 0) = 0
<1>1. CASE r = <<>>
  BY <1>1 DEF Added
<1>2. CASE r # <<>>
  <2>1. Head(r) \in Seq(Byte) /\ 0 <= Len(Head(r))
    BY <1>2
  <2> QED
    BY <1>2, <2>1, SumsStep DEF Added
<1> QED
  BY <1>1, <1>2

LEMMA AddedType ==
    ASSUME NEW r \in Seq(Seq(Byte)), NEW n \in Nat
    PROVE  Added(r, n) \in Nat
<1>1. CASE r = <<>>
  BY <1>1 DEF Added
<1>2. CASE r # <<>>
  <2>1. /\ Head(r) \in Seq(Byte)
        /\ (IF n <= Len(Head(r)) THEN n ELSE Len(Head(r))) \in 0..Len(Head(r))
    BY <1>2
  <2> QED
    BY <1>2, <2>1, SumsStep DEF Added
<1> QED
  BY <1>1, <1>2

LEMMA AddedAll ==
    ASSUME NEW r \in Seq(Seq(Byte)), r # <<>>, NEW n \in Nat, n >= Len(Head(r))
    PROVE  Added(r, n) = Weighed(Head(r))
<1>1. Len(Head(r)) \in Nat
  OBVIOUS
<1>2. (IF n <= Len(Head(r)) THEN n ELSE Len(Head(r))) = Len(Head(r))
  BY <1>1
<1> QED
  BY <1>2 DEF Added, Weighed

LEMMA Parity ==
    ASSUME NEW n \in Nat, n % 2 = 0
    PROVE  (n + 1) % 2 = 1 /\ (n + 2) % 2 = 0
OBVIOUS

\* One turn of checksum_sum.
LEMMA AddedWord ==
    ASSUME parts \in Seq(Seq(Byte)), parts # <<>>, pos \in Nat, pos % 2 = 0,
           pos < Len(Head(parts))
    PROVE  Added(parts, pos + 2) = Added(parts, pos) + NextWord
<1> DEFINE part == Head(parts)
           s == Sums(part)
           len == Len(part)
<1>1. part \in Seq(Byte) /\ len \in Nat /\ pos \in Nat /\ pos < len
  OBVIOUS
<1>2. /\ s \in [0..len -> Nat]
      /\ \A k \in 1..len : s[k] = s[k - 1] + Weight(part, k)
  BY <1>1, SumsStep
<1>3. /\ Added(parts, pos) = s[IF pos <= len THEN pos ELSE len]
      /\ Added(parts, pos + 2) = s[IF pos + 2 <= len THEN pos + 2 ELSE len]
      /\ NextWord = IF pos + 1 < len THEN 256 * part[pos + 1] + part[pos + 2]
                    ELSE 256 * part[pos + 1]
  BY DEF Added, NextWord
<1>4. /\ part[pos + 1] \in Nat
      /\ pos + 1 < len => part[pos + 2] \in Nat
  <2>1. pos + 1 \in 1..len /\ (pos + 1 < len => pos + 2 \in 1..len)
    BY <1>1
  <2> QED
    BY <1>1, <2>1, ByteNat
<1> HIDE DEF part, s, len
<1>5. Added(parts, pos) = s[pos] /\ s[pos] \in Nat
  <2>1. pos <= len /\ pos \in 0..len
    BY <1>1
  <2> QED
    BY <1>2, <1>3, <2>1
<1>6. s[pos + 1] = s[pos] + 256 * part[pos + 1]
  <2>1. pos + 1 \in 1..len /\ (pos + 1) - 1 = pos /\ (pos + 1) % 2 = 1
    BY <1>1, Parity
  <2>2. Weight(part, pos + 1) = 256 * part[pos + 1]
    BY <2>1 DEF Weight
  <2>3. s[pos + 1] = s[(pos + 1) - 1] + Weight(part, pos + 1)
    BY <1>2, <2>1
  <2> QED
    BY <2>1, <2>2, <2>3
<1>7. CASE pos + 1 < len
  <2>1. pos + 2 \in 1..len /\ (pos + 2) - 1 = pos + 1 /\ (pos + 2) % 2 # 1 /\ pos + 2 <= len
    BY <1>1, <1>7, Parity
  <2>2. Weight(part, pos + 2) = part[pos + 2]
    BY <2>1 DEF Weight
  <2>3. s[pos + 2] = s[(pos + 2) - 1] + Weight(part, pos + 2)
    BY <1>2, <2>1
  <2>4. s[pos + 2] = s[pos + 1] + part[pos + 2]
    BY <2>1, <2>2, <2>3
  <2>5. s[pos + 2] = s[pos] + (256 * part[pos + 1] + part[pos + 2])
    <3> DEFINE x == part[pos + 1]
               y == part[pos + 2]
               u == s[pos]
    <3>1. x \in Nat /\ y \in Nat /\ u \in Nat /\ s[pos + 2] = (u + 256 * x) + y
      BY <1>4, <1>5, <1>6, <1>7, <2>4
    <3> HIDE DEF x, y, u
    <3>2. s[pos + 2] = u + (256 * x + y)
      BY ONLY <3>1
    <3> QED
      BY <3>2 DEF x, y, u
  <2> QED
    BY <1>3, <1>5, <1>7, <2>1, <2>5
<1>8. CASE ~(pos + 1 < len)
  <2>1. ~(pos + 2 <= len) /\ len = pos + 1
    BY <1>1, <1>8
  <2> QED
    BY <1>3, <1>5, <1>6, <1>8, <2>1
<1> QED
  BY <1>7, <1>8

\* An even number of bytes.
Even(b) == Len(b) % 2 = 0

LEMMA EvenLengths ==
    ASSUME NEW b, Len(b) \in {2, 4, 16}
    PROVE  Even(b)
<1>1. 2 % 2 = 0 /\ 4 % 2 = 0 /\ 16 % 2 = 0
  OBVIOUS
<1>2. Len(b) = 2 \/ Len(b) = 4 \/ Len(b) = 16
  OBVIOUS
<1>3. Len(b) % 2 = 0
  BY ONLY <1>1, <1>2
<1> QED
  BY <1>3 DEF Even

LEMMA EvenSum ==
    ASSUME NEW m \in Nat, NEW n \in Nat, m % 2 = 0, n % 2 = 0
    PROVE  (m + n) % 2 = 0
OBVIOUS

LEMMA EvenConcat ==
    ASSUME NEW a \in Seq(Byte), NEW b \in Seq(Byte), Even(a)
    PROVE  /\ a \o b \in Seq(Byte) /\ (Even(b) => Even(a \o b))
           /\ Weighed(a \o b) = Weighed(a) + Weighed(b)
<1>1. Len(a) \in Nat /\ Len(b) \in Nat
  OBVIOUS
<1>2. /\ a \o b \in Seq(Byte) /\ Len(a \o b) = Len(a) + Len(b)
      /\ Weighed(a \o b) = Weighed(a) + Weighed(b)
  BY WeighedConcat DEF Even
<1>3. Even(b) => (Len(a) + Len(b)) % 2 = 0
  BY <1>1, EvenSum DEF Even
<1> QED
  BY <1>2, <1>3 DEF Even

LEMMA Chain ==
    ASSUME NEW a \in Seq(Byte), NEW b \in Seq(Byte), NEW c \in Seq(Byte), NEW d \in Seq(Byte),
           NEW e \in Seq(Byte), Even(a), Even(b), Even(c), Even(d)
    PROVE  /\ Weighed(a \o b \o c \o d) = Weighed(a) + Weighed(b) + Weighed(c) + Weighed(d)
           /\ Weighed(a \o b \o c \o d \o e)
                 = Weighed(a) + Weighed(b) + Weighed(c) + Weighed(d) + Weighed(e)
           /\ a \o b \o c \o d \in Seq(Byte)
           /\ a \o b \o c \o d \o e \in Seq(Byte)
<1> DEFINE ab == a \o b
           abc == ab \o c
           abcd == abc \o d
           abcde == abcd \o e
<1>1. ab \in Seq(Byte) /\ Even(ab) /\ Weighed(ab) = Weighed(a) + Weighed(b)
  BY EvenConcat
<1> HIDE DEF ab
<1>2. abc \in Seq(Byte) /\ Even(abc) /\ Weighed(abc) = Weighed(ab) + Weighed(c)
  BY <1>1, EvenConcat
<1> HIDE DEF abc
<1>3. abcd \in Seq(Byte) /\ Even(abcd) /\ Weighed(abcd) = Weighed(abc) + Weighed(d)
  BY <1>2, EvenConcat
<1> HIDE DEF abcd
<1>4. abcde \in Seq(Byte) /\ Weighed(abcde) = Weighed(abcd) + Weighed(e)
  BY <1>3, EvenConcat
<1> HIDE DEF abcde
<1> QED
  BY <1>1, <1>2, <1>3, <1>4 DEF ab, abc, abcd, abcde

LEMMA WordShape ==
    ASSUME NEW n \in Nat
    PROVE  Word(n) \in Seq(Byte) /\ Even(Word(n))
<1>1. Hi(n) \in Byte /\ Lo(n) \in Byte
  BY Bytes
<1>2. Word(n) \in Seq(Byte) /\ Len(Word(n)) = 2
  BY <1>1 DEF Word
<1> QED
  BY <1>2, EvenLengths

LEMMA WordWeighed ==
    ASSUME NEW n \in Nat, n < 65536
    PROVE  Weighed(Word(n)) = n
<1>1. Hi(n) \in Byte /\ Lo(n) \in Byte
  BY Bytes
<1> QED
  BY <1>1, WeighedPair, Sixteen DEF Word

\* IPv6 has the length in four bytes, the first two of which are zero.
LEMMA WideWeighed ==
    ASSUME NEW n \in Nat, n < 65536
    PROVE  /\ Word(n \div 65536) \o Word(n) \in Seq(Byte)
           /\ Weighed(Word(n \div 65536) \o Word(n)) = n
<1>1. n \div 65536 = 0 /\ 0 \in Nat /\ 0 < 65536
  OBVIOUS
<1>2. /\ Word(0) \in Seq(Byte) /\ Even(Word(0)) /\ Weighed(Word(0)) = 0
      /\ Word(n) \in Seq(Byte) /\ Weighed(Word(n)) = n
  BY <1>1, WordShape, WordWeighed
<1>3. /\ Word(0) \o Word(n) \in Seq(Byte)
      /\ Weighed(Word(0) \o Word(n)) = Weighed(Word(0)) + Weighed(Word(n))
  BY <1>2, EvenConcat
<1> QED
  BY <1>1, <1>2, <1>3

LEMMA CoveredSum ==
    ASSUME TypeOK, Found, field = "l4", NEW b \in [0..(End - 1) -> Byte]
    PROVE  /\ Source(b) \in Seq(Byte) /\ dst \in Seq(Byte) /\ Slice(b, packet.l4, End) \in Seq(Byte)
           /\ Even(Source(b)) /\ Even(dst)
           /\ Covered(b) \in Seq(Byte)
           /\ Weighed(Covered(b))
                 = Weighed(Source(b)) + Weighed(dst) + Weighed(Word(packet.proto))
                      + Weighed(Word(Size)) + Weighed(Slice(b, packet.l4, End))
<1>1. /\ End \in Nat /\ packet.l4 \in Nat /\ packet.l4 <= End /\ packet.ihl >= 20
      /\ packet.l4 >= packet.ihl /\ packet.ihl \in Nat /\ packet.ipv6 \in BOOLEAN
      /\ packet.ipv6 => packet.ihl = 40
      /\ packet.proto \in Nat /\ Size \in Nat
  BY Shape, Places
<1>2. Source(b) \in Seq(Byte) /\ Even(Source(b))
  <2>1. CASE packet.ipv6
    <3>1. 8 \in Nat /\ 24 \in Nat /\ 8 <= 24 /\ 24 <= End /\ 24 - 8 = 16
      BY <1>1, <2>1
    <3>2. Slice(b, 8, 24) \in Seq(Byte)
      BY <1>1, <3>1, SliceType
    <3>3. Len(Slice(b, 8, 24)) = 24 - 8
      BY <3>1, SliceLen
    <3> QED
      BY <2>1, <3>1, <3>2, <3>3, EvenLengths DEF Source
  <2>2. CASE ~packet.ipv6
    <3>1. 12 \in Nat /\ 16 \in Nat /\ 12 <= 16 /\ 16 <= End /\ 16 - 12 = 4
      BY <1>1
    <3>2. Slice(b, 12, 16) \in Seq(Byte)
      BY <1>1, <3>1, SliceType
    <3>3. Len(Slice(b, 12, 16)) = 16 - 12
      BY <3>1, SliceLen
    <3> QED
      BY <2>2, <3>1, <3>2, <3>3, EvenLengths DEF Source
  <2> QED
    BY <1>1, <2>1, <2>2
<1>3. dst \in Seq(Byte) /\ Even(dst)
  BY <1>1, EvenLengths DEF TypeOK, Found
<1>4. Slice(b, packet.l4, End) \in Seq(Byte)
  <2>1. End <= End
    BY <1>1
  <2> QED
    BY <1>1, <2>1, SliceShape
<1>5. /\ Word(packet.proto) \in Seq(Byte) /\ Even(Word(packet.proto))
      /\ Word(Size) \in Seq(Byte) /\ Even(Word(Size))
  <2>1. packet.proto \in Nat /\ Size \in Nat
    BY <1>1
  <2> QED
    BY <2>1, WordShape
<1> QED
  BY <1>2, <1>3, <1>4, <1>5, Chain DEF Covered

LEMMA PartsFew ==
    ASSUME NEW a \in Seq(Byte), NEW b \in Seq(Byte)
    PROVE  /\ Len(<<a>>) <= 5 /\ WeighedParts(<<a>>) = Weighed(a)
           /\ Len(<<a, b>>) <= 5 /\ WeighedParts(<<a, b>>) = Weighed(a) + Weighed(b)
<1>1. Weighed(a) \in Nat /\ Weighed(b) \in Nat
  BY WeighedType
<1> QED
  BY <1>1 DEF WeighedParts, WeighedPart

LEMMA PartsFive ==
    ASSUME NEW a, NEW b, NEW c, NEW d, NEW e
    PROVE  /\ Len(<<a, b, c, d, e>>) <= 5
           /\ WeighedParts(<<a, b, c, d, e>>)
                 = Weighed(a) + Weighed(b) + Weighed(c) + Weighed(d) + Weighed(e)
BY DEF WeighedParts, WeighedPart

LEMMA AboutType ==
    ASSUME TypeOK, Found, Cutting
    PROVE  About \in Nat
<1>1. /\ buf \in [0..(End - 1) -> Byte] /\ End \in Nat
      /\ packet.ihl \in Nat /\ packet.ihl <= packet.l4 /\ packet.l4 <= End
      /\ packet.l4 \in Nat
  BY Shape DEF Cutting
<1>2. CASE field = "ip"
  <2>1. 0 <= packet.ihl /\ packet.ihl <= End
    BY <1>1
  <2>2. Slice(buf, 0, packet.ihl) \in Seq(Byte)
    BY <1>1, <2>1, SliceType
  <2> QED
    BY <1>2, <2>2, WeighedType DEF About
<1>3. CASE field = "l4"
  BY <1>1, <1>3, CoveredSum, WeighedType DEF About
<1> QED
  BY <1>2, <1>3 DEF TypeOK

\* What a checksum of ranges begins with.
LEMMA AddingBegins ==
    ASSUME NEW r \in Seq(Seq(Byte)), Len(r) <= 5, NEW a, WeighedParts(r) = a
    PROVE  0 + WeighedParts(r) = a + Added(r, 0)
BY PartsType, AddedNone

LEMMA AddingStep ==
    TypeOK /\ TypeOK' /\ Phases /\ LengthsWritten /\ Found /\ Adding /\ [Next]_vars => Adding'
<1> SUFFICES ASSUME TypeOK, TypeOK', Phases, LengthsWritten, Found, Adding, [Next]_vars
             PROVE  Adding'
  OBVIOUS
<1>0. UNCHANGED packet => End' = End /\ Size' = Size
  BY DEF End, Size
<1>t. /\ parts \in Seq(Seq(Byte)) /\ pos \in Nat /\ total \in Nat /\ sum \in Nat
      /\ parts' \in Seq(Seq(Byte)) /\ pos' \in Nat /\ total' \in Nat
  BY DEF TypeOK
<1>z. 0 % 2 = 0
  OBVIOUS
<1>1. CASE IpHeader
  <2> DEFINE header == Slice(buf', 0, packet.ihl)
  <2>1. /\ packet' = packet /\ field' = "ip" /\ parts' = <<header>> /\ pos' = 0 /\ total' = 0
    BY <1>1 DEF IpHeader, Begin
  <2>2. header \in Seq(Byte)
    <3>1. parts'[1] \in Seq(Byte) /\ parts'[1] = header
      <4>1. 1 \in 1..Len(parts')
        BY <1>t, <2>1
      <4> QED
        BY <1>t, <2>1, <4>1
    <3> QED
      BY <3>1
  <2>3. About' = Weighed(header)
    BY <2>1 DEF About
  <2> HIDE DEF header
  <2>4. Len(parts') <= 5 /\ WeighedParts(parts') = About'
    BY <2>1, <2>2, <2>3, PartsFew
  <2>5. 0 + WeighedParts(parts') = About' + Added(parts', 0)
    BY <1>t, <2>4, AddingBegins
  <2> QED
    BY <1>z, <2>1, <2>4, <2>5 DEF Adding
<1>2. CASE Transport
  <2>1. /\ UNCHANGED <<packet, buf, field, dst>> /\ field = "l4" /\ pos' = 0 /\ total' = 0
        /\ Cutting
    BY <1>2 DEF Transport, Begin, walk, Phases, Cutting
  <2> DEFINE segment == Slice(buf, packet.l4, End)
             src == Source(buf)
             proto == Word(packet.proto)
             wide == Word(Size \div 65536) \o Word(Size)
  <2>2. parts' = IF packet.ipv6 THEN <<src, dst, wide, proto, segment>>
                 ELSE <<src \o dst \o proto \o Word(Size), segment>>
    <3>1. CASE packet.ipv6
      <4>1. src = Slice(buf, 8, 24)
        BY <3>1 DEF Source
      <4> HIDE DEF src
      <4>2. parts' = <<Slice(buf, 8, 24), dst, wide, proto, segment>>
        BY <1>2, <3>1 DEF Transport, Begin, Size
      <4> QED
        BY <3>1, <4>1, <4>2
    <3>2. CASE ~packet.ipv6
      <4>1. src = Slice(buf, 12, 16)
        BY <3>2 DEF Source
      <4> HIDE DEF src
      <4>2. parts' = <<Slice(buf, 12, 16) \o dst \o proto \o Word(Size), segment>>
        BY <1>2, <3>2 DEF Transport, Begin, Size
      <4> QED
        BY <3>2, <4>1, <4>2
    <3> QED
      BY <3>1, <3>2
  <2>3. /\ buf \in [0..(End - 1) -> Byte] /\ packet.ipv6 \in BOOLEAN
        /\ packet.proto \in Nat /\ Size \in Nat
        /\ packet.ihl >= 20 /\ packet.ihl \in Nat /\ packet.l4 \in Nat /\ End \in Nat
        /\ packet.l4 >= packet.ihl
    BY <2>1, Shape, Places DEF Cutting
  <2>4. Size < 65536
    <3>1. IF packet.ipv6 THEN End - 40 < 65536 ELSE End < 65536
      BY <2>1 DEF LengthsWritten
    <3>2. packet.ipv6 => packet.l4 >= 40
      BY <2>1, Shape
    <3>3. Size = End - packet.l4
      BY DEF Size
    <3> QED
      BY <2>3, <3>1, <3>2, <3>3
  <2>5. /\ src \in Seq(Byte) /\ dst \in Seq(Byte) /\ segment \in Seq(Byte)
        /\ Even(src) /\ Even(dst)
        /\ Weighed(Covered(buf))
              = Weighed(src) + Weighed(dst) + Weighed(proto) + Weighed(Word(Size))
                   + Weighed(segment)
    BY <2>1, <2>3, CoveredSum
  <2>6. proto \in Seq(Byte) /\ Even(proto) /\ Word(Size) \in Seq(Byte) /\ Even(Word(Size))
    BY <2>3, WordShape
  <2>7. wide \in Seq(Byte) /\ Weighed(wide) = Size /\ Weighed(Word(Size)) = Size
    BY <2>3, <2>4, WideWeighed, WordWeighed
  <2>8. /\ Weighed(src) \in Nat /\ Weighed(dst) \in Nat /\ Weighed(proto) \in Nat
        /\ Weighed(segment) \in Nat
    BY <2>5, <2>6, WeighedType
  <2>9. About' = Weighed(Covered(buf))
    <3>1. Covered(buf)' = Covered(buf)
      BY <1>0, <2>1 DEF Covered, Source
    <3> QED
      BY <2>1, <3>1 DEF About
  <2> HIDE DEF src, proto, wide, segment
  <2>10. Len(parts') <= 5 /\ WeighedParts(parts') = About'
    <3>1. CASE packet.ipv6
      <4>1. /\ Len(parts') <= 5
            /\ WeighedParts(parts') = Weighed(src) + Weighed(dst) + Weighed(wide)
                                         + Weighed(proto) + Weighed(segment)
        <5>1. parts' = <<src, dst, wide, proto, segment>>
          BY <2>2, <3>1
        <5>2. /\ Len(<<src, dst, wide, proto, segment>>) <= 5
              /\ WeighedParts(<<src, dst, wide, proto, segment>>)
                    = Weighed(src) + Weighed(dst) + Weighed(wide) + Weighed(proto)
                         + Weighed(segment)
          BY PartsFive
        <5> QED
          BY <5>1, <5>2
      <4> DEFINE a == Weighed(src)
                 b == Weighed(dst)
                 c == Weighed(proto)
                 d == Weighed(segment)
      <4>2. /\ WeighedParts(parts') = a + b + Size + c + d
            /\ About' = a + b + c + Size + d
            /\ a \in Nat /\ b \in Nat /\ c \in Nat /\ d \in Nat /\ Size \in Nat
        BY <2>3, <2>5, <2>7, <2>8, <2>9, <4>1
      <4> HIDE DEF a, b, c, d
      <4>3. WeighedParts(parts') = About'
        BY ONLY <4>2
      <4> QED
        BY <4>1, <4>3
    <3>2. CASE ~packet.ipv6
      <4> DEFINE pseudo == src \o dst \o proto \o Word(Size)
      <4>1. /\ pseudo \in Seq(Byte)
            /\ Weighed(pseudo) = Weighed(src) + Weighed(dst) + Weighed(proto) + Weighed(Word(Size))
        BY <2>5, <2>6, Chain
      <4> HIDE DEF pseudo
      <4>2. parts' = <<pseudo, segment>>
        BY <2>2, <3>2 DEF pseudo
      <4>3. Len(parts') <= 5 /\ WeighedParts(parts') = Weighed(pseudo) + Weighed(segment)
        BY <2>5, <4>1, <4>2, PartsFew
      <4> QED
        BY <2>5, <2>9, <4>1, <4>3
    <3> QED
      BY <2>3, <3>1, <3>2
  <2>11. 0 + WeighedParts(parts') = About' + Added(parts', 0)
    BY <1>t, <2>10, AddingBegins
  <2> QED
    BY <1>z, <2>1, <2>10, <2>11 DEF Adding
<1>3. ASSUME Next, pc = "sum", UNCHANGED <<packet, buf, field, dst>>
      PROVE  About' = About /\ About \in Nat /\ Cutting
  <2>1. Cutting
    BY <1>3 DEF Cutting
  <2>2. Slice(buf, 0, packet.ihl)' = Slice(buf, 0, packet.ihl) /\ Covered(buf)' = Covered(buf)
    BY <1>0, <1>3 DEF Covered, Source
  <2> QED
    BY <1>3, <2>1, <2>2, AboutType DEF About
<1>4. CASE AddWord
  <2>1. /\ pc = "sum" /\ UNCHANGED <<packet, buf, field, dst, parts>> /\ parts # <<>>
        /\ pos < Len(Head(parts)) /\ total' = total + NextWord /\ pos' = pos + 2
    BY <1>4 DEF AddWord, walk
  <2>2. /\ Len(parts) <= 5 /\ pos % 2 = 0 /\ total + WeighedParts(parts) = About + Added(parts, pos)
    BY <2>1 DEF Adding
  <2>3. About' = About /\ About \in Nat
    BY <1>3, <1>4, <2>1 DEF Next
  <2>4. Added(parts, pos + 2) = Added(parts, pos) + NextWord
    BY <1>t, <2>1, <2>2, AddedWord
  <2>5. pos' % 2 = 0
    BY <1>t, <2>1, <2>2, Parity
  <2>6. WeighedParts(parts) \in Nat /\ NextWord \in Nat /\ Added(parts, pos) \in Nat
    BY <1>t, <2>1, PartsType, NextWordType, AddedType
  <2>7. total' + WeighedParts(parts) = About + Added(parts, pos + 2)
    <3> DEFINE w == WeighedParts(parts)
               g == About
               a == Added(parts, pos)
               n == NextWord
    <3>1. /\ total \in Nat /\ w \in Nat /\ g \in Nat /\ a \in Nat /\ n \in Nat
          /\ total + w = g + a /\ total' = total + n
      BY <1>t, <2>1, <2>2, <2>3, <2>6
    <3> HIDE DEF w, g, a, n
    <3>2. total' + w = g + (a + n)
      BY ONLY <3>1
    <3> QED
      BY <2>4, <3>2 DEF w, g, a, n
  <2> QED
    BY <2>1, <2>2, <2>3, <2>5, <2>7 DEF Adding
<1>5. CASE EndPart
  <2>1. /\ pc = "sum" /\ UNCHANGED <<packet, buf, field, dst, total>> /\ parts # <<>>
        /\ pos >= Len(Head(parts)) /\ pos' = 0 /\ parts' = Tail(parts)
    BY <1>5 DEF EndPart, walk
  <2>2. Len(parts) <= 5 /\ total + WeighedParts(parts) = About + Added(parts, pos)
    BY <2>1 DEF Adding
  <2>3. About' = About /\ About \in Nat
    BY <1>3, <1>5, <2>1 DEF Next
  <2>4. Added(parts, pos) = Weighed(Head(parts))
    BY <1>t, <2>1, AddedAll
  <2>5. /\ Head(parts) \in Seq(Byte) /\ Tail(parts) \in Seq(Seq(Byte)) /\ Len(Tail(parts)) <= 4
        /\ WeighedParts(parts) = Weighed(Head(parts)) + WeighedParts(Tail(parts))
    BY <1>t, <2>1, <2>2, PartsTail
  <2>6. Added(Tail(parts), 0) = 0
    BY <2>5, AddedNone
  <2>7. Weighed(Head(parts)) \in Nat /\ WeighedParts(Tail(parts)) \in Nat
    BY <2>5, WeighedType, PartsType
  <2>8. total + WeighedParts(Tail(parts)) = About + 0
    <3> DEFINE h == Weighed(Head(parts))
               w == WeighedParts(Tail(parts))
               g == About
    <3>1. /\ total \in Nat /\ h \in Nat /\ w \in Nat /\ g \in Nat
          /\ total + (h + w) = g + h
      BY <1>t, <2>2, <2>3, <2>4, <2>5, <2>7
    <3> HIDE DEF h, w, g
    <3>2. total + w = g + 0
      BY ONLY <3>1
    <3> QED
      BY <3>2 DEF h, w, g
  <2>9. Len(parts') <= 5
    <3>1. Len(Tail(parts)) \in Nat
      BY <2>5
    <3> QED
      BY <2>1, <2>5, <3>1
  <2> QED
    BY <1>z, <2>1, <2>3, <2>6, <2>8, <2>9 DEF Adding
<1>6. CASE FoldSum \/ FoldAcc
  <2>1. /\ pc = "sum" /\ UNCHANGED <<packet, buf, field, dst, total, pos, parts>>
    BY <1>6 DEF FoldSum, FoldAcc, walk
  <2>2. About' = About
    BY <1>3, <1>6, <2>1 DEF Next
  <2> QED
    BY <2>1, <2>2 DEF Adding
<1>7. CASE Cut \/ Lengths \/ PassOption \/ WriteChecksum
  <2>1. pc' # "sum"
    BY <1>7 DEF Cut, Lengths, PassOption, WriteChecksum
  <2> QED
    BY <2>1 DEF Adding
<1>8. CASE UNCHANGED vars
  <2>1. UNCHANGED <<packet, buf, field, dst, total, pos, parts, pc>>
    BY <1>8 DEF vars, walk, sums
  <2>2. About' = About
    <3>1. Slice(buf, 0, packet.ihl)' = Slice(buf, 0, packet.ihl) /\ Covered(buf)' = Covered(buf)
      BY <1>0, <2>1 DEF Covered, Source
    <3> QED
      BY <2>1, <3>1 DEF About
  <2> QED
    BY <2>1, <2>2 DEF Adding
<1> QED
  BY <1>1, <1>2, <1>4, <1>5, <1>6, <1>7, <1>8 DEF Next

\* With the checksum, what it is about sums up to zero.
LEMMA WrittenTotal ==
    ASSUME TypeOK, Phases, Found, Adding, FoldingKeeps', WriteChecksum
    PROVE  /\ OnTheWire \in Nat /\ OnTheWire < 65536
           /\ About \in Nat /\ (About + OnTheWire) % 65535 = 0
<1>1. pc = "sum" /\ parts = <<>> /\ acc < 65536 /\ total' = total + OnTheWire /\ acc \in Nat
  BY DEF WriteChecksum, TypeOK
<1>2. OnTheWire \in Nat /\ OnTheWire < 65536
  BY <1>1 DEF OnTheWire
<1>3. WeighedParts(<<>>) = 0 /\ Added(<<>>, pos) = 0
  BY DEF WeighedParts, WeighedPart, Added
<1>4. About \in Nat
  BY <1>1, AboutType DEF Cutting
<1>5. total = About
  <2>1. total + 0 = About + 0 /\ total \in Nat
    BY <1>1, <1>3 DEF Adding, TypeOK
  <2> QED
    BY <1>4, <2>1
<1>6. total' % 65535 = 0
  BY DEF WriteChecksum, FoldingKeeps
<1> QED
  BY <1>1, <1>2, <1>4, <1>5, <1>6

\* The header is not written to after its checksum.
LEMMA HeaderSame ==
    ASSUME TypeOK, Cutting, NEW b \in [0..(End - 1) -> Byte],
           NEW at \in Nat, NEW v \in Nat, packet.l4 + 4 <= at, at + 2 <= End
    PROVE  /\ Patch(b, at, v) \in [0..(End - 1) -> Byte]
           /\ Slice(Patch(b, at, v), 0, packet.ihl) = Slice(b, 0, packet.ihl)
           /\ Source(Patch(b, at, v)) = Source(b)
<1>1. /\ End \in Nat /\ packet.ihl \in Nat /\ packet.ihl <= packet.l4 /\ packet.l4 \in Nat
      /\ packet.l4 + packet.hlen <= End /\ packet.hlen \in Nat /\ packet.ihl >= 20
      /\ packet.ipv6 => packet.ihl = 40
  BY Shape
<1> DEFINE c == Patch(b, at, v)
<1>2. /\ c \in [0..(End - 1) -> Byte]
      /\ \A k \in Nat : k < End /\ k # at /\ k # at + 1 => c[k] = b[k]
  BY <1>1, NumberWritten
<1> HIDE DEF c
<1>3. ASSUME NEW from \in Nat, NEW to \in Nat, to <= packet.ihl
      PROVE  Slice(c, from, to) = Slice(b, from, to)
  <2>1. \A k \in Nat : from <= k /\ k < to => c[k] = b[k]
    BY <1>1, <1>2, <1>3
  <2> QED
    BY <2>1, SliceSame
<1>4. Slice(c, 0, packet.ihl) = Slice(b, 0, packet.ihl)
  <2>1. 0 \in Nat /\ packet.ihl <= packet.ihl
    BY <1>1
  <2> QED
    BY <1>1, <1>3, <2>1
<1>5. Source(c) = Source(b)
  <2>1. /\ 8 \in Nat /\ 24 \in Nat /\ 12 \in Nat /\ 16 \in Nat
        /\ 16 <= packet.ihl /\ (packet.ipv6 => 24 <= packet.ihl)
    BY <1>1
  <2>2. packet.ipv6 => Slice(c, 8, 24) = Slice(b, 8, 24)
    BY <1>3, <2>1
  <2>3. Slice(c, 12, 16) = Slice(b, 12, 16)
    BY <1>3, <2>1
  <2> QED
    BY <2>2, <2>3 DEF Source
<1> QED
  BY <1>2, <1>4, <1>5 DEF c

LEMMA HeaderSoundStep ==
    TypeOK /\ Phases /\ Zeroed /\ Found /\ Adding /\ HeaderSound /\ FoldingKeeps' /\ [Next]_vars
       => HeaderSound'
<1> SUFFICES ASSUME TypeOK, Phases, Zeroed, Found, Adding, HeaderSound, FoldingKeeps', [Next]_vars
             PROVE  HeaderSound'
  OBVIOUS
<1>0. /\ End \in Nat /\ packet.ihl \in Nat /\ packet.ihl >= 20 /\ packet.ihl <= packet.l4
      /\ packet.l4 \in Nat /\ packet.hlen \in Nat /\ packet.hlen >= 8
      /\ packet.l4 + packet.hlen <= End
      /\ Cutting => buf \in [0..(End - 1) -> Byte]
  BY Shape DEF Cutting
<1>1. CASE WriteChecksum /\ field = "ip"
  <2>1. /\ Cutting /\ packet' = packet /\ buf' = Patch(buf, 10, OnTheWire)
        /\ NumberAt(buf, 10, 0)
    BY <1>1, Places DEF WriteChecksum, Cutting, Zeroed
  <2>2. /\ OnTheWire \in Nat /\ OnTheWire < 65536
        /\ (Weighed(Slice(buf, 0, packet.ihl)) + OnTheWire) % 65535 = 0
    BY <1>1, WrittenTotal DEF About
  <2>3. Weighed(Slice(buf', 0, packet.ihl)) = Weighed(Slice(buf, 0, packet.ihl)) + OnTheWire
    <3>1. /\ 0 \in Nat /\ 10 \in Nat /\ 0 <= 10 /\ 10 + 2 <= packet.ihl /\ packet.ihl <= End
          /\ (10 - 0) % 2 = 0
      BY <1>0
    <3> QED
      BY <1>0, <2>1, <2>2, <3>1, FieldCounts
  <2> QED
    BY <2>1, <2>2, <2>3 DEF HeaderSound, Sound
<1>2. CASE WriteChecksum /\ field = "l4"
  <2> DEFINE place == ChecksumAt(packet, "l4")
  <2>1. Cutting /\ packet' = packet /\ buf' = Patch(buf, place, OnTheWire)
    BY <1>2 DEF WriteChecksum, Cutting
  <2>2. OnTheWire \in Nat /\ place \in Nat /\ packet.l4 + 4 <= place /\ place + 2 <= End
    <3>1. OnTheWire \in Nat
      BY <1>2, WrittenTotal
    <3>2. place \in Nat /\ packet.l4 + 6 <= place /\ place + 2 <= End
      BY Places
    <3> QED
      BY <1>0, <3>1, <3>2
  <2> HIDE DEF place
  <2>3. Slice(buf', 0, packet.ihl) = Slice(buf, 0, packet.ihl)
    BY <1>0, <2>1, <2>2, HeaderSame
  <2> QED
    BY <1>2, <2>1, <2>3 DEF HeaderSound
<1>3. CASE Lengths
  <2> DEFINE sized == IF packet.proto = UDP THEN Patch(buf, packet.l4 + 4, Size) ELSE buf
             place == ChecksumAt(packet, "l4")
  <2>1. Cutting /\ pc = "lengths" /\ packet' = packet /\ buf' = Patch(sized, place, 0)
    BY <1>3, Places DEF Lengths, Cutting
  <2>2. /\ Size \in Nat /\ place \in Nat /\ packet.l4 + 4 <= place /\ place + 2 <= End
        /\ packet.l4 + 4 \in Nat /\ packet.l4 + 4 <= packet.l4 + 4 /\ (packet.l4 + 4) + 2 <= End
    <3>1. Size \in Nat /\ place \in Nat /\ packet.l4 + 6 <= place /\ place + 2 <= End
      BY Places
    <3> HIDE DEF place
    <3> QED
      BY <1>0, <3>1
  <2>3. /\ sized \in [0..(End - 1) -> Byte]
        /\ Slice(sized, 0, packet.ihl) = Slice(buf, 0, packet.ihl)
    BY <1>0, <2>1, <2>2, HeaderSame
  <2> HIDE DEF sized, place
  <2>4. Slice(buf', 0, packet.ihl) = Slice(sized, 0, packet.ihl)
    <3>1. 0 \in Nat
      OBVIOUS
    <3> QED
      BY <2>1, <2>2, <2>3, <3>1, HeaderSame
  <2> QED
    BY <2>1, <2>3, <2>4 DEF HeaderSound
<1>4. CASE Cut \/ IpHeader
  BY <1>0, <1>4 DEF Cut, IpHeader, Begin, Phases, HeaderSound
<1>5. CASE PassOption \/ Transport \/ AddWord \/ FoldSum \/ EndPart \/ FoldAcc
  <2>1. UNCHANGED <<packet, buf, field>> /\ pc' # "lengths"
    BY <1>5 DEF PassOption, Transport, Begin, AddWord, FoldSum, EndPart, FoldAcc
  <2> QED
    BY <2>1 DEF HeaderSound
<1>6. CASE UNCHANGED vars
  BY <1>6 DEF vars, HeaderSound
<1> QED
  BY <1>1, <1>2, <1>3, <1>4, <1>5, <1>6 DEF Next, TypeOK

LEMMA SegmentSoundStep ==
    TypeOK /\ Phases /\ Zeroed /\ Found /\ Adding /\ SegmentSound /\ FoldingKeeps' /\ [Next]_vars
       => SegmentSound'
<1> SUFFICES ASSUME TypeOK, Phases, Zeroed, Found, Adding, SegmentSound, FoldingKeeps', [Next]_vars
             PROVE  SegmentSound'
  OBVIOUS
<1>0. UNCHANGED packet => End' = End /\ Size' = Size
  BY DEF End, Size
<1>1. CASE WriteChecksum /\ field = "l4"
  <2> DEFINE place == ChecksumAt(packet, "l4")
  <2>1. /\ Cutting /\ packet' = packet /\ dst' = dst /\ buf' = Patch(buf, place, OnTheWire)
        /\ NumberAt(buf, place, 0)
    BY <1>1 DEF WriteChecksum, walk, Cutting, Zeroed
  <2>2. /\ OnTheWire \in Nat /\ OnTheWire < 65536
        /\ (Weighed(Covered(buf)) + OnTheWire) % 65535 = 0
    BY <1>1, WrittenTotal DEF About
  <2>3. /\ place \in Nat /\ packet.l4 + 4 <= place /\ packet.l4 <= place /\ place + 2 <= End
        /\ (place - packet.l4) % 2 = 0 /\ packet.l4 \in Nat /\ End \in Nat /\ End <= End
        /\ buf \in [0..(End - 1) -> Byte] /\ packet.proto \in Nat /\ Size \in Nat
    <3>1. packet.l4 \in Nat /\ End \in Nat /\ buf \in [0..(End - 1) -> Byte] /\ packet.proto \in Nat
      BY <2>1, Shape DEF Cutting
    <3>2. /\ place \in Nat /\ packet.l4 + 6 <= place /\ place + 2 <= End
          /\ (place - packet.l4) % 2 = 0 /\ Size \in Nat
      BY Places
    <3> HIDE DEF place
    <3> QED
      BY <3>1, <3>2
  <2> HIDE DEF place
  <2>4. buf' \in [0..(End - 1) -> Byte] /\ Source(buf') = Source(buf)
    BY <2>1, <2>2, <2>3, HeaderSame
  <2>5. Weighed(Slice(buf', packet.l4, End)) = Weighed(Slice(buf, packet.l4, End)) + OnTheWire
    <3> DEFINE from == packet.l4
               to == End
               v == OnTheWire
               c == Patch(buf, place, v)
    <3>1. /\ to \in Nat /\ buf \in [0..(to - 1) -> Byte] /\ from \in Nat /\ place \in Nat
          /\ from <= place /\ place + 2 <= to /\ to <= to /\ (place - from) % 2 = 0
          /\ NumberAt(buf, place, 0) /\ v \in Nat /\ v < 65536
      BY <2>1, <2>2, <2>3
    <3>2. buf' = c
      BY <2>1
    <3> HIDE DEF from, to, v
    <3>3. Weighed(Slice(c, from, to)) = Weighed(Slice(buf, from, to)) + v
      BY ONLY <3>1, FieldCounts DEF c
    <3> QED
      BY <3>2, <3>3 DEF from, to, v
  <2>6. /\ Source(buf) \in Seq(Byte) /\ dst \in Seq(Byte)
        /\ Slice(buf, packet.l4, End) \in Seq(Byte)
        /\ Weighed(Covered(buf))
              = Weighed(Source(buf)) + Weighed(dst) + Weighed(Word(packet.proto))
                   + Weighed(Word(Size)) + Weighed(Slice(buf, packet.l4, End))
    BY <1>1, <2>3, CoveredSum
  <2>7. Weighed(Covered(buf'))
           = Weighed(Source(buf')) + Weighed(dst) + Weighed(Word(packet.proto))
                + Weighed(Word(Size)) + Weighed(Slice(buf', packet.l4, End))
    BY <1>1, <2>4, CoveredSum
  <2>8. Weighed(Covered(buf')) = Weighed(Covered(buf)) + OnTheWire
    <3>1. Word(packet.proto) \in Seq(Byte) /\ Word(Size) \in Seq(Byte)
      BY <2>3, WordShape
    <3> DEFINE a == Weighed(Source(buf))
               b == Weighed(dst)
               c == Weighed(Word(packet.proto))
               d == Weighed(Word(Size))
               e == Weighed(Slice(buf, packet.l4, End))
    <3>2. /\ a \in Nat /\ b \in Nat /\ c \in Nat /\ d \in Nat /\ e \in Nat /\ OnTheWire \in Nat
          /\ Weighed(Covered(buf)) = a + b + c + d + e
          /\ Weighed(Covered(buf')) = a + b + c + d + (e + OnTheWire)
      BY <2>2, <2>4, <2>5, <2>6, <2>7, <3>1, WeighedType
    <3> HIDE DEF a, b, c, d, e
    <3> QED
      BY ONLY <3>2
  <2>9. Covered(buf)' = Covered(buf')
    BY <1>0, <2>1 DEF Covered, Source
  <2> QED
    BY <2>2, <2>8, <2>9 DEF SegmentSound, Sound
<1>2. CASE WriteChecksum /\ field # "l4"
  <2>1. pc' = "lengths"
    BY <1>2 DEF WriteChecksum, TypeOK
  <2> QED
    BY <2>1 DEF SegmentSound
<1>3. CASE Next /\ ~WriteChecksum
  <2>1. CASE Cut \/ IpHeader \/ Lengths \/ PassOption \/ Transport
    BY <2>1 DEF Cut, IpHeader, Lengths, PassOption, Transport, Begin, SegmentSound
  <2>2. CASE AddWord \/ FoldSum \/ EndPart \/ FoldAcc
    BY <2>2 DEF AddWord, FoldSum, EndPart, FoldAcc, SegmentSound
  <2> QED
    BY <1>3, <2>1, <2>2 DEF Next
<1>4. CASE UNCHANGED vars
  <2>1. UNCHANGED <<packet, buf, dst, pc>>
    BY <1>4 DEF vars, walk
  <2>2. Covered(buf)' = Covered(buf)
    BY <1>0, <2>1 DEF Covered, Source
  <2> QED
    BY <2>1, <2>2 DEF SegmentSound, Sound, Weighed, Sums, Weight
<1> QED
  BY <1>1, <1>2, <1>3, <1>4

-----------------------------------------------------------------------------
(* The invariant holds, and a receiver accepts what was cut.               *)

RInv ==
    Phases /\ LengthsWritten /\ Zeroed /\ Found /\ Adding /\ HeaderSound /\ SegmentSound

LEMMA RInit == Init => RInv
BY DEF Init, RInv, Phases, OnlyIpv4, LengthsWritten, Cutting, Zeroed, Found, Adding,
       HeaderSound, SegmentSound

LEMMA RStep ==
    TypeOK /\ TypeOK' /\ OthersKept /\ FoldingKeeps' /\ RInv /\ [Next]_vars => RInv'
<1> SUFFICES ASSUME TypeOK, TypeOK', OthersKept, FoldingKeeps', RInv, [Next]_vars PROVE RInv'
  OBVIOUS
<1>1. Phases /\ LengthsWritten /\ Zeroed /\ Found /\ Adding /\ HeaderSound /\ SegmentSound
  BY DEF RInv
<1>2. Phases' /\ LengthsWritten' /\ Zeroed'
  BY <1>1, PhasesStep, LengthsStep, ZeroedStep
<1>3. Found'
  BY <1>1, FoundStep
<1>4. Adding'
  BY <1>1, AddingStep
<1>5. HeaderSound' /\ SegmentSound'
  BY <1>1, HeaderSoundStep, SegmentSoundStep
<1> QED
  BY <1>2, <1>3, <1>4, <1>5 DEF RInv

\* What a receiver takes for the end of the packet is its end, and what it
\* takes for the destination is what the code found.
LEMMA RAccepts == TypeOK /\ RInv => ReceiverAccepts
<1> SUFFICES ASSUME TypeOK, RInv, pc = "done", ~packet.hidden PROVE ReceiverAccepts
  BY DEF ReceiverAccepts
<1> DEFINE number(k) == 256 * buf[k] + buf[k + 1]
           end == IF packet.ipv6 THEN 40 + number(4) ELSE number(2)
           length == IF packet.proto = UDP THEN number(packet.l4 + 4) ELSE end - packet.l4
<1>0. /\ packet \in Packets /\ End \in Nat /\ packet.l4 \in Nat /\ packet.l4 >= 20
      /\ packet.ipv6 \in BOOLEAN /\ (packet.ipv6 => packet.l4 >= 40)
  BY Shape
<1>1. field = "l4" /\ Cutting
  BY DEF RInv, Phases, Cutting
<1>2. /\ Size \in Nat /\ Size = End - packet.l4 /\ packet.l4 + Size = End
      /\ packet.ipv6 => End - 40 \in Nat /\ End - 40 < 65536 /\ NumberAt(buf, 4, End - 40)
      /\ ~packet.ipv6 => End < 65536 /\ NumberAt(buf, 2, End)
      /\ packet.proto = UDP => NumberAt(buf, packet.l4 + 4, Size)
  BY <1>0, <1>1, Places DEF RInv, LengthsWritten, Size
<1>3. Size < 65536
  BY <1>0, <1>2
<1>4. end = End
  <2>1. CASE packet.ipv6
    <3>1. number(4) = End - 40
      BY <1>2, <2>1, Sixteen DEF NumberAt
    <3> QED
      BY <1>0, <2>1, <3>1
  <2>2. CASE ~packet.ipv6
    BY <1>0, <1>2, <2>2, Sixteen DEF NumberAt
  <2> QED
    BY <2>1, <2>2
<1>5. length = Size
  <2>1. CASE packet.proto = UDP
    BY <1>2, <1>3, <2>1, Sixteen DEF NumberAt
  <2>2. CASE packet.proto # UDP
    BY <1>2, <1>4, <2>2
  <2> QED
    BY <2>1, <2>2
<1>6. packet.final = dst
  <2>1. packet.final = Destination(packet)
    BY <1>0, ConstantsAssumption DEF IsPacket
  <2> QED
    BY <1>1, <2>1 DEF RInv, Found
<1>7. ~packet.ipv6 => Sound(Slice(buf, 0, packet.ihl))
  BY <1>1 DEF RInv, HeaderSound
<1>8. Sound(Source(buf) \o packet.final \o Word(packet.proto) \o Word(length)
               \o Slice(buf, packet.l4, packet.l4 + length))
  BY <1>2, <1>5, <1>6 DEF RInv, SegmentSound, Covered
<1> QED
  BY <1>7, <1>8 DEF ReceiverAccepts, Source

\* Phases to SegmentSound hold of every packet and at every step.
THEOREM Invariance == Spec => []RInv
<1>1. TypeOK /\ TypeOK' /\ OthersKept /\ FoldingKeeps' /\ RInv /\ [Next]_vars => RInv'
  BY RStep
<1> QED
  BY <1>1, RInit, TypeCorrect, Others, Folding, PTL DEF Spec

\* A packet that was cut has checksums that its receiver accepts, whatever its
\* bytes are and however long it is.
THEOREM Receiver == Spec => []ReceiverAccepts
BY RAccepts, Invariance, TypeCorrect, PTL

-----------------------------------------------------------------------------
(* The loops end.                                                          *)

\* What is left to do, most significant first.
Stage ==
    CASE pc = "cut" -> 6
      [] pc = "header" -> 5
      [] pc = "sum" -> IF field = "ip" THEN 4 ELSE 1
      [] pc = "lengths" -> 3
      [] pc = "route" -> 2
      [] OTHER -> 0
OptionsLeft == IF opt <= packet.ihl THEN packet.ihl - opt ELSE 0
BytesLeft == IF parts # <<>> /\ pos < Len(Head(parts)) THEN Len(Head(parts)) - pos ELSE 0

Nearer ==
    \/ Stage' < Stage
    \/ /\ Stage' = Stage
       /\ \/ pc = "route" /\ OptionsLeft' < OptionsLeft
          \/ pc = "sum" /\ Len(parts') < Len(parts)
          \/ /\ pc = "sum" /\ parts' = parts
             /\ \/ BytesLeft' < BytesLeft
                \/ BytesLeft' = BytesLeft /\ sum' < sum
                \/ BytesLeft' = BytesLeft /\ sum' = sum /\ acc' < acc

LEMMA FoldShrinks ==
    ASSUME NEW n \in Nat, n >= 65536
    PROVE  Folded(n) < n
<1>1. n = 65536 * (n \div 65536) + (n % 65536) /\ n % 65536 \in Nat
  OBVIOUS
<1>2. n \div 65536 \in Nat /\ n \div 65536 > 0
  OBVIOUS
<1> DEFINE q == n \div 65536
           r == n % 65536
<1>3. q \in Nat /\ q > 0 /\ r \in Nat /\ n = 65536 * q + r /\ Folded(n) = r + q
  BY <1>1, <1>2 DEF Folded
<1> HIDE DEF q, r
<1> QED
  BY ONLY <1>3

LEMMA StepSinks ==
    ASSUME TypeOK, Phases, Next
    PROVE  Nearer
<1>0. /\ opt \in Nat /\ pos \in Nat /\ sum \in Nat /\ acc \in Nat /\ packet.ihl \in Nat
      /\ field \in {"ip", "l4"} /\ parts \in Seq(Seq(Byte))
  BY Shape DEF TypeOK
<1>1. CASE Cut
  <2>1. pc = "cut" /\ pc' \in {"kept", "lengths", "header"}
    BY <1>1 DEF Cut
  <2> QED
    BY <2>1 DEF Nearer, Stage
<1>2. CASE IpHeader
  <2>1. pc = "header" /\ pc' = "sum" /\ field' = "ip"
    BY <1>2 DEF IpHeader, Begin
  <2> QED
    BY <2>1 DEF Nearer, Stage
<1>3. CASE Lengths
  <2>1. pc = "lengths" /\ pc' = "route"
    BY <1>3 DEF Lengths
  <2> QED
    BY <2>1 DEF Nearer, Stage
<1>4. CASE PassOption
  <2>1. /\ pc = "route" /\ UNCHANGED <<packet, pc, field>> /\ opt + 1 < packet.ihl
        /\ buf[opt + 1] >= 2 /\ opt + buf[opt + 1] <= packet.ihl
        /\ opt' = packet.ihl \/ opt' = opt + buf[opt + 1]
    BY <1>4 DEF PassOption, AtOption
  <2>2. buf[opt + 1] \in Nat
    <3>1. buf \in [0..(End - 1) -> Byte] /\ opt + 1 \in 0..(End - 1)
      BY <1>0, <2>1, Shape
    <3> QED
      BY <3>1, ByteNat
  <2>3. opt < opt' /\ opt' <= packet.ihl /\ opt' \in Nat
    <3> DEFINE len == buf[opt + 1]
    <3>1. /\ len \in Nat /\ len >= 2 /\ opt + len <= packet.ihl /\ opt + 1 < packet.ihl
          /\ opt' = packet.ihl \/ opt' = opt + len
      BY <2>1, <2>2
    <3> HIDE DEF len
    <3> QED
      BY <1>0, <3>1
  <2>4. OptionsLeft' < OptionsLeft
    BY <1>0, <2>1, <2>3 DEF OptionsLeft
  <2> QED
    BY <2>1, <2>4 DEF Nearer, Stage
<1>5. CASE Transport
  <2>1. pc = "route" /\ pc' = "sum" /\ field' = field /\ field = "l4"
    BY <1>5 DEF Transport, Begin, Phases
  <2> QED
    BY <2>1 DEF Nearer, Stage
<1>6. CASE AddWord
  <2>1. /\ pc = "sum" /\ UNCHANGED <<pc, field, parts>> /\ parts # <<>>
        /\ pos < Len(Head(parts)) /\ pos' = pos + 2
    BY <1>6 DEF AddWord
  <2>2. Len(Head(parts)) \in Nat
    BY <1>0, <2>1
  <2>3. BytesLeft' < BytesLeft
    BY <1>0, <2>1, <2>2 DEF BytesLeft
  <2> QED
    BY <2>1, <2>3 DEF Nearer, Stage
<1>7. CASE FoldSum
  <2>1. /\ pc = "sum" /\ UNCHANGED <<pc, field, parts, pos>> /\ sum >= 65536
        /\ sum' = Folded(sum)
    BY <1>7 DEF FoldSum
  <2>2. sum' < sum
    BY <1>0, <2>1, FoldShrinks
  <2> QED
    BY <2>1, <2>2 DEF Nearer, Stage, BytesLeft
<1>8. CASE EndPart
  <2>1. pc = "sum" /\ UNCHANGED <<pc, field>> /\ parts # <<>> /\ parts' = Tail(parts)
    BY <1>8 DEF EndPart
  <2>2. Len(parts') < Len(parts)
    BY <1>0, <2>1
  <2> QED
    BY <2>1, <2>2 DEF Nearer, Stage
<1>9. CASE FoldAcc
  <2>1. /\ pc = "sum" /\ UNCHANGED <<pc, field, parts, pos, sum>> /\ acc >= 65536
        /\ acc' = Folded(acc)
    BY <1>9 DEF FoldAcc
  <2>2. acc' < acc
    BY <1>0, <2>1, FoldShrinks
  <2> QED
    BY <2>1, <2>2 DEF Nearer, Stage, BytesLeft
<1>10. CASE WriteChecksum
  <2>1. /\ pc = "sum" /\ field' = field
        /\ pc' = IF field = "ip" THEN "lengths" ELSE "done"
    BY <1>10 DEF WriteChecksum
  <2> QED
    BY <1>0, <2>1 DEF Nearer, Stage
<1> QED
  BY <1>1, <1>2, <1>3, <1>4, <1>5, <1>6, <1>7, <1>8, <1>9, <1>10 DEF Next

\* No step of the program leaves as much to do as there was, whatever the
\* options claim to be their lengths: the loop over the options moves on, and a
\* fold makes a sum smaller.  What is left are numbers, so no loop goes on for
\* ever.
THEOREM Descent ==
    Spec => /\ []({Stage, OptionsLeft, Len(parts), BytesLeft, sum, acc} \subseteq Nat)
            /\ [][Nearer]_vars
<1>1. TypeOK => {Stage, OptionsLeft, Len(parts), BytesLeft, sum, acc} \subseteq Nat
  <2> SUFFICES ASSUME TypeOK
               PROVE  {Stage, OptionsLeft, Len(parts), BytesLeft, sum, acc} \subseteq Nat
    OBVIOUS
  <2>1. /\ opt \in Nat /\ pos \in Nat /\ sum \in Nat /\ acc \in Nat /\ packet.ihl \in Nat
        /\ parts \in Seq(Seq(Byte))
    BY Shape DEF TypeOK
  <2>2. Stage \in Nat
    BY DEF Stage
  <2>3. OptionsLeft \in Nat
    BY <2>1 DEF OptionsLeft
  <2>4. BytesLeft \in Nat
    <3>1. CASE parts = <<>>
      BY <3>1 DEF BytesLeft
    <3>2. CASE parts # <<>>
      <4>1. Len(Head(parts)) \in Nat
        BY <2>1, <3>2
      <4> QED
        BY <2>1, <4>1 DEF BytesLeft
    <3> QED
      BY <3>1, <3>2
  <2> QED
    BY <2>1, <2>2, <2>3, <2>4
<1>2. TypeOK /\ RInv /\ [Next]_vars => [Nearer]_vars
  BY StepSinks DEF RInv
<1> QED
  BY <1>1, <1>2, Invariance, TypeCorrect, PTL DEF Spec

-----------------------------------------------------------------------------
(* The width of the sums.                                                  *)

\* The sums of the code have 32 bits.
InU32 == sum < 4294967296 /\ acc < 4294967296

\* No range is longer than a packet, a sum grows by less than 65536 for every
\* two bytes, and at most five of them are added once they are folded.
Bounded ==
    /\ \A i \in 1..Len(parts) : Len(parts[i]) <= 65576
    /\ parts # <<>> => pos <= Len(parts[1]) + 1
    /\ parts = <<>> => pos = 0
    /\ 2 * sum <= 65535 * pos
    /\ acc + 65535 * Len(parts) <= 327675

LEMMA InBounds == TypeOK /\ Bounded => InU32
<1> SUFFICES ASSUME TypeOK, Bounded PROVE InU32
  OBVIOUS
<1>1. /\ parts \in Seq(Seq(Byte)) /\ pos \in Nat /\ sum \in Nat /\ acc \in Nat
      /\ 2 * sum <= 65535 * pos /\ acc + 65535 * Len(parts) <= 327675
  BY DEF TypeOK, Bounded
<1>2. pos <= 65577
  <2>1. CASE parts = <<>>
    BY <2>1 DEF Bounded
  <2>2. CASE parts # <<>>
    <3>1. 1 \in 1..Len(parts)
      BY <1>1, <2>2
    <3>2. Len(parts[1]) \in Nat /\ Len(parts[1]) <= 65576 /\ pos <= Len(parts[1]) + 1
      BY <1>1, <2>2, <3>1 DEF Bounded
    <3> QED
      BY <1>1, <3>2
  <2> QED
    BY <2>1, <2>2
<1>3. sum < 4294967296
  BY <1>1, <1>2
<1>4. Len(parts) \in Nat
  BY <1>1
<1>5. acc < 4294967296
  BY <1>1, <1>4
<1> QED
  BY <1>3, <1>5 DEF InU32

\* A word is a number of 16 bits.
LEMMA WordBound ==
    ASSUME parts \in Seq(Seq(Byte)), parts # <<>>, pos \in Nat, pos < Len(Head(parts))
    PROVE  NextWord \in Nat /\ NextWord <= 65535
<1> DEFINE part == Head(parts)
<1>1. part \in Seq(Byte) /\ pos + 1 \in 1..Len(part)
  OBVIOUS
<1>2. part[pos + 1] \in Byte /\ (pos + 1 < Len(part) => part[pos + 2] \in Byte)
  BY <1>1
<1> HIDE DEF part
<1>3. NextWord = IF pos + 1 < Len(part) THEN 256 * part[pos + 1] + part[pos + 2]
                 ELSE 256 * part[pos + 1]
  BY DEF NextWord, part
<1>4. \A b \in Byte : b \in Nat /\ b <= 255
  BY DEF Byte
<1> DEFINE x == part[pos + 1]
           y == part[pos + 2]
<1>5. x \in Nat /\ x <= 255 /\ (pos + 1 < Len(part) => y \in Nat /\ y <= 255)
  BY <1>2, <1>4
<1>6. NextWord = IF pos + 1 < Len(part) THEN 256 * x + y ELSE 256 * x
  BY <1>3
<1> HIDE DEF x, y
<1> QED
  BY <1>5, <1>6

Short(range) == Len(range) \in Nat /\ Len(range) <= 65576

LEMMA OneBegins ==
    ASSUME NEW a, Short(a), parts' = <<a>>, pos' = 0, sum' = 0, acc' = 0
    PROVE  Bounded'
BY DEF Bounded, Short

LEMMA TwoBegin ==
    ASSUME NEW a, NEW b, Short(a), Short(b), parts' = <<a, b>>, pos' = 0, sum' = 0, acc' = 0
    PROVE  Bounded'
BY DEF Bounded, Short

LEMMA FiveBegin ==
    ASSUME NEW a, NEW b, NEW c, NEW d, NEW e,
           Short(a), Short(b), Short(c), Short(d), Short(e),
           parts' = <<a, b, c, d, e>>, pos' = 0, sum' = 0, acc' = 0
    PROVE  Bounded'
<1>1. Len(parts') = 5
  OBVIOUS
<1>2. ASSUME NEW i \in 1..5 PROVE parts'[i] \in {a, b, c, d, e}
  OBVIOUS
<1>3. \A i \in 1..5 : Len(parts'[i]) \in Nat /\ Len(parts'[i]) <= 65576
  BY <1>2 DEF Short
<1>4. 0 <= Len(parts'[1]) + 1 /\ parts' # <<>>
  BY <1>1, <1>3
<1> QED
  BY <1>1, <1>3, <1>4 DEF Bounded

LEMMA ConcatLen ==
    ASSUME NEW a \in Seq(Byte), NEW b \in Seq(Byte)
    PROVE  a \o b \in Seq(Byte) /\ Len(a \o b) = Len(a) + Len(b)
OBVIOUS

LEMMA BoundedStep ==
    TypeOK /\ LengthsWritten /\ Found /\ Phases /\ Bounded /\ [Next]_vars => Bounded'
<1> SUFFICES ASSUME TypeOK, LengthsWritten, Found, Phases, Bounded, [Next]_vars PROVE Bounded'
  OBVIOUS
<1>t. /\ parts \in Seq(Seq(Byte)) /\ pos \in Nat /\ sum \in Nat /\ acc \in Nat
  BY DEF TypeOK
<1>0. /\ End \in Nat /\ packet.l4 \in Nat /\ packet.l4 <= End /\ packet.ihl \in Nat
      /\ packet.ihl <= 60
      /\ Cutting => End < 65576
  <2>1. /\ End \in Nat /\ packet.l4 \in Nat /\ packet.l4 <= End /\ packet.ihl \in Nat
    BY Shape
  <2>2. packet.ihl <= 60
    BY Shape, ConstantsAssumption DEF IsPacket
  <2>3. Cutting => IF packet.ipv6 THEN End - 40 < 65536 ELSE End < 65536
    BY DEF LengthsWritten
  <2> QED
    BY <2>1, <2>2, <2>3
<1>1. CASE IpHeader
  <2> DEFINE header == Slice(buf', 0, packet.ihl)
  <2>1. Len(header) = packet.ihl
    <3>1. 0 \in Nat /\ 0 <= packet.ihl
      BY <1>0
    <3>2. Len(header) = packet.ihl - 0
      BY <1>0, <3>1, SliceLen
    <3> HIDE DEF header
    <3> QED
      BY <1>0, <3>2
  <2>2. parts' = <<header>> /\ pos' = 0 /\ sum' = 0 /\ acc' = 0
    BY <1>1 DEF IpHeader, Begin
  <2> HIDE DEF header
  <2>3. Short(header)
    <3>1. packet.ihl \in Nat /\ packet.ihl <= 65576
      BY <1>0
    <3> QED
      BY <2>1, <3>1 DEF Short
  <2> QED
    BY <2>2, <2>3, OneBegins
<1>2. CASE Transport
  <2> DEFINE segment == Slice(buf, packet.l4, End)
             length == End - packet.l4
             src == Slice(buf, 8, 24)
             four == Slice(buf, 12, 16)
             proto == Word(packet.proto)
             wide == Word(length \div 65536) \o Word(length)
             pseudo == four \o dst \o proto \o Word(length)
  <2>1. Cutting /\ field = "l4" /\ pos' = 0 /\ sum' = 0 /\ acc' = 0
    BY <1>2 DEF Transport, Begin, Cutting, Phases
  <2>2. parts' = IF packet.ipv6 THEN <<src, dst, wide, proto, segment>> ELSE <<pseudo, segment>>
    BY <1>2 DEF Transport, Begin
  <2>3. Len(segment) = End - packet.l4
    BY <1>0, SliceLen
  <2>4. Len(src) = 16 /\ four \in Seq(Byte) /\ Len(four) = 4
    <3>1. /\ 8 \in Nat /\ 24 \in Nat /\ 8 <= 24 /\ 24 - 8 = 16
          /\ 12 \in Nat /\ 16 \in Nat /\ 12 <= 16 /\ 16 - 12 = 4
      OBVIOUS
    <3>2. Len(src) = 24 - 8
      BY <3>1, SliceLen
    <3>3. buf \in [0..(End - 1) -> Byte] /\ 16 <= End
      BY <1>0, <2>1, Shape DEF Cutting
    <3>4. Len(four) = 16 - 12
      BY <3>1, SliceLen
    <3>5. End \in Int
      BY <1>0
    <3>6. four \in Seq(Byte)
      BY <3>1, <3>3, <3>5, SliceType
    <3> HIDE DEF src, four
    <3> QED
      BY <3>1, <3>2, <3>4, <3>6
  <2>5. dst \in Seq(Byte) /\ Len(dst) \in Nat /\ Len(dst) <= 16
    <3>1. dst \in Seq(Byte)
      BY DEF TypeOK
    <3>2. Len(dst) = 4 \/ Len(dst) = 16
      BY <2>1 DEF Found
    <3>3. 4 \in Nat /\ 16 \in Nat /\ 4 <= 16 /\ 16 <= 16
      OBVIOUS
    <3> QED
      BY ONLY <3>1, <3>2, <3>3
  <2>6. length \in Nat /\ length \div 65536 \in Nat /\ packet.proto \in Nat
    <3>1. length \in Nat /\ packet.proto \in Nat
      BY <1>0, Shape
    <3> HIDE DEF length
    <3> QED
      BY <3>1
  <2> HIDE DEF segment, length, src, four
  <2>7. \A n \in Nat : Word(n) \in Seq(Byte) /\ Len(Word(n)) = 2
    BY WordType DEF Word
  <2>8. proto \in Seq(Byte) /\ Len(proto) = 2
    BY <2>6, <2>7
  <2>9. wide \in Seq(Byte) /\ Len(wide) = 2 + 2
    <3>1. /\ Word(length) \in Seq(Byte) /\ Len(Word(length)) = 2
          /\ Word(length \div 65536) \in Seq(Byte) /\ Len(Word(length \div 65536)) = 2
      BY <2>6, <2>7
    <3> DEFINE one == Word(length \div 65536)
               two == Word(length)
    <3>2. one \in Seq(Byte) /\ two \in Seq(Byte) /\ Len(one) = 2 /\ Len(two) = 2
      BY <3>1
    <3>3. wide = one \o two
      OBVIOUS
    <3> HIDE DEF one, two, wide
    <3>4. one \o two \in Seq(Byte) /\ Len(one \o two) = 2 + 2
      BY <3>2, ConcatLen
    <3> QED
      BY <3>3, <3>4
  <2> HIDE DEF proto, wide
  <2>10. Len(pseudo) = Len(dst) + 8
    <3>1. four \o dst \in Seq(Byte) /\ Len(four \o dst) = 4 + Len(dst)
      BY <2>4, <2>5, ConcatLen
    <3>2. four \o dst \o proto \in Seq(Byte) /\ Len(four \o dst \o proto) = 4 + Len(dst) + 2
      BY <2>8, <3>1, ConcatLen
    <3>3. Word(length) \in Seq(Byte) /\ Len(Word(length)) = 2
      BY <2>6, <2>7
    <3>4. Len(pseudo) = 4 + Len(dst) + 2 + 2
      BY <3>2, <3>3, ConcatLen
    <3> HIDE DEF pseudo
    <3> QED
      BY <2>5, <3>4
  <2> HIDE DEF pseudo
  <2>11. Short(segment)
    <3>1. End < 65576
      BY <1>0, <2>1
    <3>2. End - packet.l4 \in Nat /\ End - packet.l4 <= 65576
      BY <1>0, <3>1
    <3> QED
      BY <2>3, <3>2 DEF Short
  <2>12. Short(src) /\ Short(dst) /\ Short(wide) /\ Short(proto) /\ Short(pseudo)
    BY <2>4, <2>5, <2>8, <2>9, <2>10 DEF Short
  <2>13. CASE packet.ipv6
    <3>1. parts' = <<src, dst, wide, proto, segment>>
      BY <2>2, <2>13
    <3> QED
      BY <2>1, <2>11, <2>12, <3>1, FiveBegin
  <2>14. CASE ~packet.ipv6
    <3>1. parts' = <<pseudo, segment>>
      BY <2>2, <2>14
    <3> QED
      BY <2>1, <2>11, <2>12, <3>1, TwoBegin
  <2> QED
    BY <2>13, <2>14
<1>3. CASE AddWord
  <2>1. /\ UNCHANGED <<parts, acc>> /\ parts # <<>> /\ pos < Len(parts[1])
        /\ sum' = sum + NextWord /\ pos' = pos + 2 /\ Len(parts[1]) \in Nat
    BY <1>3, <1>t DEF AddWord
  <2>2. NextWord \in Nat /\ NextWord <= 65535
    BY <1>3, <1>t, WordBound DEF AddWord
  <2>3. 2 * sum' <= 65535 * pos'
    <3>1. 2 * sum <= 65535 * pos
      BY DEF Bounded
    <3> QED
      BY <1>t, <2>1, <2>2, <3>1
  <2>4. pos' <= Len(parts[1]) + 1
    BY <1>t, <2>1
  <2> QED
    BY <2>1, <2>3, <2>4 DEF Bounded
<1>4. CASE EndPart
  <2>1. /\ parts # <<>> /\ parts' = Tail(parts) /\ pos' = 0 /\ sum' = 0 /\ acc' = acc + sum
        /\ sum < 65536
    BY <1>4 DEF EndPart
  <2>2. /\ Len(parts) \in Nat /\ Len(parts) >= 1
        /\ parts' \in Seq(Seq(Byte)) /\ Len(parts') = Len(parts) - 1
        /\ \A i \in 1..Len(parts') : parts'[i] = parts[i + 1] /\ i + 1 \in 1..Len(parts)
    BY <1>t, <2>1
  <2>3. \A i \in 1..Len(parts') : Len(parts'[i]) <= 65576
    <3>1. \A i \in 1..Len(parts) : Len(parts[i]) <= 65576
      BY DEF Bounded
    <3> SUFFICES ASSUME NEW i \in 1..Len(parts') PROVE Len(parts'[i]) <= 65576
      OBVIOUS
    <3>2. parts'[i] = parts[i + 1] /\ i + 1 \in 1..Len(parts)
      BY <2>2
    <3> QED
      BY <3>1, <3>2
  <2>4. acc' + 65535 * Len(parts') <= 327675
    <3>1. acc + 65535 * Len(parts) <= 327675
      BY DEF Bounded
    <3> QED
      BY <1>t, <2>1, <2>2, <3>1
  <2>5. parts' # <<>> => 0 <= Len(parts'[1]) + 1
    BY <2>2
  <2> QED
    BY <2>1, <2>3, <2>4, <2>5 DEF Bounded
<1>5. CASE FoldSum
  <2>1. UNCHANGED <<parts, pos, acc>> /\ sum' = Folded(sum) /\ sum >= 65536
    BY <1>5 DEF FoldSum
  <2>2. sum' \in Nat /\ sum' < sum
    BY <1>t, <2>1, FoldShrinks, FoldTakes
  <2>3. 2 * sum' <= 65535 * pos'
    BY <1>t, <2>1, <2>2 DEF Bounded
  <2> QED
    BY <2>1, <2>3 DEF Bounded
<1>6. CASE FoldAcc
  <2>1. UNCHANGED <<parts, pos, sum>> /\ acc' = Folded(acc) /\ acc >= 65536
    BY <1>6 DEF FoldAcc
  <2>2. acc' \in Nat /\ acc' < acc
    BY <1>t, <2>1, FoldShrinks, FoldTakes
  <2>3. acc' + 65535 * Len(parts') <= 327675
    <3>1. Len(parts) \in Nat
      BY <1>t
    <3> QED
      BY <1>t, <2>1, <2>2, <3>1 DEF Bounded
  <2> QED
    BY <2>1, <2>3 DEF Bounded
<1>7. CASE Cut \/ Lengths \/ PassOption \/ WriteChecksum \/ UNCHANGED vars
  <2>1. UNCHANGED <<parts, pos, sum, acc>>
    BY <1>7 DEF Cut, Lengths, PassOption, WriteChecksum, vars, sums
  <2> QED
    BY <2>1 DEF Bounded
<1> QED
  BY <1>1, <1>2, <1>3, <1>4, <1>5, <1>6, <1>7 DEF Next

\* The sums of checksum_sum, and those that are added to one another, fit the 32
\* bits of the code whatever the packet: carries are folded and never lost.
THEOREM SumsFit == Spec => []InU32
<1>1. Init => Bounded
  BY DEF Init, Bounded
<1>2. TypeOK /\ RInv /\ Bounded /\ [Next]_vars => Bounded'
  BY BoundedStep DEF RInv
<1>3. TypeOK /\ Bounded => InU32
  BY InBounds
<1> QED
  BY <1>1, <1>2, <1>3, Invariance, TypeCorrect, PTL DEF Spec
=============================================================================
