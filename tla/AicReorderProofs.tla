--------------------------- MODULE AicReorderProofs ---------------------------
(***************************************************************************)
(* Theorems about AicReorder: for every window, every even modulus of at   *)
(* least six windows and any number of frames, the buffer stays inside its *)
(* window and sorted, its descriptors are accounted for, what is held has  *)
(* a timer, and the driver hands up what ReorderBuffer would.              *)
(*                                                                         *)
(* The argument: ind_sn stands for one frame number N (Window), every      *)
(* number the driver compares is less than half the modulus away from it,  *)
(* and at that distance SN_LESS compares the frame numbers themselves.     *)
(***************************************************************************)
EXTENDS AicReorder, FiniteSetTheorems, LeastElement, TLAPS

Half == Modulus \div 2

-----------------------------------------------------------------------------
(* Remainders *)

LEMMA ModFacts ==
    ASSUME NEW m \in Nat \ {0}, NEW a \in Int
    PROVE  /\ (a % m) \in 0..(m - 1)
           /\ (a \div m) \in Int
           /\ a = m * (a \div m) + (a % m)
  OBVIOUS

\* A multiple of m between -m and m is 0.
LEMMA SmallMultiple ==
    ASSUME NEW m \in Nat \ {0}, NEW q \in Int, m * q < m, m * q > -m
    PROVE  q = 0
<1>1. CASE q >= 1
  <2>1. m * q >= m
    BY <1>1
  <2> QED
    BY <2>1
<1>2. CASE q <= -1
  <2>1. m * q <= -m
    BY <1>2
  <2> QED
    BY <2>1
<1> QED
  BY <1>1, <1>2

\* The remainder is determined by the equation and its range.
LEMMA ModUnique ==
    ASSUME NEW m \in Nat \ {0}, NEW a \in Int, NEW q \in Int, NEW r \in 0..(m - 1),
           a = m * q + r
    PROVE  (a % m) = r
<1>1. PICK p \in Int : p = a \div m
  BY ModFacts
<1>2. PICK t \in 0..(m - 1) : t = (a % m)
  BY ModFacts
<1>3. a = m * p + t
  BY <1>1, <1>2, ModFacts
<1>4. m * (p - q) = r - t
  BY <1>3
<1>5. p - q = 0
  BY <1>4, SmallMultiple
<1> QED
  BY <1>2, <1>4, <1>5

\* Adding a multiple of the modulus, and taking remainders first, change nothing.
LEMMA ModShift ==
    ASSUME NEW m \in Nat \ {0}, NEW a \in Int, NEW k \in Int
    PROVE  ((a + m * k) % m) = (a % m)
<1>1. PICK p \in Int : p = a \div m
  BY ModFacts
<1>2. PICK t \in 0..(m - 1) : t = (a % m)
  BY ModFacts
<1>3. a = m * p + t
  BY <1>1, <1>2, ModFacts
<1>4. a + m * k = m * (p + k) + t /\ p + k \in Int /\ a + m * k \in Int
  BY <1>3
<1> QED
  BY <1>2, <1>4, ModUnique

LEMMA ModPlus ==
    ASSUME NEW m \in Nat \ {0}, NEW a \in Int, NEW d \in Int
    PROVE  (((a % m) + d) % m) = ((a + d) % m)
<1>1. PICK p \in Int : p = a \div m
  BY ModFacts
<1>2. PICK t \in 0..(m - 1) : t = (a % m)
  BY ModFacts
<1>3. a = m * p + t
  BY <1>1, <1>2, ModFacts
<1>4. t + d = (a + d) + m * (-p) /\ a + d \in Int /\ -p \in Int
  BY <1>3
<1>5. ((t + d) % m) = ((a + d) % m)
  BY <1>4, ModShift
<1> QED
  BY <1>2, <1>5

LEMMA ModMinus ==
    ASSUME NEW m \in Nat \ {0}, NEW a \in Int, NEW b \in Int
    PROVE  (((a % m) - (b % m)) % m) = ((a - b) % m)
<1>1. PICK p \in Int : p = b \div m
  BY ModFacts
<1>2. PICK t \in 0..(m - 1) : t = (b % m)
  BY ModFacts
<1>3. b = m * p + t
  BY <1>1, <1>2, ModFacts
<1>4. (((a % m) + (-t)) % m) = ((a + (-t)) % m)
  <2>1. -t \in Int
    OBVIOUS
  <2> QED
    BY <2>1, ModPlus, Zenon
<1>5. a + (-t) = (a - b) + m * p /\ a - b \in Int
  BY <1>3
<1>6. ((a + (-t)) % m) = ((a - b) % m)
  BY <1>5, ModShift
<1>7. PICK s \in 0..(m - 1) : s = (a % m)
  BY ModFacts
<1>8. s + (-t) = s - t
  OBVIOUS
<1> QED
  BY <1>2, <1>4, <1>6, <1>7, <1>8

-----------------------------------------------------------------------------
(* Sequence numbers *)

LEMMA Sizes ==
    /\ Modulus \in Nat \ {0} /\ Half \in Nat \ {0} /\ Modulus = 2 * Half
    /\ WSize \in Nat \ {0} /\ 3 * WSize <= Half
<1>1. PICK h \in Int : h = Modulus \div 2
  BY ReorderAssumption, ModFacts
<1>2. Modulus = 2 * h + (Modulus % 2)
  BY <1>1, ReorderAssumption, ModFacts
<1> QED
  BY <1>1, <1>2, ReorderAssumption DEF Half

\* SN_LESS orders numbers that are less than half the modulus apart.
LEMMA SNLess ==
    ASSUME NEW a \in Int, NEW b \in Int, a - b >= -Half, a - b < Half
    PROVE  SN_LESS(SN(a), SN(b)) <=> a < b
<1>1. ((SN(a) - SN(b)) % Modulus) = ((a - b) % Modulus)
  BY Sizes, ModMinus DEF SN
<1>2. CASE a - b >= 0
  <2>1. ((a - b) % Modulus) = a - b
    <3>1. a - b = Modulus * 0 + (a - b) /\ (a - b) \in 0..(Modulus - 1)
      BY <1>2, Sizes
    <3> QED
      BY <3>1, ModUnique, Sizes
  <2> QED
    BY <1>1, <1>2, <2>1, Sizes DEF SN_LESS, Half
<1>3. CASE a - b < 0
  <2>1. ((a - b) % Modulus) = a - b + Modulus
    <3>1. a - b = Modulus * (-1) + (a - b + Modulus) /\ (a - b + Modulus) \in 0..(Modulus - 1)
      BY <1>3, Sizes
    <3> QED
      BY <3>1, ModUnique, Sizes
  <2> QED
    BY <1>1, <1>3, <2>1, Sizes DEF SN_LESS, Half
<1> QED
  BY <1>2, <1>3

\* Numbers less than the modulus apart have different sequence numbers.
LEMMA SNEqual ==
    ASSUME NEW a \in Int, NEW b \in Int, a - b > -Modulus, a - b < Modulus,
           SN(a) = SN(b)
    PROVE  a = b
<1>1. PICK p \in Int : p = a \div Modulus
  BY Sizes, ModFacts
<1>2. PICK q \in Int : q = b \div Modulus
  BY Sizes, ModFacts
<1>3. PICK t \in 0..(Modulus - 1) : t = SN(a) /\ t = SN(b)
  BY Sizes, ModFacts DEF SN
<1>4. a = Modulus * p + t /\ b = Modulus * q + t
  <2>1. a = Modulus * p + t
    <3>1. a = Modulus * (a \div Modulus) + (a % Modulus)
      BY Sizes, ModFacts
    <3> QED
      BY <3>1, <1>1, <1>3, Zenon DEF SN
  <2>2. b = Modulus * q + t
    <3>1. b = Modulus * (b \div Modulus) + (b % Modulus)
      BY Sizes, ModFacts
    <3> QED
      BY <3>1, <1>2, <1>3, Zenon DEF SN
  <2> QED
    BY <2>1, <2>2
<1>5. Modulus * (p - q) = a - b /\ p - q \in Int
  BY <1>4, Sizes
<1>6. p - q = 0
  BY <1>5, SmallMultiple, Sizes
<1> QED
  BY <1>4, <1>6, Sizes

\* The window start the code computes is that of the frame number.
LEMMA WindowStartIs ==
    ASSUME NEW n \in Int
    PROVE  WindowStart(SN(n)) = SN(n - (WSize - 1))
<1>1. PICK p \in Int : p = n \div Modulus
  BY Sizes, ModFacts
<1>2. PICK t \in 0..(Modulus - 1) : t = SN(n)
  BY Sizes, ModFacts DEF SN
<1>3. n = Modulus * p + t
  BY <1>1, <1>2, Sizes, ModFacts DEF SN
<1>4. CASE t >= WSize - 1
  <2>1. n - (WSize - 1) = Modulus * p + (t - (WSize - 1)) /\ t - (WSize - 1) \in 0..(Modulus - 1)
    BY <1>3, <1>4, Sizes
  <2>2. SN(n - (WSize - 1)) = t - (WSize - 1)
    <3>1. n - (WSize - 1) \in Int /\ Modulus \in Nat \ {0}
      BY Sizes
    <3> QED
      BY <2>1, <3>1, ModUnique, Zenon DEF SN
  <2> QED
    BY <1>2, <1>4, <2>2, Sizes DEF WindowStart
<1>5. CASE t < WSize - 1
  <2> DEFINE r == t - (WSize - 1) + Modulus
  <2>1. n - (WSize - 1) = Modulus * (p - 1) + r /\ r \in 0..(Modulus - 1) /\ p - 1 \in Int
    BY <1>3, <1>5, Sizes
  <2>2. SN(n - (WSize - 1)) = r
    BY <2>1, ModUnique, Sizes DEF SN
  <2>3. (Modulus - 1) - (WSize - (t + 1)) + 1 = r
    BY Sizes
  <2> QED
    BY <1>2, <1>5, <2>2, <2>3, Sizes DEF WindowStart
<1> QED
  BY <1>4, <1>5, Sizes

LEMMA SNType ==
    ASSUME NEW a \in Int
    PROVE  SN(a) \in 0..(Modulus - 1) /\ SN(a) # NoSN
<1>1. PICK t \in 0..(Modulus - 1) : t = SN(a)
  BY Sizes, ModFacts DEF SN
<1> QED
  BY <1>1, Sizes DEF NoSN

LEMMA SNPlus ==
    ASSUME NEW a \in Int, NEW d \in Int
    PROVE  ((SN(a) + d) % Modulus) = SN(a + d)
  BY Sizes, ModPlus DEF SN

\* Where the window starts after frame n, on frame numbers.
Target(N, n) ==
    IF n < N THEN N
    ELSE IF n = N THEN N + 1
    ELSE IF n > N + WSize - 1 THEN n - (WSize - 1)
    ELSE N

\* reord_need_check decides as it would on frame numbers.
LEMMA NeedCheckIs ==
    ASSUME NEW N \in Int, NEW n \in Int, ind_sn = SN(N),
           n - N >= -(2 * WSize), n - N <= 3 * WSize - 2
    PROVE  /\ NeedCheck(SN(n)).late <=> n < N
           /\ NeedCheck(SN(n)).ind = SN(Target(N, n))
<1> DEFINE wend == (ind_sn + WSize - 1) % Modulus
<1>1. ind_sn # NoSN
  BY SNType
<1>2. wend = SN(N + (WSize - 1))
  <2>1. WSize - 1 \in Int /\ ind_sn + WSize - 1 = SN(N) + (WSize - 1)
    BY Sizes, SNType
  <2> QED
    BY <2>1, SNPlus
<1>3. SN_LESS(SN(n), SN(N)) <=> n < N
  BY SNLess, Sizes
<1>4. SN(n) = SN(N) <=> n = N
  <2>1. n - N > -Modulus /\ n - N < Modulus
    BY Sizes
  <2> QED
    BY <2>1, SNEqual
<1>5. SN_LESS(wend, SN(n)) <=> N + (WSize - 1) < n
  <2> DEFINE e == N + (WSize - 1)
  <2>1. e \in Int /\ e - n >= -Half /\ e - n < Half
    BY Sizes
  <2>2. SN_LESS(SN(e), SN(n)) <=> e < n
    BY <2>1, SNLess
  <2> QED
    BY <2>2, <1>2
<1>6. ((SN(N) + 1) % Modulus) = SN(N + 1)
  BY SNPlus
<1>7. WindowStart(SN(n)) = SN(n - (WSize - 1))
  BY WindowStartIs
<1>8. NeedCheck(SN(n)) =
        IF SN_LESS(SN(n), SN(N)) THEN [late |-> TRUE, ind |-> SN(N)]
        ELSE [late |-> FALSE,
              ind  |-> IF SN(n) = SN(N) THEN ((SN(N) + 1) % Modulus)
                       ELSE IF SN_LESS(wend, SN(n)) THEN WindowStart(SN(n))
                       ELSE SN(N)]
  BY <1>1, Zenon DEF NeedCheck
<1> HIDE DEF wend
<1>9. CASE n < N
  <2>1. NeedCheck(SN(n)) = [late |-> TRUE, ind |-> SN(N)]
    BY <1>3, <1>8, <1>9
  <2> QED
    BY <2>1, <1>9 DEF Target
<1>10. CASE ~ (n < N)
  <2>1. NeedCheck(SN(n)) =
          [late |-> FALSE,
           ind  |-> IF n = N THEN SN(N + 1)
                    ELSE IF N + (WSize - 1) < n THEN SN(n - (WSize - 1))
                    ELSE SN(N)]
    BY <1>3, <1>4, <1>5, <1>6, <1>7, <1>8, <1>10
  <2>2. (N + (WSize - 1) < n) <=> (n > N + WSize - 1)
    BY Sizes
  <2> QED
    BY <2>1, <2>2, <1>10 DEF Target
<1> QED
  BY <1>9, <1>10

\* The first frame after the start or a flush opens the window behind it.
LEMMA NeedCheckFirst ==
    ASSUME NEW n \in Int, ind_sn = NoSN
    PROVE  ~ NeedCheck(SN(n)).late /\ NeedCheck(SN(n)).ind = SN(n + 1)
<1>1. ~ SN_LESS(SN(n), SN(n))
  BY SNLess, Sizes
<1>2. ((SN(n) + 1) % Modulus) = SN(n + 1)
  BY SNPlus
<1> QED
  BY <1>1, <1>2 DEF NeedCheck

-----------------------------------------------------------------------------
(* Sorted lists of frames *)

Elems(l) == {l[i] : i \in DOMAIN l}

Sorted(l) == \A i, j \in DOMAIN l : i < j => l[i] < l[j]

\* The lists are lists of natural numbers.
LEMMA EmptyList == Sorted(<<>>) /\ Elems(<<>>) = {} /\ Len(<<>>) = 0 /\ <<>> \in Seq(Numbers)
  BY DEF Sorted, Elems

LEMMA NumbersInt == \A n \in Numbers : n \in Nat /\ n \in Int /\ n # Nothing
  BY ReorderAssumption DEF Numbers, Nothing

LEMMA NumbersList ==
    ASSUME NEW l \in Seq(Numbers)
    PROVE  /\ l \in Seq(Int) /\ DOMAIN l = 1..Len(l) /\ Len(l) \in Nat
           /\ \A i \in DOMAIN l : l[i] \in Numbers /\ l[i] \in Int
<1>1. DOMAIN l = 1..Len(l) /\ Len(l) \in Nat /\ \A i \in DOMAIN l : l[i] \in Numbers
  OBVIOUS
<1>2. \A i \in DOMAIN l : l[i] \in Int
  BY <1>1, ReorderAssumption DEF Numbers
<1>3. l \in Seq(Int)
  BY <1>1, <1>2
<1> QED
  BY <1>1, <1>2, <1>3

\* A sorted list has as many elements as its length.
LEMMA ElemsCount ==
    ASSUME NEW l \in Seq(Int), Sorted(l)
    PROVE  IsFiniteSet(Elems(l)) /\ Cardinality(Elems(l)) = Len(l)
<1>1. l \in [1..Len(l) -> Elems(l)] /\ Len(l) \in Nat /\ DOMAIN l = 1..Len(l)
  BY DEF Elems
<1>2. \A i, j \in 1..Len(l) : l[i] = l[j] => i = j
  <2> SUFFICES ASSUME NEW i \in 1..Len(l), NEW j \in 1..Len(l), l[i] = l[j] PROVE i = j
    OBVIOUS
  <2>1. l[i] \in Int /\ i \in Int /\ j \in Int
    OBVIOUS
  <2>2. ~(i < j) /\ ~(j < i)
    BY <2>1, <1>1 DEF Sorted
  <2> QED
    BY <2>1, <2>2
<1>3. \A e \in Elems(l) : \E i \in 1..Len(l) : l[i] = e
  BY <1>1 DEF Elems
<1>4. l \in Bijection(1..Len(l), Elems(l))
  BY <1>1, <1>2, <1>3, Zenon DEF Bijection, Injection, Surjection, IsInjective
<1>5. ExistsBijection(1..Len(l), Elems(l))
  BY <1>4 DEF ExistsBijection
<1> QED
  BY <1>1, <1>5, FS_NatBijection, FS_CountingElements

\* A sorted list inside an interval is no longer than it.
LEMMA SortedFits ==
    ASSUME NEW l \in Seq(Int), Sorted(l), NEW a \in Int, NEW b \in Int, a <= b + 1,
           \A i \in DOMAIN l : l[i] \in a..b
    PROVE  Len(l) <= b - a + 1
<1>1. Elems(l) \in SUBSET (a..b)
  BY DEF Elems
<1>2. IsFiniteSet(a..b) /\ Cardinality(a..b) = b - a + 1
  BY FS_Interval
<1> QED
  BY <1>1, <1>2, FS_Subset, ElemsCount

\* Walking over positions 1..L one stops at the end or at the first outside B.
LEMMA StopsAt ==
    ASSUME NEW L \in Nat, NEW B
    PROVE  \E k \in 0..L : (\A i \in 1..k : i \in B) /\ (k < L => k + 1 \notin B)
<1> DEFINE T == {k \in 0..L : k = L \/ k + 1 \notin B}
<1>1. T \subseteq Nat /\ L \in T
  OBVIOUS
<1>2. PICK k \in T : \A y \in T : k <= y
  BY <1>1, LeastNat
<1>3. ASSUME NEW i \in 1..k PROVE i \in B
  <2>1. i - 1 \notin T
    BY <1>2
  <2> QED
    BY <2>1
<1> QED
  BY <1>2, <1>3

\* reord_rxframe_enqueue walks past the frames sent before the new one.
LEMMA BehindIs ==
    ASSUME NEW l \in Seq(Int), Sorted(l), NEW n \in Int,
           \A i \in DOMAIN l : l[i] - n >= -Half /\ l[i] - n < Half
    PROVE  /\ Behind(l, SN(n)) \in 0..Len(l)
           /\ \A i \in 1..Behind(l, SN(n)) : l[i] < n
           /\ \A i \in (Behind(l, SN(n)) + 1)..Len(l) : l[i] >= n
<1> DEFINE k == Behind(l, SN(n))
<1>1. \A i \in 1..Len(l) : l[i] \in Int /\ (SN_LESS(SN(l[i]), SN(n)) <=> l[i] < n)
  BY SNLess
<1>2. \E j \in 0..Len(l) :
        /\ \A i \in 1..j : SN_LESS(SN(l[i]), SN(n))
        /\ j < Len(l) => ~ SN_LESS(SN(l[j + 1]), SN(n))
  <2> DEFINE B == {i \in 1..Len(l) : SN_LESS(SN(l[i]), SN(n))}
  <2>1. Len(l) \in Nat
    OBVIOUS
  <2>2. PICK j \in 0..Len(l) : (\A i \in 1..j : i \in B) /\ (j < Len(l) => j + 1 \notin B)
    BY <2>1, StopsAt
  <2> QED
    BY <2>1, <2>2
<1>3. /\ k \in 0..Len(l)
      /\ \A i \in 1..k : SN_LESS(SN(l[i]), SN(n))
      /\ k < Len(l) => ~ SN_LESS(SN(l[k + 1]), SN(n))
  <2> DEFINE c == CHOOSE j \in 0..Len(l) : /\ \A i \in 1..j : SN_LESS(SN(l[i]), SN(n))
                                           /\ j < Len(l) => ~ SN_LESS(SN(l[j + 1]), SN(n))
  <2>1. k = c
    BY Zenon DEF Behind
  <2>2. /\ c \in 0..Len(l)
        /\ \A i \in 1..c : SN_LESS(SN(l[i]), SN(n))
        /\ c < Len(l) => ~ SN_LESS(SN(l[c + 1]), SN(n))
    BY <1>2, Zenon
  <2> HIDE DEF k, c
  <2> QED
    BY <2>1, <2>2
<1> HIDE DEF k
<1>4. \A i \in 1..k : l[i] < n
  BY <1>1, <1>3
<1>5. ASSUME NEW i \in (k + 1)..Len(l) PROVE l[i] >= n
  <2>1. l[k + 1] >= n
    BY <1>1, <1>3
  <2>2. i = k + 1 \/ l[k + 1] < l[i]
    BY <1>3 DEF Sorted
  <2> QED
    BY <1>1, <1>3, <2>1, <2>2
<1> QED
  BY <1>3, <1>4, <1>5 DEF k

LEMMA IsDuplicateIs ==
    ASSUME NEW l \in Seq(Int), Sorted(l), NEW n \in Int,
           \A i \in DOMAIN l : l[i] - n >= -Half /\ l[i] - n < Half
    PROVE  IsDuplicate(l, SN(n)) <=> n \in Elems(l)
<1> DEFINE k == Behind(l, SN(n))
<1>1. k \in 0..Len(l) /\ (\A i \in 1..k : l[i] < n) /\ (\A i \in (k + 1)..Len(l) : l[i] >= n)
  BY BehindIs
<1>2. IsDuplicate(l, SN(n)) <=> k < Len(l) /\ SN(l[k + 1]) = SN(n)
  BY Zenon DEF IsDuplicate
<1> HIDE DEF k
<1>3. ASSUME k < Len(l) PROVE SN(l[k + 1]) = SN(n) <=> l[k + 1] = n
  <2>1. k + 1 \in DOMAIN l /\ l[k + 1] \in Int
    BY <1>1, <1>3
  <2>2. l[k + 1] - n > -Modulus /\ l[k + 1] - n < Modulus
    BY <2>1, Sizes
  <2> QED
    BY <2>1, <2>2, SNEqual
<1>4. ASSUME n \in Elems(l) PROVE k < Len(l) /\ l[k + 1] = n
  <2>1. PICK j \in 1..Len(l) : l[j] = n
    BY <1>4 DEF Elems
  <2>2. j > k
    BY <1>1, <2>1
  <2>3. k + 1 \in 1..Len(l) /\ l[k + 1] >= n
    BY <1>1, <2>2
  <2>4. j = k + 1 \/ l[k + 1] < l[j]
    BY <2>2, <2>3, <1>1 DEF Sorted
  <2> QED
    BY <1>1, <2>1, <2>2, <2>3, <2>4
<1>5. ASSUME k < Len(l), l[k + 1] = n PROVE n \in Elems(l)
  BY <1>1, <1>5 DEF Elems
<1> QED
  BY <1>2, <1>3, <1>4, <1>5

LEMMA ConcatIs ==
    ASSUME NEW s \in Seq(Int), NEW t \in Seq(Int)
    PROVE  /\ s \o t \in Seq(Int) /\ Len(s \o t) = Len(s) + Len(t)
           /\ \A i \in 1..(Len(s) + Len(t)) :
                 (s \o t)[i] = IF i <= Len(s) THEN s[i] ELSE t[i - Len(s)]
  OBVIOUS

\* A new frame goes to its place.
LEMMA EnqueueIs ==
    ASSUME NEW l \in Seq(Int), Sorted(l), NEW n \in Int, n \notin Elems(l),
           \A i \in DOMAIN l : l[i] - n >= -Half /\ l[i] - n < Half
    PROVE  /\ Enqueue(l, n) \in Seq(Int) /\ Len(Enqueue(l, n)) = Len(l) + 1
           /\ Sorted(Enqueue(l, n))
           /\ Elems(Enqueue(l, n)) = Elems(l) \cup {n}
<1> DEFINE k == Behind(l, SN(n))
           e == Enqueue(l, n)
<1>1. k \in 0..Len(l) /\ (\A i \in 1..k : l[i] < n) /\ (\A i \in (k + 1)..Len(l) : l[i] >= n)
  BY BehindIs
<1>2. e = SubSeq(l, 1, k) \o <<n>> \o SubSeq(l, k + 1, Len(l))
  BY Zenon DEF Enqueue
<1> HIDE DEF k
<1> DEFINE p == SubSeq(l, 1, k)
           q == SubSeq(l, k + 1, Len(l))
<1>3. p \in Seq(Int) /\ Len(p) = k /\ \A i \in 1..k : p[i] = l[i]
  BY <1>1
<1>4. q \in Seq(Int) /\ Len(q) = Len(l) - k /\ \A i \in 1..(Len(l) - k) : q[i] = l[k + i]
  BY <1>1
<1>5. e = (p \o <<n>>) \o q
  BY <1>2
<1> DEFINE r == p \o <<n>>
<1>6. k \in Nat /\ Len(l) \in Nat /\ k <= Len(l)
  BY <1>1
<1> HIDE DEF p, q, e
<1>7. r \in Seq(Int) /\ Len(r) = k + 1 /\ r[k + 1] = n /\ \A i \in 1..k : r[i] = l[i]
  <2>1. <<n>> \in Seq(Int) /\ Len(<<n>>) = 1 /\ <<n>>[1] = n
    OBVIOUS
  <2> DEFINE o == <<n>>
  <2> HIDE DEF o
  <2>2. o \in Seq(Int) /\ Len(o) = 1 /\ o[1] = n /\ r = p \o o
    BY <2>1 DEF o
  <2>3. r \in Seq(Int) /\ Len(r) = k + 1
    BY <2>2, <1>3, ConcatIs
  <2>4. \A i \in 1..(k + 1) : r[i] = IF i <= k THEN p[i] ELSE o[i - k]
    BY <2>2, <1>3, ConcatIs
  <2> HIDE DEF r
  <2>5. r[k + 1] = n
    <3>1. k + 1 \in 1..(k + 1) /\ ~(k + 1 <= k) /\ (k + 1) - k = 1
      BY <1>6
    <3>2. r[k + 1] = o[(k + 1) - k]
      BY <2>4, <3>1
    <3> QED
      BY <2>2, <3>1, <3>2
  <2> QED
    BY <2>3, <2>4, <2>5, <1>3, <1>6
<1>8. e = r \o q
  BY <1>5
<1> HIDE DEF r
<1>9. e \in Seq(Int) /\ Len(e) = Len(l) + 1
  BY <1>6, <1>4, <1>8, <1>7
<1>10. \A i \in 1..(Len(l) + 1) :
         e[i] = IF i <= k THEN l[i] ELSE IF i = k + 1 THEN n ELSE l[i - 1]
  <2> SUFFICES ASSUME NEW i \in 1..(Len(l) + 1)
               PROVE  e[i] = IF i <= k THEN l[i] ELSE IF i = k + 1 THEN n ELSE l[i - 1]
    OBVIOUS
  <2>1. CASE i <= k + 1
    <3>1. e[i] = r[i]
      BY <2>1, <1>6, <1>4, <1>7, <1>8
    <3> QED
      BY <2>1, <3>1, <1>6, <1>7
  <2>2. CASE i > k + 1
    <3>1. e[i] = q[i - (k + 1)]
      <4>1. \A x \in 1..(Len(r) + Len(q)) : e[x] = IF x <= Len(r) THEN r[x] ELSE q[x - Len(r)]
        BY <1>4, <1>7, <1>8, ConcatIs
      <4>2. i \in 1..(Len(r) + Len(q)) /\ ~(i <= Len(r)) /\ Len(r) = k + 1
        BY <2>2, <1>6, <1>4, <1>7
      <4> QED
        BY <4>1, <4>2
    <3>2. i - (k + 1) \in 1..(Len(l) - k) /\ k + (i - (k + 1)) = i - 1
      BY <2>2, <1>6
    <3>3. e[i] = l[i - 1]
      BY <3>1, <3>2, <1>4
    <3> QED
      BY <2>2, <3>3, <1>6
  <2> QED
    BY <2>1, <2>2, <1>6
<1>11. \A i \in (k + 1)..Len(l) : l[i] > n
  BY <1>1 DEF Elems
<1>12. Sorted(e)
  <2> SUFFICES ASSUME NEW i \in 1..(Len(l) + 1), NEW j \in 1..(Len(l) + 1), i < j
               PROVE  e[i] < e[j]
    BY <1>9 DEF Sorted
  <2>1. \A x, y \in 1..Len(l) : x < y => l[x] < l[y]
    BY DEF Sorted
  <2>2. CASE j <= k
    BY <2>1, <2>2, <1>1, <1>10
  <2>3. CASE j = k + 1
    BY <2>3, <1>1, <1>10, SMTT(30)
  <2>4. CASE j > k + 1 /\ i = k + 1
    <3>1. e[i] = n /\ e[j] = l[j - 1] /\ j - 1 \in (k + 1)..Len(l)
      <4>1. j - 1 \in (k + 1)..Len(l) /\ ~(j <= k) /\ j # k + 1 /\ ~(i <= k)
        BY <2>4, <1>6
      <4> QED
        BY <2>4, <4>1, <1>10
    <3> QED
      BY <3>1, <1>11
  <2>5. CASE j > k + 1 /\ i <= k
    <3>1. e[i] = l[i] /\ e[j] = l[j - 1] /\ i \in 1..Len(l) /\ j - 1 \in 1..Len(l) /\ i < j - 1
      BY <2>5, <1>1, <1>10
    <3> QED
      BY <3>1, <2>1
  <2>6. CASE j > k + 1 /\ i > k + 1
    <3>1. e[i] = l[i - 1] /\ e[j] = l[j - 1] /\ i - 1 \in 1..Len(l) /\ j - 1 \in 1..Len(l) /\ i - 1 < j - 1
      BY <2>6, <1>1, <1>10
    <3> QED
      BY <3>1, <2>1
  <2> QED
    BY <1>1, <2>2, <2>3, <2>4, <2>5, <2>6
<1>13. Elems(e) \subseteq Elems(l) \cup {n}
  <2> SUFFICES ASSUME NEW i \in 1..(Len(l) + 1) PROVE e[i] \in Elems(l) \cup {n}
    BY <1>9 DEF Elems
  <2>1. i <= k => e[i] = l[i] /\ i \in DOMAIN l
    BY <1>1, <1>10
  <2>2. i > k + 1 => e[i] = l[i - 1] /\ i - 1 \in DOMAIN l
    BY <1>1, <1>10
  <2>3. i = k + 1 => e[i] = n
    BY <1>1, <1>10
  <2> QED
    BY <1>1, <2>1, <2>2, <2>3 DEF Elems
<1>14. Elems(l) \cup {n} \subseteq Elems(e)
  <2>1. ASSUME NEW i \in DOMAIN l PROVE l[i] \in Elems(e)
    <3>1. CASE i <= k
      <4>1. i \in DOMAIN e /\ e[i] = l[i]
        BY <3>1, <1>1, <1>9, <1>10
      <4> QED
        BY <4>1 DEF Elems
    <3>2. CASE i > k
      <4>1. i + 1 \in DOMAIN e /\ e[i + 1] = l[i]
        BY <3>2, <1>1, <1>9, <1>10
      <4> QED
        BY <4>1 DEF Elems
    <3> QED
      BY <3>1, <3>2, <1>1
  <2>2. k + 1 \in DOMAIN e /\ e[k + 1] = n
    BY <1>1, <1>9, <1>10
  <2>3. n \in Elems(e)
    BY <2>2 DEF Elems
  <2>4. Elems(l) \subseteq Elems(e)
    BY <2>1 DEF Elems
  <2> QED
    BY <2>3, <2>4
<1> QED
  BY <1>9, <1>12, <1>13, <1>14 DEF e

\* g is the first number from b on that is not in S.
Gap(S, b, g) == g \in Int /\ g >= b /\ g \notin S /\ \A m \in b..(g - 1) : m \in S

\* reord_rxframes_process finds the first gap from the window start on.  All
\* numbers lie within three windows.
LEMMA ProcessIs ==
    ASSUME NEW l \in Seq(Int), Sorted(l), NEW lo \in Int, NEW b \in lo..(lo + 3 * WSize - 1),
           Len(l) <= WSize, \A i \in DOMAIN l : l[i] \in lo..(lo + 3 * WSize - 2)
    PROVE  \E g \in b..(lo + 3 * WSize - 1) :
              /\ Gap(Elems(l), b, g)
              /\ Process(l, SN(b)).ind = SN(g)
              /\ Process(l, SN(b)).inBuf <=> \E i \in DOMAIN l : g < l[i]
<1> DEFINE held(s) == \E i \in DOMAIN l : SN(l[i]) = s % Modulus
           run == CHOOSE k \in 0..Len(l) :
                      (\A d \in 0..(k - 1) : held(SN(b) + d)) /\ ~ held(SN(b) + k)
           next == IF run = 0 THEN SN(b) ELSE (SN(b) + run) % Modulus
<1>0. DOMAIN l = 1..Len(l) /\ Len(l) \in Nat /\ b \in Int /\ \A i \in DOMAIN l : l[i] \in Int
  BY Sizes
<1>1. \A d \in 0..Len(l) : held(SN(b) + d) <=> (b + d) \in Elems(l)
  <2> SUFFICES ASSUME NEW d \in 0..Len(l) PROVE held(SN(b) + d) <=> (b + d) \in Elems(l)
    OBVIOUS
  <2>1. ((SN(b) + d) % Modulus) = SN(b + d)
    BY <1>0, SNPlus
  <2>2. ASSUME NEW i \in DOMAIN l PROVE SN(l[i]) = SN(b + d) <=> l[i] = b + d
    <3>1. b + d \in Int /\ l[i] - (b + d) > -Modulus /\ l[i] - (b + d) < Modulus
      BY <1>0, Sizes
    <3> QED
      BY <3>1, <1>0, SNEqual
  <2>3. held(SN(b) + d) <=> \E i \in DOMAIN l : l[i] = b + d
    BY <2>1, <2>2
  <2> QED
    BY <2>3 DEF Elems
<1>2. \E k \in 0..Len(l) : (b + k) \notin Elems(l)
  <2> SUFFICES ASSUME \A k \in 0..Len(l) : (b + k) \in Elems(l) PROVE FALSE
    OBVIOUS
  <2>1. b..(b + Len(l)) \in SUBSET Elems(l)
    <3> SUFFICES ASSUME NEW m \in b..(b + Len(l)) PROVE m \in Elems(l)
      OBVIOUS
    <3>1. m - b \in 0..Len(l) /\ b + (m - b) = m
      BY <1>0
    <3> QED
      BY <3>1
  <2>2. IsFiniteSet(Elems(l)) /\ Cardinality(Elems(l)) = Len(l)
    BY ElemsCount
  <2>3. Cardinality(b..(b + Len(l))) = Len(l) + 1
    BY <1>0, FS_Interval
  <2>4. Cardinality(b..(b + Len(l))) <= Len(l)
    BY <2>1, <2>2, FS_Subset
  <2> QED
    BY <1>0, <2>3, <2>4
<1>3. \E k \in 0..Len(l) : (\A d \in 0..(k - 1) : held(SN(b) + d)) /\ ~ held(SN(b) + k)
  <2> DEFINE T == {k \in 0..Len(l) : (b + k) \notin Elems(l)}
  <2>1. T \subseteq Nat /\ T # {}
    BY <1>2
  <2>2. PICK k \in T : \A y \in T : k <= y
    BY <2>1, LeastNat
  <2>3. \A d \in 0..(k - 1) : d \in 0..Len(l) /\ (b + d) \in Elems(l)
    <3> SUFFICES ASSUME NEW d \in 0..(k - 1) PROVE d \in 0..Len(l) /\ (b + d) \in Elems(l)
      OBVIOUS
    <3>1. k \in 0..Len(l) /\ d \in 0..Len(l) /\ ~(k <= d)
      BY <1>0
    <3>2. d \notin T
      BY <2>2, <3>1, Zenon
    <3> QED
      BY <3>1, <3>2
  <2> HIDE DEF held
  <2> QED
    BY <1>1, <2>2, <2>3
<1>4. run \in 0..Len(l) /\ (\A d \in 0..(run - 1) : held(SN(b) + d)) /\ ~ held(SN(b) + run)
  <2> HIDE DEF held
  <2> QED
    BY <1>3, Zenon
<1>5. Process(l, SN(b)) = [ind |-> next, inBuf |-> \E i \in DOMAIN l : SN_LESS(next, SN(l[i]))]
  BY Zenon DEF Process
<1> HIDE DEF held, run
<1> DEFINE g == b + run
<1>6. next = SN(g)
  <2>1. CASE run = 0
    BY <2>1, <1>0
  <2>2. CASE run # 0
    BY <2>2, <1>0, <1>4, SNPlus
  <2> QED
    BY <2>1, <2>2
<1>7. Gap(Elems(l), b, g)
  <2>1. g \notin Elems(l) /\ g \in Int /\ g >= b
    BY <1>0, <1>1, <1>4
  <2>2. ASSUME NEW m \in b..(g - 1) PROVE m \in Elems(l)
    <3>1. m - b \in 0..(run - 1) /\ m - b \in 0..Len(l) /\ b + (m - b) = m
      BY <1>0, <1>4
    <3> QED
      BY <3>1, <1>1, <1>4
  <2> QED
    BY <2>1, <2>2 DEF Gap
<1>8. g \in b..(lo + 3 * WSize - 1)
  <2>1. CASE run = 0
    BY <2>1, <1>0, Sizes
  <2>2. CASE run # 0
    <3>1. g - 1 \in b..(g - 1) /\ run \in Nat
      BY <2>2, <1>0, <1>4
    <3>2. g - 1 \in Elems(l)
      BY <3>1, <1>7 DEF Gap
    <3>3. PICK i \in DOMAIN l : l[i] = g - 1
      BY <3>2 DEF Elems
    <3> QED
      BY <3>1, <3>3, <1>0, Sizes
  <2> QED
    BY <2>1, <2>2
<1> HIDE DEF g, next
<1>9. ASSUME NEW i \in DOMAIN l PROVE SN_LESS(next, SN(l[i])) <=> g < l[i]
  <2>1. g \in Int /\ g - l[i] >= -Half /\ g - l[i] < Half
    BY <1>0, <1>8, Sizes
  <2> QED
    BY <2>1, <1>0, <1>6, SNLess
<1>10. Process(l, SN(b)).inBuf <=> \E i \in DOMAIN l : g < l[i]
  BY <1>5, <1>9
<1>11. Process(l, SN(b)).ind = SN(g)
  BY <1>5, <1>6
<1> QED
  BY <1>7, <1>8, <1>10, <1>11

\* reord_rxframes_ind hands up the frames up to the window start.
LEMMA ReadyIs ==
    ASSUME NEW l \in Seq(Int), Sorted(l), NEW g \in Int,
           \A i \in DOMAIN l : g - l[i] >= -Half /\ g - l[i] < Half
    PROVE  /\ Ready(l, SN(g)) \in 0..Len(l)
           /\ \A i \in 1..Ready(l, SN(g)) : l[i] <= g
           /\ \A i \in (Ready(l, SN(g)) + 1)..Len(l) : l[i] > g
<1> DEFINE k == Ready(l, SN(g))
<1>1. \A i \in 1..Len(l) : l[i] \in Int /\ (SN_LESS(SN(g), SN(l[i])) <=> g < l[i])
  BY SNLess
<1>2. \E j \in 0..Len(l) :
        /\ \A i \in 1..j : ~ SN_LESS(SN(g), SN(l[i]))
        /\ j < Len(l) => SN_LESS(SN(g), SN(l[j + 1]))
  <2> DEFINE B == {i \in 1..Len(l) : ~ SN_LESS(SN(g), SN(l[i]))}
  <2>1. Len(l) \in Nat
    OBVIOUS
  <2>2. PICK j \in 0..Len(l) : (\A i \in 1..j : i \in B) /\ (j < Len(l) => j + 1 \notin B)
    BY <2>1, StopsAt
  <2> QED
    BY <2>1, <2>2
<1>3. /\ k \in 0..Len(l)
      /\ \A i \in 1..k : ~ SN_LESS(SN(g), SN(l[i]))
      /\ k < Len(l) => SN_LESS(SN(g), SN(l[k + 1]))
  <2> DEFINE c == CHOOSE j \in 0..Len(l) : /\ \A i \in 1..j : ~ SN_LESS(SN(g), SN(l[i]))
                                           /\ j < Len(l) => SN_LESS(SN(g), SN(l[j + 1]))
  <2>1. k = c
    BY Zenon DEF Ready
  <2>2. /\ c \in 0..Len(l)
        /\ \A i \in 1..c : ~ SN_LESS(SN(g), SN(l[i]))
        /\ c < Len(l) => SN_LESS(SN(g), SN(l[c + 1]))
    BY <1>2, Zenon
  <2> HIDE DEF k, c
  <2> QED
    BY <2>1, <2>2
<1> HIDE DEF k
<1>4. \A i \in 1..k : l[i] <= g
  BY <1>1, <1>3
<1>5. ASSUME NEW i \in (k + 1)..Len(l) PROVE l[i] > g
  <2>1. l[k + 1] > g
    BY <1>1, <1>3
  <2>2. i = k + 1 \/ l[k + 1] < l[i]
    BY <1>3 DEF Sorted
  <2> QED
    BY <1>1, <1>3, <2>1, <2>2
<1> QED
  BY <1>3, <1>4, <1>5 DEF k

-----------------------------------------------------------------------------
(* Handing up *)

\* List l is cut behind position k, where its elements exceed g ...
Cut(l, g, k) ==
    k \in 0..Len(l) /\ (\A i \in 1..k : l[i] <= g) /\ (\A i \in (k + 1)..Len(l) : l[i] > g)

\* ... into the elements below and above g.
Parts(l, g, a, z) ==
    /\ a \in Seq(Numbers) /\ Sorted(a) /\ Elems(a) = {m \in Elems(l) : m < g}
    /\ z \in Seq(Numbers) /\ Sorted(z) /\ Elems(z) = {m \in Elems(l) : m > g}
    /\ Len(a) + Len(z) = Len(l)

LEMMA SplitIs ==
    ASSUME NEW l \in Seq(Numbers), Sorted(l), NEW g \in Int, g \notin Elems(l),
           NEW k, Cut(l, g, k), NEW a, a = SubSeq(l, 1, k), NEW z, z = SubSeq(l, k + 1, Len(l))
    PROVE  Parts(l, g, a, z) /\ Len(a) = k
<1>0. k \in 0..Len(l) /\ (\A i \in 1..k : l[i] <= g) /\ (\A i \in (k + 1)..Len(l) : l[i] > g)
  BY DEF Cut
<1>1. a \in Seq(Numbers) /\ Len(a) = k /\ DOMAIN a = 1..k /\ \A i \in 1..k : a[i] = l[i]
  BY <1>0
<1>2. /\ z \in Seq(Numbers) /\ Len(z) = Len(l) - k /\ DOMAIN z = 1..(Len(l) - k)
      /\ \A i \in 1..(Len(l) - k) : z[i] = l[k + i]
  BY <1>0
<1>3. DOMAIN l = 1..Len(l) /\ k \in Nat /\ Len(l) \in Nat /\ k <= Len(l)
  BY <1>0
<1>4. \A i \in 1..Len(l) : l[i] \in Int
  BY <1>3, NumbersList
<1>5. \A i, j \in 1..Len(l) : i < j => l[i] < l[j]
  BY <1>3 DEF Sorted
<1>6. Sorted(a)
  BY <1>1, <1>3, <1>5 DEF Sorted
<1>7. Sorted(z)
  <2> SUFFICES ASSUME NEW i \in 1..(Len(l) - k), NEW j \in 1..(Len(l) - k), i < j
               PROVE  z[i] < z[j]
    BY <1>2 DEF Sorted
  <2>1. k + i \in 1..Len(l) /\ k + j \in 1..Len(l) /\ k + i < k + j
    BY <1>3
  <2> QED
    BY <2>1, <1>2, <1>5
<1>8. Elems(a) = {m \in Elems(l) : m < g}
  <2>1. ASSUME NEW i \in 1..k PROVE a[i] \in Elems(l) /\ a[i] < g
    <3>1. i \in 1..Len(l) /\ a[i] = l[i]
      BY <1>1, <1>3
    <3>2. a[i] \in Elems(l) /\ a[i] # g
      BY <3>1, <1>3 DEF Elems
    <3> QED
      BY <3>1, <3>2, <1>0, <1>4
  <2>2. ASSUME NEW i \in 1..Len(l), l[i] < g PROVE l[i] \in Elems(a)
    <3>1. i \in 1..k
      BY <2>2, <1>0, <1>3, <1>4
    <3> QED
      BY <3>1, <1>1 DEF Elems
  <2>3. \A x \in Elems(a) : x \in Elems(l) /\ x < g
    BY <2>1, <1>1 DEF Elems
  <2>4. \A x \in Elems(l) : x < g => x \in Elems(a)
    BY <2>2, <1>3 DEF Elems
  <2> QED
    BY <2>3, <2>4
<1>9. Elems(z) = {m \in Elems(l) : m > g}
  <2>1. ASSUME NEW i \in 1..(Len(l) - k) PROVE z[i] \in Elems(l) /\ z[i] > g
    <3>1. k + i \in (k + 1)..Len(l) /\ k + i \in 1..Len(l) /\ z[i] = l[k + i]
      <4>1. k + i \in (k + 1)..Len(l) /\ k + i \in 1..Len(l)
        BY <1>3
      <4> QED
        BY <4>1, <1>2
    <3> QED
      BY <3>1, <1>0, <1>3 DEF Elems
  <2>2. ASSUME NEW i \in 1..Len(l), l[i] > g PROVE l[i] \in Elems(z)
    <3>1. ~(i \in 1..k)
      BY <2>2, <1>0, <1>3, <1>4
    <3>2. i - k \in 1..(Len(l) - k) /\ k + (i - k) = i
      BY <3>1, <1>3
    <3>3. z[i - k] = l[i] /\ i - k \in DOMAIN z
      BY <3>2, <1>2
    <3> QED
      BY <3>3 DEF Elems
  <2>3. \A x \in Elems(z) : x \in Elems(l) /\ x > g
    BY <2>1, <1>2 DEF Elems
  <2>4. \A x \in Elems(l) : x > g => x \in Elems(z)
    BY <2>2, <1>3 DEF Elems
  <2> QED
    BY <2>3, <2>4
<1>10. Len(a) + Len(z) = Len(l)
  <2>1. k + (Len(l) - k) = Len(l)
    BY <1>3
  <2> QED
    BY <2>1, <1>1, <1>2, Zenon
<1> QED
  BY <1>1, <1>2, <1>6, <1>7, <1>8, <1>9, <1>10 DEF Parts

\* A step hands up list l from window start b on: g is waited for next.
Moved(l, b, g) ==
    /\ Gap(Elems(l), b, g) /\ ind_sn' = SN(g)
    /\ Parts(l, g, out', reord_list')
    /\ free' = free + Len(out')

LEMMA IndicateIs ==
    ASSUME NEW l \in Seq(Numbers), Sorted(l), NEW lo \in Int, NEW b \in lo..(lo + 3 * WSize - 1),
           Len(l) <= WSize, \A i \in DOMAIN l : l[i] \in lo..(lo + 3 * WSize - 2),
           NEW w, w = Process(l, SN(b)), Indicate(l, w.ind)
    PROVE  \E g \in b..(lo + 3 * WSize - 1) :
              Moved(l, b, g) /\ (w.inBuf <=> \E m \in Elems(l) : m > g)
<1>1. l \in Seq(Int) /\ DOMAIN l = 1..Len(l) /\ Len(l) \in Nat
  BY NumbersList
<1>2. PICK g \in b..(lo + 3 * WSize - 1) :
         /\ Gap(Elems(l), b, g) /\ w.ind = SN(g)
         /\ w.inBuf <=> \E i \in DOMAIN l : g < l[i]
  BY <1>1, ProcessIs
<1>3. g \in Int /\ \A i \in DOMAIN l : l[i] \in Int /\ g - l[i] >= -Half /\ g - l[i] < Half
  BY <1>1, <1>2, Sizes
<1>4. g \notin Elems(l)
  BY <1>2 DEF Gap
<1>5. Cut(l, g, Ready(l, SN(g)))
  BY <1>1, <1>3, ReadyIs DEF Cut
<1>6. PICK k \in {Ready(l, w.ind)} : /\ ind_sn' = w.ind /\ free' = free + k
                                    /\ out' = SubSeq(l, 1, k)
                                    /\ reord_list' = SubSeq(l, k + 1, Len(l))
  BY Zenon DEF Indicate
<1>7. Cut(l, g, k)
  BY <1>2, <1>5, <1>6
<1>8. Parts(l, g, out', reord_list') /\ Len(out') = k
  BY <1>3, <1>4, <1>6, <1>7, SplitIs, Zenon
<1>9. w.inBuf <=> \E m \in Elems(l) : m > g
  BY <1>2, <1>3 DEF Elems
<1>10. Moved(l, b, g)
  BY <1>2, <1>6, <1>8, Zenon DEF Moved
<1> QED
  BY <1>9, <1>10

-----------------------------------------------------------------------------
(* The invariant *)

\* The variables have their types; the pool is bounded by its balance.
Types ==
    /\ known \in BOOLEAN /\ enable \in BOOLEAN
    /\ timer \in BOOLEAN /\ firing \in BOOLEAN /\ work \in BOOLEAN
    /\ ind_sn \in (0..(Modulus - 1)) \cup {NoSN}
    /\ reord_list \in Seq(Numbers) /\ out \in Seq(Numbers)
    /\ rpc \in {"idle", "locked", "flush", "deinit"}
    /\ frame \in Numbers \cup {Nothing} /\ top \in Numbers \cup {Nothing}
    /\ free \in Nat /\ leaked \in Nat

\* The control has a window.
Active == known /\ (enable \/ rpc = "deinit") /\ ind_sn # NoSN

\* What the receive thread is in the middle of; without a window nothing is held.
Phase ==
    /\ rpc = "locked" => enable /\ frame \in Numbers /\ CanArrive(frame)
    /\ rpc \in {"flush", "deinit"} => ~ enable
    /\ rpc = "deinit" => known
    /\ enable => known
    /\ ~ Active => reord_list = <<>>

\* ind_sn stands for frame number N, near the newest frame; the held frames
\* are those of the window that starts behind N.
Window(N) ==
    /\ N > 0 /\ ind_sn = SN(N)
    /\ N >= top - 2 * WSize + 2 /\ N <= top + 1
    /\ \A m \in Elems(reord_list) : m > N /\ m <= N + WSize - 1 /\ m <= top

Windowed == Active => top \in Numbers /\ \E N \in Int : Window(N)

ReorderInv ==
    Types /\ PoolBalance /\ Phase /\ Sorted(reord_list) /\ Windowed /\ HeldHasTimer

\* A window holds less than WSize frames.
LEMMA WindowSize ==
    ASSUME NEW l \in Seq(Numbers), Sorted(l), NEW N \in Int,
           \A m \in Elems(l) : m > N /\ m <= N + WSize - 1
    PROVE  Len(l) < WSize
<1>1. l \in Seq(Int) /\ \A i \in DOMAIN l : l[i] \in Int
  BY NumbersList
<1>2. \A i \in DOMAIN l : l[i] \in (N + 1)..(N + WSize - 1)
  BY <1>1, Sizes DEF Elems
<1>3. N + 1 \in Int /\ N + WSize - 1 \in Int /\ N + 1 <= (N + WSize - 1) + 1
  BY Sizes
<1>4. Len(l) <= (N + WSize - 1) - (N + 1) + 1
  BY <1>1, <1>2, <1>3, SortedFits
<1> QED
  BY <1>4, Sizes

\* The frame in the receive thread's hands is near the window.
LEMMA FrameNear ==
    ASSUME ReorderInv, rpc = "locked", NEW N \in Int, Window(N), top \in Numbers
    PROVE  /\ frame \in Int /\ frame - N >= -(2 * WSize) /\ frame - N <= 3 * WSize - 2
           /\ reord_list \in Seq(Int) /\ Sorted(reord_list)
           /\ \A i \in DOMAIN reord_list : /\ reord_list[i] - frame >= -Half
                                            /\ reord_list[i] - frame < Half
<1>1. frame \in Numbers /\ CanArrive(frame) /\ top # Nothing /\ frame \in Int /\ top \in Int
  BY NumbersInt DEF ReorderInv, Phase
<1>2. frame <= top + WSize /\ frame > top - 2 * WSize
  BY <1>1 DEF CanArrive
<1>3. frame - N >= -(2 * WSize) /\ frame - N <= 3 * WSize - 2
  BY <1>1, <1>2, Sizes DEF Window
<1>4. reord_list \in Seq(Numbers) /\ Sorted(reord_list)
  BY DEF ReorderInv, Types
<1>5. reord_list \in Seq(Int) /\ \A i \in DOMAIN reord_list : reord_list[i] \in Int
  BY <1>4, NumbersList
<1>6. ASSUME NEW i \in DOMAIN reord_list
      PROVE  reord_list[i] - frame >= -Half /\ reord_list[i] - frame < Half
  <2>1. reord_list[i] > N /\ reord_list[i] <= N + WSize - 1 /\ reord_list[i] \in Int
    BY <1>5 DEF Window, Elems
  <2> QED
    BY <2>1, <1>1, <1>3, Sizes
<1> QED
  BY <1>1, <1>3, <1>4, <1>5, <1>6

\* Without a window the frame is the first one.
LEMMA FirstFrame ==
    ASSUME ReorderInv, rpc = "locked", ~ Active
    PROVE  /\ ind_sn = NoSN /\ reord_list = <<>> /\ frame \in Numbers
           /\ top # Nothing => frame > top - 2 * WSize
  BY DEF ReorderInv, Phase, Active, CanArrive

\* A late frame leaves the window where it is.
LEMMA LateEffect ==
    ASSUME ReorderInv, LateFrame
    PROVE  \E N \in Int : /\ Active /\ Window(N) /\ top \in Numbers
                           /\ frame < N /\ ind_sn' = SN(N) /\ top' = top
<1>1. rpc = "locked" /\ NeedCheck(SN(frame)).late /\ ind_sn' = NeedCheck(SN(frame)).ind /\ Handled
  BY DEF LateFrame
<1>2. Active
  <2>1. ASSUME ~ Active PROVE FALSE
    <3>1. ind_sn = NoSN /\ frame \in Int
      BY <1>1, <2>1, FirstFrame, NumbersInt
    <3> QED
      BY <3>1, <1>1, NeedCheckFirst
  <2> QED
    BY <2>1
<1>3. PICK N \in Int : Window(N) /\ top \in Numbers
  BY <1>2 DEF ReorderInv, Windowed
<1>4. frame \in Int /\ frame - N >= -(2 * WSize) /\ frame - N <= 3 * WSize - 2
  BY <1>1, <1>3, FrameNear
<1>5. ind_sn = SN(N)
  BY <1>3 DEF Window
<1>6. frame < N /\ NeedCheck(SN(frame)).ind = SN(Target(N, frame))
  BY <1>1, <1>4, <1>5, NeedCheckIs
<1>7. Target(N, frame) = N
  BY <1>6 DEF Target
<1>8. top' = top
  BY <1>1, <1>3, <1>4, <1>6, NumbersInt DEF Handled, Window
<1> QED
  BY <1>1, <1>2, <1>3, <1>6, <1>7, <1>8

\* So does a duplicate.
LEMMA DuplicateEffect ==
    ASSUME ReorderInv, DuplicateFrame
    PROVE  \E N \in Int : /\ Active /\ Window(N) /\ top \in Numbers
                           /\ frame \in Elems(reord_list) /\ ind_sn' = SN(N) /\ top' = top
<1>1. /\ rpc = "locked" /\ IsDuplicate(reord_list, SN(frame))
      /\ ind_sn' = NeedCheck(SN(frame)).ind /\ Handled
  BY DEF DuplicateFrame
<1>2. Active
  <2>1. ASSUME ~ Active PROVE FALSE
    <3>1. reord_list = <<>> /\ frame \in Int
      BY <1>1, <2>1, FirstFrame, NumbersInt
    <3>2. <<>> \in Seq(Int) /\ Sorted(<<>>) /\ Elems(<<>>) = {} /\ DOMAIN <<>> = {}
      BY EmptyList
    <3>3. ~ IsDuplicate(<<>>, SN(frame))
      BY <3>1, <3>2, IsDuplicateIs
    <3> QED
      BY <3>1, <3>3, <1>1
  <2> QED
    BY <2>1
<1>3. PICK N \in Int : Window(N) /\ top \in Numbers
  BY <1>2 DEF ReorderInv, Windowed
<1>4. /\ frame \in Int /\ frame - N >= -(2 * WSize) /\ frame - N <= 3 * WSize - 2
      /\ reord_list \in Seq(Int) /\ Sorted(reord_list)
      /\ \A i \in DOMAIN reord_list : reord_list[i] - frame >= -Half /\ reord_list[i] - frame < Half
  BY <1>1, <1>3, FrameNear
<1>5. ind_sn = SN(N)
  BY <1>3 DEF Window
<1>6. frame \in Elems(reord_list)
  BY <1>1, <1>4, IsDuplicateIs
<1>7. frame > N /\ frame <= N + WSize - 1 /\ frame <= top
  BY <1>3, <1>6 DEF Window
<1>8. NeedCheck(SN(frame)).ind = SN(Target(N, frame))
  BY <1>4, <1>5, NeedCheckIs
<1>9. Target(N, frame) = N
  BY <1>4, <1>7, Sizes DEF Target
<1>10. top' = top
  BY <1>1, <1>3, <1>4, <1>7, NumbersInt DEF Handled
<1> QED
  BY <1>1, <1>2, <1>3, <1>6, <1>8, <1>9, <1>10

\* The window before a fresh frame: the one there is, or one that starts at it.
Before(N) ==
    /\ Active => Window(N) /\ top \in Numbers
    /\ ~ Active => N = frame /\ reord_list = <<>> /\ (top # Nothing => frame > top - 2 * WSize)

\* A fresh frame is put in its place and the frames up to the next gap leave.
LEMMA QueueEffect ==
    ASSUME ReorderInv, QueueFrame
    PROVE  \E N \in Int, g \in Int, l \in Seq(Numbers) :
              /\ Before(N) /\ frame >= N /\ frame \notin Elems(reord_list)
              /\ Sorted(l) /\ Elems(l) = Elems(reord_list) \cup {frame}
              /\ Len(l) = Len(reord_list) + 1
              /\ Moved(l, Target(N, frame), g)
              /\ timer' <=> \E m \in Elems(l) : m > g
<1> DEFINE l == Enqueue(reord_list, frame)
           c == NeedCheck(SN(frame))
           w == Process(l, c.ind)
<1>1. /\ rpc = "locked" /\ ~ c.late /\ ~ IsDuplicate(reord_list, SN(frame))
      /\ timer' = w.inBuf /\ Indicate(l, w.ind)
  BY DEF QueueFrame, ArmTimer
<1> HIDE DEF l, c, w
<1>2. reord_list \in Seq(Numbers) /\ Sorted(reord_list) /\ frame \in Numbers /\ frame \in Int
  BY <1>1, NumbersInt DEF ReorderInv, Types, Phase
<1>3. PICK N \in Int : /\ Before(N) /\ c.ind = SN(Target(N, frame)) /\ frame >= N
                       /\ frame - N <= 3 * WSize - 2
                       /\ \A m \in Elems(reord_list) : m > N /\ m <= N + WSize - 1
                       /\ \A i \in DOMAIN reord_list : /\ reord_list[i] - frame >= -Half
                                                        /\ reord_list[i] - frame < Half
  <2>1. CASE Active
    <3>1. PICK N \in Int : Window(N) /\ top \in Numbers
      BY <2>1 DEF ReorderInv, Windowed
    <3>2. /\ frame - N >= -(2 * WSize) /\ frame - N <= 3 * WSize - 2
          /\ \A i \in DOMAIN reord_list : /\ reord_list[i] - frame >= -Half
                                           /\ reord_list[i] - frame < Half
      BY <1>1, <3>1, FrameNear
    <3>3. ind_sn = SN(N) /\ \A m \in Elems(reord_list) : m > N /\ m <= N + WSize - 1
      BY <3>1 DEF Window
    <3>4. (c.late <=> frame < N) /\ c.ind = SN(Target(N, frame))
      BY <1>2, <3>2, <3>3, NeedCheckIs DEF c
    <3>5. Before(N) /\ frame >= N
      BY <1>1, <1>2, <2>1, <3>1, <3>4 DEF Before
    <3> QED
      BY <3>2, <3>3, <3>4, <3>5
  <2>2. CASE ~ Active
    <3>1. ind_sn = NoSN /\ reord_list = <<>> /\ (top # Nothing => frame > top - 2 * WSize)
      BY <1>1, <2>2, FirstFrame
    <3>2. c.ind = SN(frame + 1)
      BY <1>2, <3>1, NeedCheckFirst DEF c
    <3>3. Target(frame, frame) = frame + 1
      BY <1>2 DEF Target
    <3>4. Elems(reord_list) = {} /\ DOMAIN reord_list = {}
      BY <3>1, EmptyList
    <3>5. Before(frame)
      BY <2>2, <3>1 DEF Before
    <3>6. frame - frame <= 3 * WSize - 2 /\ frame >= frame
      BY <1>2, Sizes
    <3> QED
      BY <1>2, <3>2, <3>3, <3>4, <3>5, <3>6
  <2> QED
    BY <2>1, <2>2
<1>4. reord_list \in Seq(Int)
  BY <1>2, NumbersList
<1>5. frame \notin Elems(reord_list)
  BY <1>1, <1>2, <1>3, <1>4, IsDuplicateIs
<1>6. l \in Seq(Int) /\ Len(l) = Len(reord_list) + 1 /\ Sorted(l) /\ Elems(l) = Elems(reord_list) \cup {frame}
  BY <1>2, <1>3, <1>4, <1>5, EnqueueIs DEF l
<1>7. l \in Seq(Numbers)
  <2>1. Elems(reord_list) \subseteq Numbers
    BY <1>2, NumbersList DEF Elems
  <2>2. \A i \in DOMAIN l : l[i] \in Numbers
    BY <1>2, <1>6, <2>1 DEF Elems
  <2> QED
    BY <1>6, <2>2
<1>8. Len(l) <= WSize
  <2>1. Len(reord_list) < WSize /\ Len(reord_list) \in Nat
    BY <1>2, <1>3, WindowSize
  <2> QED
    BY <1>6, <2>1, Sizes
<1> DEFINE b == Target(N, frame)
<1>9. b \in N..(N + 3 * WSize - 1)
  BY <1>2, <1>3, Sizes DEF Target
<1>10. \A i \in DOMAIN l : l[i] \in N..(N + 3 * WSize - 2)
  <2>1. \A m \in Elems(l) : m \in Int
    BY <1>7, NumbersList DEF Elems
  <2>2. \A m \in Elems(l) : m \in N..(N + 3 * WSize - 2)
    BY <1>2, <1>3, <1>6, <2>1, Sizes
  <2> QED
    BY <2>2 DEF Elems
<1> HIDE DEF b
<1>11. w = Process(l, SN(b))
  BY <1>3 DEF w, b
<1>12. PICK g \in b..(N + 3 * WSize - 1) : Moved(l, b, g) /\ (w.inBuf <=> \E m \in Elems(l) : m > g)
  BY <1>1, <1>6, <1>7, <1>8, <1>9, <1>10, <1>11, IndicateIs, Zenon
<1>13. g \in Int
  BY <1>9
<1> QED
  BY <1>1, <1>3, <1>5, <1>6, <1>7, <1>12, <1>13 DEF b

\* The work item gives up the gap before the first frame.
LEMMA WorkerEffect ==
    ASSUME ReorderInv, TimeoutWorker, reord_list # <<>>
    PROVE  \E N \in Int, g \in Int :
              /\ Active /\ Window(N) /\ top \in Numbers
              /\ reord_list[1] \in Elems(reord_list)
              /\ \A m \in Elems(reord_list) : reord_list[1] <= m
              /\ Moved(reord_list, reord_list[1], g)
              /\ timer' <=> timer \/ \E m \in Elems(reord_list) : m > g
<1>1. PICK w \in {Process(reord_list, SN(reord_list[1]))} :
         timer' = (timer \/ w.inBuf) /\ Indicate(reord_list, w.ind)
  BY DEF TimeoutWorker
<1>2. Active
  BY DEF ReorderInv, Phase
<1>3. PICK N \in Int : Window(N) /\ top \in Numbers
  BY <1>2 DEF ReorderInv, Windowed
<1>4. reord_list \in Seq(Numbers) /\ Sorted(reord_list)
  BY DEF ReorderInv, Types
<1>5. /\ reord_list \in Seq(Int) /\ DOMAIN reord_list = 1..Len(reord_list) /\ Len(reord_list) \in Nat
      /\ \A i \in DOMAIN reord_list : reord_list[i] \in Int
  BY <1>4, NumbersList
<1>6. 1 \in DOMAIN reord_list
  BY <1>4, <1>5
<1>7. PICK b \in Int : b = reord_list[1]
  BY <1>5, <1>6
<1>8. \A m \in Elems(reord_list) : m \in Int /\ m > N /\ m <= N + WSize - 1
  BY <1>3, <1>5 DEF Window, Elems
<1>9. \A i \in DOMAIN reord_list : b <= reord_list[i]
  BY <1>4, <1>5, <1>6, <1>7 DEF Sorted
<1>10. b \in Elems(reord_list) /\ \A m \in Elems(reord_list) : b <= m
  BY <1>6, <1>7, <1>9 DEF Elems
<1>11. \A m \in Elems(reord_list) : m \in b..(b + 3 * WSize - 2)
  BY <1>8, <1>10, Sizes
<1>12. \A i \in DOMAIN reord_list : reord_list[i] \in b..(b + 3 * WSize - 2)
  BY <1>11 DEF Elems
<1>13. Len(reord_list) <= WSize
  <2>1. Len(reord_list) < WSize
    BY <1>4, <1>8, WindowSize
  <2> QED
    BY <2>1, <1>5, Sizes
<1>14. b \in b..(b + 3 * WSize - 1)
  BY Sizes
<1>15. w = Process(reord_list, SN(b))
  BY <1>7
<1>16. PICK g \in b..(b + 3 * WSize - 1) :
          Moved(reord_list, b, g) /\ (w.inBuf <=> \E m \in Elems(reord_list) : m > g)
  BY <1>1, <1>4, <1>12, <1>13, <1>14, <1>15, IndicateIs, Zenon
<1>17. g \in Int
  OBVIOUS
<1> QED
  BY <1>1, <1>2, <1>3, <1>7, <1>10, <1>16, <1>17

\* The window after frames have been handed up.
LEMMA NewWindow ==
    ASSUME NEW l \in Seq(Numbers), NEW b \in Int, NEW g \in Int, Moved(l, b, g), NEW t \in Int, top' = t,
           b > 0, b >= t - 2 * WSize + 2, b <= t + 1,
           \A m \in Elems(l) : m <= t /\ m <= b + WSize - 1
    PROVE  Window(g)'
<1>1. g >= b /\ (\A m \in b..(g - 1) : m \in Elems(l)) /\ ind_sn' = SN(g)
  BY DEF Moved, Gap
<1>2. g <= t + 1
  <2>1. g = b \/ g - 1 \in b..(g - 1)
    BY <1>1
  <2>2. g = b \/ g - 1 <= t
    BY <1>1, <2>1
  <2> QED
    BY <2>2
<1>3. Elems(reord_list') = {m \in Elems(l) : m > g}
  BY DEF Moved, Parts
<1>4. \A m \in Elems(l) : m \in Int
  BY NumbersList DEF Elems
<1>5. \A m \in Elems(reord_list') : m > g /\ m <= g + WSize - 1 /\ m <= t
  BY <1>1, <1>3, <1>4, Sizes
<1>6. Elems(reord_list)' = Elems(reord_list')
  BY DEF Elems
<1>7. g > 0 /\ g >= t - 2 * WSize + 2
  BY <1>1, Sizes
<1> QED
  BY <1>1, <1>2, <1>5, <1>6, <1>7 DEF Window

\* The window that a fresh frame and the work item leave.
LEMMA QueueWindow ==
    ASSUME ReorderInv, QueueFrame
    PROVE  \E N \in Int, g \in Int, l \in Seq(Numbers) :
              /\ Before(N) /\ frame >= N /\ frame \notin Elems(reord_list)
              /\ Elems(l) = Elems(reord_list) \cup {frame} /\ Sorted(l)
              /\ Len(l) = Len(reord_list) + 1
              /\ Moved(l, Target(N, frame), g)
              /\ timer' <=> \E m \in Elems(l) : m > g
              /\ Window(g)' /\ top' \in Numbers
<1>1. PICK N \in Int, g \in Int, l \in Seq(Numbers) :
         /\ Before(N) /\ frame >= N /\ frame \notin Elems(reord_list)
         /\ Sorted(l) /\ Elems(l) = Elems(reord_list) \cup {frame}
         /\ Len(l) = Len(reord_list) + 1
         /\ Moved(l, Target(N, frame), g)
         /\ timer' <=> \E m \in Elems(l) : m > g
  BY QueueEffect
<1>2. rpc = "locked" /\ top' = IF frame > top THEN frame ELSE top
  BY DEF QueueFrame, Handled
<1>3. frame \in Numbers /\ (top \in Numbers \/ top = Nothing)
  BY <1>2 DEF ReorderInv, Phase, Types
<1>4. PICK t \in Int, u \in Int, f \in Nat :
         /\ t = top' /\ u = top /\ f = frame /\ u >= -1 /\ t >= f /\ t >= u
         /\ t = f \/ (t = u /\ f <= u /\ u >= 0 /\ top \in Numbers)
  BY <1>2, <1>3, NumbersInt DEF Nothing
<1>5. top' \in Numbers
  BY <1>3, <1>4
<1> DEFINE b == Target(N, f)
<1>6. /\ b \in Int /\ b > 0 /\ b >= t - 2 * WSize + 2 /\ b <= t + 1
      /\ \A m \in Elems(l) : m <= t /\ m <= b + WSize - 1
  <2>1. \A m \in Elems(l) : m \in Int
    BY NumbersList DEF Elems
  <2>2. CASE Active
    <3>1. /\ N > 0 /\ N >= u - 2 * WSize + 2 /\ N <= u + 1
          /\ \A m \in Elems(reord_list) : m > N /\ m <= N + WSize - 1 /\ m <= u
      BY <1>1, <1>4, <2>2 DEF Before, Window
    <3>2. /\ b \in Int /\ b >= N /\ b > 0 /\ b <= t + 1 /\ f <= b + WSize - 1
          /\ b >= t - 2 * WSize + 2
      <4>1. f >= N /\ N > 0 /\ N >= u - 2 * WSize + 2 /\ N <= u + 1
        BY <1>1, <1>4, <3>1
      <4>2. t >= f /\ t >= u /\ (t = f \/ t = u)
        BY <1>4
      <4>3. CASE f = N
        <5>1. b = N + 1
          BY <4>1, <4>3 DEF Target
        <5> QED
          BY <4>1, <4>2, <4>3, <5>1, Sizes
      <4>4. CASE f > N + WSize - 1
        <5>1. b = f - (WSize - 1)
          BY <4>1, <4>4, Sizes DEF Target
        <5> QED
          BY <4>1, <4>2, <4>4, <5>1, Sizes
      <4>5. CASE f # N /\ f <= N + WSize - 1
        <5>1. b = N
          BY <4>1, <4>5, Sizes DEF Target
        <5> QED
          BY <4>1, <4>2, <4>5, <5>1, Sizes
      <4> HIDE DEF b
      <4> QED
        BY <4>3, <4>4, <4>5, Sizes
    <3> HIDE DEF b
    <3>4. ASSUME NEW m \in Elems(l) PROVE m <= t /\ m <= b + WSize - 1
      <4>1. CASE m = f
        BY <4>1, <1>4, <3>2
      <4>2. CASE m \in Elems(reord_list)
        BY <4>2, <2>1, <1>4, <3>1, <3>2, Sizes
      <4> QED
        BY <4>1, <4>2, <1>1, <1>4
    <3> QED
      BY <3>2, <3>4
  <2>3. CASE ~ Active
    <3>1. N = f /\ reord_list = <<>> /\ (u # Nothing => f > u - 2 * WSize)
      BY <1>1, <1>4, <2>3 DEF Before
    <3>2. b = f + 1
      BY <1>4, <3>1 DEF Target
    <3>3. Elems(l) = {f}
      BY <1>1, <1>4, <3>1, EmptyList
    <3> HIDE DEF b
    <3>4. t >= f /\ (t = f \/ (t = u /\ u >= 0))
      BY <1>4
    <3>5. b >= t - 2 * WSize + 2 /\ b <= t + 1 /\ b > 0 /\ b \in Int /\ f <= b + WSize - 1
      BY <3>1, <3>2, <3>4, Sizes DEF Nothing
    <3> QED
      BY <3>3, <3>4, <3>5
  <2> QED
    BY <2>2, <2>3
<1> HIDE DEF b
<1>7. Moved(l, b, g)
  BY <1>1, <1>4 DEF b
<1>8. Window(g)'
  BY <1>4, <1>6, <1>7, NewWindow
<1> QED
  BY <1>1, <1>5, <1>8

LEMMA WorkerWindow ==
    ASSUME ReorderInv, TimeoutWorker, reord_list # <<>>
    PROVE  \E g \in Int :
              /\ Active /\ top \in Numbers
              /\ reord_list[1] \in Elems(reord_list)
              /\ \A m \in Elems(reord_list) : reord_list[1] <= m
              /\ Moved(reord_list, reord_list[1], g)
              /\ timer' <=> timer \/ \E m \in Elems(reord_list) : m > g
              /\ Window(g)' /\ top' = top
<1>1. PICK N \in Int, g \in Int :
         /\ Active /\ Window(N) /\ top \in Numbers
         /\ reord_list[1] \in Elems(reord_list)
         /\ \A m \in Elems(reord_list) : reord_list[1] <= m
         /\ Moved(reord_list, reord_list[1], g)
         /\ timer' <=> timer \/ \E m \in Elems(reord_list) : m > g
  BY WorkerEffect
<1>2. top' = top /\ top \in Int
  BY <1>1, NumbersInt DEF TimeoutWorker
<1>3. reord_list \in Seq(Numbers)
  BY DEF ReorderInv, Types
<1>4. \A m \in Elems(reord_list) : m \in Int /\ m > N /\ m <= N + WSize - 1 /\ m <= top
  BY <1>1, <1>3, NumbersList DEF Window, Elems
<1>5. PICK b \in Int : b = reord_list[1]
  BY <1>1, <1>4
<1>6. N > 0 /\ N >= top - 2 * WSize + 2
  BY <1>1 DEF Window
<1>7. b > N /\ b <= top
  BY <1>1, <1>4, <1>5
<1>8. b > 0 /\ b >= top - 2 * WSize + 2 /\ b <= top + 1
  BY <1>2, <1>6, <1>7, Sizes
<1>9. \A m \in Elems(reord_list) : m <= top /\ m <= b + WSize - 1
  BY <1>2, <1>4, <1>7, Sizes
<1>10. Window(g)'
  BY <1>1, <1>2, <1>3, <1>5, <1>8, <1>9, NewWindow
<1> QED
  BY <1>1, <1>2, <1>10

-----------------------------------------------------------------------------
(* The invariant is kept *)

LEMMA ReorderInit ==
    ASSUME Init
    PROVE  ReorderInv
<1> USE DEF Init
<1>1. Types
  BY ReorderAssumption, EmptyList DEF Types, NoSN
<1>2. PoolBalance
  BY ReorderAssumption, EmptyList DEF PoolBalance
<1>3. Phase /\ Windowed /\ HeldHasTimer
  BY DEF Phase, Active, Windowed, HeldHasTimer
<1>4. Sorted(reord_list)
  BY EmptyList
<1> QED
  BY <1>1, <1>2, <1>3, <1>4 DEF ReorderInv

\* Receiving a frame opens no window and moves none.
LEMMA ReceiveInv ==
    ASSUME ReorderInv, NEW n \in Numbers, Receive(n) \/ ReceiveNoMem(n)
    PROVE  ReorderInv'
<1> USE DEF ReorderInv
<1>1. CASE Receive(n)
  <2> USE <1>1 DEF Receive
  <2>1. Types'
    BY DEF Types, timerVars
  <2>2. PoolBalance'
    BY DEF PoolBalance, Types
  <2>3. Phase'
    BY DEF Phase, Active, CanArrive, Types
  <2>4. Sorted(reord_list)'
    BY DEF Sorted
  <2>5. Windowed'
    <3>1. ASSUME Active' PROVE Active /\ UNCHANGED <<ind_sn, top, reord_list>>
      BY <3>1 DEF Active, Types
    <3> QED
      BY <3>1 DEF Windowed, Window, Elems
  <2>6. HeldHasTimer'
    BY DEF HeldHasTimer, timerVars
  <2> QED
    BY <2>1, <2>2, <2>3, <2>4, <2>5, <2>6
<1>2. CASE ReceiveNoMem(n)
  <2> USE <1>2 DEF ReceiveNoMem, ctrlVars, timerVars
  <2>1. Types'
    BY DEF Types
  <2>2. PoolBalance'
    BY DEF PoolBalance, Types
  <2>3. Phase'
    BY DEF Phase, Active, CanArrive
  <2>4. Sorted(reord_list)' /\ HeldHasTimer'
    BY DEF Sorted, HeldHasTimer
  <2>5. Windowed'
    BY DEF Windowed, Active, Window, Elems
  <2> QED
    BY <2>1, <2>2, <2>3, <2>4, <2>5
<1> QED
  BY <1>1, <1>2

\* A late frame and a duplicate leave the window as it is.
LEMMA DropInv ==
    ASSUME ReorderInv, LateFrame \/ DuplicateFrame
    PROVE  ReorderInv'
<1>1. PICK N \in Int : Active /\ Window(N) /\ top \in Numbers /\ ind_sn' = SN(N) /\ top' = top
  BY LateEffect, DuplicateEffect
<1>2. /\ rpc = "locked" /\ rpc' = "idle" /\ frame' = Nothing /\ free' = free + 1
      /\ UNCHANGED <<known, enable, reord_list, timer, firing, work, leaked>>
      /\ out' \in {<<frame>>, <<>>}
  BY DEF LateFrame, DuplicateFrame, Handled, timerVars
<1> USE DEF ReorderInv
<1>3. frame \in Numbers /\ enable /\ known
  BY <1>2 DEF Phase
<1>4. out' \in Seq(Numbers)
  <2>1. <<frame>> \in Seq(Numbers) /\ <<>> \in Seq(Numbers)
    BY <1>3, EmptyList
  <2> QED
    BY <1>2, <2>1, Zenon
<1>5. ind_sn' \in 0..(Modulus - 1) /\ ind_sn' # NoSN
  BY <1>1, SNType
<1>6. Types'
  BY <1>1, <1>2, <1>4, <1>5 DEF Types
<1>7. PoolBalance'
  BY <1>2 DEF PoolBalance, Types
<1>8. Active'
  BY <1>2, <1>3, <1>5 DEF Active
<1>9. Phase'
  BY <1>2, <1>3, <1>8 DEF Phase
<1>10. Sorted(reord_list)' /\ HeldHasTimer'
  BY <1>2 DEF Sorted, HeldHasTimer
<1>11. Window(N)'
  BY <1>1, <1>2 DEF Window, Elems
<1>12. Windowed'
  BY <1>1, <1>11 DEF Windowed
<1> QED
  BY <1>6, <1>7, <1>9, <1>10, <1>12

LEMMA ProcessBool == \A l, ind : Process(l, ind).inBuf \in BOOLEAN
  BY DEF Process

LEMMA ElemsEmpty ==
    ASSUME NEW l \in Seq(Numbers), l # <<>>
    PROVE  \E m : m \in Elems(l)
<1>1. 1 \in DOMAIN l
  OBVIOUS
<1> QED
  BY <1>1 DEF Elems

\* A fresh frame moves the window, and the timer runs if a gap remains.
LEMMA QueueInv ==
    ASSUME ReorderInv, QueueFrame
    PROVE  ReorderInv'
<1>1. PICK N \in Int, g \in Int, l \in Seq(Numbers) :
         /\ Len(l) = Len(reord_list) + 1
         /\ Moved(l, Target(N, frame), g)
         /\ timer' <=> \E m \in Elems(l) : m > g
         /\ Window(g)' /\ top' \in Numbers
  BY QueueWindow
<1>2. /\ rpc = "locked" /\ rpc' = "idle" /\ frame' = Nothing
      /\ UNCHANGED <<known, enable, firing, work, leaked>>
  BY DEF QueueFrame, Handled
<1>3. /\ ind_sn' = SN(g) /\ free' = free + Len(out')
      /\ out' \in Seq(Numbers) /\ reord_list' \in Seq(Numbers) /\ Sorted(reord_list')
      /\ Elems(reord_list') = {m \in Elems(l) : m > g}
      /\ Len(out') + Len(reord_list') = Len(reord_list) + 1
  BY <1>1 DEF Moved, Parts
<1>4. timer' \in BOOLEAN
  <2>1. \E l1, ind : timer' = Process(l1, ind).inBuf
    BY DEF QueueFrame, ArmTimer
  <2> QED
    BY <2>1, ProcessBool, Zenon
<1>5. enable /\ known
  BY <1>2 DEF ReorderInv, Phase
<1>6. ind_sn' \in 0..(Modulus - 1) /\ ind_sn' # NoSN
  BY <1>3, SNType
<1>7. Len(out') \in Nat /\ Len(reord_list') \in Nat /\ Len(reord_list) \in Nat
  BY <1>3 DEF ReorderInv, Types
<1> USE DEF ReorderInv
<1>8. Types'
  BY <1>1, <1>2, <1>3, <1>4, <1>6, <1>7 DEF Types
<1>9. PoolBalance'
  <2>1. free + Len(reord_list) + leaked + 1 = Pool /\ free \in Nat /\ leaked \in Nat
    BY <1>2 DEF PoolBalance, Types
  <2>2. free' + Len(reord_list') + leaked + 0 = Pool
    BY <2>1, <1>3, <1>7
  <2> QED
    BY <2>2, <1>2 DEF PoolBalance
<1>10. Active'
  BY <1>2, <1>5, <1>6 DEF Active
<1>11. Phase'
  BY <1>2, <1>5, <1>10 DEF Phase
<1>12. Windowed'
  BY <1>1 DEF Windowed
<1>13. HeldHasTimer'
  <2>1. ASSUME reord_list' # <<>> PROVE timer'
    <3>1. PICK m : m \in Elems(reord_list')
      BY <1>3, <2>1, ElemsEmpty
    <3> QED
      BY <1>1, <1>3, <3>1
  <2> QED
    BY <2>1 DEF HeldHasTimer
<1>14. Sorted(reord_list)'
  BY <1>3 DEF Sorted
<1> QED
  BY <1>8, <1>9, <1>11, <1>12, <1>13, <1>14

\* Flush and teardown, in their two halves.
LEMMA StopInv ==
    ASSUME ReorderInv, FlushTid \/ FlushStopTimer \/ DeinitStop \/ DeinitFree
    PROVE  ReorderInv'
<1> USE DEF ReorderInv
<1>0. Len(reord_list) \in Nat /\ Len(<<>>) = 0
  BY EmptyList DEF Types
<1>1. CASE FlushTid
  <2> USE <1>1 DEF FlushTid, timerVars
  <2>1. Types'
    <3>1. free' \in Nat
      BY <1>0 DEF Types
    <3> QED
      BY <3>1, EmptyList DEF Types
  <2>2. PoolBalance'
    BY <1>0 DEF PoolBalance, Types
  <2>3. Phase' /\ Windowed' /\ HeldHasTimer'
    BY DEF Phase, Active, Windowed, HeldHasTimer
  <2>4. Sorted(reord_list)'
    BY EmptyList DEF Sorted
  <2> QED
    BY <2>1, <2>2, <2>3, <2>4
<1>2. CASE FlushStopTimer
  <2> USE <1>2 DEF FlushStopTimer, StopTimer, ctrlVars, envVars
  <2>1. ~ enable /\ ~ Active /\ reord_list = <<>>
    BY DEF Phase, Active
  <2>2. Types'
    BY DEF Types
  <2>3. PoolBalance'
    BY DEF PoolBalance
  <2>4. Phase' /\ Windowed' /\ HeldHasTimer' /\ Sorted(reord_list)'
    BY <2>1 DEF Phase, Active, Windowed, HeldHasTimer, Sorted
  <2> QED
    BY <2>2, <2>3, <2>4
<1>3. CASE DeinitStop
  <2> USE <1>3 DEF DeinitStop, StopTimer, envVars
  <2>1. Active' <=> Active
    BY DEF Active
  <2>2. Types'
    BY DEF Types
  <2>3. PoolBalance'
    BY DEF PoolBalance
  <2>4. Phase' /\ HeldHasTimer' /\ Sorted(reord_list)'
    BY <2>1 DEF Phase, HeldHasTimer, Sorted
  <2>5. Windowed'
    BY <2>1 DEF Windowed, Window, Elems
  <2> QED
    BY <2>2, <2>3, <2>4, <2>5
<1>4. CASE DeinitFree
  <2> USE <1>4 DEF DeinitFree, DeinitStopped
  <2>1. ~ enable
    BY DEF Phase
  <2>2. Types'
    <3>1. free' \in Nat
      BY <1>0 DEF Types
    <3> QED
      BY <3>1, EmptyList DEF Types
  <2>3. PoolBalance'
    BY <1>0 DEF PoolBalance, Types
  <2>4. Phase' /\ Windowed' /\ HeldHasTimer'
    BY <2>1 DEF Phase, Active, Windowed, HeldHasTimer
  <2>5. Sorted(reord_list)'
    BY EmptyList DEF Sorted
  <2> QED
    BY <2>2, <2>3, <2>4, <2>5
<1> QED
  BY <1>1, <1>2, <1>3, <1>4

\* The timer and its work item.
LEMMA TimerInv ==
    ASSUME ReorderInv, TimerExpires \/ TimeoutHandler \/ TimeoutWorker
    PROVE  ReorderInv'
<1>1. CASE (TimerExpires \/ TimeoutHandler) \/ (TimeoutWorker /\ reord_list = <<>>)
  <2>1. /\ UNCHANGED <<known, enable, ind_sn, reord_list, rpc, frame, free, leaked, top, out>>
        /\ timer' \in BOOLEAN /\ firing' \in BOOLEAN /\ work' \in BOOLEAN
        /\ timer' \/ firing' \/ work' \/ reord_list = <<>>
    BY <1>1 DEF TimerExpires, TimeoutHandler, TimeoutWorker, ctrlVars, envVars, ReorderInv, Types
  <2> USE <2>1 DEF ReorderInv
  <2>2. Types' /\ PoolBalance'
    BY DEF Types, PoolBalance
  <2>3. Phase' /\ Windowed' /\ HeldHasTimer' /\ Sorted(reord_list)'
    BY DEF Phase, CanArrive, Active, Windowed, Window, Elems, HeldHasTimer, Sorted
  <2> QED
    BY <2>2, <2>3
<1>2. CASE TimeoutWorker /\ reord_list # <<>>
  <2>1. PICK g \in Int :
           /\ Active /\ top \in Numbers
           /\ Moved(reord_list, reord_list[1], g)
           /\ timer' <=> timer \/ \E m \in Elems(reord_list) : m > g
           /\ Window(g)' /\ top' = top
    BY <1>2, WorkerWindow
  <2>2. UNCHANGED <<known, enable, firing, rpc, frame, leaked, top>> /\ work' = FALSE
    BY <1>2 DEF TimeoutWorker
  <2>3. /\ ind_sn' = SN(g) /\ free' = free + Len(out')
        /\ out' \in Seq(Numbers) /\ reord_list' \in Seq(Numbers) /\ Sorted(reord_list')
        /\ Elems(reord_list') = {m \in Elems(reord_list) : m > g}
        /\ Len(out') + Len(reord_list') = Len(reord_list)
    BY <2>1 DEF Moved, Parts
  <2>4. timer' \in BOOLEAN
    BY <1>2 DEF TimeoutWorker
  <2>5. ind_sn' \in 0..(Modulus - 1) /\ ind_sn' # NoSN
    BY <2>3, SNType
  <2>6. Len(out') \in Nat /\ Len(reord_list') \in Nat /\ Len(reord_list) \in Nat
    BY <2>3 DEF ReorderInv, Types
  <2> USE DEF ReorderInv
  <2>7. Types'
    <3>1. free' \in Nat
      BY <2>3, <2>6 DEF Types
    <3> QED
      BY <3>1, <2>2, <2>3, <2>4, <2>5 DEF Types
  <2>8. PoolBalance'
    <3> DEFINE h == IF rpc = "locked" THEN 1 ELSE 0
    <3>1. free + Len(reord_list) + leaked + h = Pool /\ free \in Nat /\ leaked \in Nat /\ h \in Nat
      BY DEF PoolBalance, Types
    <3> HIDE DEF h
    <3>2. free' + Len(reord_list') + leaked + h = Pool
      BY <3>1, <2>3, <2>6
    <3> QED
      BY <3>2, <2>2 DEF PoolBalance, h
  <2>9. Active'
    BY <2>1, <2>2, <2>5 DEF Active
  <2>10. Phase'
    BY <2>2, <2>9 DEF Phase, CanArrive
  <2>11. Windowed'
    BY <2>1 DEF Windowed
  <2>12. HeldHasTimer'
    <3>1. ASSUME reord_list' # <<>> PROVE timer'
      <4>1. PICK m : m \in Elems(reord_list')
        BY <2>3, <3>1, ElemsEmpty
      <4> QED
        BY <2>1, <2>3, <4>1
    <3> QED
      BY <3>1 DEF HeldHasTimer
  <2>13. Sorted(reord_list)'
    BY <2>3 DEF Sorted
  <2> QED
    BY <2>7, <2>8, <2>10, <2>11, <2>12, <2>13
<1> QED
  BY <1>1, <1>2

LEMMA ReorderStep ==
    ASSUME ReorderInv, [Next]_vars
    PROVE  ReorderInv'
<1>1. CASE UNCHANGED vars
  <2>1. UNCHANGED <<known, enable, ind_sn, reord_list, timer, firing, work, rpc, frame, free, leaked, top, out>>
    BY <1>1 DEF vars, ctrlVars, timerVars, envVars
  <2> USE <2>1 DEF ReorderInv
  <2>2. Types' /\ PoolBalance'
    BY DEF Types, PoolBalance
  <2>3. Phase' /\ Windowed' /\ HeldHasTimer' /\ Sorted(reord_list)'
    BY DEF Phase, CanArrive, Active, Windowed, Window, Elems, HeldHasTimer, Sorted
  <2> QED
    BY <2>2, <2>3
<1> QED
  BY <1>1, ReceiveInv, DropInv, QueueInv, StopInv, TimerInv DEF Next

LEMMA ReorderInvariant == Spec => []ReorderInv
  BY ReorderInit, ReorderStep, PTL DEF Spec

-----------------------------------------------------------------------------
(* The results *)

\* For every window, modulus, pool and number of frames: the buffer holds
\* less than a window of frames, in the sender's order although the list is
\* sorted by numbers that wrap, and every descriptor is accounted for through
\* duplicates, late frames, timeouts, flush and teardown.
THEOREM BufferKept == Spec => []BufferInv
<1>1. ReorderInv => BufferInv
  <2> SUFFICES ASSUME ReorderInv PROVE BufferInv
    OBVIOUS
  <2> USE DEF ReorderInv
  <2>1. Len(reord_list) \in Nat /\ Pool \in Nat /\ free \in Nat /\ leaked \in Nat
    BY ReorderAssumption DEF Types
  <2>2. free \in 0..Pool /\ leaked \in 0..Pool
    BY <2>1 DEF PoolBalance
  <2>3. {known, enable, timer, firing, work} \subseteq BOOLEAN
    BY DEF Types
  <2>4. TypeOK
    BY <2>2, <2>3 DEF TypeOK, Types
  <2>5. Len(reord_list) < WSize
    <3>1. CASE Active
      <4>1. PICK N \in Int : Window(N)
        BY <3>1 DEF Windowed
      <4> QED
        BY <4>1, WindowSize DEF Window, Types
    <3>2. CASE ~ Active
      BY <3>2, EmptyList, Sizes DEF Phase
    <3> QED
      BY <3>1, <3>2
  <2> QED
    BY <2>4, <2>5 DEF BufferInv, WindowHolds, Sorted
<1> QED
  BY <1>1, ReorderInvariant, PTL

\* No frame is held without a timer, its handler or its work item to give up
\* the gap before it, whatever the races between reord_timeout_worker, the
\* receive path and reord_flush_tid.
THEOREM HeldHaveTimer == Spec => []HeldHasTimer
<1>1. ReorderInv => HeldHasTimer
  BY DEF ReorderInv
<1> QED
  BY <1>1, ReorderInvariant, PTL

-----------------------------------------------------------------------------
(* The refinement *)

\* The number with sequence number s that is nearest to t.
Nearest(t, s) == CHOOSE n \in (t - Modulus \div 2 + 1)..(t + Modulus \div 2) : n % Modulus = s

LEMMA NearestIs ==
    ASSUME NEW t \in Int, NEW N \in Int, N >= t - 2 * WSize + 2, N <= t + 1
    PROVE  Nearest(t, SN(N)) = N
<1> DEFINE P == (t - Half + 1)..(t + Half)
<1>1. N \in P /\ \A n \in P : n \in Int /\ n - N > -Modulus /\ n - N < Modulus
  BY Sizes
<1>2. \A n \in P : n % Modulus = SN(N) => n = N
  <2> SUFFICES ASSUME NEW n \in P, n % Modulus = SN(N) PROVE n = N
    OBVIOUS
  <2>1. SN(n) = SN(N)
    BY DEF SN
  <2> QED
    BY <1>1, <2>1, SNEqual
<1>3. N % Modulus = SN(N)
  BY DEF SN
<1>4. Nearest(t, SN(N)) = CHOOSE n \in P : n % Modulus = SN(N)
  BY Zenon DEF Nearest, Half
<1> HIDE DEF P
<1> QED
  BY <1>1, <1>2, <1>3, <1>4, Zenon

LEMMA NextNumberDef == NextNumber = IF Active THEN Nearest(top, ind_sn) ELSE -1
<1>1. Active <=> ~ (~ known \/ (~ enable /\ rpc # "deinit") \/ ind_sn = NoSN)
  BY DEF Active
<1>2. CASE Active
  <2>1. NextNumber = Nearest(top, ind_sn)
    BY <1>1, <1>2, Zenon DEF NextNumber, Nearest
  <2> QED
    BY <1>2, <2>1
<1>3. CASE ~ Active
  <2>1. NextNumber = -1
    BY <1>1, <1>3, Zenon DEF NextNumber
  <2> QED
    BY <1>3, <2>1
<1> QED
  BY <1>2, <1>3

LEMMA NextNumberDefPrime == NextNumber' = IF Active' THEN Nearest(top', ind_sn') ELSE -1
<1>1. Active' <=> ~ (~ known' \/ (~ enable' /\ rpc' # "deinit") \/ ind_sn' = NoSN)
  BY DEF Active
<1>2. CASE Active'
  <2>1. NextNumber' = Nearest(top', ind_sn')
    BY <1>1, <1>2, Zenon DEF NextNumber, Nearest
  <2> QED
    BY <1>2, <2>1
<1>3. CASE ~ Active'
  <2>1. NextNumber' = -1
    BY <1>1, <1>3, Zenon DEF NextNumber
  <2> QED
    BY <1>3, <2>1
<1> QED
  BY <1>2, <1>3

\* NextNumber is the number the window stands for.
LEMMA NextIs ==
    ASSUME Active, top \in Numbers, NEW N \in Int, Window(N)
    PROVE  NextNumber = N /\ NextNumber # -1
<1>1. top \in Int /\ N > 0 /\ N >= top - 2 * WSize + 2 /\ N <= top + 1 /\ ind_sn = SN(N)
  BY NumbersInt DEF Window
<1>2. Nearest(top, SN(N)) = N
  BY <1>1, NearestIs
<1> QED
  BY <1>1, <1>2, NextNumberDef

LEMMA NextIsPrime ==
    ASSUME Active', top' \in Numbers, NEW N \in Int, Window(N)'
    PROVE  NextNumber' = N
<1>1. top' \in Int /\ N >= top' - 2 * WSize + 2 /\ N <= top' + 1 /\ ind_sn' = SN(N)
  BY NumbersInt DEF Window
<1>2. Nearest(top', SN(N)) = N
  BY <1>1, NearestIs
<1> QED
  BY <1>1, <1>2, NextNumberDefPrime

\* The gap the driver finds is the one the abstract buffer chooses.
LEMMA FirstGapIs ==
    ASSUME NEW S \in SUBSET Int, NEW b \in Int, NEW g, Gap(S, b, g)
    PROVE  Unwrapped!FirstGap(b, S) = g
<1> DEFINE C == {b} \cup {k + 1 : k \in S}
<1>1. g \in Int /\ g >= b /\ g \notin S /\ \A m \in b..(g - 1) : m \in S
  BY DEF Gap
<1>2. g \in C
  <2>1. CASE g = b
    BY <2>1
  <2>2. CASE g # b
    <3>1. g - 1 \in S /\ g = (g - 1) + 1
      BY <1>1, <2>2
    <3> QED
      BY <3>1
  <2> QED
    BY <2>1, <2>2
<1>3. ASSUME NEW m \in C, m >= b, m \notin S, \A k \in b..(m - 1) : k \in S
      PROVE  m = g
  <2>1. m \in Int
    OBVIOUS
  <2>2. ~(m \in b..(g - 1)) /\ ~(g \in b..(m - 1))
    BY <1>1, <1>3
  <2> QED
    BY <1>1, <1>3, <2>1, <2>2
<1>4. Unwrapped!FirstGap(b, S) =
        CHOOSE m \in C : m >= b /\ m \notin S /\ \A k \in b..(m - 1) : k \in S
  BY Zenon DEF Unwrapped!FirstGap
<1> HIDE DEF C
<1> QED
  BY <1>1, <1>2, <1>3, <1>4, Zenon

\* A sorted list hands up its elements.
LEMMA HandUpIs ==
    ASSUME out' \in Seq(Numbers), Sorted(out')
    PROVE  Unwrapped!HandUp(Elems(out'))
<1>1. out' \in Seq(Elems(out'))
  BY DEF Elems
<1>2. \A m \in Elems(out') : \E i \in DOMAIN out' : out'[i] = m
  BY DEF Elems
<1>3. \A i, j \in DOMAIN out' : i < j => out'[i] < out'[j]
  BY DEF Sorted
<1> QED
  BY <1>1, <1>2, <1>3, Zenon DEF Unwrapped!HandUp

\* The window stands at g now, and of the frames S those below g were handed up.
AdvancedTo(g, S) ==
    /\ NextNumber' = g
    /\ {reord_list'[i] : i \in DOMAIN reord_list'} = {m \in S : m > g}
    /\ out' \in Seq({m \in S : m < g})
    /\ \A m \in {n \in S : n < g} : \E i \in DOMAIN out' : out'[i] = m
    /\ \A i, j \in DOMAIN out' : i < j => out'[i] < out'[j]

\* A step that hands up list l advances the abstract window.
LEMMA AdvanceIs ==
    ASSUME NEW l \in Seq(Numbers), NEW b \in Int, NEW g \in Int, Moved(l, b, g),
           NEW S, S = Elems(l), NEW a \in Int, Gap(S, a, g),
           Active', Window(g)', top' \in Numbers
    PROVE  AdvancedTo(g, S) /\ Unwrapped!FirstGap(a, S) = g
<1>1. NextNumber' = g
  BY NextIsPrime
<1>2. S \in SUBSET Int
  BY NumbersList DEF Elems
<1>3. Unwrapped!FirstGap(a, S) = g
  BY <1>2, FirstGapIs
<1>4. /\ out' \in Seq(Numbers) /\ Sorted(out') /\ Elems(out') = {m \in S : m < g}
      /\ Elems(reord_list') = {m \in S : m > g}
  BY DEF Moved, Parts
<1>5. out' \in Seq(Elems(out'))
  BY <1>4 DEF Elems
<1>6. \A m \in Elems(out') : \E i \in DOMAIN out' : out'[i] = m
  BY DEF Elems
<1>7. {reord_list'[i] : i \in DOMAIN reord_list'} = Elems(reord_list')
  BY DEF Elems
<1>8. \A i, j \in DOMAIN out' : i < j => out'[i] < out'[j]
  BY <1>4 DEF Sorted
<1> QED
  BY <1>1, <1>3, <1>4, <1>5, <1>6, <1>7, <1>8, Zenon DEF AdvancedTo

\* A step that changes neither the window nor the list nor what was handed
\* up stutters.
LEMMA Stutters ==
    ASSUME UNCHANGED <<reord_list, out>>, NextNumber' = NextNumber
    PROVE  UNCHANGED Unwrapped!bufferVars
  BY DEF Unwrapped!bufferVars

LEMMA SameNumber ==
    ASSUME Active' <=> Active, UNCHANGED <<ind_sn, top>>
    PROVE  NextNumber' = NextNumber
  BY NextNumberDef, NextNumberDefPrime, Zenon

LEMMA NoNumber ==
    ASSUME ~ Active, ~ Active'
    PROVE  NextNumber' = NextNumber
  BY NextNumberDef, NextNumberDefPrime

LEMMA QuietStep ==
    ASSUME ReorderInv,
           \/ \E n \in Numbers : Receive(n) \/ ReceiveNoMem(n)
           \/ FlushStopTimer \/ DeinitStop \/ TimerExpires \/ TimeoutHandler
           \/ TimeoutWorker /\ reord_list = <<>>
    PROVE  UNCHANGED Unwrapped!bufferVars
<1>0. UNCHANGED <<reord_list, out>>
  BY DEF Receive, ReceiveNoMem, FlushStopTimer, DeinitStop, TimerExpires, TimeoutHandler,
         TimeoutWorker, ctrlVars
<1>1. ASSUME NEW n \in Numbers, Receive(n) PROVE NextNumber' = NextNumber
  <2>1. CASE known /\ enable
    <3>1. (Active' <=> Active) /\ UNCHANGED <<ind_sn, top>>
      BY <1>1, <2>1 DEF Receive, Active
    <3> QED
      BY <3>1, SameNumber
  <2>2. CASE ~ (known /\ enable)
    <3>1. ~ Active /\ ~ Active'
      BY <1>1, <2>2 DEF Receive, Active
    <3> QED
      BY <3>1, NoNumber
  <2> QED
    BY <2>1, <2>2
<1>2. ASSUME \/ \E n \in Numbers : ReceiveNoMem(n)
             \/ FlushStopTimer \/ DeinitStop \/ TimerExpires \/ TimeoutHandler
             \/ TimeoutWorker /\ reord_list = <<>>
      PROVE  NextNumber' = NextNumber
  <2>1. (Active' <=> Active) /\ UNCHANGED <<ind_sn, top>>
    BY <1>2 DEF ReceiveNoMem, FlushStopTimer, DeinitStop, TimerExpires, TimeoutHandler,
                TimeoutWorker, ctrlVars, envVars, Active
  <2> QED
    BY <2>1, SameNumber
<1>3. NextNumber' = NextNumber
  BY <1>1, <1>2
<1> QED
  BY <1>0, <1>3, Stutters

\* A late frame and a duplicate are handled alone.
LEMMA AloneStep ==
    ASSUME ReorderInv, LateFrame \/ DuplicateFrame
    PROVE  Unwrapped!Next
<1>1. PICK N \in Int : /\ Active /\ Window(N) /\ top \in Numbers /\ ind_sn' = SN(N) /\ top' = top
                       /\ LateFrame => frame < N
                       /\ DuplicateFrame => frame \in Elems(reord_list)
  <2>1. CASE LateFrame
    <3>1. PICK N \in Int : /\ Active /\ Window(N) /\ top \in Numbers
                           /\ frame < N /\ ind_sn' = SN(N) /\ top' = top
      BY <2>1, LateEffect
    <3>2. ~ DuplicateFrame
      BY <2>1 DEF LateFrame, DuplicateFrame
    <3> QED
      BY <3>1, <3>2
  <2>2. CASE DuplicateFrame
    <3>1. PICK N \in Int : /\ Active /\ Window(N) /\ top \in Numbers
                           /\ frame \in Elems(reord_list) /\ ind_sn' = SN(N) /\ top' = top
      BY <2>2, DuplicateEffect
    <3>2. ~ LateFrame
      BY <2>2 DEF LateFrame, DuplicateFrame
    <3> QED
      BY <3>1, <3>2
  <2> QED
    BY <2>1, <2>2
<1>2. rpc = "locked" /\ rpc' = "idle" /\ UNCHANGED <<known, enable, reord_list>>
  BY DEF LateFrame, DuplicateFrame, Handled
<1>3. frame \in Numbers /\ enable
  BY <1>2 DEF ReorderInv, Phase
<1>4. ind_sn' = ind_sn
  BY <1>1 DEF Window
<1>5. Active' <=> Active
  BY <1>2, <1>3, <1>4 DEF Active
<1>6. NextNumber' = NextNumber /\ NextNumber = N /\ NextNumber # -1
  BY <1>1, <1>4, <1>5, SameNumber, NextIs
<1>7. CASE LateFrame
  <2>1. out' \in {<<frame>>, <<>>}
    BY <1>7 DEF LateFrame
  <2>2. Unwrapped!Late(frame)
    BY <2>1, <1>1, <1>2, <1>6, <1>7 DEF Unwrapped!Late, Unwrapped!Unset
  <2> QED
    BY <2>2, <1>3 DEF Unwrapped!Next
<1>8. CASE DuplicateFrame
  <2>1. out' = <<>>
    BY <1>8 DEF DuplicateFrame
  <2>2. Unwrapped!Duplicate(frame)
    BY <2>1, <1>1, <1>2, <1>6, <1>8 DEF Unwrapped!Duplicate, Elems
  <2> QED
    BY <2>2, <1>3 DEF Unwrapped!Next
<1> QED
  BY <1>7, <1>8

\* A fresh frame advances the window as far as it reaches.
LEMMA FreshStep ==
    ASSUME ReorderInv, QueueFrame
    PROVE  Unwrapped!Next
<1>1. PICK N \in Int, g \in Int, l \in Seq(Numbers) :
         /\ Before(N) /\ frame >= N /\ frame \notin Elems(reord_list)
         /\ Elems(l) = Elems(reord_list) \cup {frame}
         /\ Moved(l, Target(N, frame), g)
         /\ Window(g)' /\ top' \in Numbers
  BY QueueWindow
<1>2. rpc = "locked" /\ UNCHANGED <<known, enable>>
  BY DEF QueueFrame, Handled
<1>3. known /\ enable /\ frame \in Numbers /\ frame \in Int
  BY <1>2, NumbersInt DEF ReorderInv, Phase
<1>4. Active'
  <2>1. ind_sn' # NoSN
    BY <1>1, SNType DEF Moved
  <2> QED
    BY <2>1, <1>2, <1>3 DEF Active
<1>5. Target(N, frame) \in Int
  BY <1>3, Sizes DEF Target
<1> DEFINE start == IF NextNumber = -1 THEN frame
                    ELSE IF frame > NextNumber + WSize - 1 THEN frame - (WSize - 1)
                    ELSE NextNumber
<1>6. start \in Int /\ Gap(Elems(l), start, g) /\ (NextNumber = -1 \/ frame >= NextNumber)
  <2>1. Gap(Elems(l), Target(N, frame), g)
    BY <1>1 DEF Moved
  <2>2. frame \in Elems(l)
    BY <1>1
  <2>3. CASE Active
    <3>1. Window(N) /\ top \in Numbers
      BY <1>1, <2>3 DEF Before
    <3>2. NextNumber = N /\ NextNumber # -1
      BY <2>3, <3>1, NextIs
    <3>3. start = IF frame > N + WSize - 1 THEN frame - (WSize - 1) ELSE N
      BY <3>2
    <3> HIDE DEF start
    <3>4. CASE frame = N
      <4>1. Target(N, frame) = N + 1 /\ start = N
        BY <3>3, <3>4, Sizes DEF Target
      <4> QED
        BY <4>1, <2>1, <2>2, <3>2, <3>4 DEF Gap
    <3>5. CASE frame # N
      <4>1. Target(N, frame) = start /\ start \in Int
        BY <1>1, <1>3, <3>3, <3>5, Sizes DEF Target
      <4> QED
        BY <4>1, <2>1, <3>2, <1>1
    <3> QED
      BY <3>4, <3>5
  <2>4. CASE ~ Active
    <3>1. NextNumber = -1 /\ N = frame
      BY <1>1, <2>4, NextNumberDef DEF Before
    <3>2. Target(N, frame) = frame + 1 /\ start = frame
      BY <1>3, <3>1 DEF Target
    <3> QED
      BY <3>1, <3>2, <2>1, <2>2, <1>3 DEF Gap
  <2> QED
    BY <2>3, <2>4
<1> HIDE DEF start
<1>7. PICK a \in Int, f \in Numbers, S \in {Elems(l)} :
         /\ a = start /\ f = frame
         /\ S = {reord_list[i] : i \in DOMAIN reord_list} \cup {f}
  BY <1>1, <1>3, <1>6 DEF Elems
<1>8. AdvancedTo(g, S) /\ Unwrapped!FirstGap(a, S) = g
  <2>1. Gap(S, a, g)
    BY <1>6, <1>7
  <2>2. PICK b \in Int : Moved(l, b, g)
    BY <1>1, <1>5
  <2> QED
    BY <1>1, <1>4, <1>7, <2>1, <2>2, AdvanceIs
<1>9. /\ a = IF NextNumber = -1 THEN f ELSE IF f > NextNumber + WSize - 1 THEN f - (WSize - 1)
             ELSE NextNumber
      /\ NextNumber = -1 \/ f >= NextNumber
      /\ f \notin {reord_list[i] : i \in DOMAIN reord_list}
  BY <1>1, <1>6, <1>7 DEF start, Elems
<1>10. Unwrapped!Fresh(f)
  BY <1>7, <1>8, <1>9, Zenon
     DEF Unwrapped!Fresh, Unwrapped!Advance, Unwrapped!HandUp, Unwrapped!Unset, AdvancedTo
<1> QED
  BY <1>10 DEF Unwrapped!Next

\* The work item gives up the gap before the first frame held.
LEMMA GiveUpStep ==
    ASSUME ReorderInv, TimeoutWorker, reord_list # <<>>
    PROVE  Unwrapped!Next
<1>1. PICK g \in Int :
         /\ Active /\ top \in Numbers
         /\ reord_list[1] \in Elems(reord_list)
         /\ \A m \in Elems(reord_list) : reord_list[1] <= m
         /\ Moved(reord_list, reord_list[1], g)
         /\ Window(g)' /\ top' = top
  BY WorkerWindow
<1>2. reord_list \in Seq(Numbers)
  BY DEF ReorderInv, Types
<1>3. reord_list[1] \in Int
  BY <1>1, <1>2, NumbersList DEF Elems
<1>4. Active'
  <2>1. ind_sn' # NoSN
    BY <1>1, SNType DEF Moved
  <2>2. UNCHANGED <<known, enable, rpc>>
    BY DEF TimeoutWorker
  <2> QED
    BY <1>1, <2>1, <2>2 DEF Active
<1>5. Gap(Elems(reord_list), reord_list[1], g)
  BY <1>1 DEF Moved
<1>6. PICK a \in Int, S \in {Elems(reord_list)} : a = reord_list[1]
  BY <1>3
<1>7. AdvancedTo(g, S) /\ Unwrapped!FirstGap(a, S) = g
  <2>1. Gap(S, a, g) /\ Moved(reord_list, a, g)
    BY <1>1, <1>5, <1>6
  <2> QED
    BY <1>1, <1>2, <1>4, <1>6, <2>1, AdvanceIs
<1>8. S = {reord_list[i] : i \in DOMAIN reord_list} /\ a \in S /\ \A k \in S : a <= k
  BY <1>1, <1>6 DEF Elems
<1>9. Unwrapped!GiveUp
  BY <1>7, <1>8, Zenon DEF Unwrapped!GiveUp, Unwrapped!Advance, Unwrapped!HandUp, AdvancedTo
<1> QED
  BY <1>9 DEF Unwrapped!Next

\* A flush hands up what is held, the teardown drops it.
LEMMA EndStep ==
    ASSUME ReorderInv, FlushTid \/ DeinitFree
    PROVE  Unwrapped!Next
<1>1. reord_list' = <<>> /\ ~ Active'
  BY DEF FlushTid, DeinitFree, Active
<1>2. NextNumber' = -1
  BY <1>1, NextNumberDefPrime
<1>3. {reord_list'[i] : i \in DOMAIN reord_list'} = {}
  BY <1>1
<1>4. CASE FlushTid
  <2>1. out' = reord_list
    BY <1>4 DEF FlushTid
  <2>2. out' \in Seq(Numbers) /\ Sorted(out')
    BY <2>1 DEF ReorderInv, Types
  <2>3. Unwrapped!HandUp(Elems(out'))
    BY <2>2, HandUpIs
  <2>4. Elems(out') = {reord_list[i] : i \in DOMAIN reord_list}
    BY <2>1 DEF Elems
  <2>5. Unwrapped!Flush
    BY <1>2, <1>3, <2>3, <2>4, Zenon DEF Unwrapped!Flush, Unwrapped!Unset
  <2> QED
    BY <2>5 DEF Unwrapped!Next
<1>5. CASE DeinitFree
  <2>1. out' = <<>>
    BY <1>5 DEF DeinitFree
  <2>2. Unwrapped!Discard
    BY <1>2, <1>3, <2>1, Zenon DEF Unwrapped!Discard, Unwrapped!Unset
  <2> QED
    BY <2>2 DEF Unwrapped!Next
<1> QED
  BY <1>4, <1>5

LEMMA RefinesStep ==
    ASSUME ReorderInv, [Next]_vars
    PROVE  [Unwrapped!Next]_(Unwrapped!bufferVars)
<1>1. CASE UNCHANGED vars
  <2>1. UNCHANGED <<known, enable, ind_sn, reord_list, rpc, top, out>>
    BY <1>1 DEF vars, ctrlVars, envVars
  <2>2. NextNumber' = NextNumber
    <3>1. Active' <=> Active
      BY <2>1 DEF Active
    <3> QED
      BY <2>1, <3>1, SameNumber
  <2> QED
    BY <2>1, <2>2, Stutters
<1> QED
  BY <1>1, QuietStep, AloneStep, FreshStep, GiveUpStep, EndStep DEF Next

LEMMA RefinesInit ==
    ASSUME Init
    PROVE  Unwrapped!Init
<1>1. ~ Active /\ reord_list = <<>> /\ out = <<>>
  BY DEF Init, Active
<1>2. NextNumber = -1
  BY <1>1, NextNumberDef
<1>3. {reord_list[i] : i \in DOMAIN reord_list} = {}
  BY <1>1
<1> QED
  BY <1>1, <1>2, <1>3, Zenon DEF Unwrapped!Init, Unwrapped!Unset

\* Working on numbers modulo Modulus (SN_LESS, the window start that wraps,
\* the insertion sort, the walk to the next gap) the driver hands up exactly
\* the frames, in the order, that the buffer on unwrapped numbers hands up:
\* for every even modulus of six windows or more, every pool and any frames a
\* sender with that window may send, repeat or lose.
THEOREM UnwrappedImplemented == Spec => ImplementsUnwrapped
<1>1. Init => Unwrapped!Init
  BY RefinesInit
<1>2. ReorderInv /\ [Next]_vars => [Unwrapped!Next]_(Unwrapped!bufferVars)
  BY RefinesStep
<1> QED
  BY <1>1, <1>2, ReorderInvariant, PTL DEF Spec, ImplementsUnwrapped, Unwrapped!Spec
=============================================================================
