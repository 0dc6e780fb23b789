------------------------ MODULE MBrokerListProofs ---------------------------
(* The listing of the boxes, for every number of boxes: what the fold of   *)
(* the exchanges computes, that a manager prints the boxes in the order of *)
(* their names, and when what it prints is all the boxes there are.        *)
EXTENDS MBrokerProofs

-----------------------------------------------------------------------------
(* A fold, step by step.                                                   *)

\* What holds of 0, and of the next number when it holds of one below n, holds up to n.
LEMMA UpTo ==
  ASSUME NEW n \in Nat, NEW S \in SUBSET Nat, 0 \in S, \A k \in 0 .. n - 1 : k \in S => k + 1 \in S
  PROVE  0 .. n \subseteq S
<1> DEFINE T == {m \in 0 .. n : m \notin S}
<1> SUFFICES ASSUME T # {} PROVE FALSE
  OBVIOUS
<1>1. PICK m : m = Min(T)
  OBVIOUS
<1>2. T \in SUBSET Nat
  OBVIOUS
<1>3. m \in T /\ \A k \in T : m =< k
  <2> HIDE DEF T
  <2> QED
    BY <1>1, <1>2, LeastInSet
<1>4. m # 0 /\ m - 1 \in 0 .. n - 1
  BY <1>3
<1>5. m - 1 \notin T
  <2> HIDE DEF T
  <2> QED
    BY <1>2, <1>3, <1>4
<1>6. m - 1 \in S /\ m - 1 + 1 = m
  <2>1. m - 1 \in 0 .. n /\ m - 1 + 1 = m
    BY <1>3, <1>4
  <2> QED
    BY <1>5, <2>1
<1> QED
  BY <1>3, <1>4, <1>6

\* The last of the first places.
LEMMA LastOf == ASSUME NEW n \in Nat \ {0} PROVE Manager!Max(1 .. n) = n
<1>1. n \in 1 .. n /\ \A y \in 1 .. n : n >= y
  OBVIOUS
<1>2. \A x \in 1 .. n : (\A y \in 1 .. n : x >= y) => x = n
  OBVIOUS
<1> QED
  BY <1>1, <1>2 DEF Manager!Max

\* A list after the exchanges of a sequence of pairs, and these one after the other.
Exchanged(list, seq) == Manager!FoldLeft(Manager!Exchange, list, seq)
Exchanges(f, list, seq, n) ==
  /\ f[0] = list
  /\ \A k \in 0 .. n - 1 : f[k + 1] = Manager!Exchange(f[k], seq[k + 1])
  /\ Exchanged(list, seq) = f[n]

LEMMA FoldSteps ==
  ASSUME NEW list, NEW seq, NEW n \in Nat, DOMAIN seq = 1 .. n
  PROVE  \E f : Exchanges(f, list, seq, n)
<1> DEFINE Value(g, s) == IF s = {} THEN list
                          ELSE Manager!Exchange(g[s \ {Manager!Max(s)}], seq[Manager!Max(s)])
           Rule(g, k) == g = [s \in SUBSET (1 .. k) |-> Value(g, s)]
           K == {k \in Nat : \E g : Rule(g, k)}
           iter == CHOOSE g : Rule(g, n)
<1>1. 0 \in K
  <2> DEFINE g == [s \in SUBSET (1 .. 0) |-> list]
  <2>1. \A s \in SUBSET (1 .. 0) : s = {}
    OBVIOUS
  <2>2. Rule(g, 0)
    BY <2>1
  <2> QED
    BY <2>2
<1>2. ASSUME NEW k \in 0 .. n - 1, k \in K PROVE k + 1 \in K
  <2>1. PICK g : Rule(g, k)
    BY <1>2
  <2> DEFINE Next1(s) == Manager!Exchange(g[s \ {k + 1}], seq[k + 1])
             h == [s \in SUBSET (1 .. k + 1) |-> IF k + 1 \in s THEN Next1(s) ELSE g[s]]
  <2>2. ASSUME NEW s \in SUBSET (1 .. k + 1) PROVE h[s] = Value(h, s)
    <3>1. CASE k + 1 \in s
      <4>1. Manager!Max(s) = k + 1
        <5>1. \A y \in s : k + 1 >= y
          OBVIOUS
        <5>2. \A x \in s : (\A y \in s : x >= y) => x = k + 1
          BY <3>1
        <5> QED
          BY <3>1, <5>1, <5>2 DEF Manager!Max
      <4>2. s \ {k + 1} \in SUBSET (1 .. k) /\ s \ {k + 1} \in SUBSET (1 .. k + 1)
        OBVIOUS
      <4>3. h[s \ {k + 1}] = g[s \ {k + 1}]
        BY <4>2
      <4> QED
        BY <3>1, <4>1, <4>3
    <3>2. CASE k + 1 \notin s
      <4>1. s \in SUBSET (1 .. k)
        BY <3>2
      <4>2. h[s] = g[s] /\ g[s] = Value(g, s)
        BY <2>1, <3>2, <4>1
      <4>3. PICK m : m = Manager!Max(s)
        OBVIOUS
      <4>4. s \ {m} \in SUBSET (1 .. k) /\ s \ {m} \in SUBSET (1 .. k + 1) /\ k + 1 \notin s \ {m}
        BY <3>2, <4>1
      <4>5. h[s \ {m}] = g[s \ {m}]
        BY <4>4
      <4> QED
        BY <4>2, <4>3, <4>5
    <3> QED
      BY <3>1, <3>2
  <2>3. Rule(h, k + 1)
    <3> HIDE DEF Value, Next1
    <3>1. \A s \in SUBSET (1 .. k + 1) : h[s] = Value(h, s)
      BY <2>2
    <3>2. DOMAIN h = SUBSET (1 .. k + 1) /\ h = [s \in DOMAIN h |-> h[s]]
      OBVIOUS
    <3> HIDE DEF h
    <3> QED
      BY <3>1, <3>2
  <2>4. k + 1 \in Nat
    OBVIOUS
  <2> HIDE DEF h, Rule
  <2> QED
    BY <2>3, <2>4
<1>3. Rule(iter, n)
  <2> HIDE DEF Rule
  <2>1. n \in 0 .. n /\ K \in SUBSET Nat
    OBVIOUS
  <2>2. 0 .. n \subseteq K
    <3> HIDE DEF K
    <3> QED
      BY <1>1, <1>2, <2>1, UpTo
  <2>3. \E g : Rule(g, n)
    BY <2>1, <2>2
  <2> QED
    BY <2>3
<1>4. Exchanged(list, seq) = iter[1 .. n]
  BY DEF Exchanged, Manager!FoldLeft, Manager!MapThenFoldSet
<1> DEFINE f == [k \in 0 .. n |-> iter[1 .. k]]
<1>5. f[0] = list
  <2>1. 1 .. 0 = {} /\ {} \in SUBSET (1 .. n) /\ 0 \in 0 .. n
    OBVIOUS
  <2>2. iter[{}] = list
    BY <1>3, <2>1
  <2> HIDE DEF iter
  <2> QED
    BY <2>1, <2>2
<1>6. ASSUME NEW k \in 0 .. n - 1 PROVE f[k + 1] = Manager!Exchange(f[k], seq[k + 1])
  <2>1. 1 .. k + 1 \in SUBSET (1 .. n) /\ 1 .. k + 1 # {} /\ (1 .. k + 1) \ {k + 1} = 1 .. k
    OBVIOUS
  <2>2. Manager!Max(1 .. k + 1) = k + 1
    BY LastOf
  <2>3. iter[1 .. k + 1] = Value(iter, 1 .. k + 1)
    <3> HIDE DEF Value, iter
    <3> QED
      BY <1>3, <2>1
  <2>4. Value(iter, 1 .. k + 1) = Manager!Exchange(iter[1 .. k], seq[k + 1])
    <3> HIDE DEF iter
    <3> QED
      BY <2>1, <2>2
  <2>5. k \in 0 .. n /\ k + 1 \in 0 .. n
    OBVIOUS
  <2> HIDE DEF iter
  <2> QED
    BY <2>3, <2>4, <2>5
<1>7. Exchanged(list, seq) = f[n]
  <2> HIDE DEF iter
  <2> QED
    BY <1>4
<1> HIDE DEF f
<1> QED
  BY <1>5, <1>6, <1>7 DEF Exchanges

\* The rows of pairs, one after the other.
LEMMA FlattenSteps ==
  ASSUME NEW seqs, NEW m \in Nat \ {0}, Len(seqs) = m
  PROVE  \E f : /\ f[1] = seqs[1]
                /\ \A i \in 1 .. m - 1 : f[i + 1] = f[i] \o seqs[i + 1]
                /\ Manager!FlattenSeq(seqs) = f[m]
<1> DEFINE Value(g, i) == IF i = 1 THEN seqs[i] ELSE g[i - 1] \o seqs[i]
           Rule(g, k) == g = [i \in 1 .. k |-> Value(g, i)]
           K == {k \in Nat : \E g : Rule(g, k)}
           flatten == CHOOSE g : Rule(g, m)
<1>1. 0 \in K
  <2> DEFINE g == [i \in 1 .. 0 |-> 0]
  <2>1. Rule(g, 0)
    OBVIOUS
  <2> QED
    BY <2>1
<1>2. ASSUME NEW k \in 0 .. m - 1, k \in K PROVE k + 1 \in K
  <2>1. PICK g : Rule(g, k)
    BY <1>2
  <2> DEFINE h == [i \in 1 .. k + 1 |-> Value(g, i)]
  <2>2. ASSUME NEW i \in 1 .. k + 1 PROVE h[i] = Value(h, i)
    <3>1. CASE i = 1
      BY <3>1
    <3>2. CASE i # 1
      <4>1. i - 1 \in 1 .. k /\ i - 1 \in 1 .. k + 1
        BY <3>2
      <4>2. g[i - 1] = Value(g, i - 1) /\ h[i - 1] = Value(g, i - 1)
        <5> HIDE DEF Value
        <5> QED
          BY <2>1, <4>1
      <4> QED
        BY <3>2, <4>2
    <3> QED
      BY <3>1, <3>2
  <2>3. Rule(h, k + 1)
    <3>1. DOMAIN h = 1 .. k + 1 /\ h = [i \in DOMAIN h |-> h[i]]
      OBVIOUS
    <3> HIDE DEF h, Value
    <3> QED
      BY <2>2, <3>1
  <2>4. k + 1 \in Nat
    OBVIOUS
  <2> HIDE DEF h, Rule
  <2> QED
    BY <2>3, <2>4
<1>3. Rule(flatten, m)
  <2> HIDE DEF Rule
  <2>1. m \in 0 .. m /\ K \in SUBSET Nat
    OBVIOUS
  <2>2. 0 .. m \subseteq K
    <3> HIDE DEF K
    <3> QED
      BY <1>1, <1>2, <2>1, UpTo
  <2>3. \E g : Rule(g, m)
    BY <2>1, <2>2
  <2> QED
    BY <2>3
<1>4. Manager!FlattenSeq(seqs) = flatten[m]
  BY DEF Manager!FlattenSeq
<1>5. flatten[1] = seqs[1] /\ \A i \in 1 .. m - 1 : flatten[i + 1] = flatten[i] \o seqs[i + 1]
  <2>1. \A i \in 1 .. m : flatten[i] = Value(flatten, i)
    <3> HIDE DEF flatten, Value
    <3> QED
      BY <1>3
  <2>2. flatten[1] = seqs[1]
    <3> HIDE DEF flatten
    <3> QED
      BY <2>1
  <2>3. ASSUME NEW i \in 1 .. m - 1 PROVE flatten[i + 1] = flatten[i] \o seqs[i + 1]
    <3>1. i + 1 \in 1 .. m /\ i + 1 # 1 /\ i + 1 - 1 = i
      OBVIOUS
    <3>2. flatten[i + 1] = Value(flatten, i + 1)
      <4> HIDE DEF flatten, Value
      <4> QED
        BY <2>1, <3>1
    <3>3. Value(flatten, i + 1) = flatten[i] \o seqs[i + 1]
      <4> HIDE DEF flatten
      <4>1. PICK j : j = i + 1
        OBVIOUS
      <4>2. j # 1 /\ j - 1 = i
        BY <3>1, <4>1
      <4>3. Value(flatten, j) = flatten[i] \o seqs[j]
        BY <4>2, Zenon
      <4> QED
        BY <4>1, <4>3, Zenon
    <3> HIDE DEF Value, flatten
    <3> QED
      BY <3>2, <3>3
  <2> HIDE DEF flatten
  <2> QED
    BY <2>2, <2>3
<1> HIDE DEF flatten
<1> QED
  BY <1>4, <1>5

-----------------------------------------------------------------------------
(* The places that are compared, in their order.                           *)

\* The row of pairs of place i, and the sequence of all of them.
Row(n, i) == [k \in 1 .. n - i |-> <<i, i + k>>]
PairType == Int \X Int

\* Where the pairs of each place are: L[i] pairs are of the first i places.
LEMMA PairsPlaced ==
  ASSUME NEW n \in Nat \ {0}
  PROVE  \E L \in [0 .. n -> Nat] :
           /\ L[0] = 0 /\ \A i \in 1 .. n : L[i] = L[i - 1] + (n - i)
           /\ DOMAIN Manager!Pairs(n) = 1 .. L[n]
           /\ \A i \in 1 .. n : L[i] <= L[n]
           /\ \A i \in 1 .. n : \A k \in 1 .. n - i :
                Manager!Pairs(n)[L[i - 1] + k] = <<i, i + k>>
<1> DEFINE rows == [i \in 1 .. n |-> Row(n, i)]
<1>1. Len(rows) = n /\ Manager!Pairs(n) = Manager!FlattenSeq(rows)
  BY DEF Manager!Pairs, Row
<1>2. PICK f : /\ f[1] = rows[1]
               /\ \A i \in 1 .. n - 1 : f[i + 1] = f[i] \o rows[i + 1]
               /\ Manager!FlattenSeq(rows) = f[n]
  <2> HIDE DEF rows
  <2> QED
    BY <1>1, FlattenSteps
<1>3. f[1] = Row(n, 1) /\ \A i \in 1 .. n - 1 : f[i + 1] = f[i] \o Row(n, i + 1)
  <2>1. 1 \in 1 .. n /\ \A i \in 1 .. n - 1 : i + 1 \in 1 .. n
    OBVIOUS
  <2> QED
    BY <1>2, <2>1
<1>4. ASSUME NEW i \in 1 .. n
      PROVE  /\ Row(n, i) \in Seq(PairType) /\ Len(Row(n, i)) = n - i
             /\ \A k \in 1 .. n - i : Row(n, i)[k] = <<i, i + k>>
  <2>1. n - i \in Nat /\ \A k \in 1 .. n - i : <<i, i + k>> \in PairType
    BY DEF PairType
  <2>2. Row(n, i) \in [1 .. n - i -> PairType]
    BY <2>1 DEF Row
  <2>3. \A k \in 1 .. n - i : Row(n, i)[k] = <<i, i + k>>
    BY DEF Row
  <2>4. PICK m \in Nat : m = n - i
    BY <2>1
  <2> QED
    BY <2>2, <2>3, <2>4, FunIsSeq
<1> DEFINE L == [i \in 0 .. n |-> IF i = 0 THEN 0 ELSE Len(f[i])]
           Rows(t, j) == \A i \in 1 .. j :
                           /\ L[i - 1] \in Nat /\ L[i - 1] + (n - i) <= Len(t)
                           /\ \A k \in 1 .. n - i : t[L[i - 1] + k] = <<i, i + k>>
           At1(j) == /\ f[j] \in Seq(PairType) /\ L[j] = L[j - 1] + (n - j)
                     /\ Rows(f[j], j)
           K == {j \in Nat : j = 0 \/ At1(j)}
<1>5. L[0] = 0 /\ \A i \in 1 .. n : L[i] = Len(f[i])
  <2>1. \A i \in 1 .. n : i \in 0 .. n /\ i # 0
    OBVIOUS
  <2> QED
    BY <2>1
<1>6. At1(1)
  <2>1. 1 \in 1 .. n /\ \A i \in 1 .. 1 : i = 1
    OBVIOUS
  <2>2. f[1] \in Seq(PairType) /\ Len(f[1]) = n - 1 /\ \A k \in 1 .. n - 1 : f[1][k] = <<1, 1 + k>>
    BY <1>3, <1>4, <2>1
  <2>3. L[1] = n - 1 /\ L[1 - 1] = 0
    <3>1. 1 - 1 = 0
      OBVIOUS
    <3> HIDE DEF L
    <3> QED
      BY <1>5, <2>1, <2>2, <3>1
  <2>4. \A k \in 1 .. n - 1 : 0 + k = k
    OBVIOUS
  <2> HIDE DEF L
  <2> QED
    BY <2>1, <2>2, <2>3, <2>4
<1>7. ASSUME NEW j \in 1 .. n - 1, At1(j) PROVE At1(j + 1)
  <2> HIDE DEF L
  <2>1. j \in 1 .. n /\ j + 1 \in 1 .. n /\ j + 1 - 1 = j
    OBVIOUS
  <2>2. PICK s : s = f[j] /\ s \in Seq(PairType)
    BY <1>7
  <2>3. PICK r : r = Row(n, j + 1) /\ r \in Seq(PairType) /\ Len(r) = n - (j + 1)
                 /\ \A k \in 1 .. n - (j + 1) : r[k] = <<j + 1, j + 1 + k>>
    BY <1>4, <2>1
  <2>4. f[j + 1] = s \o r
    BY <1>3, <2>2, <2>3
  <2>5. /\ s \o r \in Seq(PairType) /\ Len(s \o r) = Len(s) + (n - (j + 1))
        /\ \A i \in 1 .. Len(s) : (s \o r)[i] = s[i]
        /\ \A k \in 1 .. n - (j + 1) : (s \o r)[Len(s) + k] = r[k]
    <3>1. s \o r \in Seq(PairType) /\ Len(s \o r) = Len(s) + Len(r)
      BY <2>2, <2>3
    <3>2. \A i \in 1 .. Len(s) + Len(r) : (s \o r)[i] = IF i <= Len(s) THEN s[i] ELSE r[i - Len(s)]
      BY <2>2, <2>3
    <3>3. Len(s) \in Nat /\ n - (j + 1) \in Nat
      BY <2>1, <2>2
    <3>4. \A i \in 1 .. Len(s) : i \in 1 .. Len(s) + Len(r) /\ i <= Len(s)
      BY <2>3, <3>3
    <3>5. ASSUME NEW k \in 1 .. n - (j + 1) PROVE (s \o r)[Len(s) + k] = r[k]
      <4>1. /\ Len(s) + k \in 1 .. Len(s) + Len(r) /\ ~(Len(s) + k <= Len(s))
            /\ Len(s) + k - Len(s) = k
        BY <2>3, <3>3
      <4> QED
        BY <3>2, <4>1
    <3> QED
      BY <2>3, <3>1, <3>2, <3>4, <3>5
  <2>6. L[j] = Len(s) /\ Len(s) \in Nat /\ L[j + 1] = Len(s) + (n - (j + 1))
    <3>1. L[j] = Len(s)
      BY <1>5, <2>1, <2>2
    <3>2. L[j + 1] = Len(f[j + 1])
      BY <1>5, <2>1
    <3>3. Len(s) \in Nat
      BY <2>2
    <3> QED
      BY <2>4, <2>5, <3>1, <3>2, <3>3
  <2>7. ASSUME NEW i \in 1 .. j + 1
        PROVE  /\ L[i - 1] \in Nat /\ L[i - 1] + (n - i) <= Len(s \o r)
               /\ \A k \in 1 .. n - i : (s \o r)[L[i - 1] + k] = <<i, i + k>>
    <3>1. CASE i = j + 1
      <4>1. L[i - 1] = Len(s)
        BY <2>1, <2>6, <3>1
      <4> QED
        BY <2>3, <2>5, <2>6, <3>1, <4>1
    <3>2. CASE i # j + 1
      <4>1. i \in 1 .. j
        BY <3>2
      <4>2. /\ L[i - 1] \in Nat /\ L[i - 1] + (n - i) <= Len(s)
            /\ \A k \in 1 .. n - i : s[L[i - 1] + k] = <<i, i + k>>
        BY <1>7, <2>2, <4>1
      <4>3. PICK l \in Nat : l = L[i - 1]
        BY <4>2
      <4>4. ASSUME NEW k \in 1 .. n - i PROVE l + k \in 1 .. Len(s)
        <5>1. l + (n - i) <= Len(s) /\ Len(s) \in Nat /\ n - i \in Int
          BY <2>6, <4>2, <4>3
        <5> QED
          BY <5>1
      <4>5. l + (n - i) <= Len(s \o r)
        BY <2>1, <2>5, <2>6, <4>2, <4>3
      <4> QED
        BY <2>5, <4>2, <4>3, <4>4, <4>5
    <3> QED
      BY <3>1, <3>2
  <2>8. L[j + 1] = L[j + 1 - 1] + (n - (j + 1))
    BY <2>1, <2>6
  <2>9. Rows(s \o r, j + 1)
    <3> HIDE DEF L
    <3> QED
      BY <2>7
  <2> HIDE DEF Rows
  <2> QED
    BY <2>4, <2>5, <2>8, <2>9
<1>8. \A j \in 1 .. n : At1(j)
  <2>1. 0 \in K
    OBVIOUS
  <2>2. ASSUME NEW j \in 0 .. n - 1, j \in K PROVE j + 1 \in K
    <3>1. j + 1 \in Nat
      OBVIOUS
    <3>2. At1(j + 1)
      <4> HIDE DEF At1
      <4>1. CASE j = 0
        BY <1>6, <4>1
      <4>2. CASE j # 0
        <5>1. j \in 1 .. n - 1 /\ At1(j)
          BY <2>2, <4>2
        <5> QED
          BY <1>7, <5>1
      <4> QED
        BY <4>1, <4>2
    <3> HIDE DEF At1
    <3> QED
      BY <3>1, <3>2
  <2>3. 0 .. n \subseteq K
    <3>1. K \in SUBSET Nat
      OBVIOUS
    <3> HIDE DEF K
    <3> QED
      BY <2>1, <2>2, <3>1, UpTo
  <2>4. \A j \in 1 .. n : j \in 0 .. n /\ j # 0
    OBVIOUS
  <2> HIDE DEF At1
  <2> QED
    BY <2>3, <2>4
<1>9. L \in [0 .. n -> Nat]
  <2>1. \A i \in 1 .. n : Len(f[i]) \in Nat
    <3> HIDE DEF L
    <3> QED
      BY <1>8, LenProperties
  <2>2. \A i \in 0 .. n : i = 0 \/ i \in 1 .. n
    OBVIOUS
  <2> QED
    BY <2>1, <2>2
<1>10. PICK P : P = Manager!Pairs(n) /\ P = f[n] /\ P \in Seq(PairType) /\ Len(P) = L[n]
  <2>1. n \in 1 .. n
    OBVIOUS
  <2>2. f[n] \in Seq(PairType)
    <3> HIDE DEF L
    <3> QED
      BY <1>8, <2>1
  <2> HIDE DEF L
  <2> QED
    BY <1>1, <1>2, <1>5, <2>1, <2>2
<1>11. DOMAIN P = 1 .. L[n]
  <2> HIDE DEF L
  <2> QED
    BY <1>10
<1>12. ASSUME NEW i \in 1 .. n
       PROVE  /\ L[i] = L[i - 1] + (n - i) /\ L[i] <= L[n]
              /\ \A k \in 1 .. n - i : P[L[i - 1] + k] = <<i, i + k>>
  <2> HIDE DEF L
  <2>1. n \in 1 .. n
    OBVIOUS
  <2>2. At1(n) /\ At1(i)
    BY <1>8, <2>1
  <2>3. L[i] = L[i - 1] + (n - i)
    BY <2>2
  <2>4. L[i - 1] + (n - i) <= Len(P) /\ \A k \in 1 .. n - i : P[L[i - 1] + k] = <<i, i + k>>
    BY <1>10, <2>2
  <2> QED
    BY <1>10, <2>3, <2>4
<1> HIDE DEF L
<1> QED
  BY <1>5, <1>9, <1>10, <1>11, <1>12

-----------------------------------------------------------------------------
(* The exchanges sort.                                                     *)

\* Boxes that have names to compare.
Named(B) == \A x \in B : x.box_name \in Names \cup {NoName}
RankAt(l, a) == Rank[l[a].box_name]

\* The list l has the elements of list, each as often.
Rearranged(l, list, n) ==
  \E f \in Bijection(1 .. n, 1 .. n) : l = [a \in 1 .. n |-> list[f[a]]]

\* The places before i are in their order, and so is place i and those up to j.
SortedTo(l, n, i, j) ==
  /\ \A a \in 1 .. i - 1 : \A b \in 1 .. n : a < b => RankAt(l, a) <= RankAt(l, b)
  /\ \A b \in i + 1 .. j : RankAt(l, i) <= RankAt(l, b)

\* Two places of a list, and those of the list it was.
LEMMA ExchangeRearranges ==
  ASSUME NEW B, NEW n \in Nat, NEW l \in [1 .. n -> B], NEW i \in 1 .. n, NEW j \in 1 .. n, i # j,
         NEW list, Rearranged(l, list, n)
  PROVE  /\ Manager!Exchange(l, <<i, j>>) \in [1 .. n -> B]
         /\ Rearranged(Manager!Exchange(l, <<i, j>>), list, n)
<1>1. CASE ~(Rank[l[i].box_name] > Rank[l[j].box_name])
  <2>1. Manager!Exchange(l, <<i, j>>) = l
    BY <1>1 DEF Manager!Exchange
  <2> QED
    BY <2>1
<1>2. CASE Rank[l[i].box_name] > Rank[l[j].box_name]
  <2>1. PICK m : m = [l EXCEPT ![i] = l[j], ![j] = l[i]] /\ m = Manager!Exchange(l, <<i, j>>)
    BY <1>2 DEF Manager!Exchange
  <2>2. m \in [1 .. n -> B] /\ m[i] = l[j] /\ m[j] = l[i]
        /\ \A a \in 1 .. n : a # i /\ a # j => m[a] = l[a]
    BY <2>1
  <2>3. PICK f \in Bijection(1 .. n, 1 .. n) : l = [a \in 1 .. n |-> list[f[a]]]
    BY DEF Rearranged
  <2>4. /\ f \in [1 .. n -> 1 .. n]
        /\ \A a, b \in 1 .. n : f[a] = f[b] => a = b
        /\ \A b \in 1 .. n : \E a \in 1 .. n : f[a] = b
    BY DEF Bijection, Injection, Surjection, IsInjective
  <2> DEFINE g == [a \in 1 .. n |-> IF a = i THEN f[j] ELSE IF a = j THEN f[i] ELSE f[a]]
  <2>5. g \in [1 .. n -> 1 .. n]
    BY <2>4
  <2>6. \A a, b \in 1 .. n : g[a] = g[b] => a = b
    BY <2>4
  <2>7. ASSUME NEW b \in 1 .. n PROVE \E a \in 1 .. n : g[a] = b
    <3>1. PICK a \in 1 .. n : f[a] = b
      BY <2>4
    <3>2. PICK c \in 1 .. n : c = IF a = i THEN j ELSE IF a = j THEN i ELSE a
      OBVIOUS
    <3>3. g[c] = b
      BY <3>1, <3>2
    <3> QED
      BY <3>3
  <2>8. g \in Bijection(1 .. n, 1 .. n)
    <3> HIDE DEF g
    <3> QED
      BY <2>5, <2>6, <2>7 DEF Bijection, Injection, Surjection, IsInjective
  <2>9. ASSUME NEW a \in 1 .. n PROVE m[a] = list[g[a]]
    BY <2>2, <2>3, <2>4
  <2>10. m = [a \in 1 .. n |-> list[g[a]]]
    <3> HIDE DEF g
    <3> QED
      BY <2>2, <2>9
  <2>11. Rearranged(m, list, n)
    <3> HIDE DEF g
    <3> QED
      BY <2>8, <2>10 DEF Rearranged
  <2> QED
    BY <2>1, <2>2, <2>11
<1> QED
  BY <1>1, <1>2

\* Place i then precedes one place more.
LEMMA ExchangeSorts ==
  ASSUME NEW B, Named(B), NEW n \in Nat, NEW l \in [1 .. n -> B], NEW i \in 1 .. n, NEW j \in i .. n - 1,
         SortedTo(l, n, i, j)
  PROVE  SortedTo(Manager!Exchange(l, <<i, j + 1>>), n, i, j + 1)
<1> DEFINE k == j + 1
<1>1. k \in 1 .. n /\ i < k /\ i # k
  OBVIOUS
<1>2. \A a \in 1 .. n : RankAt(l, a) \in Nat
  <2>1. \A a \in 1 .. n : l[a].box_name \in Names \cup {NoName}
    BY DEF Named
  <2> QED
    BY <2>1, BrokerAssumption DEF RankAt
<1>3. CASE ~(RankAt(l, i) > RankAt(l, k))
  <2>1. Manager!Exchange(l, <<i, k>>) = l
    BY <1>3 DEF Manager!Exchange, RankAt
  <2>2. RankAt(l, i) <= RankAt(l, k)
    BY <1>1, <1>2, <1>3
  <2>3. \A b \in i + 1 .. k : b = k \/ b \in i + 1 .. j
    OBVIOUS
  <2>4. SortedTo(l, n, i, k)
    <3> HIDE DEF k
    <3> QED
      BY <2>2, <2>3 DEF SortedTo
  <2> QED
    BY <2>1, <2>4
<1>4. CASE RankAt(l, i) > RankAt(l, k)
  <2> HIDE DEF k
  <2>1. PICK m : m = [l EXCEPT ![i] = l[k], ![k] = l[i]] /\ m = Manager!Exchange(l, <<i, k>>)
    BY <1>4 DEF Manager!Exchange, RankAt
  <2>2. /\ RankAt(m, i) = RankAt(l, k) /\ RankAt(m, k) = RankAt(l, i)
        /\ \A a \in 1 .. n : a # i /\ a # k => RankAt(m, a) = RankAt(l, a)
    BY <1>1, <2>1 DEF RankAt
  <2>3. ASSUME NEW a \in 1 .. i - 1, NEW b \in 1 .. n, a < b PROVE RankAt(m, a) <= RankAt(m, b)
    <3>1. a \in 1 .. n /\ a # i /\ a # k /\ a < i /\ a < k
      BY <1>1
    <3>2. \A c \in 1 .. n : a < c => RankAt(l, a) <= RankAt(l, c)
      BY DEF SortedTo
    <3>3. RankAt(m, a) = RankAt(l, a)
      BY <2>2, <3>1
    <3>4. RankAt(l, a) <= RankAt(l, i) /\ RankAt(l, a) <= RankAt(l, k) /\ RankAt(l, a) <= RankAt(l, b)
      BY <1>1, <2>3, <3>1, <3>2
    <3>5. RankAt(m, b) \in {RankAt(l, i), RankAt(l, k), RankAt(l, b)}
      BY <2>2
    <3> QED
      BY <3>3, <3>4, <3>5
  <2>4. ASSUME NEW b \in i + 1 .. k PROVE RankAt(m, i) <= RankAt(m, b)
    <3>1. CASE b = k
      BY <1>1, <1>2, <1>4, <2>2, <3>1
    <3>2. CASE b # k
      <4>1. b \in i + 1 .. j /\ b \in 1 .. n /\ b # i
        BY <3>2 DEF k
      <4>2. RankAt(l, i) <= RankAt(l, b)
        BY <4>1 DEF SortedTo
      <4>3. RankAt(m, b) = RankAt(l, b)
        BY <2>2, <3>2, <4>1
      <4> QED
        BY <1>1, <1>2, <1>4, <2>2, <4>1, <4>2, <4>3
    <3> QED
      BY <3>1, <3>2
  <2>5. SortedTo(m, n, i, k)
    BY <2>3, <2>4 DEF SortedTo
  <2> QED
    BY <2>1, <2>5 DEF k
<1> QED
  BY <1>1, <1>2, <1>3, <1>4

\* The two loops of the manager sort: the result has the same boxes, and each place
\* precedes those after it.
LEMMA OrganizedSorts ==
  ASSUME NEW B, Named(B), NEW n \in Nat, NEW list \in [1 .. n -> B]
  PROVE  /\ Manager!Organized(list) \in [1 .. n -> B]
         /\ Rearranged(Manager!Organized(list), list, n)
         /\ \A a, b \in 1 .. n : a < b =>
              RankAt(Manager!Organized(list), a) <= RankAt(Manager!Organized(list), b)
<1>1. Len(list) = n
  BY FunIsSeq
<1>5. Manager!Organized(list) = Exchanged(list, Manager!Pairs(n))
  BY <1>1 DEF Manager!Organized, Exchanged
<1>2. Rearranged(list, list, n)
  <2> DEFINE id == [a \in 1 .. n |-> a]
  <2>1. id \in Bijection(1 .. n, 1 .. n)
    BY DEF Bijection, Injection, Surjection, IsInjective
  <2>2. list = [a \in 1 .. n |-> list[id[a]]]
    OBVIOUS
  <2> HIDE DEF id
  <2> QED
    BY <2>1, <2>2 DEF Rearranged
<1>3. CASE n = 0
  <2>1. Manager!Pairs(0) = [i \in 1 .. 0 |-> [k \in 1 .. 0 - i |-> <<i, i + k>>]]
    <3> DEFINE rows == [i \in 1 .. 0 |-> [k \in 1 .. 0 - i |-> <<i, i + k>>]]
    <3>1. Len(rows) = 0
      OBVIOUS
    <3>2. Manager!FlattenSeq(rows) = rows
      <4> HIDE DEF rows
      <4> QED
        BY <3>1 DEF Manager!FlattenSeq
    <3> QED
      BY <3>2 DEF Manager!Pairs
  <2>2. DOMAIN Manager!Pairs(0) = 1 .. 0
    BY <2>1
  <2>3. PICK f : Exchanges(f, list, Manager!Pairs(0), 0)
    BY <2>2, FoldSteps
  <2>4. Manager!Organized(list) = list
    BY <1>3, <1>5, <2>3 DEF Exchanges
  <2> QED
    BY <1>2, <1>3, <2>4
<1>4. CASE n # 0
  <2>1. n \in Nat \ {0}
    BY <1>4
  <2>2. PICK L \in [0 .. n -> Nat] :
           /\ L[0] = 0 /\ \A i \in 1 .. n : L[i] = L[i - 1] + (n - i)
           /\ DOMAIN Manager!Pairs(n) = 1 .. L[n]
           /\ \A i \in 1 .. n : L[i] <= L[n]
           /\ \A i \in 1 .. n : \A k \in 1 .. n - i :
                Manager!Pairs(n)[L[i - 1] + k] = <<i, i + k>>
    BY <2>1, PairsPlaced
  <2>3. PICK N \in Nat : N = L[n]
    BY <2>1, <2>2
  <2>4. PICK f : /\ f[0] = list
                 /\ \A p \in 0 .. N - 1 : f[p + 1] = Manager!Exchange(f[p], Manager!Pairs(n)[p + 1])
                 /\ Exchanged(list, Manager!Pairs(n)) = f[N]
    <3>1. PICK seq : seq = Manager!Pairs(n)
      OBVIOUS
    <3>2. DOMAIN seq = 1 .. N
      BY <2>2, <2>3, <3>1
    <3>3. PICK f : Exchanges(f, list, seq, N)
      BY <3>2, FoldSteps
    <3> QED
      BY <3>1, <3>3 DEF Exchanges
  <2>5. Manager!Organized(list) = f[N]
    BY <1>5, <2>4
  <2> DEFINE Done(p, i, k) == p = L[i - 1] + k /\ SortedTo(f[p], n, i, i + k)
             Good(p) == /\ f[p] \in [1 .. n -> B] /\ Rearranged(f[p], list, n)
                        /\ \E i \in 1 .. n : \E k \in 0 .. n - i : Done(p, i, k)
             K == {p \in Nat : Good(p)}
  <2>6. Good(0)
    <3>1. 1 \in 1 .. n /\ 0 \in 0 .. n - 1 /\ L[1 - 1] = 0
      BY <2>1, <2>2
    <3>2. SortedTo(f[0], n, 1, 1 + 0)
      BY DEF SortedTo
    <3>3. Done(0, 1, 0)
      BY <3>1, <3>2
    <3> HIDE DEF Done
    <3> QED
      BY <1>2, <2>4, <3>1, <3>3
  <2>7. ASSUME NEW p \in 0 .. N - 1, Good(p) PROVE Good(p + 1)
    <3> PICK i \in 1 .. n : \E k \in 0 .. n - i : Done(p, i, k)
      BY <2>7
    <3>1. PICK k \in 0 .. n - i : p = L[i - 1] + k /\ SortedTo(f[p], n, i, i + k)
      OBVIOUS
    \* The pair that follows, and how far the places before it are sorted.
    <3>10. \E a \in 1 .. n : \E b \in 0 .. n - a - 1 : Done(p, a, b)
      <4>1. CASE k # n - i
        <5>1. k \in 0 .. n - i - 1
          BY <4>1
        <5>2. Done(p, i, k)
          BY <3>1
        <5> HIDE DEF Done
        <5> QED
          BY <5>1, <5>2
      <4>2. CASE k = n - i
        <5>1. p = L[i] /\ i + k = n
          BY <2>2, <3>1, <4>2
        <5>2. i # n /\ i + 1 \in 1 .. n /\ L[i + 1] = L[i + 1 - 1] + (n - (i + 1))
          <6>1. i # n
            BY <2>3, <5>1
          <6>2. i + 1 \in 1 .. n
            BY <6>1
          <6>3. PICK c \in 1 .. n : c = i + 1
            BY <6>2
          <6>4. L[c] = L[c - 1] + (n - c)
            BY <2>2
          <6> QED
            BY <6>1, <6>3, <6>4
        <5>3. i + 1 # n
          <6> SUFFICES ASSUME i + 1 = n PROVE FALSE
            OBVIOUS
          <6>1. i + 1 - 1 = i /\ L[i] \in Nat
            BY <2>2
          <6>2. L[n] = L[i]
            BY <5>2, <6>1
          <6> QED
            BY <2>3, <5>1, <6>2
        <5>4. 0 \in 0 .. n - (i + 1) - 1 /\ i + 1 - 1 = i /\ i + 1 + 0 = i + 1 /\ L[i] \in Nat
          BY <2>2, <5>2, <5>3
        <5>5. p = L[i + 1 - 1] + 0
          BY <5>1, <5>4
        <5>6. SortedTo(f[p], n, i + 1, i + 1 + 0)
          <6>1. ASSUME NEW c \in 1 .. i, NEW d \in 1 .. n, c < d
                PROVE  RankAt(f[p], c) <= RankAt(f[p], d)
            <7>1. CASE c = i
              <8>1. d \in i + 1 .. i + k
                BY <5>1, <6>1, <7>1
              <8> QED
                BY <3>1, <7>1, <8>1 DEF SortedTo
            <7>2. CASE c # i
              <8>1. c \in 1 .. i - 1
                BY <7>2
              <8> QED
                BY <3>1, <6>1, <8>1 DEF SortedTo
            <7> QED
              BY <7>1, <7>2
          <6>2. i + 1 - 1 = i /\ \A d \in i + 1 + 1 .. i + 1 + 0 : FALSE
            OBVIOUS
          <6> QED
            BY <6>1, <6>2 DEF SortedTo
        <5>7. Done(p, i + 1, 0)
          BY <5>5, <5>6
        <5> HIDE DEF Done
        <5> QED
          BY <5>2, <5>4, <5>7
      <4> QED
        BY <4>1, <4>2
    <3> PICK a \in 1 .. n : \E b \in 0 .. n - a - 1 : Done(p, a, b)
      BY <3>10
    <3>2. PICK b \in 0 .. n - a - 1 : p = L[a - 1] + b /\ SortedTo(f[p], n, a, a + b)
      OBVIOUS
    <3>3. /\ b + 1 \in 1 .. n - a /\ a + b \in a .. n - 1 /\ a + b + 1 \in 1 .. n /\ a # a + b + 1
          /\ b + 1 \in 0 .. n - a /\ a + (b + 1) = a + b + 1
      OBVIOUS
    <3>4. p + 1 = L[a - 1] + (b + 1)
      <4>1. a - 1 \in 0 .. n
        OBVIOUS
      <4>2. p = L[a - 1] + b /\ L[a - 1] \in Nat
        BY <2>2, <3>2, <4>1
      <4>3. PICK l \in Nat : l = L[a - 1]
        BY <4>2
      <4>4. p = l + b /\ b \in Int
        BY <4>2, <4>3
      <4>5. p + 1 = l + (b + 1)
        BY <4>4
      <4> QED
        BY <4>3, <4>5
    <3>5. Manager!Pairs(n)[p + 1] = <<a, a + b + 1>>
      BY <2>2, <3>3, <3>4
    <3>6. f[p + 1] = Manager!Exchange(f[p], <<a, a + b + 1>>)
      BY <2>4, <3>5
    <3>7. f[p + 1] \in [1 .. n -> B] /\ Rearranged(f[p + 1], list, n)
      <4>1. PICK l \in [1 .. n -> B] : l = f[p] /\ Rearranged(l, list, n)
        BY <2>7
      <4>2. PICK j \in 1 .. n : j = a + b + 1 /\ a # j
        BY <3>3
      <4>3. /\ Manager!Exchange(l, <<a, j>>) \in [1 .. n -> B]
            /\ Rearranged(Manager!Exchange(l, <<a, j>>), list, n)
        BY <4>1, <4>2, ExchangeRearranges
      <4> QED
        BY <3>6, <4>1, <4>2, <4>3
    <3>8. SortedTo(f[p + 1], n, a, a + (b + 1))
      BY <2>7, <3>2, <3>3, <3>6, ExchangeSorts
    <3>9. Done(p + 1, a, b + 1)
      BY <3>4, <3>8
    <3> HIDE DEF Done
    <3> QED
      BY <3>3, <3>7, <3>9
  <2>8. Good(N)
    <3> HIDE DEF Good
    <3>1. 0 \in K /\ K \in SUBSET Nat
      BY <2>6
    <3>2. \A p \in 0 .. N - 1 : p \in K => p + 1 \in K
      BY <2>7
    <3>3. 0 .. N \subseteq K
      <4> HIDE DEF K
      <4> QED
        BY <3>1, <3>2, UpTo
    <3>4. N \in 0 .. N
      OBVIOUS
    <3> QED
      BY <3>3, <3>4
  <2> PICK i \in 1 .. n : \E k \in 0 .. n - i : Done(N, i, k)
    BY <2>8
  <2>9. PICK k \in 0 .. n - i : N = L[i - 1] + k /\ SortedTo(f[N], n, i, i + k)
    OBVIOUS
  <2>10. i + k = n /\ i + 1 >= n
    <3>1. L[i] = L[i - 1] + (n - i) /\ L[i] <= N /\ L[i] \in Nat /\ L[i - 1] \in Nat
      <4>1. i - 1 \in 0 .. n /\ i \in 0 .. n
        OBVIOUS
      <4> QED
        BY <2>2, <2>3, <4>1
    <3>2. k = n - i /\ N = L[i]
      <4>1. PICK x \in Nat, y \in Nat : x = L[i - 1] /\ y = L[i]
        BY <3>1
      <4>2. N = x + k /\ y = x + (n - i) /\ y <= N
        BY <2>9, <3>1, <4>1
      <4>3. k = n - i /\ N = y
        <5>1. k \in 0 .. n - i /\ n - i \in Int
          BY <2>9
        <5>2. PICK m \in Int : m = n - i
          OBVIOUS
        <5>3. k \in Int /\ k <= m
          BY <5>1, <5>2
        <5>4. x + k >= x + m /\ x \in Int
          BY <4>2, <5>2
        <5>5. k = m
          BY <5>3, <5>4
        <5> QED
          BY <4>2, <5>2, <5>5
      <4> QED
        BY <4>1, <4>3
    <3>3. CASE i + 1 <= n
      <4>1. i + 1 \in 1 .. n /\ i + 1 - 1 = i
        BY <3>3
      <4>2. L[i + 1] = L[i] + (n - (i + 1)) /\ L[i + 1] <= N
        BY <2>2, <2>3, <4>1
      <4> QED
        BY <3>1, <3>2, <4>2
    <3> QED
      BY <3>2, <3>3
  <2>11. ASSUME NEW a \in 1 .. n, NEW b \in 1 .. n, a < b PROVE RankAt(f[N], a) <= RankAt(f[N], b)
    <3>1. a \in 1 .. i - 1 \/ (a = i /\ b \in i + 1 .. i + k)
      BY <2>10, <2>11
    <3>2. /\ \A c \in 1 .. i - 1 : \A d \in 1 .. n : c < d => RankAt(f[N], c) <= RankAt(f[N], d)
          /\ \A d \in i + 1 .. i + k : RankAt(f[N], i) <= RankAt(f[N], d)
      BY <2>9 DEF SortedTo
    <3> QED
      BY <2>11, <3>1, <3>2
  <2> QED
    BY <2>5, <2>8, <2>11
<1> QED
  BY <1>3, <1>4

\* The list is of the first n boxes of a reply.
ListedOf(list, reply, n) ==
  \E f \in Bijection(1 .. n, 1 .. n) : \A a \in 1 .. n : list[a] = reply[f[a] - 1]

\* The sort of a manager: for any number of boxes, what it prints of the first n boxes of a
\* reply is these boxes, each in one place, in the order of their names.
THEOREM ListingSorts ==
  ASSUME NEW B, Named(B), NEW n \in Nat, NEW reply, \A i \in 0 .. n - 1 : reply[i] \in B
  PROVE  /\ Manager!Listing(reply, n) \in [1 .. n -> B]
         /\ ListedOf(Manager!Listing(reply, n), reply, n)
         /\ \A a, b \in 1 .. n : a < b =>
              RankAt(Manager!Listing(reply, n), a) <= RankAt(Manager!Listing(reply, n), b)
<1> DEFINE list == [i \in 1 .. n |-> reply[i - 1]]
<1>1. list \in [1 .. n -> B]
  <2>1. \A i \in 1 .. n : i - 1 \in 0 .. n - 1
    OBVIOUS
  <2> QED
    BY <2>1
<1>2. PICK l : l = Manager!Organized(list) /\ l = Manager!Listing(reply, n)
  BY DEF Manager!Listing
<1>3. /\ l \in [1 .. n -> B] /\ Rearranged(l, list, n)
      /\ \A a, b \in 1 .. n : a < b => RankAt(l, a) <= RankAt(l, b)
  <2> HIDE DEF list
  <2>1. PICK m : m = list
    OBVIOUS
  <2>2. m \in [1 .. n -> B] /\ l = Manager!Organized(m)
    BY <1>1, <1>2, <2>1
  <2>3. /\ Manager!Organized(m) \in [1 .. n -> B] /\ Rearranged(Manager!Organized(m), m, n)
        /\ \A a, b \in 1 .. n : a < b => RankAt(Manager!Organized(m), a) <= RankAt(Manager!Organized(m), b)
    BY <2>2, OrganizedSorts
  <2> QED
    BY <2>1, <2>2, <2>3
<1>4. ListedOf(l, reply, n)
  <2>1. PICK f \in Bijection(1 .. n, 1 .. n) : l = [a \in 1 .. n |-> list[f[a]]]
    BY <1>3 DEF Rearranged
  <2>2. f \in [1 .. n -> 1 .. n]
    BY DEF Bijection, Injection
  <2>3. \A a \in 1 .. n : l[a] = reply[f[a] - 1]
    BY <2>1, <2>2
  <2> QED
    BY <2>3 DEF ListedOf
<1> QED
  BY <1>2, <1>3, <1>4

\* A box is as often in the listing as in the reply.
Often(list, places, box) == Cardinality({i \in places : list[i] = box})
LEMMA ListedAsOften ==
  ASSUME NEW n \in Nat, NEW list, NEW reply, ListedOf(list, reply, n), NEW box
  PROVE  Often(list, 1 .. n, box) = Often(reply, 0 .. n - 1, box)
<1> DEFINE S == {a \in 1 .. n : list[a] = box}
           T == {i \in 0 .. n - 1 : reply[i] = box}
<1>1. PICK f \in Bijection(1 .. n, 1 .. n) : \A a \in 1 .. n : list[a] = reply[f[a] - 1]
  BY DEF ListedOf
<1>2. /\ f \in [1 .. n -> 1 .. n]
      /\ \A a, b \in 1 .. n : f[a] = f[b] => a = b
      /\ \A b \in 1 .. n : \E a \in 1 .. n : f[a] = b
  BY DEF Bijection, Injection, Surjection, IsInjective
<1> DEFINE g == [a \in S |-> f[a] - 1]
<1>3. g \in [S -> T]
  <2>1. ASSUME NEW a \in S PROVE f[a] - 1 \in T
    <3>1. a \in 1 .. n /\ list[a] = box
      OBVIOUS
    <3>2. f[a] \in 1 .. n /\ f[a] - 1 \in 0 .. n - 1
      <4>1. PICK k \in 1 .. n : k = f[a]
        BY <1>2, <3>1
      <4> QED
        BY <4>1
    <3> QED
      BY <1>1, <3>1, <3>2
  <2> HIDE DEF S, T
  <2> QED
    BY <2>1
<1>4. ASSUME NEW a \in S, NEW b \in S, g[a] = g[b] PROVE a = b
  <2>1. a \in 1 .. n /\ b \in 1 .. n /\ f[a] \in 1 .. n /\ f[b] \in 1 .. n
    BY <1>2
  <2>2. f[a] - 1 = f[b] - 1
    BY <1>4
  <2>3. f[a] = f[b]
    BY <2>1, <2>2
  <2> QED
    BY <1>2, <2>1, <2>3
<1>5. ASSUME NEW i \in T PROVE \E a \in S : g[a] = i
  <2>1. i + 1 \in 1 .. n /\ i + 1 - 1 = i /\ reply[i] = box
    OBVIOUS
  <2>2. PICK a \in 1 .. n : f[a] = i + 1
    BY <1>2, <2>1
  <2>3. f[a] - 1 = i
    BY <2>1, <2>2
  <2>4. list[a] = box
    BY <1>1, <2>1, <2>3
  <2>5. a \in S
    BY <2>4
  <2> HIDE DEF S, T
  <2> QED
    BY <2>3, <2>5
<1>6. g \in Bijection(S, T)
  <2> HIDE DEF S, T, g
  <2> QED
    BY <1>3, <1>4, <1>5 DEF Bijection, Injection, Surjection, IsInjective
<1>7. IsFiniteSet(S)
  <2>1. S \subseteq 1 .. n /\ IsFiniteSet(1 .. n)
    BY FS_Interval
  <2> HIDE DEF S
  <2> QED
    BY <2>1, FS_Subset
<1> HIDE DEF S, T, g
<1>8. Cardinality(T) = Cardinality(S)
  BY <1>6, <1>7, FS_Bijection DEF ExistsBijection
<1> QED
  BY <1>8 DEF S, T, Often

\* Sorted: the manager prints every reply right, of any length and with any names, those
\* it may get at the moment being some of them.
THEOREM ListingSortedCorrect == Spec => ListingSorted
<1> DEFINE Listed == [box_name : Names \cup {NoName}, box_size : {0, 1},
                      n_publishers : {0}, n_subscribers : {0}]
           Copies(list, box) == Cardinality({i \in DOMAIN list : list[i] = box})
<1>1. ASSUME NEW n \in 1 .. 3, NEW reply \in [0 .. n - 1 -> Listed]
      PROVE  /\ \A box \in Listed : Copies(Manager!Listing(reply, n), box) = Copies(reply, box)
             /\ \A i \in 1 .. n - 1 : Rank[Manager!Listing(reply, n)[i].box_name]
                                        <= Rank[Manager!Listing(reply, n)[i + 1].box_name]
  <2>1. PICK l : l = Manager!Listing(reply, n)
    OBVIOUS
  <2>2. Named(Listed) /\ n \in Nat /\ \A i \in 0 .. n - 1 : reply[i] \in Listed
    BY DEF Named
  <2>3. /\ l \in [1 .. n -> Listed] /\ ListedOf(l, reply, n)
        /\ \A a, b \in 1 .. n : a < b => RankAt(l, a) <= RankAt(l, b)
    <3> HIDE DEF Listed
    <3> QED
      BY <2>1, <2>2, ListingSorts
  <2>4. DOMAIN l = 1 .. n /\ DOMAIN reply = 0 .. n - 1
    BY <2>3
  <2>5. ASSUME NEW box PROVE Copies(l, box) = Copies(reply, box)
    <3>1. Often(l, 1 .. n, box) = Often(reply, 0 .. n - 1, box)
      BY <2>2, <2>3, ListedAsOften
    <3> QED
      BY <2>4, <3>1 DEF Often
  <2>6. \A i \in 1 .. n - 1 : Rank[l[i].box_name] <= Rank[l[i + 1].box_name]
    <3>1. \A i \in 1 .. n - 1 : i \in 1 .. n /\ i + 1 \in 1 .. n /\ i < i + 1
      OBVIOUS
    <3> QED
      BY <2>3, <3>1 DEF RankAt
  <2> HIDE DEF Copies, Listed
  <2> QED
    BY <2>1, <2>5, <2>6
<1>2. PrintsRight
  <2> HIDE DEF Copies, Listed
  <2>1. \A n \in 1 .. 3 : \A reply \in [0 .. n - 1 -> Listed] :
          /\ \A box \in Listed : Copies(Manager!Listing(reply, n), box) = Copies(reply, box)
          /\ \A i \in 1 .. n - 1 : Rank[Manager!Listing(reply, n)[i].box_name]
                                     <= Rank[Manager!Listing(reply, n)[i + 1].box_name]
    BY <1>1
  <2> QED
    BY <2>1 DEF PrintsRight, Copies, Listed
<1>3. [Next]_vars => [shown' # shown => PrintsRight]_vars
  BY <1>2
<1> QED
  BY <1>3, PTL DEF Spec, ListingSorted

-----------------------------------------------------------------------------
(* The types of the whole model.                                           *)

\* A listing of boxes is a sequence of boxes.
LEMMA ListingBoxes ==
  ASSUME NEW list \in [Spots -> ListedBox], NEW n \in 0 .. MAX_BOX_NUMBER
  PROVE  Manager!Listing(list, n) \in Seq(ListedBox)
<1>1. n \in Nat /\ Named(ListedBox) /\ \A i \in 0 .. n - 1 : list[i] \in ListedBox
  <2>1. Named(ListedBox)
    BY DEF Named, ListedBox
  <2>2. MAX_BOX_NUMBER \in Nat
    BY BrokerAssumption
  <2>3. \A i \in 0 .. n - 1 : i \in Spots
    BY <2>2 DEF Spots
  <2> QED
    BY <2>1, <2>2, <2>3
<1>2. PICK l : l = Manager!Listing(list, n)
  OBVIOUS
<1>3. l \in [1 .. n -> ListedBox]
  BY <1>1, <1>2, ListingSorts
<1> QED
  BY <1>1, <1>2, <1>3, FunIsSeq

\* A manager's reply leaves sequences of boxes.
LEMMA ShownStep ==
  ASSUME TypeInv, shown \in [Clients -> Seq(ListedBox)],
         NEW w \in Workers, Step(w)
  PROVE  shown' \in [Clients -> Seq(ListedBox)]
<1>1. CASE ListReply(w)
  <2>1. loc[w] \in LocType
    BY DEF TypeInv, BrokerInv, BrokerTypeOK, LocType
  <2>2. loc[w].reply \in [box_amount : 0 .. MAX_BOX_NUMBER, boxes : [Spots -> ListedBox]]
    BY <2>1 DEF LocType
  <2>3. PICK l : l = Manager!Listing(loc[w].reply.boxes, loc[w].reply.box_amount)
    OBVIOUS
  <2>4. l \in Seq(ListedBox)
    BY <2>2, <2>3, ListingBoxes
  <2>5. shown' = [shown EXCEPT ![req[w]] = l]
    BY <1>1, <2>3 DEF ListReply
  <2> QED
    BY <2>4, <2>5
<1>2. CASE ~ListReply(w)
  <2>1. shown' = shown
    BY <1>2, ClientFrame DEF ClientStep, Reply, PubOpen, PubRead, SubOpen, Refuse, SubSend, Crash,
         clientVars, printVars
  <2> QED
    BY <2>1
<1> QED
  BY <1>1, <1>2

\* Type correctness of the whole model, listings included.
THEOREM TypeCorrect == Spec => []TypeOK
<1> DEFINE Inv == TypeInv /\ shown \in [Clients -> Seq(ListedBox)]
<1>1. Init => Inv
  BY TypeInit, EmptySeq DEF Init
<1>2. Inv /\ [Next]_vars => Inv'
  <2> SUFFICES ASSUME Inv, [Next]_vars PROVE Inv'
    OBVIOUS
  <2>1. TypeInv'
    BY TypeNext
  <2>2. CASE \E w \in Workers : Step(w)
    BY <2>1, <2>2, ShownStep
  <2>3. CASE (\E c \in Clients : ClientAction(c)) \/ sig_handler \/ UNCHANGED vars
    <3>1. shown' = shown
      BY <2>3 DEF ClientAction, Register, RegisterEnds, Publish, Receive, ReceiveError, Leave,
           sig_handler, Crash, vars, clientVars, printVars
    <3> QED
      BY <2>1, <3>1
  <2> QED
    BY <2>2, <2>3, NextSteps
<1>3. Inv => TypeOK
  BY DEF TypeInv, BrokerInv, ClientInv, TypeOK, States
<1> QED
  BY <1>1, <1>2, <1>3, PTL DEF Spec

-----------------------------------------------------------------------------
(* What a worker has copied of the boxes.                                  *)

\* Whoever lists the boxes comes before a client that creates or removes one, or after it.
ListsApart ==
  \A c, d \in Clients : Request[c].code = "list" /\ Changing(d) => c \in Before(d) \/ d \in Before(c)

Lists(w) == pc[w] \in {"list", "list_reply"}
Seen(w) == IF pc[w] = "list" THEN 0 .. loc[w].i - 1 ELSE Spots
TakenIn(S) == {r \in S : boxes[r].taken}

\* The boxes of the spots seen are in the reply, and were counted.
ListKnows(w) ==
  Lists(w) =>
    /\ loc[w].reply.box_amount = Cardinality(TakenIn(Seen(w)))
    /\ \A r \in TakenIn(Seen(w)) : loc[w].reply.boxes[r].box_name = boxes[r].box_name

\* While boxes are listed none is created or removed.
LEMMA NoneChanges ==
  ASSUME ListsApart, TypeInv, ReqInv, NEW v \in Workers, NEW w \in Workers,
         Lists(v), Manages(w)
  PROVE  FALSE
<1>1. Shape(v) /\ Shape(w) /\ pc[v] # "idle" /\ pc[w] # "idle"
  BY DEF TypeInv, BrokerInv, Lists, Manages
<1>2. req[v] \in Clients /\ req[w] \in Clients /\ Code(v) = "list"
  BY <1>1, CodeAt DEF Lists
<1>3. v # w
  BY <1>2 DEF Manages
<1>4. client[req[v]] \notin {"new", "done"} /\ client[req[w]] \notin {"new", "done"}
  BY <1>1 DEF ReqInv
<1>5. req[v] \in Before(req[w]) \/ req[w] \in Before(req[v])
  BY <1>2 DEF ListsApart, Changing, Manages, Code
<1> QED
  BY <1>2, <1>4, <1>5, BeforeDone

\* The steps of a worker that lists boxes.
LEMMA ListerSteps ==
  ASSUME TypeInv, TypeInv', NEW w \in Workers, Step(w), Lists(w)'
  PROVE  (Begin(w) /\ pc'[w] = "list" /\ loc' = [loc EXCEPT ![w] = NoLoc]) \/ ListSpot(w)
<1>1. Shape(w) /\ Shape(w)' /\ pc \in [Workers -> Labels] /\ pc'[w] # "idle"
  BY DEF TypeInv, BrokerInv, BrokerTypeOK, Lists
<1>2. Code(w)' = "list"
  <2>1. req'[w] \in Clients /\ pc'[w] \in StepsOf[Code(w)'] /\ Code(w)' \in Codes
    BY <1>1, CodeType DEF Shape, Code
  <2>2. \A code \in Codes : {"list", "list_reply"} \cap StepsOf[code] # {} => code = "list"
    BY DEF Codes, StepsOf, CreateSection, PubSection, PubFile, SubFile
  <2> QED
    BY <2>1, <2>2 DEF Lists
<1>3. CASE Begin(w)
  <2>1. loc' = [loc EXCEPT ![w] = NoLoc]
    BY <1>3 DEF Begin
  <2>2. pc'[w] = FirstStep[Request[Head(queue)].code] /\ queue # <<>>
    BY <1>1, <1>3 DEF Begin, Goto, Requests!Take
  <2>3. queue \in Seq(Clients)
    BY DEF TypeInv, BrokerInv, BrokerTypeOK
  <2>4. Head(queue) \in Clients
    BY <2>2, <2>3
  <2>5. pc'[w] # "list_reply"
    BY <2>2, <2>4, CodeType DEF Codes, FirstStep
  <2> QED
    BY <1>3, <2>1, <2>5 DEF Lists
<1>4. CASE ~Begin(w)
  <2>1. pc[w] # "idle" /\ Code(w) = "list"
    BY <1>2, <1>4, Busy, RequestFrame DEF requestVars, Code
  <2>2. pc[w] \in {"list", "list_reply"}
    BY <1>1, <2>1, CodeAt
  <2>3. ListSpot(w) \/ ListReply(w)
    <3>1. CASE ListSpot(w) \/ ListReply(w) \/ EmptySpot(w) \/ FindBox(w)
               \/ FindNothing(w) \/ Found(w) \/ CreateExists(w)
      BY <2>2, <3>1 DEF EmptySpot, FindBox, FindNothing, Found, CreateExists, At
    <3>2. CASE CreateFile(w) \/ CreateTaken(w) \/ CreateName(w) \/ CreateBox(w) \/ CreateClose(w)
               \/ Reply(w) \/ RemoveFile(w) \/ RemoveUnlock(w) \/ RemoveWake(w)
               \/ RemoveDestroy(w) \/ RemoveCond(w)
      BY <2>2, <3>2 DEF CreateFile, CreateTaken, CreateName, CreateBox, CreateClose, Reply,
           RemoveFile, RemoveUnlock, RemoveWake, RemoveDestroy, RemoveCond, At
    <3>3. CASE PubCount(w) \/ PubOpen(w) \/ PubLock(w) \/ PubRead(w) \/ PubWrite(w) \/ PubSignal(w)
               \/ PubClose(w, "pub_end", "pub_uncount") \/ PubClose(w, "pub_short", "pub_miscount")
               \/ PubUncount(w) \/ PubMiscount(w)
      BY <2>2, <3>3 DEF PubCount, PubOpen, PubLock, PubRead, PubWrite, PubSignal, PubClose,
           PubUncount, PubMiscount, At
    <3>4. CASE SubCount(w) \/ SubOpen(w) \/ Refuse(w) \/ SubLock(w) \/ SubRead(w) \/ SubWait(w)
               \/ SubSend(w) \/ WakeSpuriously(w)
      BY <2>2, <3>4 DEF SubCount, SubOpen, Refuse, SubLock, SubRead, SubWait, SubSend,
           WakeSpuriously, At
    <3> QED
      BY <1>4, <3>1, <3>2, <3>3, <3>4 DEF Step, Work
  <2>4. CASE ListReply(w)
    BY <1>1, <2>4 DEF ListReply, Goto
  <2> QED
    BY <2>3, <2>4
<1> QED
  BY <1>3, <1>4

\* The spots that are taken, when one more is seen.
LEMMA TakenMore ==
  ASSUME TypeInv, NEW i \in Spots
  PROVE  /\ IsFiniteSet(TakenIn(0 .. i - 1)) /\ i \notin TakenIn(0 .. i - 1)
         /\ Cardinality(TakenIn(0 .. i - 1)) \in Nat
         /\ TakenIn(0 .. i) = IF boxes[i].taken THEN TakenIn(0 .. i - 1) \cup {i} ELSE TakenIn(0 .. i - 1)
         /\ Cardinality(TakenIn(0 .. i)) = IF boxes[i].taken THEN Cardinality(TakenIn(0 .. i - 1)) + 1
                                           ELSE Cardinality(TakenIn(0 .. i - 1))
<1>1. i \in Nat
  BY BrokerAssumption DEF Spots
<1>2. IsFiniteSet(0 .. i - 1) /\ TakenIn(0 .. i - 1) \subseteq 0 .. i - 1
  <2>1. 0 \in Int /\ i - 1 \in Int
    BY <1>1
  <2> QED
    BY <2>1, FS_Interval DEF TakenIn
<1>3. IsFiniteSet(TakenIn(0 .. i - 1)) /\ i \notin TakenIn(0 .. i - 1)
  BY <1>1, <1>2, FS_Subset
<1>4. TakenIn(0 .. i) = IF boxes[i].taken THEN TakenIn(0 .. i - 1) \cup {i} ELSE TakenIn(0 .. i - 1)
  <2>1. 0 .. i = (0 .. i - 1) \cup {i}
    BY <1>1
  <2> QED
    BY <2>1 DEF TakenIn
<1> QED
  BY <1>3, <1>4, FS_AddElement, FS_CardinalityType

LEMMA ListKnowsOwn ==
  ASSUME TypeInv, TypeInv', NEW w \in Workers, ListKnows(w), Step(w)
  PROVE  ListKnows(w)'
<1> SUFFICES ASSUME Lists(w)' PROVE ListKnows(w)'
  BY DEF ListKnows
<1>1. /\ boxes \in [Spots -> BoxType] /\ loc \in [Workers -> LocType] /\ loc[w] \in LocType
      /\ pc \in [Workers -> Labels] /\ MAX_BOX_NUMBER \in Nat \ {0} /\ loc' \in [Workers -> LocType]
  BY BrokerAssumption DEF TypeInv, BrokerInv, BrokerTypeOK, BoxType, LocType
<1>2. CASE Begin(w) /\ pc'[w] = "list" /\ loc' = [loc EXCEPT ![w] = NoLoc]
  <2>1. loc'[w].i = 0 /\ loc'[w].reply.box_amount = 0
    BY <1>1, <1>2, NoLocType
  <2>2. Seen(w)' = {}
    <3>1. 0 .. 0 - 1 = {}
      OBVIOUS
    <3> QED
      BY <1>2, <2>1, <3>1 DEF Seen
  <2>3. TakenIn(Seen(w))' = {}
    BY <2>2 DEF TakenIn
  <2> QED
    BY <2>1, <2>3, FS_EmptySet DEF ListKnows
<1>3. CASE ListSpot(w)
  <2>1. PICK s \in Spots : s = loc[w].i
    BY <1>1 DEF LocType
  <2>2. boxes' = boxes /\ pc[w] = "list"
    BY <1>3 DEF ListSpot, At
  <2>3. s \in 0 .. MAX_BOX_NUMBER - 1
    BY DEF Spots
  <2>4. Seen(w) = 0 .. s - 1
    BY <2>1, <2>2 DEF Seen
  <2>5. Seen(w)' = 0 .. s
    <3>1. CASE s = MAX_BOX_NUMBER - 1
      <4>1. pc'[w] = "list_reply"
        BY <1>1, <1>3, <2>1, <3>1 DEF ListSpot, Goto, LastSpot
      <4> QED
        BY <3>1, <4>1 DEF Seen, Spots
    <3>2. CASE s # MAX_BOX_NUMBER - 1
      <4>1. pc'[w] = "list"
        BY <1>1, <1>3, <2>1, <3>2 DEF ListSpot, Goto, LastSpot
      <4>2. loc'[w].i = s + 1
        BY <1>1, <1>3, <2>1, <3>2 DEF ListSpot, LastSpot, LocType
      <4>3. PICK j : j = loc'[w].i /\ j - 1 = s
        BY <2>3, <4>2
      <4>4. Seen(w)' = 0 .. j - 1
        BY <4>1, <4>3 DEF Seen
      <4> QED
        BY <4>3, <4>4
    <3> QED
      BY <3>1, <3>2
  <2>6. PICK old : old = loc[w].reply
    OBVIOUS
  <2>7. PICK new : new = loc'[w].reply
    OBVIOUS
  <2>8. old \in [box_amount : 0 .. MAX_BOX_NUMBER, boxes : [Spots -> ListedBox]]
    BY <1>1, <2>6 DEF LocType
  <2>9. new = IF boxes[s].taken
              THEN [box_amount |-> old.box_amount + 1, boxes |-> [old.boxes EXCEPT ![s] = BoxOf(s)]]
              ELSE old
    BY <1>1, <1>3, <2>1, <2>6, <2>7 DEF ListSpot, LocType
  <2>10. TakenIn(Seen(w))' = TakenIn(0 .. s)
    BY <2>2, <2>5 DEF TakenIn
  <2>11. /\ old.box_amount = Cardinality(TakenIn(0 .. s - 1))
         /\ \A r \in TakenIn(0 .. s - 1) : old.boxes[r].box_name = boxes[r].box_name
    BY <2>2, <2>4, <2>6 DEF ListKnows, Lists
  <2>12. new.box_amount = Cardinality(TakenIn(0 .. s))
    BY <2>9, <2>11, TakenMore
  <2>13. ASSUME NEW r \in TakenIn(0 .. s) PROVE new.boxes[r].box_name = boxes[r].box_name
    <3>1. r \in Spots /\ boxes[r].taken
      BY <2>3, <1>1 DEF TakenIn, Spots
    <3>2. CASE r = s
      <4>1. new.boxes[s] = BoxOf(s)
        BY <2>8, <2>9, <3>1, <3>2
      <4> QED
        BY <3>2, <4>1 DEF BoxOf
    <3>3. CASE r # s
      <4>1. r \in TakenIn(0 .. s - 1)
        BY <3>3, TakenMore
      <4>2. new.boxes[r] = old.boxes[r]
        BY <2>8, <2>9, <3>1, <3>3
      <4> QED
        BY <2>11, <4>1, <4>2
    <3> QED
      BY <3>2, <3>3
  <2> QED
    BY <2>2, <2>7, <2>10, <2>12, <2>13 DEF ListKnows
<1> QED
  BY <1>2, <1>3, ListerSteps

LEMMA ListKnowsOther ==
  ASSUME ListsApart, TypeInv, ReqInv, NEW v \in Workers, NEW w \in Workers, v # w, Step(w),
         ListKnows(v)
  PROVE  ListKnows(v)'
<1> SUFFICES ASSUME Lists(v)' PROVE ListKnows(v)'
  BY DEF ListKnows
<1>1. Others(w)
  BY OthersStep DEF TypeInv, BrokerInv
<1>2. loc'[v] = loc[v] /\ pc'[v] = pc[v]
  BY <1>1 DEF Others, Lists
<1>3. Lists(v) /\ Seen(v)' = Seen(v)
  BY <1>2 DEF Lists, Seen
<1>4. ~Manages(w)
  BY <1>3, NoneChanges
<1>5. NamesSame
  <2>1. Shape(w)
    BY DEF TypeInv, BrokerInv
  <2>2. ~CreateTaken(w) /\ ~CreateName(w) /\ ~RemoveUnlock(w)
    BY <1>4, <2>1, CodeAt DEF CreateTaken, CreateName, RemoveUnlock, At, Manages, CreateSection
  <2> QED
    BY <2>2, NamesWritten
<1>6. Seen(v) \subseteq Spots
  <2>1. loc[v].i \in Spots /\ MAX_BOX_NUMBER \in Nat
    BY BrokerAssumption DEF TypeInv, BrokerInv, BrokerTypeOK
  <2> QED
    BY <2>1 DEF Seen, Spots
<1>7. TakenIn(Seen(v))' = TakenIn(Seen(v))
  BY <1>3, <1>5, <1>6 DEF TakenIn, NamesSame
<1>8. \A r \in TakenIn(Seen(v)) : r \in Spots
  BY <1>6 DEF TakenIn
<1> QED
  BY <1>2, <1>3, <1>5, <1>7, <1>8 DEF ListKnows, NamesSame

-----------------------------------------------------------------------------
(* The reply to a listing, and what is printed of it.                      *)

\* The boxes that are there, when they take the first spots of the array.
LEMMA FrontSpots ==
  ASSUME TypeInv, \A r, s \in Spots : boxes[s].taken /\ r < s => boxes[r].taken
  PROVE  /\ Cardinality(TakenIn(Spots)) \in Nat
         /\ TakenIn(Spots) = 0 .. Cardinality(TakenIn(Spots)) - 1
<1>1. MAX_BOX_NUMBER \in Nat
  BY BrokerAssumption
<1> DEFINE T == TakenIn(Spots)
           U == {r \in Nat : r \notin T}
<1>2. T \subseteq Spots /\ \A r \in Spots : r \in T <=> boxes[r].taken
  BY DEF TakenIn
<1>3. MAX_BOX_NUMBER \in U
  BY <1>1, <1>2 DEF Spots
<1>4. PICK m : m = Min(U)
  OBVIOUS
<1>5. m \in U /\ \A r \in U : m =< r
  <2>1. U \in SUBSET Nat /\ U # {}
    BY <1>3
  <2> HIDE DEF U
  <2> QED
    BY <1>4, <2>1, LeastInSet
<1>6. m \in Nat /\ m \notin T /\ \A r \in Nat : r < m => r \in T
  BY <1>5
<1>7. \A r \in T : r \in 0 .. m - 1
  <2> SUFFICES ASSUME NEW r \in T PROVE r \in 0 .. m - 1
    OBVIOUS
  <2>1. r \in Spots /\ boxes[r].taken /\ r \in Nat /\ r < MAX_BOX_NUMBER
    BY <1>1, <1>2 DEF Spots
  <2>2. CASE r < m
    BY <1>6, <2>1, <2>2
  <2>3. CASE m < r
    <3>1. m \in Spots
      BY <1>1, <1>6, <2>1, <2>3 DEF Spots
    <3>2. boxes[m].taken
      BY <2>1, <2>3, <3>1
    <3> QED
      BY <1>2, <1>6, <3>1, <3>2
  <2> HIDE DEF T
  <2> QED
    BY <1>6, <2>1, <2>2, <2>3
<1>8. T = 0 .. m - 1
  <2>1. \A r \in 0 .. m - 1 : r \in Nat /\ r < m
    BY <1>6
  <2> HIDE DEF T
  <2> QED
    BY <1>6, <1>7, <2>1
<1>9. Cardinality(0 .. m - 1) = m
  <2>1. 0 \in Int /\ m - 1 \in Int
    BY <1>6
  <2>2. Cardinality(0 .. m - 1) = IF 0 > m - 1 THEN 0 ELSE m - 1 - 0 + 1
    BY <2>1, FS_Interval
  <2> QED
    BY <1>6, <2>2
<1> QED
  BY <1>6, <1>8, <1>9

\* Nobody is creating or removing a box.
NobodyChanges == \A w \in Workers : pc[w] # "idle" => Code(w) \notin {"create", "remove"}

\* Boxes that are there have names of their own when none is created or removed.
LEMMA OwnNames ==
  ASSUME TypeInv, BackInv, NobodyChanges,
         NEW r \in TakenIn(Spots), NEW s \in TakenIn(Spots), boxes[r].box_name = boxes[s].box_name
  PROVE  r = s
<1>1. r \in Spots /\ s \in Spots /\ boxes[r].taken /\ boxes[s].taken
  BY DEF TakenIn
<1>2. \A w \in Workers : pc[w] # "create_name"
  <2> SUFFICES ASSUME NEW w \in Workers, pc[w] = "create_name" PROVE FALSE
    OBVIOUS
  <2>1. Shape(w)
    BY DEF TypeInv, BrokerInv
  <2> QED
    BY <2>1, CodeAt DEF CreateSection, NobodyChanges
<1>3. Made(r) /\ Made(s)
  BY <1>1, <1>2 DEF Made
<1> QED
  BY <1>1, <1>3 DEF BackInv

\* What a listing l of n boxes must be: all their names, once each and in order.
AllPrinted(l, n) ==
  /\ {l[i].box_name : i \in DOMAIN l} = {boxes[s].box_name : s \in TakenIn(Spots)}
  /\ Len(l) = n /\ Cardinality({boxes[s].box_name : s \in TakenIn(Spots)}) = n
  /\ \A i, j \in DOMAIN l : i < j => Rank[l[i].box_name] < Rank[l[j].box_name]

\* The listing of the boxes that are in front.
LEMMA PrintedAll ==
  ASSUME TypeInv, BackInv, NEW n \in Nat, TakenIn(Spots) = 0 .. n - 1,
         NobodyChanges,
         NEW reply \in [Spots -> ListedBox],
         \A r \in TakenIn(Spots) : reply[r].box_name = boxes[r].box_name,
         NEW l, l = Manager!Listing(reply, n)
  PROVE  AllPrinted(l, n)
<1>1. Named(ListedBox) /\ \A i \in 0 .. n - 1 : reply[i] \in ListedBox
  <2>1. \A i \in 0 .. n - 1 : i \in Spots
    BY DEF TakenIn
  <2> QED
    BY <2>1 DEF Named, ListedBox
<1>2. /\ l \in [1 .. n -> ListedBox] /\ ListedOf(l, reply, n)
      /\ \A a, b \in 1 .. n : a < b => RankAt(l, a) <= RankAt(l, b)
  BY <1>1, ListingSorts
<1>3. PICK f \in Bijection(1 .. n, 1 .. n) : \A a \in 1 .. n : l[a] = reply[f[a] - 1]
  BY <1>2 DEF ListedOf
<1>4. /\ f \in [1 .. n -> 1 .. n]
      /\ \A a, b \in 1 .. n : f[a] = f[b] => a = b
      /\ \A b \in 1 .. n : \E a \in 1 .. n : f[a] = b
  BY <1>3 DEF Bijection, Injection, Surjection, IsInjective
<1>5. ASSUME NEW a \in 1 .. n
      PROVE  f[a] - 1 \in TakenIn(Spots) /\ l[a].box_name = boxes[f[a] - 1].box_name
  <2>1. PICK k \in 1 .. n : k = f[a]
    BY <1>4
  <2>2. k - 1 \in 0 .. n - 1
    BY <2>1
  <2> QED
    BY <1>3, <2>1, <2>2
<1>6. ASSUME NEW s \in TakenIn(Spots) PROVE \E a \in 1 .. n : f[a] - 1 = s
  <2>1. s + 1 \in 1 .. n /\ s + 1 - 1 = s
    OBVIOUS
  <2>2. PICK a \in 1 .. n : f[a] = s + 1
    BY <1>4, <2>1
  <2> QED
    BY <2>1, <2>2
<1>7. DOMAIN l = 1 .. n /\ Len(l) = n
  BY <1>2, FunIsSeq
<1> DEFINE N == {boxes[s].box_name : s \in TakenIn(Spots)}
<1>8. {l[i].box_name : i \in DOMAIN l} = N
  <2>1. ASSUME NEW i \in 1 .. n PROVE l[i].box_name \in N
    BY <1>5
  <2>2. ASSUME NEW s \in TakenIn(Spots) PROVE \E i \in 1 .. n : l[i].box_name = boxes[s].box_name
    BY <1>5, <1>6
  <2> QED
    BY <1>7, <2>1, <2>2
<1>9. Cardinality(N) = n
  <2> DEFINE g == [a \in 1 .. n |-> l[a].box_name]
  <2>1. g \in [1 .. n -> N]
    BY <1>5
  <2>2. ASSUME NEW a \in 1 .. n, NEW b \in 1 .. n, g[a] = g[b] PROVE a = b
    <3>1. boxes[f[a] - 1].box_name = boxes[f[b] - 1].box_name
      BY <1>5, <2>2
    <3>2. f[a] - 1 = f[b] - 1
      BY <1>5, <3>1, OwnNames
    <3>3. PICK c \in 1 .. n, d \in 1 .. n : c = f[a] /\ d = f[b]
      BY <1>4
    <3>4. c = d
      BY <3>2, <3>3
    <3> QED
      BY <1>4, <3>3, <3>4
  <2>3. ASSUME NEW x \in N PROVE \E a \in 1 .. n : g[a] = x
    <3>1. PICK s \in TakenIn(Spots) : x = boxes[s].box_name
      OBVIOUS
    <3>2. PICK a \in 1 .. n : f[a] - 1 = s
      BY <1>6
    <3>3. g[a] = x
      BY <1>5, <3>1, <3>2
    <3> QED
      BY <3>3
  <2>4. g \in Bijection(1 .. n, N)
    <3> HIDE DEF g, N
    <3> QED
      BY <2>1, <2>2, <2>3 DEF Bijection, Injection, Surjection, IsInjective
  <2>5. IsFiniteSet(1 .. n) /\ Cardinality(1 .. n) = n
    <3>1. Cardinality(1 .. n) = IF 1 > n THEN 0 ELSE n - 1 + 1
      BY FS_Interval
    <3> QED
      BY <3>1, FS_Interval
  <2> HIDE DEF g, N
  <2> QED
    BY <2>4, <2>5, FS_Bijection DEF ExistsBijection
<1>10. ASSUME NEW i \in 1 .. n, NEW j \in 1 .. n, i < j
       PROVE  Rank[l[i].box_name] < Rank[l[j].box_name]
  <2>1. Rank[l[i].box_name] <= Rank[l[j].box_name]
    BY <1>2, <1>10 DEF RankAt
  <2>2. /\ l[i].box_name \in Names \cup {NoName} /\ l[j].box_name \in Names \cup {NoName}
        /\ Rank[l[i].box_name] \in Nat /\ Rank[l[j].box_name] \in Nat
    <3>1. l[i].box_name \in Names \cup {NoName} /\ l[j].box_name \in Names \cup {NoName}
      BY <1>1, <1>2 DEF Named
    <3> QED
      BY <3>1, BrokerAssumption
  <2>3. Rank[l[i].box_name] # Rank[l[j].box_name]
    <3> SUFFICES ASSUME Rank[l[i].box_name] = Rank[l[j].box_name] PROVE FALSE
      OBVIOUS
    <3>1. l[i].box_name = l[j].box_name
      BY <2>2, RankAssumption
    <3>2. f[i] - 1 = f[j] - 1
      BY <1>5, <3>1, OwnNames
    <3>3. PICK c \in 1 .. n, d \in 1 .. n : c = f[i] /\ d = f[j]
      BY <1>4
    <3>4. f[i] = f[j]
      BY <3>2, <3>3
    <3>5. i = j
      <4>1. \A a, b \in 1 .. n : f[a] = f[b] => a = b
        BY <1>4
      <4> QED
        BY <3>4, <4>1, Zenon
    <3> QED
      BY <1>10, <3>5
  <2> QED
    BY <2>1, <2>2, <2>3
<1> HIDE DEF N
<1> QED
  BY <1>7, <1>8, <1>9, <1>10 DEF N, AllPrinted

\* The inductive invariant of the listings.
ListInv == TypeInv /\ ReqInv /\ BackInv /\ \A w \in Workers : ListKnows(w)

\* What a manager prints when the reply comes.
LEMMA ListReplies ==
  ASSUME ListInv, NEW w \in Workers, Step(w)
  PROVE  PrintsAll
<1> SUFFICES ASSUME NEW c \in Clients, shown'[c] # shown[c],
                    \A v \in Workers : pc[v] # "idle" => Code(v) \notin {"create", "remove"},
                    \A r, s \in Spots : boxes[s].taken /\ r < s => boxes[r].taken
             PROVE  LET Taken == {boxes[s].box_name : s \in {r \in Spots : boxes[r].taken}} IN
                    /\ {shown'[c][i].box_name : i \in DOMAIN shown'[c]} = Taken
                    /\ Len(shown'[c]) = Cardinality(Taken)
                    /\ \A i, j \in DOMAIN shown'[c] :
                         i < j => Rank[shown'[c][i].box_name] < Rank[shown'[c][j].box_name]
  BY DEF PrintsAll
<1>1. ListReply(w)
  BY ClientFrame DEF ClientStep, Reply, PubOpen, PubRead, SubOpen, Refuse, SubSend, Crash,
     clientVars, printVars
<1>2. PICK l : l = Manager!Listing(loc[w].reply.boxes, loc[w].reply.box_amount)
  OBVIOUS
<1>3. shown' = [shown EXCEPT ![req[w]] = l] /\ pc[w] = "list_reply"
  BY <1>1, <1>2 DEF ListReply, At
<1>4. shown'[c] = l
  BY <1>3
<1>5. loc[w].reply \in [box_amount : 0 .. MAX_BOX_NUMBER, boxes : [Spots -> ListedBox]]
  BY DEF ListInv, TypeInv, BrokerInv, BrokerTypeOK
<1>6. PICK n, reply : n = loc[w].reply.box_amount /\ reply = loc[w].reply.boxes
  OBVIOUS
<1>7. n = Cardinality(TakenIn(Spots)) /\ \A r \in TakenIn(Spots) : reply[r].box_name = boxes[r].box_name
  BY <1>3, <1>6 DEF ListInv, ListKnows, Lists, Seen
<1>8. n \in Nat /\ TakenIn(Spots) = 0 .. n - 1
  BY <1>7, FrontSpots DEF ListInv
<1>9. reply \in [Spots -> ListedBox]
  BY <1>5, <1>6
<1>10. AllPrinted(l, n)
  <2>1. l = Manager!Listing(reply, n) /\ TypeInv /\ BackInv
    BY <1>2, <1>6 DEF ListInv
  <2>2. \A r \in TakenIn(Spots) : reply[r].box_name = boxes[r].box_name
    BY <1>7
  <2>3. NobodyChanges
    BY DEF NobodyChanges
  <2>4. n \in Nat /\ TakenIn(Spots) = 0 .. n - 1
    BY <1>8
  <2> QED
    BY <1>9, <2>1, <2>2, <2>3, <2>4, PrintedAll
<1> QED
  BY <1>4, <1>10 DEF TakenIn, AllPrinted

\* Complete: when the requests to create or remove boxes come one after another, and not
\* while somebody lists the boxes, a manager prints all the boxes, once each and in the
\* order of their names, if they take the first spots of the array.
THEOREM ListingCompleteCorrect ==
  ASSUME OneChanges, ListsApart
  PROVE  Spec => ListingComplete
<1>1. Init => ListInv
  BY TypeInit, ReqInit DEF ListInv, Init, NewBox, BackInv, Made, ManagerAt, ListKnows, Lists
<1>2. ListInv /\ [Next]_vars => ListInv'
  <2> SUFFICES ASSUME ListInv, [Next]_vars PROVE ListInv'
    OBVIOUS
  <2>1. TypeInv /\ ReqInv /\ BackInv /\ (\A v \in Workers : ListKnows(v)) /\ TypeInv' /\ ReqInv'
    BY TypeNext, ReqNext DEF ListInv
  <2>2. CASE \E w \in Workers : Step(w)
    <3>1. PICK w \in Workers : Step(w)
      BY <2>2
    <3>2. BackInv'
      BY <2>1, <3>1, BackOther, BackQuiet, BackNames
    <3>3. \A v \in Workers : ListKnows(v)'
      BY <2>1, <3>1, ListKnowsOwn, ListKnowsOther
    <3> QED
      BY <2>1, <3>2, <3>3 DEF ListInv
  <2>3. CASE (\E c \in Clients : ClientAction(c)) \/ sig_handler \/ UNCHANGED vars
    <3>1. UNCHANGED <<req, boxes, pc, loc, dir>>
      BY <2>3, ClientActionFrame DEF sig_handler, Crash, vars, requestVars, fsVars, fileVars
    <3>2. BackInv'
      BY <2>1, <3>1 DEF BackInv, Made, Removing, ManagerAt, IsNamed, Code, Name
    <3>3. \A v \in Workers : ListKnows(v)'
      BY <2>1, <3>1 DEF ListKnows, Lists, Seen, TakenIn
    <3> QED
      BY <2>1, <3>2, <3>3 DEF ListInv
  <2> QED
    BY <2>2, <2>3, NextSteps
<1>3. ListInv /\ [Next]_vars => [PrintsAll]_vars
  <2> SUFFICES ASSUME ListInv, Next PROVE PrintsAll
    OBVIOUS
  <2>1. CASE \E w \in Workers : Step(w)
    BY <2>1, ListReplies
  <2>2. CASE (\E c \in Clients : ClientAction(c)) \/ sig_handler
    <3>1. shown' = shown
      BY <2>2 DEF ClientAction, Register, RegisterEnds, Publish, Receive, ReceiveError, Leave,
         sig_handler, Crash, clientVars, printVars
    <3> QED
      BY <3>1 DEF PrintsAll
  <2> QED
    BY <2>1, <2>2, NextSteps
<1> QED
  BY <1>1, <1>2, <1>3, PTL DEF Spec, ListingComplete
=============================================================================
