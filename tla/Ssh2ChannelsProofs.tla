-------------------------- MODULE Ssh2ChannelsProofs --------------------------
(***************************************************************************)
(* Proofs about Ssh2Channels, for any channels, window sizes and bounds.    *)
(***************************************************************************)
EXTENDS Ssh2Channels, SequenceTheorems, WellFoundedInduction, TLAPS

-------------------------------------------------------------------------------
(* Sums and concatenations of sequences: what adding an element at the end  *)
(* or taking one from the front does to them.                               *)

(* A set of natural numbers that contains 0 and the successors of its       *)
(* members below m contains all up to m.                                    *)
LEMMA UpTo ==
    ASSUME NEW m \in Nat, NEW G, 0 \in G,
           \A k \in Nat : k < m /\ k \in G => k + 1 \in G
    PROVE  \A k \in 0 .. m : k \in G
<1> DEFINE Bad == {k \in Nat : k <= m /\ k \notin G}
<1>1. SUFFICES ASSUME Bad # {} PROVE FALSE
  BY <1>1
<1>2. Bad \subseteq Nat
  OBVIOUS
<1>3. PICK x \in Bad : \A y \in Bad : ~(<<y, x>> \in OpToRel(<, Nat))
  <2> HIDE DEF Bad
  <2> QED
    BY <1>1, <1>2, NatLessThanWellFounded, WFMin
<1>4. \A y \in Bad : ~(y < x)
  BY <1>2, <1>3 DEF OpToRel
<1>5. x \in Nat /\ x <= m /\ x \notin G /\ x # 0
  BY <1>3
<1>6. x - 1 \in Nat /\ x - 1 < x /\ x - 1 < m /\ x - 1 <= m
  BY <1>5
<1>7. x - 1 \notin Bad
  BY <1>4, <1>6
<1>8. x - 1 \in G
  BY <1>6, <1>7
<1>9. (x - 1) + 1 \in G
  BY <1>6, <1>8
<1> QED
  BY <1>5, <1>9

(* f gives the sums of the first elements of s. *)
Sums(f, s) ==
    /\ f \in [0 .. Len(s) -> Int]
    /\ f[0] = 0
    /\ \A i \in 1 .. Len(s) : f[i] = f[i - 1] + s[i]

LEMMA SumsExist ==
    ASSUME NEW s \in Seq(Int)
    PROVE  \E f : Sums(f, s)
<1> DEFINE Upto(f, k) == /\ f \in [0 .. k -> Int]
                         /\ f[0] = 0
                         /\ \A i \in 1 .. k : f[i] = f[i - 1] + s[i]
           G == {k \in Nat : \E f : Upto(f, k)}
<1>1. Len(s) \in Nat /\ \A i \in 1 .. Len(s) : s[i] \in Int
  BY LenProperties, ElementOfSeq
<1>2. 0 \in G
  <2>1. Upto([i \in 0 .. 0 |-> 0], 0)
    OBVIOUS
  <2> QED
    BY <2>1
<1>3. ASSUME NEW k \in Nat, k < Len(s), k \in G PROVE k + 1 \in G
  <2>1. PICK f : Upto(f, k)
    BY <1>3
  <2> DEFINE g == [i \in 0 .. (k + 1) |-> IF i = k + 1 THEN f[k] + s[k + 1] ELSE f[i]]
  <2>2. s[k + 1] \in Int /\ f[k] \in Int
    BY <1>1, <1>3, <2>1
  <2>3. \A i \in 0 .. k : g[i] = f[i] /\ f[i] \in Int
    BY <2>1
  <2>4. g[k + 1] = f[k] + s[k + 1]
    OBVIOUS
  <2>5. g \in [0 .. (k + 1) -> Int]
    BY <2>1, <2>2
  <2> HIDE DEF g
  <2>6. g[0] = 0
    BY <2>1, <2>3
  <2>7. ASSUME NEW i \in 1 .. (k + 1) PROVE g[i] = g[i - 1] + s[i]
    <3>1. CASE i = k + 1
      BY <2>3, <2>4, <3>1
    <3>2. CASE i \in 1 .. k
      <4>1. i - 1 \in 0 .. k /\ i \in 0 .. k
        BY <3>2
      <4> QED
        BY <2>1, <2>3, <3>2, <4>1
    <3> QED
      BY <3>1, <3>2
  <2>8. Upto(g, k + 1)
    BY <2>5, <2>6, <2>7
  <2>9. k + 1 \in Nat
    OBVIOUS
  <2> HIDE DEF Upto
  <2> QED
    BY <2>8, <2>9
<1>4. Len(s) \in G
  <2> HIDE DEF G
  <2>1. \A k \in 0 .. Len(s) : k \in G
    BY <1>1, <1>2, <1>3, UpTo
  <2> QED
    BY <1>1, <2>1
<1> QED
  BY <1>4 DEF Sums

(* There is only one such function, and Total() is its last value. *)
LEMMA SumsUnique ==
    ASSUME NEW s \in Seq(Int), NEW f, NEW g, Sums(f, s), Sums(g, s)
    PROVE  \A i \in 0 .. Len(s) : f[i] = g[i]
<1> DEFINE G == {k \in Nat : k <= Len(s) => f[k] = g[k]}
<1>1. Len(s) \in Nat
  BY LenProperties
<1>2. 0 \in G
  BY DEF Sums
<1>3. ASSUME NEW k \in Nat, k < Len(s), k \in G PROVE k + 1 \in G
  <2>1. k + 1 \in 1 .. Len(s) /\ (k + 1) - 1 = k /\ f[k] = g[k]
    BY <1>1, <1>3
  <2>2. f[k + 1] = f[(k + 1) - 1] + s[k + 1] /\ g[k + 1] = g[(k + 1) - 1] + s[k + 1]
    BY <2>1 DEF Sums
  <2>3. f[(k + 1) - 1] = g[(k + 1) - 1]
    BY <2>1
  <2>4. f[k + 1] = g[k + 1]
    BY <2>2, <2>3
  <2> QED
    BY <2>4
<1>4. \A k \in 0 .. Len(s) : k \in G
  <2> HIDE DEF G
  <2> QED
    BY <1>1, <1>2, <1>3, UpTo
<1> QED
  BY <1>1, <1>4

LEMMA TotalIsSum ==
    ASSUME NEW s \in Seq(Int), NEW f, Sums(f, s)
    PROVE  Total(s) = f[Len(s)]
<1> DEFINE Rec(h) == h = [i \in 0 .. Len(s) |-> IF i = 0 THEN 0 ELSE h[i - 1] + s[i]]
<1>1. Len(s) \in Nat /\ \A i \in 1 .. Len(s) : s[i] \in Int
  BY LenProperties, ElementOfSeq
<1>2. Rec(f)
  <2>1. \A i \in 0 .. Len(s) : f[i] = IF i = 0 THEN 0 ELSE f[i - 1] + s[i]
    BY <1>1 DEF Sums
  <2> QED
    BY <2>1 DEF Sums
<1>3. PICK h : Rec(h) /\ Total(s) = h[Len(s)]
  <2>1. Total(s) = (CHOOSE h : Rec(h))[Len(s)]
    BY DEF Total
  <2>2. Rec(CHOOSE h : Rec(h))
    BY <1>2
  <2> HIDE DEF Rec
  <2> QED
    BY <2>1, <2>2
<1>4. \A i \in 0 .. Len(s) : h[i] = IF i = 0 THEN 0 ELSE h[i - 1] + s[i]
  <2>1. \A i \in 0 .. Len(s) :
          [j \in 0 .. Len(s) |-> IF j = 0 THEN 0 ELSE h[j - 1] + s[j]][i]
              = IF i = 0 THEN 0 ELSE h[i - 1] + s[i]
    OBVIOUS
  <2> QED
    BY <1>3, <2>1
<1> DEFINE G == {k \in Nat : k <= Len(s) => f[k] = h[k]}
<1>5. 0 \in G
  <2>1. h[0] = 0
    BY <1>1, <1>4
  <2> QED
    BY <2>1 DEF Sums
<1>6. ASSUME NEW k \in Nat, k < Len(s), k \in G PROVE k + 1 \in G
  <2>1. k + 1 \in 1 .. Len(s) /\ k + 1 \in 0 .. Len(s) /\ (k + 1) - 1 = k /\ f[k] = h[k]
    BY <1>1, <1>6
  <2>2. h[k + 1] = h[(k + 1) - 1] + s[k + 1]
    BY <1>4, <2>1
  <2>3. f[k + 1] = f[(k + 1) - 1] + s[k + 1]
    BY <2>1 DEF Sums
  <2> QED
    BY <2>1, <2>2, <2>3
<1>7. \A k \in 0 .. Len(s) : k \in G
  <2> HIDE DEF G
  <2> QED
    BY <1>1, <1>5, <1>6, UpTo
<1>8. f[Len(s)] = h[Len(s)]
  BY <1>1, <1>7
<1> QED
  BY <1>3, <1>8
(* What Total() does with an element more at the end or one less in front.  *)
LEMMA TotalType ==
    ASSUME NEW s \in Seq(Int)
    PROVE  Total(s) \in Int
<1>1. PICK f : Sums(f, s)
  BY SumsExist
<1>2. Len(s) \in Nat
  BY LenProperties
<1> QED
  BY <1>1, <1>2, TotalIsSum, SMTT(40) DEF Sums

LEMMA TotalEmpty == Total(<<>>) = 0
<1>1. <<>> \in Seq(Int) /\ Len(<<>>) = 0
  BY EmptySeq
<1>2. PICK f : Sums(f, <<>>)
  BY <1>1, SumsExist
<1> QED
  BY <1>1, <1>2, TotalIsSum DEF Sums

LEMMA TotalAppend ==
    ASSUME NEW s \in Seq(Int), NEW t \in Seq(Int), NEW x \in Int,
           Len(t) = Len(s) + 1, t[Len(t)] = x,
           \A i \in 1 .. Len(s) : t[i] = s[i]
    PROVE  Total(t) = Total(s) + x
<1>1. Len(s) \in Nat /\ Len(t) \in Nat
  BY LenProperties
<1>2. PICK f : Sums(f, t)
  BY SumsExist
<1> DEFINE g == [i \in 0 .. Len(s) |-> f[i]]
<1>3. \A i \in 0 .. Len(s) : g[i] = f[i] /\ f[i] \in Int
  <2>1. \A i \in 0 .. Len(s) : i \in 0 .. Len(t)
    BY <1>1
  <2>2. \A i \in 0 .. Len(t) : f[i] \in Int
    BY <1>2 DEF Sums
  <2> QED
    BY <2>1, <2>2
<1>4. g \in [0 .. Len(s) -> Int]
  BY <1>3
<1>5. Sums(g, s)
  <2> HIDE DEF g
  <2>1. g[0] = 0
    BY <1>1, <1>2, <1>3 DEF Sums
  <2>2. ASSUME NEW i \in 1 .. Len(s) PROVE g[i] = g[i - 1] + s[i]
    <3>1. i \in 1 .. Len(t) /\ i \in 0 .. Len(s) /\ i - 1 \in 0 .. Len(s)
      BY <1>1
    <3>2. f[i] = f[i - 1] + t[i]
      BY <1>2, <3>1 DEF Sums
    <3> QED
      BY <1>3, <3>1, <3>2
  <2> QED
    BY <1>4, <2>1, <2>2 DEF Sums
<1>6. f[Len(t)] = f[Len(t) - 1] + x /\ Len(t) - 1 = Len(s)
  BY <1>1, <1>2, SMTT(40) DEF Sums
<1>7. Total(t) = f[Len(t)] /\ Total(s) = g[Len(s)]
  BY <1>2, <1>5, TotalIsSum
<1> QED
  BY <1>1, <1>3, <1>6, <1>7

LEMMA TotalTail ==
    ASSUME NEW s \in Seq(Int), NEW t \in Seq(Int), NEW x \in Int,
           Len(t) + 1 = Len(s), s[1] = x,
           \A i \in 1 .. Len(t) : t[i] = s[i + 1]
    PROVE  Total(s) = x + Total(t)
<1>1. Len(s) \in Nat /\ Len(t) \in Nat
  BY LenProperties
<1>2. PICK f : Sums(f, s)
  BY SumsExist
<1> DEFINE g == [i \in 0 .. Len(t) |-> f[i + 1] - x]
<1>3. \A i \in 0 .. Len(t) : g[i] = f[i + 1] - x /\ f[i + 1] \in Int
  <2>1. \A i \in 0 .. Len(t) : i + 1 \in 0 .. Len(s)
    BY <1>1
  <2>2. \A i \in 0 .. Len(s) : f[i] \in Int
    BY <1>2 DEF Sums
  <2> QED
    BY <2>1, <2>2
<1>4. g \in [0 .. Len(t) -> Int]
  BY <1>3
<1>5. f[1] = x
  BY <1>1, <1>2 DEF Sums
<1>6. Sums(g, t)
  <2> HIDE DEF g
  <2>1. g[0] = 0
    BY <1>1, <1>3, <1>5
  <2>2. ASSUME NEW i \in 1 .. Len(t) PROVE g[i] = g[i - 1] + t[i]
    <3>1. i + 1 \in 1 .. Len(s) /\ i \in 0 .. Len(t) /\ i - 1 \in 0 .. Len(t)
          /\ (i + 1) - 1 = i /\ (i - 1) + 1 = i
      BY <1>1, SMTT(40)
    <3>2. f[i + 1] = f[(i + 1) - 1] + s[i + 1]
      BY <1>2, <3>1 DEF Sums
    <3>3. g[i] = f[i + 1] - x /\ g[i - 1] = f[i] - x /\ f[i] \in Int /\ f[i + 1] \in Int
      BY <1>3, <3>1
    <3>4. t[i] = s[i + 1] /\ t[i] \in Int
      BY ElementOfSeq
    <3>5. f[i + 1] = f[i] + t[i]
      BY <3>1, <3>2, <3>4
    <3>6. \A a, b \in Int : (a + b) - x = (a - x) + b
      OBVIOUS
    <3>7. (f[i] + t[i]) - x = (f[i] - x) + t[i]
      BY <3>3, <3>4, <3>6
    <3> QED
      BY <3>3, <3>5, <3>7
  <2> QED
    BY <1>4, <2>1, <2>2 DEF Sums
<1>7. Total(s) = f[Len(s)] /\ Total(t) = g[Len(t)]
  BY <1>2, <1>6, TotalIsSum
<1>8. g[Len(t)] = f[Len(t) + 1] - x /\ f[Len(t) + 1] \in Int
  BY <1>1, <1>3
<1>9. f[Len(t) + 1] = f[Len(s)]
  BY <1>1
<1> HIDE DEF g
<1> QED
  BY <1>7, <1>8, <1>9

LEMMA TotalNat ==
    ASSUME NEW s \in Seq(Int), \A i \in 1 .. Len(s) : s[i] >= 0
    PROVE  Total(s) \in Nat
<1>1. Len(s) \in Nat /\ \A i \in 1 .. Len(s) : s[i] \in Int
  BY LenProperties, ElementOfSeq
<1>2. PICK f : Sums(f, s)
  BY SumsExist
<1> DEFINE G == {k \in Nat : k <= Len(s) => f[k] >= 0}
<1>3. 0 \in G
  BY <1>2 DEF Sums
<1>4. ASSUME NEW k \in Nat, k < Len(s), k \in G PROVE k + 1 \in G
  <2>1. k + 1 \in 1 .. Len(s) /\ (k + 1) - 1 = k /\ k \in 0 .. Len(s)
    BY <1>1, <1>4
  <2>2. f[k + 1] = f[(k + 1) - 1] + s[k + 1] /\ f[k] \in Int
    BY <1>2, <2>1 DEF Sums
  <2>3. f[k] >= 0
    BY <1>4, <2>1
  <2>4. s[k + 1] \in Int /\ s[k + 1] >= 0
    BY <1>1, <2>1
  <2>5. f[k + 1] >= 0
    BY <2>1, <2>2, <2>3, <2>4
  <2> QED
    BY <2>5
<1>5. \A k \in 0 .. Len(s) : k \in G
  <2> HIDE DEF G
  <2> QED
    BY <1>1, <1>3, <1>4, UpTo
<1>6. f[Len(s)] >= 0 /\ f[Len(s)] \in Int
  BY <1>1, <1>2, <1>5 DEF Sums
<1> QED
  BY <1>2, <1>6, TotalIsSum

(* The concatenation of two sequences, as an operator of its own. *)
Cat(a, b) == a \o b

LEMMA CatProperties ==
    /\ \A a, b \in Seq(Nat) : Cat(a, b) \in Seq(Nat)
    /\ \A a \in Seq(Nat) : Cat(<<>>, a) = a /\ Cat(a, <<>>) = a
    /\ \A a, b, c \in Seq(Nat) : Cat(Cat(a, b), c) = Cat(a, Cat(b, c))
<1>1. \A a, b \in Seq(Nat) : a \o b \in Seq(Nat)
  BY ConcatProperties
<1>2. \A a \in Seq(Nat) : <<>> \o a = a /\ a \o <<>> = a
  BY ConcatEmptySeq
<1>3. \A a, b, c \in Seq(Nat) : (a \o b) \o c = a \o (b \o c)
  BY ConcatAssociative, SMTT(40)
<1> QED
  BY <1>1, <1>2, <1>3, Zenon DEF Cat

(* f gives the concatenations of the first elements of s. *)
Joins(f, s) ==
    /\ f \in [0 .. Len(s) -> Seq(Nat)]
    /\ f[0] = <<>>
    /\ \A i \in 1 .. Len(s) : f[i] = Cat(f[i - 1], s[i])

LEMMA CatAssociative ==
    ASSUME NEW a \in Seq(Nat), NEW b \in Seq(Nat), NEW c \in Seq(Nat)
    PROVE  Cat(Cat(a, b), c) = Cat(a, Cat(b, c))
BY CatProperties

LEMMA JoinsExist ==
    ASSUME NEW s \in Seq(Seq(Nat))
    PROVE  \E f : Joins(f, s)
<1> DEFINE Upto(f, k) == /\ f \in [0 .. k -> Seq(Nat)]
                         /\ f[0] = <<>>
                         /\ \A i \in 1 .. k : f[i] = Cat(f[i - 1], s[i])
           G == {k \in Nat : \E f : Upto(f, k)}
<1>1. Len(s) \in Nat /\ \A i \in 1 .. Len(s) : s[i] \in Seq(Nat)
  BY LenProperties, ElementOfSeq
<1>2. 0 \in G
  <2>1. Upto([i \in 0 .. 0 |-> <<>>], 0)
    BY EmptySeq
  <2> QED
    BY <2>1
<1>3. ASSUME NEW k \in Nat, k < Len(s), k \in G PROVE k + 1 \in G
  <2>1. PICK f : Upto(f, k)
    BY <1>3
  <2> DEFINE g == [i \in 0 .. (k + 1) |-> IF i = k + 1 THEN Cat(f[k], s[k + 1]) ELSE f[i]]
  <2>2. s[k + 1] \in Seq(Nat) /\ f[k] \in Seq(Nat)
    BY <1>1, <1>3, <2>1
  <2>a. Cat(f[k], s[k + 1]) \in Seq(Nat)
    BY <2>2, CatProperties
  <2>3. \A i \in 0 .. k : g[i] = f[i] /\ f[i] \in Seq(Nat)
    BY <2>1
  <2>4. g[k + 1] = Cat(f[k], s[k + 1])
    OBVIOUS
  <2>5. g \in [0 .. (k + 1) -> Seq(Nat)]
    BY <2>1, <2>a
  <2> HIDE DEF g
  <2>6. g[0] = <<>>
    BY <2>1, <2>3
  <2>7. ASSUME NEW i \in 1 .. (k + 1) PROVE g[i] = Cat(g[i - 1], s[i])
    <3>1. CASE i = k + 1
      BY <2>3, <2>4, <3>1
    <3>2. CASE i \in 1 .. k
      <4>1. i - 1 \in 0 .. k /\ i \in 0 .. k
        BY <3>2
      <4> QED
        BY <2>1, <2>3, <3>2, <4>1
    <3> QED
      BY <3>1, <3>2
  <2>8. Upto(g, k + 1)
    BY <2>5, <2>6, <2>7
  <2>9. k + 1 \in Nat
    OBVIOUS
  <2> HIDE DEF Upto
  <2> QED
    BY <2>8, <2>9
<1>4. Len(s) \in G
  <2> HIDE DEF G
  <2>1. \A k \in 0 .. Len(s) : k \in G
    BY <1>1, <1>2, <1>3, UpTo
  <2> QED
    BY <1>1, <2>1
<1> QED
  BY <1>4 DEF Joins

(* FlattenSeq() is the last of them. *)
LEMMA FlattenIsJoin ==
    ASSUME NEW s \in Seq(Seq(Nat)), NEW f, Joins(f, s)
    PROVE  FlattenSeq(s) = f[Len(s)]
<1> DEFINE Rec(h) == h = [i \in 1 .. Len(s) |-> IF i = 1 THEN s[i] ELSE Cat(h[i - 1], s[i])]
<1>1. Len(s) \in Nat /\ \A i \in 1 .. Len(s) : s[i] \in Seq(Nat)
  BY LenProperties, ElementOfSeq
<1>2. CASE Len(s) = 0
  <2>1. s = <<>>
    BY <1>2, EmptySeq
  <2>2. FlattenSeq(s) = s
    BY <1>2 DEF FlattenSeq
  <2> QED
    BY <1>2, <2>1, <2>2 DEF Joins
<1>3. CASE Len(s) # 0
  <2> DEFINE e == [i \in 1 .. Len(s) |-> f[i]]
  <2>1. Rec(e)
    <3>1. \A i \in 1 .. Len(s) : e[i] = f[i]
      OBVIOUS
    <3>2. ASSUME NEW i \in 1 .. Len(s)
          PROVE  f[i] = IF i = 1 THEN s[i] ELSE Cat(e[i - 1], s[i])
      <4>1. f[i] = Cat(f[i - 1], s[i])
        BY DEF Joins
      <4>2. CASE i = 1
        <5>1. f[i - 1] = <<>> /\ s[i] \in Seq(Nat)
          BY <1>1, <4>2 DEF Joins
        <5>2. Cat(<<>>, s[i]) = s[i]
          BY <5>1, CatProperties
        <5> QED
          BY <4>1, <4>2, <5>1, <5>2
      <4>3. CASE i # 1
        <5>1. i - 1 \in 1 .. Len(s)
          BY <1>1, <4>3
        <5>2. e[i - 1] = f[i - 1]
          BY <3>1, <5>1
        <5> HIDE DEF e
        <5> QED
          BY <4>1, <4>3, <5>2
      <4> QED
        BY <4>2, <4>3
    <3> QED
      BY <3>2
  <2> HIDE DEF e
  <2>2. PICK h : Rec(h) /\ FlattenSeq(s) = h[Len(s)]
    <3>1. FlattenSeq(s) = (CHOOSE h : Rec(h))[Len(s)]
      BY <1>3, Zenon DEF FlattenSeq, Cat
    <3>2. Rec(CHOOSE h : Rec(h))
      BY <2>1
    <3> HIDE DEF Rec
    <3> QED
      BY <3>1, <3>2
  <2>3. \A i \in 1 .. Len(s) : h[i] = IF i = 1 THEN s[i] ELSE Cat(h[i - 1], s[i])
    <3>1. \A i \in 1 .. Len(s) :
            [j \in 1 .. Len(s) |-> IF j = 1 THEN s[j] ELSE Cat(h[j - 1], s[j])][i]
                = IF i = 1 THEN s[i] ELSE Cat(h[i - 1], s[i])
      OBVIOUS
    <3> QED
      BY <2>2, <3>1
  <2> DEFINE G == {k \in Nat : 1 <= k /\ k <= Len(s) => f[k] = h[k]}
  <2>4. 0 \in G
    OBVIOUS
  <2>5. ASSUME NEW k \in Nat, k < Len(s), k \in G PROVE k + 1 \in G
    <3>1. k + 1 \in 1 .. Len(s) /\ (k + 1) - 1 = k
      BY <1>1, <2>5
    <3>2. f[k + 1] = Cat(f[k], s[k + 1])
      <4>1. f[k + 1] = Cat(f[(k + 1) - 1], s[k + 1])
        BY <3>1 DEF Joins
      <4> QED
        BY <3>1, <4>1
    <3>3. CASE k = 0
      <4>1. h[k + 1] = s[k + 1] /\ s[k + 1] \in Seq(Nat)
        BY <1>1, <2>3, <3>1, <3>3
      <4>2. f[k] = <<>>
        BY <3>3 DEF Joins
      <4>3. Cat(<<>>, s[k + 1]) = s[k + 1]
        BY <4>1, CatProperties
      <4>4. f[k + 1] = h[k + 1]
        BY <3>2, <4>1, <4>2, <4>3
      <4> QED
        BY <4>4
    <3>4. CASE k # 0
      <4>a. k + 1 # 1
        BY <3>4
      <4>1. h[k + 1] = Cat(h[(k + 1) - 1], s[k + 1])
        BY <2>3, <3>1, <4>a, Zenon
      <4>2. f[k] = h[k]
        BY <2>5, <3>4
      <4>3. f[k + 1] = h[k + 1]
        BY <3>1, <3>2, <4>1, <4>2
      <4> QED
        BY <4>3
    <3> QED
      BY <3>3, <3>4
  <2>6. \A k \in 0 .. Len(s) : k \in G
    <3> HIDE DEF G
    <3> QED
      BY <1>1, <2>4, <2>5, UpTo
  <2>7. f[Len(s)] = h[Len(s)]
    BY <1>1, <1>3, <2>6
  <2> QED
    BY <2>2, <2>7
<1> QED
  BY <1>2, <1>3

LEMMA FlattenType ==
    ASSUME NEW s \in Seq(Seq(Nat))
    PROVE  FlattenSeq(s) \in Seq(Nat)
<1>1. PICK f : Joins(f, s)
  BY JoinsExist
<1>2. Len(s) \in Nat
  BY LenProperties
<1> QED
  BY <1>1, <1>2, FlattenIsJoin DEF Joins

LEMMA FlattenAppend ==
    ASSUME NEW s \in Seq(Seq(Nat)), NEW t \in Seq(Seq(Nat)), NEW x \in Seq(Nat),
           Len(t) = Len(s) + 1, t[Len(t)] = x,
           \A i \in 1 .. Len(s) : t[i] = s[i]
    PROVE  FlattenSeq(t) = Cat(FlattenSeq(s), x)
<1>1. Len(s) \in Nat /\ Len(t) \in Nat
  BY LenProperties
<1>2. PICK f : Joins(f, t)
  BY JoinsExist
<1> DEFINE g == [i \in 0 .. Len(s) |-> f[i]]
<1>3. \A i \in 0 .. Len(s) : g[i] = f[i] /\ f[i] \in Seq(Nat)
  <2>1. \A i \in 0 .. Len(s) : i \in 0 .. Len(t)
    BY <1>1
  <2>2. \A i \in 0 .. Len(t) : f[i] \in Seq(Nat)
    BY <1>2 DEF Joins
  <2> QED
    BY <2>1, <2>2
<1>4. g \in [0 .. Len(s) -> Seq(Nat)]
  BY <1>3
<1>5. Joins(g, s)
  <2> HIDE DEF g
  <2>1. g[0] = <<>>
    BY <1>1, <1>2, <1>3 DEF Joins
  <2>2. ASSUME NEW i \in 1 .. Len(s) PROVE g[i] = Cat(g[i - 1], s[i])
    <3>1. i \in 1 .. Len(t) /\ i \in 0 .. Len(s) /\ i - 1 \in 0 .. Len(s)
      BY <1>1
    <3>2. f[i] = Cat(f[i - 1], t[i])
      BY <1>2, <3>1 DEF Joins
    <3> QED
      BY <1>3, <3>1, <3>2
  <2> QED
    BY <1>4, <2>1, <2>2 DEF Joins
<1>6. f[Len(t)] = Cat(f[Len(t) - 1], x) /\ Len(t) - 1 = Len(s)
  <2>1. Len(t) \in 1 .. Len(t) /\ Len(t) - 1 = Len(s)
    BY <1>1
  <2>2. f[Len(t)] = Cat(f[Len(t) - 1], t[Len(t)])
    BY <1>2, <2>1 DEF Joins
  <2> QED
    BY <2>1, <2>2
<1>7. FlattenSeq(t) = f[Len(t)] /\ FlattenSeq(s) = g[Len(s)]
  BY <1>2, <1>5, FlattenIsJoin
<1> QED
  BY <1>1, <1>3, <1>6, <1>7

LEMMA FlattenTail ==
    ASSUME NEW s \in Seq(Seq(Nat)), NEW t \in Seq(Seq(Nat)), NEW x \in Seq(Nat),
           Len(t) + 1 = Len(s), s[1] = x,
           \A i \in 1 .. Len(t) : t[i] = s[i + 1]
    PROVE  FlattenSeq(s) = Cat(x, FlattenSeq(t))
<1>1. Len(s) \in Nat /\ Len(t) \in Nat
  BY LenProperties
<1>2. PICK f : Joins(f, s)
  BY JoinsExist
<1>3. PICK g : Joins(g, t)
  BY JoinsExist
<1> DEFINE G == {k \in Nat : k <= Len(t) => f[k + 1] = Cat(x, g[k])}
<1>4. 0 \in G
  <2>1. f[1] = Cat(f[0], s[1]) /\ f[0] = <<>> /\ g[0] = <<>>
    BY <1>1, <1>2, <1>3 DEF Joins
  <2>2. Cat(<<>>, x) = x /\ Cat(x, <<>>) = x
    BY CatProperties
  <2>3. f[0 + 1] = Cat(x, g[0])
    BY <2>1, <2>2
  <2> QED
    BY <2>3
<1>5. ASSUME NEW k \in Nat, k < Len(t), k \in G PROVE k + 1 \in G
  <2>1. k + 1 \in 1 .. Len(t) /\ (k + 1) - 1 = k /\ k \in 0 .. Len(t)
        /\ (k + 1) + 1 \in 1 .. Len(s) /\ ((k + 1) + 1) - 1 = k + 1
    BY <1>1, <1>5
  <2>2. f[(k + 1) + 1] = Cat(f[k + 1], s[(k + 1) + 1])
    <3>1. f[(k + 1) + 1] = Cat(f[((k + 1) + 1) - 1], s[(k + 1) + 1])
      BY <1>2, <2>1 DEF Joins
    <3> QED
      BY <2>1, <3>1
  <2>3. g[k + 1] = Cat(g[k], t[k + 1])
    <3>1. g[k + 1] = Cat(g[(k + 1) - 1], t[k + 1])
      BY <1>3, <2>1 DEF Joins
    <3> QED
      BY <2>1, <3>1
  <2>4. f[k + 1] = Cat(x, g[k])
    BY <1>5, <2>1
  <2>5. t[k + 1] = s[(k + 1) + 1] /\ t[k + 1] \in Seq(Nat) /\ g[k] \in Seq(Nat)
    <3>1. t[k + 1] \in Seq(Nat)
      BY <2>1, ElementOfSeq
    <3>2. g[k] \in Seq(Nat)
      BY <1>3, <2>1 DEF Joins
    <3> QED
      BY <2>1, <3>1, <3>2
  <2>6. Cat(Cat(x, g[k]), t[k + 1]) = Cat(x, Cat(g[k], t[k + 1]))
    <3>1. t[k + 1] \in Seq(Nat) /\ g[k] \in Seq(Nat)
      BY <2>5
    <3> QED
      BY <3>1, CatAssociative
  <2>7. f[(k + 1) + 1] = Cat(x, g[k + 1])
    BY <2>2, <2>3, <2>4, <2>5, <2>6
  <2> QED
    BY <2>7
<1>6. \A k \in 0 .. Len(t) : k \in G
  <2> HIDE DEF G
  <2> QED
    BY <1>1, <1>4, <1>5, UpTo
<1>7. f[Len(t) + 1] = Cat(x, g[Len(t)])
  BY <1>1, <1>6
<1>8. FlattenSeq(s) = f[Len(s)] /\ FlattenSeq(t) = g[Len(t)]
  BY <1>2, <1>3, FlattenIsJoin
<1>9. Len(t) + 1 = Len(s)
  BY <1>1
<1> QED
  BY <1>7, <1>8, <1>9

-------------------------------------------------------------------------------
(* The same for the messages that are on their way. *)

Worth(m, types) == IF m.t \in types THEN m.n ELSE 0

LEMMA MessageLists ==
    ASSUME NEW q \in Seq(Messages), NEW types
    PROVE  /\ [i \in 1 .. Len(q) |-> Worth(q[i], types)] \in Seq(Int)
           /\ Len([i \in 1 .. Len(q) |-> Worth(q[i], types)]) = Len(q)
           /\ [i \in 1 .. Len(q) |-> q[i].bytes] \in Seq(Seq(Nat))
           /\ Len([i \in 1 .. Len(q) |-> q[i].bytes]) = Len(q)
           /\ \A i \in 1 .. Len(q) :
                 Worth(q[i], types) \in Nat /\ q[i].bytes \in Seq(Nat)
<1>1. Len(q) \in Nat /\ \A i \in 1 .. Len(q) : q[i] \in Messages
  BY LenProperties, ElementOfSeq
<1>2. \A i \in 1 .. Len(q) : Worth(q[i], types) \in Nat /\ q[i].bytes \in Seq(Nat)
  BY <1>1 DEF Worth, Messages
<1> DEFINE s == [i \in 1 .. Len(q) |-> Worth(q[i], types)]
           b == [i \in 1 .. Len(q) |-> q[i].bytes]
<1>3. s \in [1 .. Len(q) -> Int] /\ DOMAIN s = 1 .. Len(q)
  BY <1>2
<1>4. b \in [1 .. Len(q) -> Seq(Nat)] /\ DOMAIN b = 1 .. Len(q)
  BY <1>2
<1> HIDE DEF s, b
<1>5. s \in Seq(Int)
  BY <1>1, <1>3, SeqDef
<1>6. b \in Seq(Seq(Nat))
  BY <1>1, <1>4, SeqDef
<1>7. Len(s) = Len(q) /\ Len(b) = Len(q)
  BY <1>1, <1>3, <1>4, <1>5, <1>6, LenProperties
<1> QED
  BY <1>2, <1>5, <1>6, <1>7 DEF s, b

LEMMA AmountIsTotal ==
    ASSUME NEW q, NEW types
    PROVE  Amount(q, types) = Total([i \in 1 .. Len(q) |-> Worth(q[i], types)])
BY DEF Amount, Worth

LEMMA AmountNat ==
    ASSUME NEW q \in Seq(Messages), NEW types
    PROVE  Amount(q, types) \in Nat
<1> DEFINE s == [i \in 1 .. Len(q) |-> Worth(q[i], types)]
<1>1. s \in Seq(Int) /\ Len(s) = Len(q)
  BY MessageLists
<1>2. \A i \in 1 .. Len(q) : s[i] >= 0
  <2>1. \A i \in 1 .. Len(q) : Worth(q[i], types) \in Nat
    BY MessageLists
  <2>2. \A i \in 1 .. Len(q) : s[i] = Worth(q[i], types)
    OBVIOUS
  <2> HIDE DEF s
  <2> QED
    BY <2>1, <2>2
<1> HIDE DEF s
<1>3. Total(s) \in Nat
  BY <1>1, <1>2, TotalNat
<1> QED
  BY <1>3, AmountIsTotal DEF s

LEMMA ContentsType ==
    ASSUME NEW q \in Seq(Messages)
    PROVE  Contents(q) \in Seq(Nat) /\ Len(Contents(q)) \in Nat
<1>1. Contents(q) \in Seq(Nat)
  BY MessageLists, FlattenType DEF Contents
<1> QED
  BY <1>1, LenProperties

LEMMA NoMessages ==
    /\ \A types : Amount(<<>>, types) = 0
    /\ Contents(<<>>) = <<>>
<1>1. <<>> \in Seq(Messages) /\ Len(<<>>) = 0
  BY EmptySeq
<1>2. ASSUME NEW types PROVE Amount(<<>>, types) = 0
  <2> DEFINE s == [i \in 1 .. Len(<<>>) |-> Worth(<<>>[i], types)]
  <2>1. s \in Seq(Int) /\ Len(s) = 0
    BY <1>1, MessageLists
  <2> HIDE DEF s
  <2>2. s = <<>>
    BY <2>1, EmptySeq
  <2>3. Amount(<<>>, types) = Total(s)
    BY AmountIsTotal DEF s
  <2> QED
    BY <2>2, <2>3, TotalEmpty
<1>3. Contents(<<>>) = <<>>
  <2> DEFINE b == [i \in 1 .. Len(<<>>) |-> <<>>[i].bytes]
  <2>1. b \in Seq(Seq(Nat)) /\ Len(b) = 0
    BY <1>1, MessageLists
  <2>2. Contents(<<>>) = FlattenSeq(b)
    BY DEF Contents
  <2> HIDE DEF b
  <2>3. b = <<>>
    BY <2>1, EmptySeq
  <2>4. FlattenSeq(b) = b
    BY <2>1 DEF FlattenSeq
  <2> QED
    BY <2>2, <2>3, <2>4
<1> QED
  BY <1>2, <1>3

LEMMA OneMore ==
    ASSUME NEW q \in Seq(Messages), NEW m \in Messages
    PROVE  /\ Append(q, m) \in Seq(Messages)
           /\ Len(Append(q, m)) = Len(q) + 1
           /\ Append(q, m)[Len(q) + 1] = m
           /\ \A i \in 1 .. Len(q) : Append(q, m)[i] = q[i]
           /\ \A types : Amount(Append(q, m), types) = Amount(q, types) + Worth(m, types)
           /\ Contents(Append(q, m)) = Cat(Contents(q), m.bytes)
<1>1. Len(q) \in Nat
  BY LenProperties
<1> DEFINE p == Append(q, m)
<1>2. /\ p \in Seq(Messages) /\ Len(p) = Len(q) + 1 /\ p[Len(q) + 1] = m
      /\ \A i \in 1 .. Len(q) : p[i] = q[i]
  BY AppendProperties
<1> HIDE DEF p
<1>3. ASSUME NEW types PROVE Amount(p, types) = Amount(q, types) + Worth(m, types)
  <2> DEFINE s == [i \in 1 .. Len(q) |-> Worth(q[i], types)]
             t == [i \in 1 .. Len(p) |-> Worth(p[i], types)]
  <2>1. s \in Seq(Int) /\ Len(s) = Len(q) /\ t \in Seq(Int) /\ Len(t) = Len(p)
    BY <1>2, MessageLists
  <2>2. t[Len(p)] = Worth(m, types)
    BY <1>1, <1>2
  <2>3. \A i \in 1 .. Len(q) : t[i] = s[i]
    BY <1>1, <1>2
  <2>4. Worth(m, types) \in Int
    BY DEF Worth, Messages
  <2>5. Amount(q, types) = Total(s) /\ Amount(p, types) = Total(t)
    BY AmountIsTotal
  <2> HIDE DEF s, t
  <2>6. Total(t) = Total(s) + Worth(m, types)
    BY <1>2, <2>1, <2>2, <2>3, <2>4, TotalAppend
  <2> QED
    BY <2>5, <2>6
<1>4. Contents(p) = Cat(Contents(q), m.bytes)
  <2> DEFINE s == [i \in 1 .. Len(q) |-> q[i].bytes]
             t == [i \in 1 .. Len(p) |-> p[i].bytes]
  <2>1. s \in Seq(Seq(Nat)) /\ Len(s) = Len(q) /\ t \in Seq(Seq(Nat)) /\ Len(t) = Len(p)
    BY <1>2, MessageLists
  <2>2. t[Len(p)] = m.bytes
    BY <1>1, <1>2
  <2>3. \A i \in 1 .. Len(q) : t[i] = s[i]
    BY <1>1, <1>2
  <2>4. m.bytes \in Seq(Nat)
    BY DEF Messages
  <2>5. Contents(q) = FlattenSeq(s) /\ Contents(p) = FlattenSeq(t)
    BY DEF Contents
  <2> HIDE DEF s, t
  <2>6. FlattenSeq(t) = Cat(FlattenSeq(s), m.bytes)
    BY <1>2, <2>1, <2>2, <2>3, <2>4, FlattenAppend
  <2> QED
    BY <2>5, <2>6
<1> QED
  BY <1>2, <1>3, <1>4 DEF p

LEMMA OneLess ==
    ASSUME NEW q \in Seq(Messages), q # <<>>
    PROVE  /\ Tail(q) \in Seq(Messages) /\ Head(q) \in Messages /\ Head(q) = q[1]
           /\ Len(Tail(q)) = Len(q) - 1 /\ Len(q) \in Nat \ {0}
           /\ \A i \in 1 .. Len(Tail(q)) : Tail(q)[i] = q[i + 1]
           /\ \A types : Amount(q, types) = Worth(Head(q), types) + Amount(Tail(q), types)
           /\ Contents(q) = Cat(Head(q).bytes, Contents(Tail(q)))
<1>1. Len(q) \in Nat \ {0}
  BY EmptySeq
<1> DEFINE p == Tail(q)
           m == Head(q)
<1>2. /\ p \in Seq(Messages) /\ Len(p) = Len(q) - 1 /\ m \in Messages
      /\ \A i \in 1 .. Len(p) : p[i] = q[i + 1]
  BY HeadTailProperties
<1>a. m = q[1]
  BY <1>1
<1> HIDE DEF p, m
<1>3. ASSUME NEW types PROVE Amount(q, types) = Worth(m, types) + Amount(p, types)
  <2> DEFINE s == [i \in 1 .. Len(q) |-> Worth(q[i], types)]
             t == [i \in 1 .. Len(p) |-> Worth(p[i], types)]
  <2>1. s \in Seq(Int) /\ Len(s) = Len(q) /\ t \in Seq(Int) /\ Len(t) = Len(p)
    BY <1>2, MessageLists
  <2>2. s[1] = Worth(m, types)
    BY <1>1, <1>a
  <2>3. \A i \in 1 .. Len(p) : t[i] = s[i + 1]
    BY <1>1, <1>2
  <2>4. Worth(m, types) \in Int
    BY <1>2 DEF Worth, Messages
  <2>5. Amount(q, types) = Total(s) /\ Amount(p, types) = Total(t)
    BY AmountIsTotal
  <2>a. Len(t) + 1 = Len(s)
    BY <1>1, <1>2, <2>1
  <2> HIDE DEF s, t
  <2>6. Total(s) = Worth(m, types) + Total(t)
    BY <1>2, <2>1, <2>2, <2>3, <2>4, <2>a, TotalTail
  <2> QED
    BY <2>5, <2>6
<1>4. Contents(q) = Cat(m.bytes, Contents(p))
  <2> DEFINE s == [i \in 1 .. Len(q) |-> q[i].bytes]
             t == [i \in 1 .. Len(p) |-> p[i].bytes]
  <2>1. s \in Seq(Seq(Nat)) /\ Len(s) = Len(q) /\ t \in Seq(Seq(Nat)) /\ Len(t) = Len(p)
    BY <1>2, MessageLists
  <2>2. s[1] = m.bytes
    BY <1>1, <1>a
  <2>3. \A i \in 1 .. Len(p) : t[i] = s[i + 1]
    BY <1>1, <1>2
  <2>4. m.bytes \in Seq(Nat)
    BY <1>2 DEF Messages
  <2>5. Contents(q) = FlattenSeq(s) /\ Contents(p) = FlattenSeq(t)
    BY DEF Contents
  <2>a. Len(t) + 1 = Len(s)
    BY <1>1, <1>2, <2>1
  <2> HIDE DEF s, t
  <2>6. FlattenSeq(s) = Cat(m.bytes, FlattenSeq(t))
    BY <1>2, <2>1, <2>2, <2>3, <2>4, <2>a, FlattenTail
  <2> QED
    BY <2>5, <2>6
<1> QED
  BY <1>1, <1>2, <1>3, <1>4, <1>a DEF p, m

-------------------------------------------------------------------------------
(* What the functions of the program do to a channel and its messages.      *)

States == [r : Channels, q : Seq(Messages)]

(* p is q with some data and window adjustments added. *)
Adds(q, p) ==
    /\ Len(p) >= Len(q)
    /\ \A i \in 1 .. Len(q) : p[i] = q[i]
    /\ \A i \in Len(q) + 1 .. Len(p) :
          /\ p[i].t \in {"data", "adjust"}
          /\ p[i].t # "data" => p[i].bytes = <<>>

Grants == {"open", "confirm", "adjust"}

(* From st to u nothing happens but that data is sent, kept or frozen. *)
Moves(st, u) ==
    /\ u \in States
    /\ u.r.type = st.r.type /\ u.r.closes = st.r.closes /\ u.r.s = st.r.s
    /\ u.r.ready = st.r.ready /\ u.r.throttle_override = st.r.throttle_override
    /\ u.r.buffer = st.r.buffer
    /\ u.r.locwindow = st.r.locwindow /\ u.r.out = st.r.out
    /\ Adds(st.q, u.q)
    /\ Amount(u.q, Grants) = Amount(st.q, Grants)
    /\ u.r.remwindow + Len(Contents(u.q)) = st.r.remwindow + Len(Contents(st.q))

(* What has been written to the channel and is not with the server yet, and *)
(* what the application has written besides.                                *)
Written(st) == Cat(Contents(st.q), st.r.outbuffer)
Held(st) == Cat(Written(st), st.r.missed)

LEMMA LenCat ==
    ASSUME NEW a \in Seq(Nat), NEW b \in Seq(Nat)
    PROVE  Len(Cat(a, b)) = Len(a) + Len(b)
BY ConcatProperties DEF Cat

LEMMA SplitSeq ==
    ASSUME NEW s \in Seq(Nat), NEW n \in 0 .. Len(s)
    PROVE  /\ SubSeq(s, 1, n) \in Seq(Nat) /\ Len(SubSeq(s, 1, n)) = n
           /\ SubSeq(s, n + 1, Len(s)) \in Seq(Nat)
           /\ Len(SubSeq(s, n + 1, Len(s))) = Len(s) - n
           /\ Cat(SubSeq(s, 1, n), SubSeq(s, n + 1, Len(s))) = s
<1>1. Len(s) \in Nat /\ \A i \in 1 .. Len(s) : s[i] \in Nat
  BY LenProperties, ElementOfSeq
<1>2. \A i \in 1 .. n : s[i] \in Nat
  BY <1>1
<1>3. \A i \in n + 1 .. Len(s) : s[i] \in Nat
  BY <1>1
<1>4. /\ SubSeq(s, 1, n) \in Seq(Nat) /\ Len(SubSeq(s, 1, n)) = n
      /\ \A i \in 1 .. n : SubSeq(s, 1, n)[i] = s[i]
  BY <1>1, <1>2, SubSeqProperties
<1>5. /\ SubSeq(s, n + 1, Len(s)) \in Seq(Nat)
      /\ Len(SubSeq(s, n + 1, Len(s))) = Len(s) - n
      /\ \A i \in 1 .. Len(s) - n : SubSeq(s, n + 1, Len(s))[i] = s[n + i]
  BY <1>1, <1>3, SubSeqProperties
<1> DEFINE a == SubSeq(s, 1, n)
           b == SubSeq(s, n + 1, Len(s))
<1> HIDE DEF a, b
<1>6. a \in Seq(Nat) /\ b \in Seq(Nat) /\ Len(a) = n /\ Len(b) = Len(s) - n
  BY <1>4, <1>5 DEF a, b
<1>7. a \o b \in Seq(Nat) /\ Len(a \o b) = Len(s)
      /\ \A i \in 1 .. Len(s) : (a \o b)[i] = IF i <= n THEN a[i] ELSE b[i - n]
  <2>1. /\ a \o b \in Seq(Nat) /\ Len(a \o b) = Len(a) + Len(b)
        /\ \A i \in 1 .. Len(a) + Len(b) :
              (a \o b)[i] = IF i <= Len(a) THEN a[i] ELSE b[i - Len(a)]
    BY <1>6, ConcatProperties
  <2>2. Len(a) + Len(b) = Len(s)
    BY <1>1, <1>6
  <2> QED
    BY <1>6, <2>1, <2>2
<1>8. ASSUME NEW i \in 1 .. Len(s) PROVE (a \o b)[i] = s[i]
  <2>1. CASE i <= n
    <3>1. a[i] = s[i]
      BY <1>1, <1>4, <2>1 DEF a
    <3> QED
      BY <1>7, <2>1, <3>1
  <2>2. CASE i > n
    <3>1. i - n \in 1 .. Len(s) - n /\ n + (i - n) = i
      BY <1>1, <2>2
    <3>2. b[i - n] = s[n + (i - n)]
      BY <1>5, <3>1 DEF b
    <3>3. ~(i <= n)
      BY <1>1, <2>2
    <3>4. (a \o b)[i] = b[i - n]
      BY <1>7, <3>3
    <3> QED
      BY <3>1, <3>2, <3>4
  <2>3. i <= n \/ i > n
    BY <1>1
  <2> QED
    BY <2>1, <2>2, <2>3, Zenon
<1>9. a \o b = s
  BY <1>7, <1>8, SeqEqual
<1> QED
  BY <1>4, <1>5, <1>9 DEF a, b, Cat

LEMMA NothingMoves ==
    ASSUME NEW st \in States
    PROVE  Moves(st, st)
<1>1. Len(st.q) \in Nat
  BY LenProperties DEF States
<1> QED
  BY <1>1 DEF Moves, Adds

LEMMA MovesMove ==
    ASSUME NEW st \in States, NEW u, NEW v, Moves(st, u), Moves(u, v)
    PROVE  Moves(st, v)
<1>1. Len(st.q) \in Nat /\ Len(u.q) \in Nat /\ Len(v.q) \in Nat
  BY LenProperties DEF States, Moves
<1>2. Adds(st.q, u.q) /\ Adds(u.q, v.q)
  BY DEF Moves
<1>3. Adds(st.q, v.q)
  <2>1. Len(v.q) >= Len(st.q)
    BY <1>1, <1>2 DEF Adds
  <2>2. ASSUME NEW i \in 1 .. Len(st.q) PROVE v.q[i] = st.q[i]
    <3>1. i \in 1 .. Len(u.q)
      BY <1>1, <1>2 DEF Adds
    <3> QED
      BY <1>2, <3>1 DEF Adds
  <2>3. ASSUME NEW i \in Len(st.q) + 1 .. Len(v.q) 
        PROVE  /\ v.q[i].t \in {"data", "adjust"}
               /\ v.q[i].t # "data" => v.q[i].bytes = <<>>
    <3>1. CASE i \in 1 .. Len(u.q)
      <4>1. v.q[i] = u.q[i] /\ i \in Len(st.q) + 1 .. Len(u.q)
        BY <1>1, <1>2, <3>1 DEF Adds
      <4> QED
        BY <1>2, <4>1 DEF Adds
    <3>2. CASE i \notin 1 .. Len(u.q)
      <4>1. i \in Len(u.q) + 1 .. Len(v.q)
        BY <1>1, <3>2
      <4> QED
        BY <1>2, <4>1 DEF Adds
    <3> QED
      BY <3>1, <3>2
  <2> QED
    BY <2>1, <2>2, <2>3 DEF Adds
<1> QED
  BY <1>3 DEF Moves

LEMMA DataMessage ==
    ASSUME NEW b \in Seq(Nat)
    PROVE  /\ DataMsg(b) \in Messages /\ DataMsg(b).t = "data" /\ DataMsg(b).bytes = b
           /\ Worth(DataMsg(b), Grants) = 0
BY DEF DataMsg, Messages, Worth, Grants

(* ssh2_try_send() leaves nothing in the outbuffer that the window allows   *)
(* to be sent.                                                              *)
LEMMA TrySendMoves ==
    ASSUME Ssh2ChannelsAssumption, NEW st \in States
    PROVE  /\ Moves(st, TrySend(st))
           /\ TrySend(st).r.frozen = st.r.frozen
           /\ TrySend(st).r.throttled = st.r.throttled
           /\ TrySend(st).r.missed = st.r.missed
           /\ Written(TrySend(st)) = Written(st)
           /\ TrySend(st).r.outbuffer # <<>> => TrySend(st).r.remwindow = 0
           /\ st.r.outbuffer # <<>> /\ st.r.remwindow = 0 => TrySend(st) = st
<1> DEFINE o == st.r.outbuffer
           w == st.r.remwindow
           n == IF w < Len(o) THEN w ELSE Len(o)
           rest == [st.r EXCEPT !.outbuffer = SubSeq(@, n + 1, Len(@)),
                                !.remwindow = @ - n]
           m == DataMsg(SubSeq(o, 1, n))
           u == TrySend(st)
<1>1. /\ o \in Seq(Nat) /\ Len(o) \in Nat /\ w \in Unsigned /\ w \in Nat
      /\ st.r \in Channels /\ st.q \in Seq(Messages)
  <2>1. st.r \in Channels /\ st.q \in Seq(Messages)
    BY DEF States
  <2>2. o \in Seq(Nat) /\ w \in Unsigned
    BY <2>1 DEF Channels
  <2> QED
    BY <2>1, <2>2, LenProperties DEF Unsigned, Ssh2ChannelsAssumption
<1>2. CASE n = 0
  <2>1. u = st
    BY <1>2 DEF TrySend
  <2>2. o # <<>> => w = 0
    BY <1>1, <1>2, EmptySeq
  <2> HIDE DEF u
  <2> QED
    BY <2>1, <2>2, NothingMoves DEF u
<1>3. CASE n # 0
  <2>1. u = [st EXCEPT !.r = rest, !.q = Append(st.q, m)]
    BY <1>3 DEF TrySend, Send
  <2>2. n \in 0 .. Len(o) /\ n \in Nat /\ n <= w /\ w - n \in Unsigned
        /\ (w # n => Len(o) = n) /\ w # 0
    BY <1>1, <1>3 DEF Unsigned
  <2> HIDE DEF n
  <2> DEFINE a == SubSeq(o, 1, n)
             b == SubSeq(o, n + 1, Len(o))
  <2>3. a \in Seq(Nat) /\ b \in Seq(Nat) /\ Len(a) = n /\ Len(b) = Len(o) - n /\ Cat(a, b) = o
    BY <1>1, <2>2, SplitSeq
  <2>4. rest = [st.r EXCEPT !.outbuffer = b, !.remwindow = w - n]
    OBVIOUS
  <2> HIDE DEF a, b, rest
  <2>5. rest \in Channels /\ rest.outbuffer = b /\ rest.remwindow = w - n
        /\ rest.type = st.r.type /\ rest.closes = st.r.closes /\ rest.s = st.r.s
        /\ rest.ready = st.r.ready /\ rest.throttle_override = st.r.throttle_override
        /\ rest.buffer = st.r.buffer /\ rest.locwindow = st.r.locwindow
        /\ rest.out = st.r.out /\ rest.frozen = st.r.frozen
        /\ rest.throttled = st.r.throttled /\ rest.missed = st.r.missed
    BY <1>1, <2>2, <2>3, <2>4 DEF Channels
  <2>6. m \in Messages /\ m.t = "data" /\ m.bytes = a /\ Worth(m, Grants) = 0
    BY <2>3, DataMessage DEF a
  <2> HIDE DEF m
  <2>7. u.r = rest /\ u.q = Append(st.q, m) /\ u \in States
    <3>1. u.r = rest /\ u.q = Append(st.q, m)
      BY <2>1 DEF States
    <3>2. Append(st.q, m) \in Seq(Messages)
      BY <1>1, <2>6, OneMore
    <3> QED
      BY <2>1, <2>5, <3>1, <3>2 DEF States
  <2> HIDE DEF u
  <2>8. Amount(st.q, Grants) \in Nat /\ Contents(st.q) \in Seq(Nat)
        /\ Len(Contents(st.q)) \in Nat /\ Len(st.q) \in Nat
    BY <1>1, AmountNat, ContentsType, LenProperties
  <2>9. /\ Amount(u.q, Grants) = Amount(st.q, Grants)
        /\ Contents(u.q) = Cat(Contents(st.q), a)
        /\ Len(u.q) = Len(st.q) + 1 /\ u.q[Len(st.q) + 1].t = "data"
        /\ \A i \in 1 .. Len(st.q) : u.q[i] = st.q[i]
    BY <1>1, <2>6, <2>7, <2>8, OneMore
  <2>10. Adds(st.q, u.q)
    BY <2>8, <2>9 DEF Adds
  <2>11. Len(Contents(u.q)) = Len(Contents(st.q)) + n
    BY <2>3, <2>8, <2>9, LenCat
  <2>12. u.r.remwindow + Len(Contents(u.q)) = w + Len(Contents(st.q))
    BY <1>1, <2>2, <2>5, <2>7, <2>8, <2>11
  <2>13. Moves(st, u)
    BY <2>5, <2>7, <2>9, <2>10, <2>12 DEF Moves
  <2>14. Written(u) = Written(st)
    <3>1. Cat(Cat(Contents(st.q), a), b) = Cat(Contents(st.q), Cat(a, b))
      BY <2>3, <2>8, CatProperties, ZenonT(60)
    <3> QED
      BY <2>3, <2>5, <2>7, <2>9, <3>1 DEF Written
  <2>15. u.r.outbuffer # <<>> => u.r.remwindow = 0
    <3>1. CASE w = n
      BY <1>1, <2>2, <2>5, <2>7, <3>1
    <3>2. CASE w # n
      <4>1. Len(b) = 0
        BY <1>1, <2>2, <2>3, <3>2
      <4> QED
        BY <2>3, <2>5, <2>7, <4>1, EmptySeq
    <3> QED
      BY <3>1, <3>2
  <2> QED
    BY <2>2, <2>5, <2>7, <2>13, <2>14, <2>15 DEF u
<1> QED
  BY <1>2, <1>3

(* What is true of a socket once its channel is confirmed: it is throttled  *)
(* only while data waits, and data waits only for want of window.           *)
Sound(r) ==
    /\ r.throttled => r.outbuffer # <<>>
    /\ r.outbuffer # <<>> => r.remwindow = 0

Steady(r) ==
    /\ Sound(r)
    /\ r.frozen => r.throttled \/ r.throttle_override
    /\ r.missed # <<>> => r.frozen

LEMMA StateFields ==
    ASSUME NEW st \in States
    PROVE  /\ st.r \in Channels /\ st.q \in Seq(Messages) /\ Len(st.q) \in Nat
           /\ st.r.outbuffer \in Seq(Nat) /\ st.r.missed \in Seq(Nat)
           /\ st.r.buffer \in Seq(Nat) /\ st.r.out \in Nat
           /\ st.r.closes \in {0, 1} /\ st.r.type \in {"none", "dormant", "sockdata"}
           /\ st.r.s \in BOOLEAN /\ st.r.ready \in BOOLEAN
           /\ st.r.frozen \in BOOLEAN /\ st.r.throttled \in BOOLEAN
           /\ st.r.throttle_override \in BOOLEAN
           /\ st.r.remwindow \in Unsigned /\ st.r.locwindow \in Unsigned
           /\ Contents(st.q) \in Seq(Nat) /\ Written(st) \in Seq(Nat)
           /\ Held(st) \in Seq(Nat)
<1>1. st.r \in Channels /\ st.q \in Seq(Messages)
  BY DEF States
<1>2. /\ st.r.outbuffer \in Seq(Nat) /\ st.r.missed \in Seq(Nat)
      /\ st.r.buffer \in Seq(Nat) /\ st.r.out \in Nat
      /\ st.r.closes \in {0, 1} /\ st.r.type \in {"none", "dormant", "sockdata"}
      /\ st.r.s \in BOOLEAN /\ st.r.ready \in BOOLEAN
      /\ st.r.frozen \in BOOLEAN /\ st.r.throttled \in BOOLEAN
      /\ st.r.throttle_override \in BOOLEAN
      /\ st.r.remwindow \in Unsigned /\ st.r.locwindow \in Unsigned
  BY <1>1 DEF Channels
<1>3. Contents(st.q) \in Seq(Nat) /\ Len(st.q) \in Nat
  BY <1>1, ContentsType, LenProperties
<1>4. Written(st) \in Seq(Nat)
  BY <1>2, <1>3, CatProperties DEF Written
<1>5. Held(st) \in Seq(Nat)
  BY <1>2, <1>4, CatProperties DEF Held
<1> QED
  BY <1>1, <1>2, <1>3, <1>4, <1>5

LEMMA FwdWriteMoves ==
    ASSUME Ssh2ChannelsAssumption, NEW st \in States, NEW bytes \in Seq(Nat)
    PROVE  /\ Moves(st, FwdWrite(st, bytes))
           /\ FwdWrite(st, bytes).r.frozen = st.r.frozen
           /\ FwdWrite(st, bytes).r.throttled = st.r.throttled
           /\ FwdWrite(st, bytes).r.missed = st.r.missed
           /\ Written(FwdWrite(st, bytes)) = Cat(Written(st), bytes)
           /\ Sound(st.r) => Sound(FwdWrite(st, bytes).r)
           /\ FwdWrite(st, bytes).r.outbuffer # <<>> => FwdWrite(st, bytes).r.remwindow = 0
<1> DEFINE v == [st EXCEPT !.r.outbuffer = Cat(@, bytes)]
           u == TrySend(v)
<1>1. FwdWrite(st, bytes) = u
  BY Zenon DEF FwdWrite, Cat
<1>2. Cat(st.r.outbuffer, bytes) \in Seq(Nat)
  BY StateFields, CatProperties
<1>3. /\ v \in States /\ v.q = st.q /\ v.r.outbuffer = Cat(st.r.outbuffer, bytes)
      /\ v.r.type = st.r.type /\ v.r.closes = st.r.closes /\ v.r.s = st.r.s
      /\ v.r.ready = st.r.ready /\ v.r.throttle_override = st.r.throttle_override
      /\ v.r.buffer = st.r.buffer /\ v.r.locwindow = st.r.locwindow
      /\ v.r.out = st.r.out /\ v.r.frozen = st.r.frozen
      /\ v.r.throttled = st.r.throttled /\ v.r.missed = st.r.missed
      /\ v.r.remwindow = st.r.remwindow
  BY <1>2 DEF States, Channels
<1> HIDE DEF v
<1>4. /\ Moves(v, u) /\ u.r.frozen = v.r.frozen /\ u.r.throttled = v.r.throttled
      /\ u.r.missed = v.r.missed /\ Written(u) = Written(v)
      /\ u.r.outbuffer # <<>> => u.r.remwindow = 0
      /\ v.r.outbuffer # <<>> /\ v.r.remwindow = 0 => u = v
  BY <1>3, TrySendMoves
<1> HIDE DEF u
<1>5. Moves(st, u)
  BY <1>3, <1>4 DEF Moves
<1>6. Written(u) = Cat(Written(st), bytes)
  <2>1. Cat(Cat(Contents(st.q), st.r.outbuffer), bytes)
            = Cat(Contents(st.q), Cat(st.r.outbuffer, bytes))
    <3>1. Contents(st.q) \in Seq(Nat) /\ st.r.outbuffer \in Seq(Nat)
      BY StateFields
    <3> QED
      BY <3>1, CatAssociative
  <2> QED
    BY <1>3, <1>4, <2>1 DEF Written
<1>7. Sound(st.r) => Sound(u.r)
  <2>1. ASSUME Sound(st.r), u.r.throttled PROVE u.r.outbuffer # <<>>
    <3>1. st.r.outbuffer # <<>> /\ st.r.remwindow = 0
      BY <1>3, <1>4, <2>1 DEF Sound
    <3>2. Cat(st.r.outbuffer, bytes) # <<>>
      <4>1. Len(Cat(st.r.outbuffer, bytes)) = Len(st.r.outbuffer) + Len(bytes)
        BY StateFields, LenCat
      <4>2. Len(st.r.outbuffer) \in Nat \ {0} /\ Len(bytes) \in Nat /\ Len(<<>>) = 0
        BY <3>1, StateFields, EmptySeq, LenProperties
      <4> QED
        BY <4>1, <4>2
    <3> QED
      BY <1>3, <1>4, <3>1, <3>2
  <2> QED
    BY <1>4, <2>1 DEF Sound
<1> QED
  BY <1>1, <1>3, <1>4, <1>5, <1>6, <1>7

LEMMA PfdReceiveMoves ==
    ASSUME Ssh2ChannelsAssumption, NEW st \in States, NEW bytes \in Seq(Nat), st.r.ready,
           Sound(st.r)
    PROVE  /\ Moves(st, PfdReceive(st, bytes))
           /\ PfdReceive(st, bytes).r.missed = st.r.missed
           /\ Written(PfdReceive(st, bytes)) = Cat(Written(st), bytes)
           /\ Sound(PfdReceive(st, bytes).r)
           /\ PfdReceive(st, bytes).r.frozen => st.r.frozen \/ PfdReceive(st, bytes).r.throttled
           /\ st.r.frozen => PfdReceive(st, bytes).r.frozen
<1> DEFINE w == FwdWrite(st, bytes)
           u == PfdReceive(st, bytes)
<1>1. /\ Moves(st, w) /\ w.r.frozen = st.r.frozen /\ w.r.throttled = st.r.throttled
      /\ w.r.missed = st.r.missed /\ Written(w) = Cat(Written(st), bytes)
      /\ Sound(w.r)
  BY FwdWriteMoves
<1>2. u = IF w.r.outbuffer = <<>> THEN w
          ELSE [w EXCEPT !.r.throttled = TRUE, !.r.frozen = TRUE]
  BY DEF PfdReceive
<1>3. w \in States
  BY <1>1 DEF Moves
<1> HIDE DEF w, u
<1>4. CASE w.r.outbuffer = <<>>
  <2>1. u = w
    BY <1>2, <1>4
  <2> QED
    BY <1>1, <2>1 DEF u
<1>5. CASE w.r.outbuffer # <<>>
  <2>1. u = [w EXCEPT !.r.throttled = TRUE, !.r.frozen = TRUE]
    BY <1>2, <1>5
  <2>2. /\ u \in States /\ u.q = w.q /\ u.r.outbuffer = w.r.outbuffer
        /\ u.r.type = w.r.type /\ u.r.closes = w.r.closes /\ u.r.s = w.r.s
        /\ u.r.ready = w.r.ready /\ u.r.throttle_override = w.r.throttle_override
        /\ u.r.buffer = w.r.buffer /\ u.r.locwindow = w.r.locwindow
        /\ u.r.out = w.r.out /\ u.r.frozen = TRUE
        /\ u.r.throttled = TRUE /\ u.r.missed = w.r.missed
        /\ u.r.remwindow = w.r.remwindow
    BY <1>3, <2>1 DEF States, Channels
  <2>3. Moves(st, u)
    BY <1>1, <2>2 DEF Moves
  <2>4. Sound(u.r)
    BY <1>1, <1>5, <2>2 DEF Sound
  <2>5. Written(u) = Written(w)
    BY <2>2 DEF Written
  <2> QED
    BY <1>1, <2>2, <2>3, <2>4, <2>5 DEF u
<1> QED
  BY <1>4, <1>5

LEMMA ThawMoves ==
    ASSUME Ssh2ChannelsAssumption, NEW st \in States, st.r.ready, Sound(st.r),
           st.r.missed # <<>> => st.r.frozen
    PROVE  /\ Moves(st, Thaw(st))
           /\ Thaw(st).r.missed = <<>>
           /\ Held(Thaw(st)) = Held(st)
           /\ Sound(Thaw(st).r)
           /\ Thaw(st).r.frozen => Thaw(st).r.throttled
<1> DEFINE v == [st EXCEPT !.r.frozen = FALSE, !.r.missed = <<>>]
           u == Thaw(st)
<1>1. <<>> \in Seq(Nat)
  BY EmptySeq
<1>2. /\ v \in States /\ v.q = st.q /\ v.r.outbuffer = st.r.outbuffer
      /\ v.r.type = st.r.type /\ v.r.closes = st.r.closes /\ v.r.s = st.r.s
      /\ v.r.ready = st.r.ready /\ v.r.throttle_override = st.r.throttle_override
      /\ v.r.buffer = st.r.buffer /\ v.r.locwindow = st.r.locwindow
      /\ v.r.out = st.r.out /\ v.r.frozen = FALSE
      /\ v.r.throttled = st.r.throttled /\ v.r.missed = <<>>
      /\ v.r.remwindow = st.r.remwindow
  BY <1>1 DEF States, Channels
<1>3. u = IF ~st.r.frozen THEN st ELSE IF st.r.missed = <<>> THEN v
          ELSE PfdReceive(v, st.r.missed)
  BY DEF Thaw
<1> HIDE DEF v
<1>4. Moves(st, v) /\ Sound(v.r) /\ Written(v) = Written(st)
  BY <1>2, NothingMoves DEF Moves, Sound, Written
<1>5. CASE ~st.r.frozen
  <2>1. u = st /\ st.r.missed = <<>>
    BY <1>3, <1>5
  <2> HIDE DEF u
  <2> QED
    BY <1>5, <2>1, NothingMoves DEF u
<1>6. CASE st.r.frozen /\ st.r.missed = <<>>
  <2>1. u = v
    BY <1>3, <1>6
  <2> HIDE DEF u
  <2>2. Held(u) = Held(st)
    BY <1>2, <1>4, <1>6, <2>1 DEF Held
  <2> QED
    BY <1>2, <1>4, <2>1, <2>2 DEF u
<1>7. CASE st.r.frozen /\ st.r.missed # <<>>
  <2>1. u = PfdReceive(v, st.r.missed)
    BY <1>3, <1>7
  <2> HIDE DEF u
  <2>2. st.r.missed \in Seq(Nat)
    BY StateFields
  <2>3. /\ Moves(v, u) /\ u.r.missed = <<>> /\ Written(u) = Cat(Written(v), st.r.missed)
        /\ Sound(u.r) /\ (u.r.frozen => u.r.throttled)
    BY <1>2, <1>4, <2>1, <2>2, PfdReceiveMoves
  <2>4. Moves(st, u)
    BY <1>4, <2>3, MovesMove
  <2>5. Held(u) = Held(st)
    <3>1. u \in States
      BY <2>3 DEF Moves
    <3>2. Cat(Written(u), <<>>) = Written(u)
      BY <3>1, StateFields, CatProperties
    <3> QED
      BY <1>4, <2>3, <3>2 DEF Held
  <2> QED
    BY <2>3, <2>4, <2>5 DEF u
<1> QED
  BY <1>5, <1>6, <1>7

LEMMA SetFrozenMoves ==
    ASSUME Ssh2ChannelsAssumption, NEW st \in States, st.r.ready, Sound(st.r),
           st.r.missed # <<>> => st.r.frozen
    PROVE  /\ Moves(st, SetFrozen(st))
           /\ Held(SetFrozen(st)) = Held(st)
           /\ Steady(SetFrozen(st).r)
<1> DEFINE v == [st EXCEPT !.r.frozen = TRUE, !.r.missed = <<>>]
           u == SetFrozen(st)
<1>1. CASE st.r.throttled \/ st.r.throttle_override
  <2>1. u = IF st.r.frozen THEN st ELSE v
    BY <1>1 DEF SetFrozen, Freeze
  <2>2. <<>> \in Seq(Nat)
    BY EmptySeq
  <2>3. /\ v \in States /\ v.q = st.q /\ v.r.outbuffer = st.r.outbuffer
        /\ v.r.type = st.r.type /\ v.r.closes = st.r.closes /\ v.r.s = st.r.s
        /\ v.r.ready = st.r.ready /\ v.r.throttle_override = st.r.throttle_override
        /\ v.r.buffer = st.r.buffer /\ v.r.locwindow = st.r.locwindow
        /\ v.r.out = st.r.out /\ v.r.frozen = TRUE
        /\ v.r.throttled = st.r.throttled /\ v.r.missed = <<>>
        /\ v.r.remwindow = st.r.remwindow
    BY <2>2 DEF States, Channels
  <2> HIDE DEF v
  <2>4. CASE st.r.frozen
    <3>1. u = st
      BY <2>1, <2>4
    <3>2. Steady(st.r)
      BY <1>1, <2>4 DEF Steady
    <3> HIDE DEF u
    <3> QED
      BY <3>1, <3>2, NothingMoves DEF u
  <2>5. CASE ~st.r.frozen
    <3>1. u = v
      BY <2>1, <2>5
    <3> HIDE DEF u
    <3>2. Moves(st, u) /\ Sound(u.r) /\ Written(u) = Written(st)
      BY <2>3, <3>1, NothingMoves DEF Moves, Sound, Written
    <3>3. Held(u) = Held(st)
      BY <2>3, <2>5, <3>1, <3>2 DEF Held
    <3>4. Steady(u.r)
      BY <1>1, <2>3, <3>1, <3>2 DEF Steady
    <3> QED
      BY <3>2, <3>3, <3>4 DEF u
  <2> QED
    BY <2>4, <2>5
<1>2. CASE ~(st.r.throttled \/ st.r.throttle_override)
  <2>1. u = Thaw(st)
    BY <1>2 DEF SetFrozen
  <2> HIDE DEF u
  <2>2. /\ Moves(st, u) /\ u.r.missed = <<>> /\ Held(u) = Held(st) /\ Sound(u.r)
        /\ u.r.frozen => u.r.throttled
    BY <2>1, ThawMoves
  <2>3. Steady(u.r)
    BY <2>2 DEF Steady
  <2> QED
    BY <2>2, <2>3 DEF u
<1> QED
  BY <1>1, <1>2

LEMMA PfdUnthrottleMoves ==
    ASSUME Ssh2ChannelsAssumption, NEW st \in States, st.r.ready, st.r.s, Sound(st.r),
           st.r.missed # <<>> => st.r.frozen
    PROVE  /\ Moves(st, PfdUnthrottle(st))
           /\ Held(PfdUnthrottle(st)) = Held(st)
           /\ Steady(PfdUnthrottle(st).r)
<1> DEFINE v == [st EXCEPT !.r.throttled = FALSE]
           u == SetFrozen(v)
<1>1. PfdUnthrottle(st) = u
  BY DEF PfdUnthrottle
<1>2. /\ v \in States /\ v.q = st.q /\ v.r.outbuffer = st.r.outbuffer
      /\ v.r.type = st.r.type /\ v.r.closes = st.r.closes /\ v.r.s = st.r.s
      /\ v.r.ready = st.r.ready /\ v.r.throttle_override = st.r.throttle_override
      /\ v.r.buffer = st.r.buffer /\ v.r.locwindow = st.r.locwindow
      /\ v.r.out = st.r.out /\ v.r.frozen = st.r.frozen
      /\ v.r.throttled = FALSE /\ v.r.missed = st.r.missed
      /\ v.r.remwindow = st.r.remwindow
  BY DEF States, Channels
<1> HIDE DEF v
<1>3. Moves(st, v) /\ Sound(v.r) /\ Held(v) = Held(st)
  BY <1>2, NothingMoves DEF Moves, Sound, Written, Held
<1>4. Moves(v, u) /\ Held(u) = Held(v) /\ Steady(u.r)
  BY <1>2, <1>3, SetFrozenMoves
<1> HIDE DEF u
<1>5. Moves(st, u)
  BY <1>3, <1>4, MovesMove
<1> QED
  BY <1>1, <1>3, <1>4, <1>5

LEMMA PfdOverrideMoves ==
    ASSUME Ssh2ChannelsAssumption, NEW st \in States, NEW enable \in BOOLEAN,
           st.r.ready, st.r.s, Steady(st.r)
    PROVE  /\ Moves([st EXCEPT !.r.throttle_override = enable], PfdOverride(st, enable))
           /\ Held(PfdOverride(st, enable)) = Held(st)
           /\ Steady(PfdOverride(st, enable).r)
           /\ [st EXCEPT !.r.throttle_override = enable] \in States
<1> DEFINE v == [st EXCEPT !.r.throttle_override = enable]
           u == SetFrozen(v)
<1>1. PfdOverride(st, enable) = u
  BY DEF PfdOverride
<1>2. /\ v \in States /\ v.q = st.q /\ v.r.outbuffer = st.r.outbuffer
      /\ v.r.ready = st.r.ready /\ v.r.frozen = st.r.frozen
      /\ v.r.throttled = st.r.throttled /\ v.r.missed = st.r.missed
      /\ v.r.remwindow = st.r.remwindow
  BY DEF States, Channels
<1> HIDE DEF v
<1>3. Sound(v.r) /\ Held(v) = Held(st) /\ (v.r.missed # <<>> => v.r.frozen)
  BY <1>2 DEF Sound, Steady, Written, Held
<1>4. Moves(v, u) /\ Held(u) = Held(v) /\ Steady(u.r)
  BY <1>2, <1>3, SetFrozenMoves
<1> HIDE DEF u
<1> QED
  BY <1>1, <1>2, <1>3, <1>4 DEF v

LEMMA TrySendAndUnthrottleMoves ==
    ASSUME Ssh2ChannelsAssumption, NEW st \in States, st.r.ready, st.r.s, st.r.closes = 0,
           st.r.throttled => st.r.outbuffer # <<>>,
           st.r.frozen => st.r.throttled \/ st.r.throttle_override,
           st.r.missed # <<>> => st.r.frozen
    PROVE  /\ Moves(st, TrySendAndUnthrottle(st))
           /\ Held(TrySendAndUnthrottle(st)) = Held(st)
           /\ Steady(TrySendAndUnthrottle(st).r)
<1> DEFINE v == TrySend(st)
           u == TrySendAndUnthrottle(st)
<1>1. u = IF v.r.outbuffer = <<>> THEN PfdUnthrottle(v) ELSE v
  BY DEF TrySendAndUnthrottle
<1>2. /\ Moves(st, v) /\ v.r.frozen = st.r.frozen /\ v.r.throttled = st.r.throttled
      /\ v.r.missed = st.r.missed /\ Written(v) = Written(st)
      /\ v.r.outbuffer # <<>> => v.r.remwindow = 0
  BY TrySendMoves
<1> HIDE DEF u, v
<1>3. /\ v \in States /\ v.r.ready = st.r.ready /\ v.r.s = st.r.s
      /\ v.r.throttle_override = st.r.throttle_override
  BY <1>2 DEF Moves
<1>4. Held(v) = Held(st)
  BY <1>2 DEF Held
<1>5. CASE v.r.outbuffer = <<>>
  <2>1. u = SetFrozen([v EXCEPT !.r.throttled = FALSE])
    BY <1>1, <1>3, <1>5 DEF PfdUnthrottle
  <2> DEFINE w == [v EXCEPT !.r.throttled = FALSE]
  <2>2. /\ w \in States /\ w.q = v.q /\ w.r.outbuffer = v.r.outbuffer
        /\ w.r.type = v.r.type /\ w.r.closes = v.r.closes /\ w.r.s = v.r.s
        /\ w.r.ready = v.r.ready /\ w.r.throttle_override = v.r.throttle_override
        /\ w.r.buffer = v.r.buffer /\ w.r.locwindow = v.r.locwindow
        /\ w.r.out = v.r.out /\ w.r.frozen = v.r.frozen
        /\ w.r.throttled = FALSE /\ w.r.missed = v.r.missed
        /\ w.r.remwindow = v.r.remwindow
    BY <1>3 DEF States, Channels
  <2> HIDE DEF w
  <2>3. Moves(v, w) /\ Sound(w.r) /\ Held(w) = Held(v)
    BY <1>3, <1>5, <2>2, NothingMoves DEF Moves, Sound, Written, Held
  <2>4. Moves(w, u) /\ Held(u) = Held(w) /\ Steady(u.r)
    BY <1>2, <1>3, <2>1, <2>2, <2>3, SetFrozenMoves DEF w
  <2>5. Moves(st, u)
    BY <1>2, <1>3, <2>2, <2>3, <2>4, MovesMove
  <2> QED
    BY <1>4, <2>3, <2>4, <2>5 DEF u
<1>6. CASE v.r.outbuffer # <<>>
  <2>1. u = v
    BY <1>1, <1>6
  <2>2. Steady(v.r)
    BY <1>2, <1>3, <1>6 DEF Steady, Sound
  <2> QED
    BY <1>2, <1>4, <2>1, <2>2 DEF u
<1> QED
  BY <1>5, <1>6

(* pfd_confirm() makes the socket ready and lets go what it has kept. *)
Ready(st) == [st EXCEPT !.r.ready = TRUE, !.r.buffer = <<>>]

LEMMA PfdConfirmMoves ==
    ASSUME Ssh2ChannelsAssumption, NEW st \in States, st.r.s,
           ~st.r.throttled, st.r.outbuffer = <<>>, st.r.missed # <<>> => st.r.frozen
    PROVE  /\ Ready(st) \in States
           /\ Moves(Ready(st), PfdConfirm(st))
           /\ st.r.buffer = <<>> => Held(PfdConfirm(st)) = Held(st)
           /\ Steady(PfdConfirm(st).r)
<1> DEFINE v == Ready(st)
           w == [st EXCEPT !.r.ready = TRUE]
           t == Thaw(w)
           x == [t EXCEPT !.r.buffer = <<>>]
           u == PfdConfirm(st)
<1>0. <<>> \in Seq(Nat)
  BY EmptySeq
<1>1. /\ v \in States /\ v.q = st.q /\ v.r.outbuffer = st.r.outbuffer
      /\ v.r.type = st.r.type /\ v.r.closes = st.r.closes /\ v.r.s = st.r.s
      /\ v.r.ready = TRUE /\ v.r.throttle_override = st.r.throttle_override
      /\ v.r.buffer = <<>> /\ v.r.locwindow = st.r.locwindow
      /\ v.r.out = st.r.out /\ v.r.remwindow = st.r.remwindow
  BY <1>0 DEF States, Channels, Ready
<1> HIDE DEF v
<1>2. /\ w \in States /\ w.q = st.q /\ w.r.outbuffer = st.r.outbuffer
      /\ w.r.type = st.r.type /\ w.r.closes = st.r.closes /\ w.r.s = st.r.s
      /\ w.r.ready = TRUE /\ w.r.throttle_override = st.r.throttle_override
      /\ w.r.buffer = st.r.buffer /\ w.r.locwindow = st.r.locwindow
      /\ w.r.out = st.r.out /\ w.r.remwindow = st.r.remwindow
      /\ w.r.frozen = st.r.frozen /\ w.r.throttled = st.r.throttled
      /\ w.r.missed = st.r.missed
  BY DEF States, Channels
<1>3. u = IF t.r.buffer = <<>> THEN t ELSE FwdWrite(x, t.r.buffer)
  BY DEF PfdConfirm
<1> HIDE DEF w
<1>4. Sound(w.r) /\ Held(w) = Held(st)
  BY <1>2 DEF Sound, Held, Written
<1>5. /\ Moves(w, t) /\ t.r.missed = <<>> /\ Held(t) = Held(w) /\ Sound(t.r)
      /\ t.r.frozen => t.r.throttled
  BY <1>2, <1>4, ThawMoves
<1> HIDE DEF t, u
<1>6. t \in States /\ t.r.buffer = st.r.buffer
  BY <1>2, <1>5 DEF Moves
<1>7. Steady(t.r)
  BY <1>5 DEF Steady
<1>8. CASE t.r.buffer = <<>>
  <2>1. u = t
    BY <1>3, <1>8
  <2>2. Moves(v, t)
    BY <1>1, <1>2, <1>5, <1>8 DEF Moves
  <2> HIDE DEF x
  <2> QED
    BY <1>1, <1>4, <1>5, <1>7, <2>1, <2>2 DEF u, v
<1>9. CASE t.r.buffer # <<>>
  <2>1. /\ x \in States /\ x.q = t.q /\ x.r.outbuffer = t.r.outbuffer
        /\ x.r.type = t.r.type /\ x.r.closes = t.r.closes /\ x.r.s = t.r.s
        /\ x.r.ready = t.r.ready /\ x.r.throttle_override = t.r.throttle_override
        /\ x.r.buffer = <<>> /\ x.r.locwindow = t.r.locwindow
        /\ x.r.out = t.r.out /\ x.r.remwindow = t.r.remwindow
        /\ x.r.frozen = t.r.frozen /\ x.r.throttled = t.r.throttled
        /\ x.r.missed = t.r.missed
    BY <1>0, <1>6 DEF States, Channels
  <2> HIDE DEF x
  <2>2. Moves(v, x)
    <3>1. /\ t.r.type = w.r.type /\ t.r.closes = w.r.closes /\ t.r.s = w.r.s
          /\ t.r.ready = w.r.ready /\ t.r.throttle_override = w.r.throttle_override
          /\ t.r.locwindow = w.r.locwindow /\ t.r.out = w.r.out
          /\ Adds(w.q, t.q) /\ Amount(t.q, Grants) = Amount(w.q, Grants)
          /\ t.r.remwindow + Len(Contents(t.q)) = w.r.remwindow + Len(Contents(w.q))
      BY <1>5 DEF Moves
    <3> HIDE DEF t
    <3>2. /\ x.r.type = v.r.type /\ x.r.closes = v.r.closes /\ x.r.s = v.r.s
          /\ x.r.ready = v.r.ready /\ x.r.throttle_override = v.r.throttle_override
          /\ x.r.buffer = v.r.buffer
          /\ x.r.locwindow = v.r.locwindow /\ x.r.out = v.r.out
      BY <1>1, <1>2, <2>1, <3>1, ZenonT(60)
    <3>3. v.q = w.q /\ v.r.remwindow = w.r.remwindow /\ x.q = t.q
          /\ x.r.remwindow = t.r.remwindow
      BY <1>1, <1>2, <2>1
    <3>4. /\ Adds(v.q, x.q) /\ Amount(x.q, Grants) = Amount(v.q, Grants)
          /\ x.r.remwindow + Len(Contents(x.q)) = v.r.remwindow + Len(Contents(v.q))
      BY <3>1, <3>3
    <3> QED
      BY <2>1, <3>2, <3>4 DEF Moves
  <2>3. t.r.buffer \in Seq(Nat)
    BY <1>6, StateFields
  <2>4. u = FwdWrite(x, t.r.buffer)
    BY <1>3, <1>9
  <2>5. /\ Moves(x, u) /\ u.r.frozen = x.r.frozen /\ u.r.throttled = x.r.throttled
        /\ u.r.missed = x.r.missed /\ (Sound(x.r) => Sound(u.r))
    BY <2>1, <2>3, <2>4, FwdWriteMoves
  <2>6. Sound(x.r)
    BY <1>5, <2>1 DEF Sound
  <2>7. Steady(u.r)
    BY <1>5, <2>1, <2>5, <2>6 DEF Steady
  <2>8. Moves(v, u)
    BY <1>1, <2>1, <2>2, <2>5, MovesMove
  <2> QED
    BY <1>1, <1>6, <1>9, <2>7, <2>8 DEF u, v
<1> QED
  BY <1>8, <1>9

-------------------------------------------------------------------------------
(* The inductive invariant: what relates a channel r, the messages q to and *)
(* p from its server, the server's end v of it, th (whether all are         *)
(* throttled), and the number a of bytes the application has written.       *)

Ends(q) == q # <<>> /\ q[Len(q)].t = "close"

(* What the program sends on a channel that the server knows of. *)
Up(q, asking) ==
    /\ asking => q # <<>> /\ q[1].t = "confirm"
    /\ \A i \in 1 .. Len(q) : (asking => i # 1) => q[i].t \in {"data", "adjust", "close"}
    /\ \A i \in 1 .. Len(q) - 1 : q[i].t # "close"

(* What the server sends, from the k-th message on. *)
Down(p, k, closed) ==
    /\ \A i \in k .. Len(p) : p[i].t \in {"data", "adjust", "eof", "close"}
    /\ \A i \in 1 .. Len(p) - 1 : p[i].t # "close"
    /\ closed <=> Ends(p)

(* The phases of a channel's life. *)
Idle(r, q, p, v) ==
    r.type = "none" /\ q = <<>> /\ p = <<>> /\ v.state = "none"

Asked(r, q, p, v) ==
    /\ r.type = "dormant" /\ p = <<>> /\ v.state = "none"
    /\ Len(q) = 1 /\ q[1].t = "open"

Declined(r, q, p, v) ==
    /\ r.type = "dormant" /\ q = <<>> /\ v.state = "none"
    /\ Len(p) = 1 /\ p[1].t = "failure"

Accepted(r, q, p, v) ==
    /\ r.type = "dormant" /\ q = <<>> /\ v.state = "open" /\ ~v.gotClose
    /\ p # <<>> /\ p[1].t = "confirm" /\ p[1].n <= MaxWindow
    /\ Down(p, 2, v.sentClose)

Joined(r, q, p, v) ==
    /\ r.type = "sockdata" /\ v.state \in {"asking", "open"} /\ ~v.gotClose
    /\ Up(q, v.state = "asking") /\ (Ends(q) <=> r.closes = 1)
    /\ Down(p, 1, v.sentClose)
    /\ v.state = "asking" => p = <<>>

HalfClosed(r, q, p, v) ==
    /\ r.type = "sockdata" /\ r.closes = 1 /\ q = <<>>
    /\ v.state = "open" /\ v.gotClose /\ ~v.sentClose
    /\ Down(p, 1, FALSE)

Forgotten(r, q, p, v) ==
    /\ r.type = "sockdata" /\ r.closes = 1 /\ q = <<>> /\ v.state = "none"
    /\ Down(p, 1, TRUE)

Deleted(r, q, p, v) ==
    /\ r.type = "none" /\ p = <<>>
    /\ v.state = "open" /\ v.sentClose /\ ~v.gotClose
    /\ Up(q, FALSE) /\ Ends(q)

Phase(r, q, p, v) ==
    \/ Idle(r, q, p, v) \/ Asked(r, q, p, v) \/ Declined(r, q, p, v)
    \/ Accepted(r, q, p, v) \/ Joined(r, q, p, v) \/ HalfClosed(r, q, p, v)
    \/ Forgotten(r, q, p, v) \/ Deleted(r, q, p, v)

(* The server's end has forgotten the channel's last use. *)
Fresh(v) ==
    /\ v.state = "none" => ~v.gotClose /\ ~v.sentClose /\ v.inwin = 0 /\ v.got = <<>>
    /\ v.state \in {"none", "asking"} => v.outwin = 0

(* Only data messages carry bytes. *)
Blank(q) == \A i \in 1 .. Len(q) : q[i].t # "data" => q[i].bytes = <<>>

(* The socket of a channel that is not closed, and why it is frozen. *)
Plugged(r, th) ==
    /\ r.s <=> r.type # "none" /\ r.closes = 0
    /\ r.type = "none" => r.closes = 0
    /\ r.s /\ r.type = "dormant" =>
         /\ r.frozen /\ ~r.throttled /\ ~r.throttle_override
         /\ r.outbuffer = <<>> /\ r.remwindow = 0
         /\ r.locwindow = OUR_V2_WINSIZE /\ r.out <= OUR_V2_WINSIZE
    /\ r.s /\ r.type = "sockdata" =>
         r.ready /\ r.buffer = <<>> /\ Steady(r) /\ (r.throttle_override => th)

(* The window given to the program: the server has room for what comes.     *)
Takes == {"confirm", "adjust"}

Room(r, q, p, v) ==
    /\ v.inwin <= MaxWindow
    /\ Len(Contents(q)) <= v.inwin
    /\ r.s => v.inwin = r.remwindow + Amount(p, Takes) + Len(Contents(q))

(* The window given to the server. *)
Fits(r, q, p, v) ==
    Replies \subseteq {0} /\ r.s /\ ~Declined(r, q, p, v) =>
        /\ r.locwindow = v.outwin + Amount(q, Grants) + Amount(p, {"data"})
        /\ r.locwindow + r.out <= OUR_V2_WINSIZE

(* The application's bytes. *)
Whole(r, q, p, v, a) ==
    Leftovers \subseteq {0} /\ r.s /\ ~Declined(r, q, p, v) =>
        /\ r.buffer = <<>>
        /\ Cat(v.got, Cat(Cat(Contents(q), r.outbuffer), r.missed)) = Run(0, a)

Good(r, q, p, v, th, a) ==
    /\ Phase(r, q, p, v) /\ Fresh(v) /\ Blank(q) /\ Plugged(r, th)
    /\ Room(r, q, p, v) /\ Fits(r, q, p, v) /\ Whole(r, q, p, v, a)

IInv ==
    /\ TypeOK
    /\ ~fault
    /\ \A c \in Chan :
         Good(channel[c], toServer[c], toClient[c], srv[c], throttled_all, app[c])

-------------------------------------------------------------------------------
(* What the invariant allows to be done to a channel.                       *)

LEMMA EmptyMessage ==
    ASSUME NEW q \in Seq(Messages), NEW m \in Messages, m.bytes = <<>>
    PROVE  Contents(Append(q, m)) = Contents(q)
<1>1. Contents(Append(q, m)) = Cat(Contents(q), <<>>)
  BY OneMore
<1>2. Cat(Contents(q), <<>>) = Contents(q)
  BY ContentsType, CatProperties
<1> QED
  BY <1>1, <1>2

LEMMA MsgType ==
    ASSUME NEW t \in {"open", "confirm", "failure", "data", "adjust", "eof", "close"},
           NEW n \in Nat
    PROVE  /\ Msg(t, n) \in Messages /\ Msg(t, n).t = t /\ Msg(t, n).n = n
           /\ Msg(t, n).bytes = <<>>
<1>1. <<>> \in Seq(Nat)
  BY EmptySeq
<1> QED
  BY <1>1 DEF Msg, Messages

(* Data and adjustments may be added as long as the channel is not closed.  *)
LEMMA PhaseAdds ==
    ASSUME NEW r, NEW q \in Seq(Messages), NEW p, NEW v, Phase(r, q, p, v),
           r.type = "sockdata", r.closes = 0,
           NEW u, u.type = r.type, u.closes = r.closes,
           NEW w \in Seq(Messages), Adds(q, w)
    PROVE  Phase(u, w, p, v)
<1>1. Joined(r, q, p, v)
  BY DEF Phase, Idle, Asked, Declined, Accepted, HalfClosed, Forgotten, Deleted
<1>2. Len(q) \in Nat /\ Len(w) \in Nat /\ Len(w) >= Len(q)
  BY LenProperties DEF Adds
<1>3. ~Ends(q)
  BY <1>1 DEF Joined
<1>4. Up(w, v.state = "asking")
  <2>1. Up(q, v.state = "asking")
    BY <1>1 DEF Joined
  <2>2. ASSUME v.state = "asking" PROVE w # <<>> /\ w[1].t = "confirm"
    <3>1. q # <<>> /\ q[1].t = "confirm"
      BY <2>1, <2>2 DEF Up
    <3>2. 1 \in 1 .. Len(q)
      BY <1>2, <3>1, EmptySeq
    <3>3. w[1] = q[1] /\ Len(w) # 0
      BY <1>2, <3>2 DEF Adds
    <3> QED
      BY <3>1, <3>3, EmptySeq
  <2>3. ASSUME NEW i \in 1 .. Len(w), v.state = "asking" => i # 1
        PROVE  w[i].t \in {"data", "adjust", "close"}
    <3>1. CASE i \in 1 .. Len(q)
      BY <2>1, <2>3, <3>1 DEF Up, Adds
    <3>2. CASE i \notin 1 .. Len(q)
      <4>1. i \in Len(q) + 1 .. Len(w)
        BY <1>2, <3>2
      <4> QED
        BY <4>1 DEF Adds
    <3> QED
      BY <3>1, <3>2
  <2>4. ASSUME NEW i \in 1 .. Len(w) - 1 PROVE w[i].t # "close"
    <3>1. CASE i \in 1 .. Len(q) - 1
      <4>1. i \in 1 .. Len(q)
        BY <1>2, <3>1
      <4> QED
        BY <2>1, <3>1, <4>1 DEF Up, Adds
    <3>2. CASE i = Len(q)
      <4>1. q # <<>> /\ i \in 1 .. Len(q)
        BY <1>2, <3>2, EmptySeq
      <4>2. q[i].t # "close" /\ w[i] = q[i]
        BY <1>3, <3>2, <4>1 DEF Ends, Adds
      <4> QED
        BY <4>2
    <3>3. CASE i > Len(q)
      <4>1. i \in Len(q) + 1 .. Len(w)
        BY <1>2, <3>3
      <4> QED
        BY <4>1 DEF Adds
    <3> QED
      BY <1>2, <3>1, <3>2, <3>3
  <2> QED
    BY <2>2, <2>3, <2>4 DEF Up
<1>5. ~Ends(w)
  <2>1. SUFFICES ASSUME w # <<>> PROVE w[Len(w)].t # "close"
    BY DEF Ends
  <2>2. Len(w) # 0
    BY <2>1, EmptySeq
  <2>3. CASE Len(w) = Len(q)
    <3>1. q # <<>> /\ Len(q) \in 1 .. Len(q)
      BY <1>2, <2>2, <2>3, EmptySeq
    <3>2. q[Len(q)].t # "close"
      BY <1>3, <3>1 DEF Ends
    <3>3. w[Len(q)] = q[Len(q)]
      BY <3>1 DEF Adds
    <3> QED
      BY <2>3, <3>2, <3>3
  <2>4. CASE Len(w) # Len(q)
    <3>1. Len(w) \in Len(q) + 1 .. Len(w)
      BY <1>2, <2>4
    <3> QED
      BY <3>1 DEF Adds
  <2> QED
    BY <2>3, <2>4
<1>6. Joined(u, w, p, v)
  BY <1>1, <1>3, <1>4, <1>5 DEF Joined
<1> QED
  BY <1>6 DEF Phase

LEMMA GoodMoves ==
    ASSUME Ssh2ChannelsAssumption, NEW st \in States, NEW u, NEW th,
           NEW p \in Seq(Messages), NEW v \in Servers, NEW a \in Nat,
           Phase(st.r, st.q, p, v), Fresh(v), Blank(st.q), Room(st.r, st.q, p, v),
           Fits(st.r, st.q, p, v), st.r.s, st.r.type = "sockdata", st.r.closes = 0,
           st.r.ready, st.r.buffer = <<>>, Moves(st, u), Steady(u.r),
           u.r.throttle_override => th,
           Leftovers \subseteq {0} => Cat(v.got, Held(u)) = Run(0, a)
    PROVE  Good(u.r, u.q, p, v, th, a)
<1>1. /\ u \in States /\ u.r.type = "sockdata" /\ u.r.closes = 0 /\ u.r.s
      /\ u.r.ready /\ u.r.buffer = <<>> /\ u.r.locwindow = st.r.locwindow
      /\ u.r.out = st.r.out /\ Adds(st.q, u.q)
      /\ Amount(u.q, Grants) = Amount(st.q, Grants)
      /\ u.r.remwindow + Len(Contents(u.q)) = st.r.remwindow + Len(Contents(st.q))
  BY DEF Moves
<1>2. st.q \in Seq(Messages) /\ u.q \in Seq(Messages)
  BY <1>1, StateFields
<1>3. Phase(u.r, u.q, p, v)
  BY <1>1, <1>2, PhaseAdds
<1>4. Plugged(u.r, th)
  BY <1>1 DEF Plugged
<1>5. Room(u.r, u.q, p, v)
  <2>1. /\ Len(Contents(u.q)) \in Nat /\ Len(Contents(st.q)) \in Nat
        /\ Amount(p, Takes) \in Nat
    BY <1>2, ContentsType, AmountNat
  <2>2. u.r.remwindow \in Nat /\ st.r.remwindow \in Nat
    <3>1. u.r.remwindow \in Unsigned /\ st.r.remwindow \in Unsigned
      BY <1>1, StateFields
    <3> QED
      BY <3>1 DEF Unsigned
  <2>3. v.inwin \in Nat
    BY DEF Servers
  <2>4. v.inwin = st.r.remwindow + Amount(p, Takes) + Len(Contents(st.q))
    BY DEF Room
  <2>5. v.inwin = u.r.remwindow + Amount(p, Takes) + Len(Contents(u.q))
    <3>1. u.r.remwindow + Len(Contents(u.q)) = st.r.remwindow + Len(Contents(st.q))
      BY <1>1
    <3> DEFINE i == v.inwin
               x == u.r.remwindow
               y == st.r.remwindow
               z == Amount(p, Takes)
               k == Len(Contents(u.q))
               l == Len(Contents(st.q))
    <3>2. i \in Nat /\ x \in Nat /\ y \in Nat /\ z \in Nat /\ k \in Nat /\ l \in Nat
      BY <2>1, <2>2, <2>3
    <3>3. i = y + z + l /\ x + k = y + l
      BY <2>4, <3>1
    <3> HIDE DEF i, x, y, z, k, l
    <3>4. i = x + z + k
      BY <3>2, <3>3
    <3> QED
      BY <3>4 DEF i, x, z, k
  <2>6. Len(Contents(u.q)) <= v.inwin
    BY <2>1, <2>2, <2>5
  <2> QED
    BY <2>5, <2>6 DEF Room
<1>6. Declined(u.r, u.q, p, v) = FALSE /\ Declined(st.r, st.q, p, v) = FALSE
  BY <1>1 DEF Declined
<1>7. Fits(u.r, u.q, p, v)
  BY <1>1, <1>6 DEF Fits
<1>8. Whole(u.r, u.q, p, v, a)
  BY <1>1 DEF Whole, Held, Written
<1>9. Blank(u.q)
  <2>1. Len(st.q) \in Nat /\ Len(u.q) \in Nat
    BY <1>2, LenProperties
  <2>2. ASSUME NEW i \in 1 .. Len(u.q), u.q[i].t # "data" PROVE u.q[i].bytes = <<>>
    <3>1. CASE i \in 1 .. Len(st.q)
      BY <1>1, <2>2, <3>1 DEF Adds, Blank
    <3>2. CASE i \notin 1 .. Len(st.q)
      <4>1. i \in Len(st.q) + 1 .. Len(u.q)
        BY <2>1, <3>2
      <4> QED
        BY <1>1, <2>2, <4>1 DEF Adds
    <3> QED
      BY <3>1, <3>2
  <2> QED
    BY <2>2 DEF Blank
<1> QED
  BY <1>3, <1>4, <1>5, <1>7, <1>8, <1>9 DEF Good

(* The invariant from its parts: a step that only concerns channel c.       *)
LEMMA OneStep ==
    ASSUME IInv, TypeOK', ~fault', NEW c \in Chan, throttled_all' = throttled_all,
           \A d \in Chan : d # c =>
               /\ channel'[d] = channel[d] /\ toServer'[d] = toServer[d]
               /\ toClient'[d] = toClient[d] /\ srv'[d] = srv[d] /\ app'[d] = app[d],
           Good(channel'[c], toServer'[c], toClient'[c], srv'[c], throttled_all, app'[c])
    PROVE  IInv'
<1>1. ASSUME NEW d \in Chan
      PROVE  Good(channel'[d], toServer'[d], toClient'[d], srv'[d], throttled_all', app'[d])
  <2>1. CASE d = c
    BY <2>1
  <2>2. CASE d # c
    <3>1. Good(channel[d], toServer[d], toClient[d], srv[d], throttled_all, app[d])
      BY DEF IInv
    <3> QED
      BY <2>2, <3>1
  <2> QED
    BY <2>1, <2>2
<1> QED
  BY <1>1 DEF IInv

(* What a message more or one less does to the sequences of the phases. *)

LEMMA EndsAppend ==
    ASSUME NEW q \in Seq(Messages), NEW m \in Messages
    PROVE  Ends(Append(q, m)) <=> m.t = "close"
<1> DEFINE w == Append(q, m)
<1>1. w \in Seq(Messages) /\ Len(w) = Len(q) + 1 /\ w[Len(q) + 1] = m /\ Len(q) \in Nat
  BY OneMore, LenProperties
<1> HIDE DEF w
<1>2. w # <<>>
  BY <1>1, EmptySeq
<1>3. w[Len(w)] = m
  BY <1>1
<1> QED
  BY <1>2, <1>3 DEF Ends, w

LEMMA EndsTail ==
    ASSUME NEW q \in Seq(Messages), q # <<>>, Head(q).t # "close"
    PROVE  Ends(Tail(q)) <=> Ends(q)
<1>1. /\ Tail(q) \in Seq(Messages) /\ Head(q) = q[1] /\ Len(q) \in Nat \ {0}
      /\ Len(Tail(q)) = Len(q) - 1
      /\ \A i \in 1 .. Len(Tail(q)) : Tail(q)[i] = q[i + 1]
  BY OneLess
<1> DEFINE w == Tail(q)
<1> HIDE DEF w
<1>2. CASE Len(q) = 1
  <2>0. w \in Seq(Messages) /\ Len(w) = 0
    BY <1>1, <1>2 DEF w
  <2>1. w = <<>>
    BY <2>0, EmptySeq
  <2>2. ~Ends(q)
    BY <1>1, <1>2 DEF Ends
  <2> QED
    BY <2>1, <2>2 DEF Ends, w
<1>3. CASE Len(q) # 1
  <2>1. Len(w) \in 1 .. Len(w) /\ Len(w) + 1 = Len(q) /\ Len(w) # 0
    BY <1>1, <1>3 DEF w
  <2>2. w # <<>>
    BY <2>1, EmptySeq
  <2>3. w[Len(w)] = q[Len(w) + 1]
    BY <1>1, <2>1 DEF w
  <2> QED
    BY <2>1, <2>2, <2>3 DEF Ends, w
<1> QED
  BY <1>2, <1>3

LEMMA CloseLastTail ==
    ASSUME NEW q \in Seq(Messages), q # <<>>, \A i \in 1 .. Len(q) - 1 : q[i].t # "close"
    PROVE  /\ \A i \in 1 .. Len(Tail(q)) - 1 : Tail(q)[i].t # "close"
           /\ Head(q).t = "close" => Tail(q) = <<>> /\ Ends(q)
<1>1. /\ Tail(q) \in Seq(Messages) /\ Head(q) = q[1] /\ Len(q) \in Nat \ {0}
      /\ Len(Tail(q)) = Len(q) - 1
      /\ \A i \in 1 .. Len(Tail(q)) : Tail(q)[i] = q[i + 1]
  BY OneLess
<1>2. ASSUME NEW i \in 1 .. Len(Tail(q)) - 1 PROVE Tail(q)[i].t # "close"
  <2>1. i \in 1 .. Len(Tail(q)) /\ i + 1 \in 1 .. Len(q) - 1
    BY <1>1
  <2> QED
    BY <1>1, <2>1
<1>3. ASSUME Head(q).t = "close" PROVE Tail(q) = <<>> /\ Ends(q)
  <2>1. Len(q) = 1
    <3>1. ~(1 \in 1 .. Len(q) - 1)
      BY <1>1, <1>3
    <3> QED
      BY <1>1, <3>1
  <2>2. Len(Tail(q)) = 0
    BY <1>1, <2>1
  <2> QED
    BY <1>1, <1>3, <2>1, <2>2, EmptySeq DEF Ends
<1> QED
  BY <1>2, <1>3

LEMMA DownSends ==
    ASSUME NEW p \in Seq(Messages), NEW k \in {1, 2}, Down(p, k, FALSE),
           NEW m \in Messages, m.t \in {"data", "adjust", "eof", "close"}
    PROVE  Down(Append(p, m), k, m.t = "close")
<1> DEFINE w == Append(p, m)
<1>1. /\ w \in Seq(Messages) /\ Len(w) = Len(p) + 1 /\ w[Len(p) + 1] = m
      /\ Len(p) \in Nat /\ \A i \in 1 .. Len(p) : w[i] = p[i]
  BY OneMore, LenProperties
<1>2. Ends(w) <=> m.t = "close"
  BY EndsAppend
<1> HIDE DEF w
<1>3. ASSUME NEW i \in k .. Len(w) PROVE w[i].t \in {"data", "adjust", "eof", "close"}
  <2>1. CASE i = Len(p) + 1
    BY <1>1, <2>1
  <2>2. CASE i \in k .. Len(p)
    <3>1. i \in 1 .. Len(p)
      BY <1>1, <2>2
    <3> QED
      BY <1>1, <2>2, <3>1 DEF Down
  <2> QED
    BY <1>1, <2>1, <2>2
<1>4. ASSUME NEW i \in 1 .. Len(w) - 1 PROVE w[i].t # "close"
  <2>1. i \in 1 .. Len(p)
    BY <1>1
  <2>2. CASE i = Len(p)
    <3>1. p # <<>>
      BY <1>1, <2>1, <2>2, EmptySeq
    <3> QED
      BY <1>1, <2>1, <2>2, <3>1 DEF Down, Ends
  <2>3. CASE i # Len(p)
    <3>1. i \in 1 .. Len(p) - 1
      BY <1>1, <2>1, <2>3
    <3> QED
      BY <1>1, <2>1, <3>1 DEF Down
  <2> QED
    BY <2>2, <2>3
<1> QED
  BY <1>2, <1>3, <1>4 DEF Down, w

LEMMA DownTakes ==
    ASSUME NEW p \in Seq(Messages), NEW k \in {1, 2}, NEW closed \in BOOLEAN, p # <<>>,
           Down(p, k, closed)
    PROVE  /\ Head(p).t # "close" => Down(Tail(p), 1, closed)
           /\ Head(p).t = "close" => Tail(p) = <<>> /\ closed
           /\ k = 1 => Head(p).t \in {"data", "adjust", "eof", "close"}
<1>1. /\ Tail(p) \in Seq(Messages) /\ Head(p) = p[1] /\ Len(p) \in Nat \ {0}
      /\ Len(Tail(p)) = Len(p) - 1
      /\ \A i \in 1 .. Len(Tail(p)) : Tail(p)[i] = p[i + 1]
  BY OneLess
<1>2. /\ \A i \in 1 .. Len(Tail(p)) - 1 : Tail(p)[i].t # "close"
      /\ Head(p).t = "close" => Tail(p) = <<>> /\ Ends(p)
  BY CloseLastTail DEF Down
<1>3. ASSUME NEW i \in 1 .. Len(Tail(p))
      PROVE  Tail(p)[i].t \in {"data", "adjust", "eof", "close"}
  <2>1. i + 1 \in k .. Len(p)
    BY <1>1
  <2> QED
    BY <1>1, <2>1 DEF Down
<1>4. Head(p).t # "close" => (closed <=> Ends(Tail(p)))
  BY EndsTail DEF Down
<1>5. k = 1 => Head(p).t \in {"data", "adjust", "eof", "close"}
  <2>1. 1 \in 1 .. Len(p)
    BY <1>1
  <2> QED
    BY <1>1, <2>1 DEF Down
<1> QED
  BY <1>2, <1>3, <1>4, <1>5 DEF Down

LEMMA UpTakes ==
    ASSUME NEW q \in Seq(Messages), NEW asking \in BOOLEAN, q # <<>>, Up(q, asking)
    PROVE  /\ Head(q).t \in {"confirm", "data", "adjust", "close"}
           /\ Head(q).t = "confirm" <=> asking
           /\ Up(Tail(q), FALSE)
           /\ Head(q).t # "close" => (Ends(Tail(q)) <=> Ends(q))
           /\ Head(q).t = "close" => Tail(q) = <<>> /\ Ends(q)
<1>1. /\ Tail(q) \in Seq(Messages) /\ Head(q) = q[1] /\ Len(q) \in Nat \ {0}
      /\ Len(Tail(q)) = Len(q) - 1
      /\ \A i \in 1 .. Len(Tail(q)) : Tail(q)[i] = q[i + 1]
  BY OneLess
<1>2. /\ \A i \in 1 .. Len(Tail(q)) - 1 : Tail(q)[i].t # "close"
      /\ Head(q).t = "close" => Tail(q) = <<>> /\ Ends(q)
  BY CloseLastTail DEF Up
<1>3. ASSUME NEW i \in 1 .. Len(Tail(q)) PROVE Tail(q)[i].t \in {"data", "adjust", "close"}
  <2>1. i + 1 \in 1 .. Len(q) /\ i + 1 # 1
    BY <1>1
  <2> QED
    BY <1>1, <2>1 DEF Up
<1>4. Head(q).t # "close" => (Ends(Tail(q)) <=> Ends(q))
  BY EndsTail
<1>5. /\ Head(q).t \in {"confirm", "data", "adjust", "close"}
      /\ Head(q).t = "confirm" <=> asking
  <2>1. 1 \in 1 .. Len(q)
    BY <1>1
  <2> QED
    BY <1>1, <2>1 DEF Up
<1>6. Up(Tail(q), FALSE)
  BY <1>2, <1>3 DEF Up
<1> QED
  BY <1>2, <1>4, <1>5, <1>6

LEMMA UpCloses ==
    ASSUME NEW q \in Seq(Messages), NEW asking \in BOOLEAN, Up(q, asking), ~Ends(q),
           NEW m \in Messages, m.t = "close"
    PROVE  Up(Append(q, m), asking) /\ Ends(Append(q, m))
<1> DEFINE w == Append(q, m)
<1>1. /\ w \in Seq(Messages) /\ Len(w) = Len(q) + 1 /\ w[Len(q) + 1] = m
      /\ Len(q) \in Nat /\ \A i \in 1 .. Len(q) : w[i] = q[i]
  BY OneMore, LenProperties
<1>2. Ends(w)
  BY EndsAppend
<1> HIDE DEF w
<1>3. ASSUME NEW i \in 1 .. Len(w), asking => i # 1
      PROVE  w[i].t \in {"data", "adjust", "close"}
  <2>1. CASE i = Len(q) + 1
    BY <1>1, <2>1
  <2>2. CASE i \in 1 .. Len(q)
    BY <1>1, <1>3, <2>2 DEF Up
  <2> QED
    BY <1>1, <2>1, <2>2
<1>4. ASSUME NEW i \in 1 .. Len(w) - 1 PROVE w[i].t # "close"
  <2>1. i \in 1 .. Len(q)
    BY <1>1
  <2>2. CASE i = Len(q)
    <3>1. q # <<>>
      BY <1>1, <2>1, <2>2, EmptySeq
    <3> QED
      BY <1>1, <2>1, <2>2, <3>1 DEF Ends
  <2>3. CASE i # Len(q)
    <3>1. i \in 1 .. Len(q) - 1
      BY <1>1, <2>1, <2>3
    <3> QED
      BY <1>1, <2>1, <3>1 DEF Up
  <2> QED
    BY <2>2, <2>3
<1>5. ASSUME asking PROVE w # <<>> /\ w[1].t = "confirm"
  <2>1. q # <<>> /\ q[1].t = "confirm"
    BY <1>5 DEF Up
  <2>2. 1 \in 1 .. Len(q) /\ Len(w) # 0
    BY <1>1, <2>1, EmptySeq
  <2> QED
    BY <1>1, <2>1, <2>2, EmptySeq
<1> QED
  BY <1>2, <1>3, <1>4, <1>5 DEF Up, w

-------------------------------------------------------------------------------
(* The initial states, and the server's steps.                              *)

LEMMA Here ==
    ASSUME IInv, NEW c \in Chan
    PROVE  /\ State(c) \in States /\ State(c).r = channel[c] /\ State(c).q = toServer[c]
           /\ channel[c] \in Channels /\ toServer[c] \in Seq(Messages)
           /\ toClient[c] \in Seq(Messages) /\ srv[c] \in Servers /\ app[c] \in Nat
           /\ throttled_all \in BOOLEAN
           /\ Good(channel[c], toServer[c], toClient[c], srv[c], throttled_all, app[c])
BY DEF IInv, TypeOK, State, States

LEMMA RunFacts ==
    /\ \A m, n \in Nat : Run(m, n) \in Seq(Nat) /\ Len(Run(m, n)) = n
    /\ \A m \in Nat : Run(m, 0) = <<>>
    /\ \A m, n \in Nat : Cat(Run(0, m), Run(m, n)) = Run(0, m + n)
<1>1. ASSUME NEW m \in Nat, NEW n \in Nat
      PROVE  /\ Run(m, n) \in Seq(Nat) /\ Len(Run(m, n)) = n
             /\ \A i \in 1 .. n : Run(m, n)[i] = m + i
  <2>1. Run(m, n) \in [1 .. n -> Nat] /\ DOMAIN Run(m, n) = 1 .. n
    BY DEF Run
  <2>2. Run(m, n) \in Seq(Nat)
    BY <2>1, SeqDef
  <2>3. Len(Run(m, n)) = n
    BY <2>1, <2>2, LenProperties
  <2> QED
    BY <2>2, <2>3 DEF Run
<1>2. ASSUME NEW m \in Nat PROVE Run(m, 0) = <<>>
  BY <1>1, EmptySeq
<1>3. ASSUME NEW m \in Nat, NEW n \in Nat
      PROVE  Cat(Run(0, m), Run(m, n)) = Run(0, m + n)
  <2> DEFINE s == Run(0, m)
             t == Run(m, n)
             u == Run(0, m + n)
  <2>1. m + n \in Nat /\ 0 \in Nat
    OBVIOUS
  <2>2. /\ s \in Seq(Nat) /\ Len(s) = m /\ \A i \in 1 .. m : s[i] = 0 + i
        /\ t \in Seq(Nat) /\ Len(t) = n /\ \A i \in 1 .. n : t[i] = m + i
        /\ u \in Seq(Nat) /\ Len(u) = m + n /\ \A i \in 1 .. m + n : u[i] = 0 + i
    BY <1>1, <2>1
  <2> HIDE DEF s, t, u
  <2>3. /\ s \o t \in Seq(Nat) /\ Len(s \o t) = Len(s) + Len(t)
        /\ \A i \in 1 .. Len(s) + Len(t) :
              (s \o t)[i] = IF i <= Len(s) THEN s[i] ELSE t[i - Len(s)]
    BY <2>2, ConcatProperties
  <2>4. ASSUME NEW i \in 1 .. m + n PROVE (s \o t)[i] = u[i]
    <3>1. (s \o t)[i] = IF i <= m THEN s[i] ELSE t[i - m]
      BY <2>2, <2>3
    <3>2. CASE i <= m
      <4>1. i \in 1 .. m
        BY <3>2
      <4> QED
        BY <2>2, <3>1, <4>1
    <3>3. CASE i > m
      <4>1. i - m \in 1 .. n /\ m + (i - m) = i /\ ~(i <= m)
        BY <3>3
      <4>2. t[i - m] = m + (i - m) /\ u[i] = 0 + i
        BY <2>2, <4>1
      <4> QED
        BY <3>1, <4>1, <4>2
    <3>4. i <= m \/ i > m
      OBVIOUS
    <3> QED
      BY <3>2, <3>3, <3>4, Zenon
  <2>5. s \o t = u
    <3>1. Len(s \o t) = Len(u) /\ Len(u) = m + n
      BY <2>2, <2>3
    <3> QED
      BY <2>2, <2>3, <2>4, <3>1, SeqEqual
  <2> QED
    BY <2>5 DEF Cat, s, t, u
<1> QED
  BY <1>1, <1>2, <1>3

LEMMA Initial ==
    ASSUME Ssh2ChannelsAssumption, Init
    PROVE  IInv
<1>1. /\ <<>> \in Seq(Nat) /\ <<>> \in Seq(Messages) /\ Len(<<>>) = 0
  BY EmptySeq
<1>2. NoChannel \in Channels /\ NoServer \in Servers
  BY <1>1 DEF NoChannel, NoServer, Channels, Servers, Unsigned, Ssh2ChannelsAssumption
<1>3. TypeOK
  BY <1>1, <1>2 DEF Init, TypeOK
<1>4. Good(NoChannel, <<>>, <<>>, NoServer, FALSE, 0)
  <2>1. Phase(NoChannel, <<>>, <<>>, NoServer) /\ Fresh(NoServer)
    BY DEF Phase, Idle, NoChannel, NoServer, Fresh
  <2>a. Blank(<<>>)
    BY <1>1 DEF Blank
  <2>2. Plugged(NoChannel, FALSE) /\ ~NoChannel.s
    BY DEF Plugged, NoChannel
  <2>3. Room(NoChannel, <<>>, <<>>, NoServer)
    BY <1>1, <2>2, NoMessages DEF Room, NoServer, Ssh2ChannelsAssumption, Unsigned
  <2> QED
    BY <2>1, <2>2, <2>3, <2>a DEF Good, Fits, Whole
<1> QED
  BY <1>3, <1>4 DEF IInv, Init

(* A message of the server's that carries no window and no data. *)
LEMMA SrvTypes ==
    ASSUME IInv, NEW c \in Chan, NEW m \in Messages, NEW u \in Servers,
           srv' = [srv EXCEPT ![c] = u], SrvSends(c, m),
           UNCHANGED <<channel, toServer, throttled_all, app, fault>>
    PROVE  /\ TypeOK' /\ ~fault' /\ throttled_all' = throttled_all
           /\ \A d \in Chan : d # c =>
                 /\ channel'[d] = channel[d] /\ toServer'[d] = toServer[d]
                 /\ toClient'[d] = toClient[d] /\ srv'[d] = srv[d] /\ app'[d] = app[d]
           /\ channel'[c] = channel[c] /\ toServer'[c] = toServer[c] /\ app'[c] = app[c]
           /\ toClient'[c] = Append(toClient[c], m) /\ srv'[c] = u
<1>1. Append(toClient[c], m) \in Seq(Messages)
  BY Here, OneMore
<1>2. toClient' = [toClient EXCEPT ![c] = Append(toClient[c], m)]
  BY DEF SrvSends
<1> QED
  BY <1>1, <1>2 DEF IInv, TypeOK

(* The phase of a channel whose server sends something. *)
LEMMA PhaseSends ==
    ASSUME NEW r, NEW q, NEW p \in Seq(Messages), NEW v, Phase(r, q, p, v),
           v.state = "open", v.sentClose = FALSE, NEW u, u.state = "open",
           u.gotClose = v.gotClose, u.sentClose = FALSE,
           NEW m \in Messages, m.t \in {"data", "adjust", "eof"}
    PROVE  Phase(r, q, Append(p, m), u) /\ ~Declined(r, q, p, v)
<1>1. Accepted(r, q, p, v) \/ Joined(r, q, p, v) \/ HalfClosed(r, q, p, v)
  BY DEF Phase, Idle, Asked, Declined, Forgotten, Deleted
<1> DEFINE w == Append(p, m)
<1>2. \A k \in {1, 2} : Down(p, k, FALSE) => Down(w, k, FALSE)
  <2>1. (m.t = "close") = FALSE
    OBVIOUS
  <2> QED
    BY <2>1, DownSends
<1>3. p # <<>> => w # <<>> /\ w[1] = p[1]
  <2>1. ASSUME p # <<>> PROVE 1 \in 1 .. Len(p)
    BY <2>1, EmptySeq
  <2> QED
    BY <2>1, OneMore, AppendProperties
<1> HIDE DEF w
<1>4. CASE Accepted(r, q, p, v)
  <2>1. Accepted(r, q, w, u)
    BY <1>2, <1>3, <1>4 DEF Accepted
  <2> QED
    BY <1>4, <2>1 DEF Phase, w, Accepted, Declined
<1>5. CASE Joined(r, q, p, v)
  <2>1. Joined(r, q, w, u)
    BY <1>2, <1>5 DEF Joined
  <2> QED
    BY <1>5, <2>1 DEF Phase, w, Joined, Declined
<1>6. CASE HalfClosed(r, q, p, v)
  <2>1. HalfClosed(r, q, w, u)
    BY <1>2, <1>6 DEF HalfClosed
  <2> QED
    BY <1>6, <2>1 DEF Phase, w, HalfClosed, Declined
<1> QED
  BY <1>1, <1>4, <1>5, <1>6

LEMMA SrvWritesKeeps ==
    ASSUME Ssh2ChannelsAssumption, IInv, NEW c \in Chan, NEW n \in 1 .. OUR_V2_WINSIZE,
           SrvWrites(c, n)
    PROVE  IInv'
<1> DEFINE r == channel[c]
           q == toServer[c]
           p == toClient[c]
           v == srv[c]
           u == [v EXCEPT !.outwin = @ - n]
           m == Msg("data", n)
<1>1. /\ r \in Channels /\ q \in Seq(Messages) /\ p \in Seq(Messages) /\ v \in Servers
      /\ Good(r, q, p, v, throttled_all, app[c])
  BY Here
<1>2. /\ v.state = "open" /\ ~v.sentClose /\ n <= v.outwin
      /\ srv' = [srv EXCEPT ![c] = u] /\ SrvSends(c, m)
      /\ UNCHANGED <<channel, toServer, throttled_all, app, fault>>
  <2>1. srv' = [srv EXCEPT ![c].outwin = @ - n]
    BY DEF SrvWrites
  <2>2. srv \in [Chan -> Servers]
    BY DEF IInv, TypeOK
  <2>3. srv' = [srv EXCEPT ![c] = u]
    BY <2>1, <2>2
  <2> QED
    BY <2>3 DEF SrvWrites, SrvMaySend
<1>3. n \in Nat /\ v.outwin \in Nat /\ v.sentClose \in BOOLEAN
  BY <1>1 DEF Servers, Ssh2ChannelsAssumption
<1>4. /\ u \in Servers /\ u.outwin = v.outwin - n /\ u.inwin = v.inwin /\ u.got = v.got
      /\ u.state = v.state /\ u.gotClose = v.gotClose /\ u.sentClose = v.sentClose
  <2>1. v.outwin - n \in Nat
    BY <1>2, <1>3
  <2> DEFINE o == v.outwin - n
  <2>2. u = [v EXCEPT !.outwin = o]
    OBVIOUS
  <2> HIDE DEF o, u, v
  <2>3. /\ u \in Servers /\ u.outwin = o /\ u.inwin = v.inwin /\ u.got = v.got
        /\ u.state = v.state /\ u.gotClose = v.gotClose /\ u.sentClose = v.sentClose
    BY <1>1, <2>1, <2>2 DEF Servers, o
  <2> QED
    BY <2>3 DEF o
<1>5. m \in Messages /\ m.t = "data" /\ m.n = n /\ m.bytes = <<>>
  BY <1>3, MsgType
<1> HIDE DEF r, q, p, v, u, m
<1>6. Phase(r, q, Append(p, m), u) /\ ~Declined(r, q, p, v)
  BY <1>1, <1>2, <1>3, <1>4, <1>5, PhaseSends DEF Good
<1>7. /\ Amount(Append(p, m), Takes) = Amount(p, Takes)
      /\ Amount(Append(p, m), {"data"}) = Amount(p, {"data"}) + n
  <2>1. Worth(m, Takes) = 0 /\ Worth(m, {"data"}) = n
    BY <1>5 DEF Worth, Takes
  <2>2. Amount(p, Takes) \in Nat
    BY <1>1, AmountNat
  <2> QED
    BY <1>1, <1>5, <2>1, <2>2, OneMore
<1>8. Fits(r, q, Append(p, m), u)
  <2>1. SUFFICES ASSUME Replies \subseteq {0}, r.s
                 PROVE  /\ r.locwindow = u.outwin + Amount(q, Grants)
                                            + Amount(Append(p, m), {"data"})
                        /\ r.locwindow + r.out <= OUR_V2_WINSIZE
    BY DEF Fits
  <2>2. /\ r.locwindow = v.outwin + Amount(q, Grants) + Amount(p, {"data"})
        /\ r.locwindow + r.out <= OUR_V2_WINSIZE
    BY <1>1, <1>6, <2>1 DEF Good, Fits
  <2>3. Amount(q, Grants) \in Nat /\ Amount(p, {"data"}) \in Nat
    BY <1>1, AmountNat
  <2> QED
    BY <1>3, <1>4, <1>7, <2>2, <2>3
<1>9. Good(r, q, Append(p, m), u, throttled_all, app[c])
  <2>1. Fresh(u) /\ Plugged(r, throttled_all) /\ Blank(q)
    BY <1>1, <1>2, <1>4 DEF Good, Fresh
  <2>2. Room(r, q, Append(p, m), u)
    BY <1>1, <1>4, <1>7 DEF Good, Room
  <2>3. Whole(r, q, Append(p, m), u, app[c])
    BY <1>1, <1>4, <1>6 DEF Good, Whole
  <2> QED
    BY <1>6, <1>8, <2>1, <2>2, <2>3 DEF Good
<1>10. /\ TypeOK' /\ ~fault' /\ throttled_all' = throttled_all
       /\ \A d \in Chan : d # c =>
             /\ channel'[d] = channel[d] /\ toServer'[d] = toServer[d]
             /\ toClient'[d] = toClient[d] /\ srv'[d] = srv[d] /\ app'[d] = app[d]
       /\ channel'[c] = r /\ toServer'[c] = q /\ app'[c] = app[c]
       /\ toClient'[c] = Append(p, m) /\ srv'[c] = u
  <2>1. /\ TypeOK' /\ ~fault' /\ throttled_all' = throttled_all
        /\ \A d \in Chan : d # c =>
              /\ channel'[d] = channel[d] /\ toServer'[d] = toServer[d]
              /\ toClient'[d] = toClient[d] /\ srv'[d] = srv[d] /\ app'[d] = app[d]
        /\ channel'[c] = channel[c] /\ toServer'[c] = toServer[c] /\ app'[c] = app[c]
        /\ toClient'[c] = Append(toClient[c], m) /\ srv'[c] = u
    <3>1. /\ u \in Servers /\ m \in Messages
          /\ srv' = [srv EXCEPT ![c] = u] /\ SrvSends(c, m)
          /\ UNCHANGED <<channel, toServer, throttled_all, app, fault>>
      BY <1>2, <1>4, <1>5
    <3> QED
      BY <3>1, SrvTypes
  <2> QED
    BY <2>1 DEF r, q, p
<1>11. Good(channel'[c], toServer'[c], toClient'[c], srv'[c], throttled_all, app'[c])
  BY <1>9, <1>10
<1> QED
  BY <1>10, <1>11, OneStep

LEMMA SrvAdjustsKeeps ==
    ASSUME Ssh2ChannelsAssumption, IInv, NEW c \in Chan, NEW n \in 1 .. MaxWindow,
           SrvAdjusts(c, n)
    PROVE  IInv'
<1> DEFINE r == channel[c]
           q == toServer[c]
           p == toClient[c]
           v == srv[c]
           k == v.inwin + n
           u == [v EXCEPT !.inwin = k]
           m == Msg("adjust", n)
<1>1. /\ r \in Channels /\ q \in Seq(Messages) /\ p \in Seq(Messages) /\ v \in Servers
      /\ Good(r, q, p, v, throttled_all, app[c])
  BY Here
<1>2. /\ v.state = "open" /\ ~v.sentClose /\ k <= MaxWindow
      /\ srv' = [srv EXCEPT ![c] = u] /\ SrvSends(c, m)
      /\ UNCHANGED <<channel, toServer, throttled_all, app, fault>>
  <2>1. srv' = [srv EXCEPT ![c].inwin = @ + n]
    BY DEF SrvAdjusts
  <2>2. srv \in [Chan -> Servers]
    BY DEF IInv, TypeOK
  <2>3. srv' = [srv EXCEPT ![c] = u]
    BY <2>1, <2>2
  <2> QED
    BY <2>3 DEF SrvAdjusts, SrvMaySend
<1>3. n \in Nat /\ v.inwin \in Nat /\ v.sentClose \in BOOLEAN /\ k \in Nat /\ MaxWindow \in Nat
  BY <1>1 DEF Servers, Ssh2ChannelsAssumption, Unsigned
<1> HIDE DEF r, q, p, v, u, m
<1>4. /\ u \in Servers /\ u.outwin = v.outwin /\ u.inwin = k /\ u.got = v.got
      /\ u.state = v.state /\ u.gotClose = v.gotClose /\ u.sentClose = v.sentClose
  <2> HIDE DEF k
  <2> QED
    BY <1>1, <1>3 DEF Servers, u
<1>5. m \in Messages /\ m.t = "adjust" /\ m.n = n /\ m.bytes = <<>>
  BY <1>3, MsgType DEF m
<1>6. Phase(r, q, Append(p, m), u) /\ ~Declined(r, q, p, v)
  BY <1>1, <1>2, <1>3, <1>4, <1>5, PhaseSends DEF Good
<1>7. /\ Amount(Append(p, m), Takes) = Amount(p, Takes) + n
      /\ Amount(Append(p, m), {"data"}) = Amount(p, {"data"})
  <2>1. Worth(m, Takes) = n /\ Worth(m, {"data"}) = 0
    BY <1>5 DEF Worth, Takes
  <2>2. Amount(p, {"data"}) \in Nat
    BY <1>1, AmountNat
  <2> QED
    BY <1>1, <1>5, <2>1, <2>2, OneMore
<1>8. Fits(r, q, Append(p, m), u)
  BY <1>1, <1>4, <1>6, <1>7 DEF Good, Fits
<1>9. Good(r, q, Append(p, m), u, throttled_all, app[c])
  <2>1. Fresh(u) /\ Plugged(r, throttled_all) /\ Blank(q)
    BY <1>1, <1>2, <1>4 DEF Good, Fresh
  <2>2. Room(r, q, Append(p, m), u)
    <3>1. v.inwin <= MaxWindow /\ Len(Contents(q)) <= v.inwin
      BY <1>1 DEF Good, Room
    <3>2. Len(Contents(q)) \in Nat /\ Amount(p, Takes) \in Nat
      BY <1>1, ContentsType, AmountNat
    <3>3. Len(Contents(q)) <= k
      BY <1>3, <3>1, <3>2
    <3>4. ASSUME r.s PROVE k = r.remwindow + Amount(Append(p, m), Takes) + Len(Contents(q))
      <4>1. v.inwin = r.remwindow + Amount(p, Takes) + Len(Contents(q))
        BY <1>1, <3>4 DEF Good, Room
      <4>2. r.remwindow \in Nat
        BY <1>1 DEF Channels, Unsigned, Ssh2ChannelsAssumption
      <4> DEFINE x == Amount(p, Takes)
                 y == r.remwindow
                 l == Len(Contents(q))
                 i == v.inwin
      <4>3. i = y + x + l /\ x \in Nat /\ y \in Nat /\ l \in Nat /\ i \in Nat /\ k = i + n
        BY <1>3, <3>2, <4>1, <4>2
      <4>4. Amount(Append(p, m), Takes) = x + n
        BY <1>7
      <4> HIDE DEF x, y, l, i, k
      <4>5. k = y + (x + n) + l
        BY <1>3, <4>3
      <4> QED
        BY <4>4, <4>5 DEF y, l
    <3> HIDE DEF k
    <3> QED
      BY <1>2, <1>4, <3>3, <3>4 DEF Room
  <2>3. Whole(r, q, Append(p, m), u, app[c])
    BY <1>1, <1>4, <1>6 DEF Good, Whole
  <2> QED
    BY <1>6, <1>8, <2>1, <2>2, <2>3 DEF Good
<1>10. /\ TypeOK' /\ ~fault' /\ throttled_all' = throttled_all
       /\ \A d \in Chan : d # c =>
             /\ channel'[d] = channel[d] /\ toServer'[d] = toServer[d]
             /\ toClient'[d] = toClient[d] /\ srv'[d] = srv[d] /\ app'[d] = app[d]
       /\ channel'[c] = r /\ toServer'[c] = q /\ app'[c] = app[c]
       /\ toClient'[c] = Append(p, m) /\ srv'[c] = u
  <2>1. /\ TypeOK' /\ ~fault' /\ throttled_all' = throttled_all
        /\ \A d \in Chan : d # c =>
              /\ channel'[d] = channel[d] /\ toServer'[d] = toServer[d]
              /\ toClient'[d] = toClient[d] /\ srv'[d] = srv[d] /\ app'[d] = app[d]
        /\ channel'[c] = channel[c] /\ toServer'[c] = toServer[c] /\ app'[c] = app[c]
        /\ toClient'[c] = Append(toClient[c], m) /\ srv'[c] = u
    <3>1. /\ u \in Servers /\ m \in Messages
          /\ srv' = [srv EXCEPT ![c] = u] /\ SrvSends(c, m)
          /\ UNCHANGED <<channel, toServer, throttled_all, app, fault>>
      BY <1>2, <1>4, <1>5
    <3> QED
      BY <3>1, SrvTypes
  <2> QED
    BY <2>1 DEF r, q, p
<1>11. Good(channel'[c], toServer'[c], toClient'[c], srv'[c], throttled_all, app'[c])
  BY <1>9, <1>10
<1> QED
  BY <1>10, <1>11, OneStep

LEMMA SrvEndsKeeps ==
    ASSUME Ssh2ChannelsAssumption, IInv, NEW c \in Chan, SrvEnds(c)
    PROVE  IInv'
<1> DEFINE r == channel[c]
           q == toServer[c]
           p == toClient[c]
           v == srv[c]
           u == [v EXCEPT !.sentEof = TRUE]
           m == Msg("eof", 0)
<1>1. /\ r \in Channels /\ q \in Seq(Messages) /\ p \in Seq(Messages) /\ v \in Servers
      /\ Good(r, q, p, v, throttled_all, app[c])
  BY Here
<1>2. /\ v.state = "open" /\ ~v.sentClose
      /\ srv' = [srv EXCEPT ![c] = u] /\ SrvSends(c, m)
      /\ UNCHANGED <<channel, toServer, throttled_all, app, fault>>
  <2>1. srv' = [srv EXCEPT ![c].sentEof = TRUE]
    BY DEF SrvEnds
  <2>2. srv \in [Chan -> Servers]
    BY DEF IInv, TypeOK
  <2>3. srv' = [srv EXCEPT ![c] = u]
    BY <2>1, <2>2
  <2> QED
    BY <2>3 DEF SrvEnds, SrvMaySend
<1> HIDE DEF r, q, p, v, u, m
<1>3. v.sentClose \in BOOLEAN
  BY <1>1 DEF Servers
<1>4. /\ u \in Servers /\ u.outwin = v.outwin /\ u.inwin = v.inwin /\ u.got = v.got
      /\ u.state = v.state /\ u.gotClose = v.gotClose /\ u.sentClose = v.sentClose
  BY <1>1 DEF Servers, u
<1>5. m \in Messages /\ m.t = "eof" /\ m.n = 0 /\ m.bytes = <<>>
  BY MsgType DEF m
<1>6. Phase(r, q, Append(p, m), u) /\ ~Declined(r, q, p, v)
  BY <1>1, <1>2, <1>3, <1>4, <1>5, PhaseSends DEF Good
<1>7. /\ Amount(Append(p, m), Takes) = Amount(p, Takes)
      /\ Amount(Append(p, m), {"data"}) = Amount(p, {"data"})
  <2>1. Worth(m, Takes) = 0 /\ Worth(m, {"data"}) = 0
    BY <1>5 DEF Worth, Takes
  <2>2. Amount(p, {"data"}) \in Nat /\ Amount(p, Takes) \in Nat
    BY <1>1, AmountNat
  <2> QED
    BY <1>1, <1>5, <2>1, <2>2, OneMore
<1>9. Good(r, q, Append(p, m), u, throttled_all, app[c])
  <2>1. Fresh(u) /\ Plugged(r, throttled_all) /\ Blank(q)
    BY <1>1, <1>2, <1>4 DEF Good, Fresh
  <2>2. Room(r, q, Append(p, m), u)
    BY <1>1, <1>4, <1>7 DEF Good, Room
  <2>3. Whole(r, q, Append(p, m), u, app[c])
    BY <1>1, <1>4, <1>6 DEF Good, Whole
  <2>4. Fits(r, q, Append(p, m), u)
    BY <1>1, <1>4, <1>6, <1>7 DEF Good, Fits
  <2> QED
    BY <1>6, <2>1, <2>2, <2>3, <2>4 DEF Good
<1>10. /\ TypeOK' /\ ~fault' /\ throttled_all' = throttled_all
       /\ \A d \in Chan : d # c =>
             /\ channel'[d] = channel[d] /\ toServer'[d] = toServer[d]
             /\ toClient'[d] = toClient[d] /\ srv'[d] = srv[d] /\ app'[d] = app[d]
       /\ channel'[c] = r /\ toServer'[c] = q /\ app'[c] = app[c]
       /\ toClient'[c] = Append(p, m) /\ srv'[c] = u
  <2>1. /\ TypeOK' /\ ~fault' /\ throttled_all' = throttled_all
        /\ \A d \in Chan : d # c =>
              /\ channel'[d] = channel[d] /\ toServer'[d] = toServer[d]
              /\ toClient'[d] = toClient[d] /\ srv'[d] = srv[d] /\ app'[d] = app[d]
        /\ channel'[c] = channel[c] /\ toServer'[c] = toServer[c] /\ app'[c] = app[c]
        /\ toClient'[c] = Append(toClient[c], m) /\ srv'[c] = u
    <3>1. /\ u \in Servers /\ m \in Messages
          /\ srv' = [srv EXCEPT ![c] = u] /\ SrvSends(c, m)
          /\ UNCHANGED <<channel, toServer, throttled_all, app, fault>>
      BY <1>2, <1>4, <1>5
    <3> QED
      BY <3>1, SrvTypes
  <2> QED
    BY <2>1 DEF r, q, p
<1>11. Good(channel'[c], toServer'[c], toClient'[c], srv'[c], throttled_all, app'[c])
  BY <1>9, <1>10
<1> QED
  BY <1>10, <1>11, OneStep

LEMMA NoServerFacts ==
    /\ NoServer \in Servers /\ NoServer.state = "none" /\ NoServer.inwin = 0
    /\ NoServer.outwin = 0 /\ ~NoServer.gotClose /\ ~NoServer.sentClose
    /\ NoServer.got = <<>> /\ Fresh(NoServer)
<1>1. <<>> \in Seq(Nat)
  BY EmptySeq
<1> QED
  BY <1>1 DEF NoServer, Servers, Fresh

LEMMA SrvClosesKeeps ==
    ASSUME Ssh2ChannelsAssumption, IInv, NEW c \in Chan, SrvCloses(c)
    PROVE  IInv'
<1> DEFINE r == channel[c]
           q == toServer[c]
           p == toClient[c]
           v == srv[c]
           u == IF v.gotClose THEN NoServer ELSE [v EXCEPT !.sentClose = TRUE]
           m == Msg("close", 0)
           w == Append(p, m)
<1>1. /\ r \in Channels /\ q \in Seq(Messages) /\ p \in Seq(Messages) /\ v \in Servers
      /\ Good(r, q, p, v, throttled_all, app[c])
  BY Here
<1>2. /\ v.state = "open" /\ ~v.sentClose
      /\ srv' = [srv EXCEPT ![c] = u] /\ SrvSends(c, m)
      /\ UNCHANGED <<channel, toServer, throttled_all, app, fault>>
  <2>1. srv' = [srv EXCEPT ![c] = IF @.gotClose THEN NoServer ELSE [@ EXCEPT !.sentClose = TRUE]]
    BY DEF SrvCloses
  <2>2. srv \in [Chan -> Servers]
    BY DEF IInv, TypeOK
  <2>3. srv' = [srv EXCEPT ![c] = u]
    BY <2>1, <2>2
  <2> QED
    BY <2>3 DEF SrvCloses, SrvMaySend
<1> HIDE DEF r, q, p, v, u, m, w
<1>3. v.sentClose = FALSE
  BY <1>1, <1>2 DEF Servers
<1>4. IF v.gotClose THEN u = NoServer
      ELSE /\ u \in Servers /\ u.outwin = v.outwin /\ u.inwin = v.inwin /\ u.got = v.got
           /\ u.state = v.state /\ u.gotClose = v.gotClose /\ u.sentClose = TRUE
  BY <1>1 DEF Servers, u
<1>5. m \in Messages /\ m.t = "close" /\ m.n = 0 /\ m.bytes = <<>>
  BY MsgType DEF m
<1>6. Accepted(r, q, p, v) \/ Joined(r, q, p, v) \/ HalfClosed(r, q, p, v)
  BY <1>1, <1>2, <1>3 DEF Good, Phase, Idle, Asked, Declined, Forgotten, Deleted
<1>7. \A k \in {1, 2} : Down(p, k, FALSE) => Down(w, k, TRUE)
  <2>1. (m.t = "close") = TRUE
    BY <1>5
  <2> QED
    BY <1>1, <1>5, <2>1, DownSends, ZenonT(60) DEF w
<1>8. p # <<>> => w # <<>> /\ w[1] = p[1]
  <2>1. ASSUME p # <<>> PROVE 1 \in 1 .. Len(p)
    BY <1>1, <2>1, EmptySeq
  <2> QED
    BY <1>1, <1>5, <2>1, OneMore, AppendProperties DEF w
<1>9. /\ Amount(w, Takes) = Amount(p, Takes)
      /\ Amount(w, {"data"}) = Amount(p, {"data"})
  <2>1. Worth(m, Takes) = 0 /\ Worth(m, {"data"}) = 0
    BY <1>5 DEF Worth, Takes
  <2>2. Amount(p, {"data"}) \in Nat /\ Amount(p, Takes) \in Nat
    BY <1>1, AmountNat
  <2> QED
    BY <1>1, <1>5, <2>1, <2>2, OneMore DEF w
<1>10. u \in Servers /\ Good(r, q, w, u, throttled_all, app[c])
  <2>1. CASE v.gotClose
    <3>1. HalfClosed(r, q, p, v)
      BY <1>6, <2>1 DEF Accepted, Joined
    <3>2. u = NoServer
      BY <1>4, <2>1
    <3>3. Forgotten(r, q, w, u)
      BY <1>7, <3>1, <3>2, NoServerFacts DEF HalfClosed, Forgotten
    <3>4. ~r.s
      BY <1>1, <3>1 DEF Good, Plugged, HalfClosed
    <3>5. Room(r, q, w, u)
      <4>1. q = <<>> /\ Len(<<>>) = 0 /\ Contents(<<>>) = <<>>
        BY <3>1, EmptySeq, NoMessages DEF HalfClosed
      <4> QED
        BY <3>2, <3>4, <4>1, NoServerFacts DEF Room, Ssh2ChannelsAssumption, Unsigned
    <3> QED
      BY <1>1, <3>2, <3>3, <3>4, <3>5, NoServerFacts DEF Good, Phase, Fits, Whole
  <2>2. CASE ~v.gotClose
    <3>1. /\ u \in Servers /\ u.outwin = v.outwin /\ u.inwin = v.inwin /\ u.got = v.got
          /\ u.state = v.state /\ u.gotClose = v.gotClose /\ u.sentClose = TRUE
      BY <1>4, <2>2
    <3>2. Accepted(r, q, p, v) \/ Joined(r, q, p, v)
      BY <1>6, <2>2 DEF HalfClosed
    <3>3. Accepted(r, q, w, u) \/ Joined(r, q, w, u)
      <4>1. CASE Accepted(r, q, p, v)
        <5>1. Accepted(r, q, w, u)
          BY <1>3, <1>7, <1>8, <3>1, <4>1 DEF Accepted
        <5> QED
          BY <5>1
      <4>2. CASE Joined(r, q, p, v)
        <5>1. Joined(r, q, w, u)
          BY <1>2, <1>3, <1>7, <3>1, <4>2 DEF Joined
        <5> QED
          BY <5>1
      <4> QED
        BY <3>2, <4>1, <4>2
    <3>4. ~Declined(r, q, p, v)
      BY <3>2 DEF Accepted, Joined, Declined
    <3>5. Phase(r, q, w, u)
      BY <3>3 DEF Phase
    <3>6. Fresh(u) /\ Plugged(r, throttled_all) /\ Blank(q)
      BY <1>1, <1>2, <3>1 DEF Good, Fresh
    <3>7. Room(r, q, w, u)
      BY <1>1, <1>9, <3>1 DEF Good, Room
    <3>8. Fits(r, q, w, u)
      BY <1>1, <1>9, <3>1, <3>4 DEF Good, Fits
    <3>9. Whole(r, q, w, u, app[c])
      BY <1>1, <3>1, <3>4 DEF Good, Whole
    <3> QED
      BY <3>1, <3>5, <3>6, <3>7, <3>8, <3>9 DEF Good
  <2> QED
    BY <2>1, <2>2
<1>11. /\ TypeOK' /\ ~fault' /\ throttled_all' = throttled_all
       /\ \A d \in Chan : d # c =>
             /\ channel'[d] = channel[d] /\ toServer'[d] = toServer[d]
             /\ toClient'[d] = toClient[d] /\ srv'[d] = srv[d] /\ app'[d] = app[d]
       /\ channel'[c] = r /\ toServer'[c] = q /\ app'[c] = app[c]
       /\ toClient'[c] = w /\ srv'[c] = u
  BY <1>2, <1>5, <1>10, SrvTypes DEF r, q, p, w
<1>12. Good(channel'[c], toServer'[c], toClient'[c], srv'[c], throttled_all, app'[c])
  BY <1>10, <1>11
<1> QED
  BY <1>11, <1>12, OneStep

(* The server takes a message: what is left of the invariant to show. *)
LEMMA TakesStep ==
    ASSUME IInv, NEW c \in Chan, toServer[c] # <<>>,
           NEW u \in Servers, NEW x \in Seq(Messages),
           toServer' = [toServer EXCEPT ![c] = Tail(@)],
           srv' = [srv EXCEPT ![c] = u], toClient' = [toClient EXCEPT ![c] = x],
           UNCHANGED <<channel, throttled_all, app, fault>>,
           Good(channel[c], Tail(toServer[c]), x, u, throttled_all, app[c])
    PROVE  IInv'
<1>1. Tail(toServer[c]) \in Seq(Messages)
  BY Here, OneLess
<1>2. /\ TypeOK' /\ ~fault' /\ throttled_all' = throttled_all
      /\ \A d \in Chan : d # c =>
            /\ channel'[d] = channel[d] /\ toServer'[d] = toServer[d]
            /\ toClient'[d] = toClient[d] /\ srv'[d] = srv[d] /\ app'[d] = app[d]
      /\ channel'[c] = channel[c] /\ toServer'[c] = Tail(toServer[c]) /\ app'[c] = app[c]
      /\ toClient'[c] = x /\ srv'[c] = u
  BY <1>1 DEF IInv, TypeOK
<1>3. Good(channel'[c], toServer'[c], toClient'[c], srv'[c], throttled_all, app'[c])
  BY <1>2
<1> QED
  BY <1>2, <1>3, OneStep

LEMMA TakenFacts ==
    ASSUME NEW q \in Seq(Messages), q # <<>>, Blank(q)
    PROVE  /\ Tail(q) \in Seq(Messages) /\ Head(q) \in Messages /\ Blank(Tail(q))
           /\ Head(q).t # "data" => Contents(Tail(q)) = Contents(q)
           /\ Contents(q) = Cat(Head(q).bytes, Contents(Tail(q)))
           /\ Amount(q, Grants) = Worth(Head(q), Grants) + Amount(Tail(q), Grants)
           /\ Head(q) = q[1] /\ Len(Tail(q)) = Len(q) - 1
<1>1. /\ Tail(q) \in Seq(Messages) /\ Head(q) \in Messages /\ Head(q) = q[1]
      /\ Len(Tail(q)) = Len(q) - 1 /\ Len(q) \in Nat \ {0}
      /\ \A i \in 1 .. Len(Tail(q)) : Tail(q)[i] = q[i + 1]
      /\ Amount(q, Grants) = Worth(Head(q), Grants) + Amount(Tail(q), Grants)
      /\ Contents(q) = Cat(Head(q).bytes, Contents(Tail(q)))
  BY OneLess
<1>2. ASSUME NEW i \in 1 .. Len(Tail(q)), Tail(q)[i].t # "data" PROVE Tail(q)[i].bytes = <<>>
  <2>1. i + 1 \in 1 .. Len(q)
    BY <1>1
  <2> QED
    BY <1>1, <1>2, <2>1 DEF Blank
<1>3. ASSUME Head(q).t # "data" PROVE Contents(Tail(q)) = Contents(q)
  <2>1. 1 \in 1 .. Len(q)
    BY <1>1
  <2>2. Head(q).bytes = <<>>
    BY <1>1, <1>3, <2>1 DEF Blank
  <2>3. Cat(<<>>, Contents(Tail(q))) = Contents(Tail(q))
    BY <1>1, ContentsType, CatProperties
  <2> QED
    BY <1>1, <2>2, <2>3
<1> QED
  BY <1>1, <1>2, <1>3 DEF Blank

LEMMA TakesOpen ==
    ASSUME Ssh2ChannelsAssumption, IInv, NEW c \in Chan, SrvTakes(c),
           Head(toServer[c]).t = "open"
    PROVE  IInv'
<1> DEFINE r == channel[c]
           q == toServer[c]
           p == toClient[c]
           v == srv[c]
           m == Head(q)
           w == Tail(q)
<1>1. /\ r \in Channels /\ q \in Seq(Messages) /\ p \in Seq(Messages) /\ v \in Servers
      /\ Good(r, q, p, v, throttled_all, app[c])
  BY Here, SMTT(40)
<1>2. /\ q # <<>> /\ m.t = "open"
      /\ toServer' = [toServer EXCEPT ![c] = Tail(@)]
      /\ UNCHANGED <<channel, throttled_all, app, fault>>
  BY ZenonT(60) DEF SrvTakes
<1>3. \/ \E z \in Windows :
            /\ SrvSends(c, Msg("confirm", z))
            /\ srv' = [srv EXCEPT ![c] = [NoServer EXCEPT
                         !.state = "open", !.inwin = z, !.outwin = m.n]]
      \/ SrvSends(c, Msg("failure", 0)) /\ UNCHANGED srv
  BY <1>2 DEF SrvTakes
<1>4. srv \in [Chan -> Servers] /\ toClient \in [Chan -> Seq(Messages)]
  BY DEF IInv, TypeOK
<1> HIDE DEF r, q, p, v, m, w
<1>5. /\ w \in Seq(Messages) /\ m \in Messages /\ Blank(w) /\ Contents(w) = Contents(q)
      /\ Amount(q, Grants) = Worth(m, Grants) + Amount(w, Grants)
      /\ m = q[1] /\ Len(w) = Len(q) - 1
  BY <1>1, <1>2, TakenFacts DEF Good, m, w
<1>6. Asked(r, q, p, v)
  <2>1. ASSUME NEW a \in BOOLEAN, Up(q, a) PROVE FALSE
    BY <1>1, <1>2, <2>1, UpTakes DEF m
  <2>2. Phase(r, q, p, v)
    BY <1>1 DEF Good
  <2>3. (v.state = "asking") \in BOOLEAN
    OBVIOUS
  <2> QED
    BY <1>2, <2>1, <2>2, <2>3
       DEF Phase, Idle, Declined, Accepted, Joined, HalfClosed, Forgotten, Deleted
<1>7. /\ w = <<>> /\ p = <<>> /\ r.type = "dormant" /\ v.state = "none"
  <2>1. Len(w) = 0
    BY <1>5, <1>6 DEF Asked
  <2> QED
    BY <1>5, <1>6, <2>1, EmptySeq DEF Asked
<1>8. /\ Contents(w) = <<>> /\ Contents(q) = <<>> /\ Len(<<>>) = 0
      /\ Amount(w, Grants) = 0 /\ Amount(p, Takes) = 0 /\ Amount(p, {"data"}) = 0
      /\ Amount(q, Grants) = m.n /\ m.n \in Nat
  <2>1. m.n \in Nat
    BY <1>5 DEF Messages
  <2>2. Worth(m, Grants) = m.n
    BY <1>2 DEF Worth, Grants
  <2> QED
    BY <1>5, <1>7, <2>1, <2>2, NoMessages, EmptySeq
<1>9. v.inwin = 0 /\ v.outwin = 0 /\ v.got = <<>> /\ Fresh(v)
  BY <1>1, <1>7 DEF Good, Fresh
<1>10. p \in Seq(Messages) /\ Len(p) = 0
  BY <1>1, <1>7, EmptySeq
<1>11. ASSUME NEW z \in Windows, SrvSends(c, Msg("confirm", z)),
              srv' = [srv EXCEPT ![c] = [NoServer EXCEPT
                         !.state = "open", !.inwin = z, !.outwin = m.n]]
       PROVE  IInv'
  <2> DEFINE e == Msg("confirm", z)
             x == Append(p, e)
             u == [NoServer EXCEPT !.state = "open", !.inwin = z, !.outwin = m.n]
  <2>1. z \in Nat /\ z <= MaxWindow
    BY DEF Ssh2ChannelsAssumption, Unsigned
  <2>2. e \in Messages /\ e.t = "confirm" /\ e.n = z /\ e.bytes = <<>>
    BY <2>1, MsgType
  <2> HIDE DEF e
  <2>3. /\ u \in Servers /\ u.state = "open" /\ u.inwin = z /\ u.outwin = m.n
        /\ ~u.gotClose /\ u.sentClose = FALSE /\ u.got = <<>>
    <3>1. <<>> \in Seq(Nat)
      BY EmptySeq
    <3> QED
      BY <1>8, <2>1, <3>1 DEF NoServer, Servers
  <2>4. /\ x \in Seq(Messages) /\ Len(x) = 1 /\ x[1] = e
        /\ Amount(x, Takes) = z /\ Amount(x, {"data"}) = 0
    <3>1. Worth(e, Takes) = z /\ Worth(e, {"data"}) = 0
      BY <2>2 DEF Worth, Takes
    <3>2. /\ x \in Seq(Messages) /\ Len(x) = Len(p) + 1 /\ x[Len(p) + 1] = e
          /\ Amount(x, Takes) = Amount(p, Takes) + Worth(e, Takes)
          /\ Amount(x, {"data"}) = Amount(p, {"data"}) + Worth(e, {"data"})
      BY <1>1, <2>2, OneMore
    <3>3. Len(p) + 1 = 1
      BY <1>10
    <3> HIDE DEF x
    <3> QED
      BY <1>8, <2>1, <3>1, <3>2, <3>3
  <2> HIDE DEF u, x
  <2>5. Accepted(r, w, x, u)
    <3>1. x # <<>>
      BY <2>4, EmptySeq
    <3>2. ~Ends(x)
      BY <2>2, <2>4 DEF Ends
    <3>3. Down(x, 2, FALSE)
      BY <2>4, <3>2 DEF Down
    <3> QED
      BY <1>7, <2>1, <2>2, <2>3, <2>4, <3>1, <3>3 DEF Accepted
  <2>6. Room(r, w, x, u)
    <3>1. ASSUME r.s PROVE r.remwindow = 0
      BY <1>1, <1>7, <3>1 DEF Good, Plugged
    <3> QED
      BY <1>8, <2>1, <2>3, <2>4, <3>1 DEF Room
  <2>7. ~Declined(r, q, p, v)
    BY <1>6, <1>10 DEF Declined
  <2>8. Fits(r, w, x, u)
    <3>1. SUFFICES ASSUME Replies \subseteq {0}, r.s
                   PROVE  /\ r.locwindow = u.outwin + Amount(w, Grants) + Amount(x, {"data"})
                          /\ r.locwindow + r.out <= OUR_V2_WINSIZE
      BY DEF Fits
    <3>2. /\ r.locwindow = v.outwin + Amount(q, Grants) + Amount(p, {"data"})
          /\ r.locwindow + r.out <= OUR_V2_WINSIZE
      BY <1>1, <2>7, <3>1 DEF Good, Fits
    <3>3. r.locwindow = m.n
      BY <1>8, <1>9, <3>2
    <3>4. u.outwin + Amount(w, Grants) + Amount(x, {"data"}) = m.n
      BY <1>8, <2>3, <2>4
    <3> QED
      BY <3>2, <3>3, <3>4
  <2>9. Whole(r, w, x, u, app[c])
    BY <1>1, <1>5, <1>9, <2>3, <2>7 DEF Good, Whole
  <2>10. Good(r, w, x, u, throttled_all, app[c])
    BY <1>1, <1>5, <2>3, <2>5, <2>6, <2>8, <2>9 DEF Good, Phase, Fresh
  <2>11. toClient' = [toClient EXCEPT ![c] = x] /\ srv' = [srv EXCEPT ![c] = u]
    BY <1>11 DEF SrvSends, x, e, u, p
  <2> QED
    BY <1>2, <2>3, <2>4, <2>10, <2>11, TakesStep DEF r, q, w
<1>12. ASSUME SrvSends(c, Msg("failure", 0)), UNCHANGED srv
       PROVE  IInv'
  <2> DEFINE e == Msg("failure", 0)
             x == Append(p, e)
  <2>2. e \in Messages /\ e.t = "failure" /\ e.n = 0 /\ e.bytes = <<>>
    BY MsgType
  <2> HIDE DEF e
  <2>4. /\ x \in Seq(Messages) /\ Len(x) = 1 /\ x[1] = e
        /\ Amount(x, Takes) = 0 /\ Amount(x, {"data"}) = 0
    <3>1. Worth(e, Takes) = 0 /\ Worth(e, {"data"}) = 0
      BY <2>2 DEF Worth, Takes
    <3>2. /\ x \in Seq(Messages) /\ Len(x) = Len(p) + 1 /\ x[Len(p) + 1] = e
          /\ Amount(x, Takes) = Amount(p, Takes) + Worth(e, Takes)
          /\ Amount(x, {"data"}) = Amount(p, {"data"}) + Worth(e, {"data"})
      BY <1>1, <2>2, OneMore
    <3>3. Len(p) + 1 = 1
      BY <1>10
    <3> HIDE DEF x
    <3> QED
      BY <1>8, <3>1, <3>2, <3>3
  <2> HIDE DEF x
  <2>5. Declined(r, w, x, v)
    BY <1>7, <2>2, <2>4 DEF Declined
  <2>6. Room(r, w, x, v)
    BY <1>1, <1>8, <2>4 DEF Good, Room
  <2>7. Good(r, w, x, v, throttled_all, app[c])
    BY <1>1, <1>5, <2>5, <2>6 DEF Good, Phase, Fits, Whole
  <2>8. toClient' = [toClient EXCEPT ![c] = x]
    BY <1>12 DEF SrvSends, x, e, p
  <2>9. srv' = [srv EXCEPT ![c] = v]
    BY <1>4, <1>12 DEF v
  <2> QED
    BY <1>1, <1>2, <2>4, <2>7, <2>8, <2>9, TakesStep DEF r, q, w
<1> QED
  BY <1>3, <1>11, <1>12

LEMMA TakesConfirm ==
    ASSUME Ssh2ChannelsAssumption, IInv, NEW c \in Chan, SrvTakes(c),
           Head(toServer[c]).t = "confirm"
    PROVE  IInv'
<1> DEFINE r == channel[c]
           q == toServer[c]
           p == toClient[c]
           v == srv[c]
           m == Head(q)
           w == Tail(q)
           u == [v EXCEPT !.state = "open", !.outwin = m.n]
<1>1. /\ r \in Channels /\ q \in Seq(Messages) /\ p \in Seq(Messages) /\ v \in Servers
      /\ Good(r, q, p, v, throttled_all, app[c])
  BY Here
<1>a. srv \in [Chan -> Servers] /\ toClient \in [Chan -> Seq(Messages)]
  BY DEF IInv, TypeOK
<1>2. /\ q # <<>> /\ m.t = "confirm"
      /\ toServer' = [toServer EXCEPT ![c] = Tail(@)]
      /\ UNCHANGED <<channel, throttled_all, app, fault>>
      /\ toClient' = [toClient EXCEPT ![c] = p] /\ srv' = [srv EXCEPT ![c] = u]
  <2>1. q # <<>> /\ m.t = "confirm"
    BY ZenonT(60) DEF SrvTakes
  <2>2. /\ toServer' = [toServer EXCEPT ![c] = Tail(@)]
        /\ UNCHANGED <<channel, throttled_all, app, fault>>
    BY ZenonT(60) DEF SrvTakes
  <2>3. /\ srv' = [srv EXCEPT ![c].state = "open", ![c].outwin = m.n]
        /\ UNCHANGED toClient
    BY <2>1 DEF SrvTakes
  <2>4. toClient' = [toClient EXCEPT ![c] = p]
    BY <1>a, <2>3
  <2>5. srv' = [srv EXCEPT ![c] = u]
    BY <1>a, <2>3
  <2> QED
    BY <2>1, <2>2, <2>4, <2>5, SMTT(40)
<1> HIDE DEF r, q, p, v, m, w, u
<1>3. /\ w \in Seq(Messages) /\ m \in Messages /\ Blank(w)
      /\ m.t # "data" => Contents(w) = Contents(q)
      /\ Contents(q) = Cat(m.bytes, Contents(w))
      /\ Amount(q, Grants) = Worth(m, Grants) + Amount(w, Grants)
  BY <1>1, <1>2, TakenFacts DEF Good, m, w
<1>4. m.n \in Nat /\ m.bytes \in Seq(Nat) /\ v.inwin \in Nat /\ v.outwin \in Nat
      /\ v.got \in Seq(Nat) /\ v.sentClose \in BOOLEAN
  BY <1>1, <1>3 DEF Messages, Servers
<1>5. Joined(r, q, p, v) \/ Deleted(r, q, p, v)
  <2>1. ~Asked(r, q, p, v)
    <3>1. m = q[1]
      BY <1>1, <1>2, TakenFacts DEF Good, m
    <3> QED
      BY <1>2, <3>1 DEF Asked
  <2> QED
    BY <1>1, <1>2, <2>1 DEF Good, Phase, Idle, Declined, Accepted, HalfClosed, Forgotten
<1>6. /\ Up(q, v.state = "asking") /\ Up(w, FALSE)
      /\ m.t = "confirm" <=> v.state = "asking"
      /\ m.t # "close" => (Ends(w) <=> Ends(q))
      /\ m.t = "close" => w = <<>> /\ Ends(q)
  <2>1. (v.state = "asking") \in BOOLEAN
    OBVIOUS
  <2>2. Up(q, v.state = "asking")
    <3>1. ASSUME Deleted(r, q, p, v) PROVE (v.state = "asking") = FALSE
      BY <3>1 DEF Deleted
    <3> QED
      BY <1>5, <3>1 DEF Joined, Deleted
  <2> QED
    BY <1>1, <1>2, <2>1, <2>2, UpTakes DEF m, w
<1>7. ~Declined(r, q, p, v) /\ ~Declined(r, w, p, u)
  BY <1>5 DEF Joined, Deleted, Declined
<1>8. /\ u \in Servers /\ u.state = "open" /\ u.outwin = m.n /\ u.inwin = v.inwin
      /\ u.got = v.got /\ u.gotClose = v.gotClose /\ u.sentClose = v.sentClose
  BY <1>1, <1>4 DEF Servers, u
<1>9. v.state = "asking" /\ Joined(r, q, p, v)
  BY <1>2, <1>5, <1>6 DEF Deleted
<1>10. Joined(r, w, p, u)
  <2>1. Up(w, u.state = "asking")
    <3>1. (u.state = "asking") = FALSE
      BY <1>8
    <3> QED
      BY <1>6, <3>1
  <2> QED
    BY <1>2, <1>6, <1>8, <1>9, <2>1 DEF Joined
<1>11. Fits(r, w, p, u)
  <2>1. SUFFICES ASSUME Replies \subseteq {0}, r.s
                 PROVE  /\ r.locwindow = u.outwin + Amount(w, Grants) + Amount(p, {"data"})
                        /\ r.locwindow + r.out <= OUR_V2_WINSIZE
    BY DEF Fits
  <2>2. /\ r.locwindow = v.outwin + Amount(q, Grants) + Amount(p, {"data"})
        /\ r.locwindow + r.out <= OUR_V2_WINSIZE
    BY <1>1, <1>7, <2>1 DEF Good, Fits
  <2>3. v.outwin = 0
    BY <1>1, <1>9 DEF Good, Fresh
  <2>4. Worth(m, Grants) = m.n
    BY <1>2 DEF Worth, Grants
  <2>5. Amount(w, Grants) \in Nat /\ Amount(p, {"data"}) \in Nat
    BY <1>1, <1>3, AmountNat
  <2> QED
    BY <1>3, <1>4, <1>8, <2>2, <2>3, <2>4, <2>5
<1>20. u \in Servers /\ Good(r, w, p, u, throttled_all, app[c])
  <2>1. Room(r, w, p, u)
    BY <1>1, <1>2, <1>3, <1>8 DEF Good, Room
  <2>2. Whole(r, w, p, u, app[c])
    BY <1>1, <1>2, <1>3, <1>7, <1>8 DEF Good, Whole
  <2> QED
    BY <1>1, <1>3, <1>8, <1>10, <1>11, <2>1, <2>2 DEF Good, Phase, Fresh
<1> QED
  BY <1>1, <1>2, <1>20, TakesStep DEF r, q, w

LEMMA TakesData ==
    ASSUME Ssh2ChannelsAssumption, IInv, NEW c \in Chan, SrvTakes(c),
           Head(toServer[c]).t = "data"
    PROVE  IInv'
<1> DEFINE r == channel[c]
           q == toServer[c]
           p == toClient[c]
           v == srv[c]
           m == Head(q)
           w == Tail(q)
           u == [v EXCEPT !.got = Cat(@, m.bytes), !.inwin = @ - Len(m.bytes)]
<1>1. /\ r \in Channels /\ q \in Seq(Messages) /\ p \in Seq(Messages) /\ v \in Servers
      /\ Good(r, q, p, v, throttled_all, app[c])
  BY Here
<1>a. srv \in [Chan -> Servers] /\ toClient \in [Chan -> Seq(Messages)]
  BY DEF IInv, TypeOK
<1>2. /\ q # <<>> /\ m.t = "data"
      /\ toServer' = [toServer EXCEPT ![c] = Tail(@)]
      /\ UNCHANGED <<channel, throttled_all, app, fault>>
      /\ toClient' = [toClient EXCEPT ![c] = p] /\ srv' = [srv EXCEPT ![c] = u]
  <2>1. q # <<>> /\ m.t = "data"
    BY ZenonT(60) DEF SrvTakes
  <2>2. /\ toServer' = [toServer EXCEPT ![c] = Tail(@)]
        /\ UNCHANGED <<channel, throttled_all, app, fault>>
    BY ZenonT(60) DEF SrvTakes
  <2>3. /\ srv' = [srv EXCEPT ![c].got = Cat(@, m.bytes), ![c].inwin = @ - Len(m.bytes)]
        /\ UNCHANGED toClient
    BY <2>1 DEF SrvTakes, Cat
  <2>4. toClient' = [toClient EXCEPT ![c] = p]
    BY <1>a, <2>3
  <2>5. srv' = [srv EXCEPT ![c] = u]
    BY <1>a, <2>3
  <2> QED
    BY <2>1, <2>2, <2>4, <2>5, SMTT(40)
<1> HIDE DEF r, q, p, v, m, w, u
<1>3. /\ w \in Seq(Messages) /\ m \in Messages /\ Blank(w)
      /\ m.t # "data" => Contents(w) = Contents(q)
      /\ Contents(q) = Cat(m.bytes, Contents(w))
      /\ Amount(q, Grants) = Worth(m, Grants) + Amount(w, Grants)
  BY <1>1, <1>2, TakenFacts DEF Good, m, w
<1>4. m.n \in Nat /\ m.bytes \in Seq(Nat) /\ v.inwin \in Nat /\ v.outwin \in Nat
      /\ v.got \in Seq(Nat) /\ v.sentClose \in BOOLEAN
  BY <1>1, <1>3 DEF Messages, Servers
<1>5. Joined(r, q, p, v) \/ Deleted(r, q, p, v)
  <2>1. ~Asked(r, q, p, v)
    <3>1. m = q[1]
      BY <1>1, <1>2, TakenFacts DEF Good, m
    <3> QED
      BY <1>2, <3>1 DEF Asked
  <2> QED
    BY <1>1, <1>2, <2>1 DEF Good, Phase, Idle, Declined, Accepted, HalfClosed, Forgotten
<1>6. /\ Up(q, v.state = "asking") /\ Up(w, FALSE)
      /\ m.t = "confirm" <=> v.state = "asking"
      /\ m.t # "close" => (Ends(w) <=> Ends(q))
      /\ m.t = "close" => w = <<>> /\ Ends(q)
  <2>1. (v.state = "asking") \in BOOLEAN
    OBVIOUS
  <2>2. Up(q, v.state = "asking")
    <3>1. ASSUME Deleted(r, q, p, v) PROVE (v.state = "asking") = FALSE
      BY <3>1 DEF Deleted
    <3> QED
      BY <1>5, <3>1 DEF Joined, Deleted
  <2> QED
    BY <1>1, <1>2, <2>1, <2>2, UpTakes DEF m, w
<1>7. ~Declined(r, q, p, v) /\ ~Declined(r, w, p, u)
  BY <1>5 DEF Joined, Deleted, Declined
<1>b. /\ Len(m.bytes) \in Nat /\ Len(Contents(w)) \in Nat /\ Len(Contents(q)) \in Nat
      /\ Contents(w) \in Seq(Nat)
      /\ Len(Contents(q)) = Len(m.bytes) + Len(Contents(w))
      /\ v.inwin <= MaxWindow /\ Len(Contents(q)) <= v.inwin
      /\ MaxWindow \in Nat
  <2>1. Len(m.bytes) \in Nat
    BY <1>4, LenProperties
  <2>2. Len(Contents(w)) \in Nat /\ Len(Contents(q)) \in Nat /\ Contents(w) \in Seq(Nat)
    BY <1>1, <1>3, ContentsType
  <2>3. Len(Contents(q)) = Len(m.bytes) + Len(Contents(w))
    BY <1>3, <1>4, <2>2, LenCat
  <2> QED
    BY <1>1, <2>1, <2>2, <2>3 DEF Good, Room, Ssh2ChannelsAssumption, Unsigned
<1>8. /\ u \in Servers /\ u.state = v.state /\ u.outwin = v.outwin
      /\ u.inwin = v.inwin - Len(m.bytes)
      /\ u.got = Cat(v.got, m.bytes) /\ u.gotClose = v.gotClose /\ u.sentClose = v.sentClose
  <2>1. v.inwin - Len(m.bytes) \in Nat
    BY <1>4, <1>b
  <2>2. Cat(v.got, m.bytes) \in Seq(Nat)
    BY <1>4, CatProperties
  <2> DEFINE x == v.inwin - Len(m.bytes)
             y == Cat(v.got, m.bytes)
  <2>3. u = [v EXCEPT !.got = y, !.inwin = x]
    BY DEF u
  <2> HIDE DEF x, y
  <2>4. /\ u \in Servers /\ u.state = v.state /\ u.outwin = v.outwin /\ u.inwin = x
        /\ u.got = y /\ u.gotClose = v.gotClose /\ u.sentClose = v.sentClose
    BY <1>1, <2>1, <2>2, <2>3 DEF Servers, x, y
  <2> QED
    BY <2>4 DEF x, y
<1>9. v.state = "open"
  BY <1>2, <1>5, <1>6 DEF Joined, Deleted
<1>10. Phase(r, w, p, u)
  <2>1. CASE Joined(r, q, p, v)
    <3>1. Up(w, u.state = "asking")
      <4>1. (u.state = "asking") = FALSE
        BY <1>8, <1>9
      <4> QED
        BY <1>6, <4>1
    <3>2. Joined(r, w, p, u)
      BY <1>2, <1>6, <1>8, <1>9, <2>1, <3>1 DEF Joined
    <3> QED
      BY <3>2 DEF Phase
  <2>2. CASE Deleted(r, q, p, v)
    <3>1. Deleted(r, w, p, u)
      BY <1>2, <1>6, <1>8, <1>9, <2>2 DEF Deleted
    <3> QED
      BY <3>1 DEF Phase
  <2> QED
    BY <1>5, <2>1, <2>2
<1>11. Fits(r, w, p, u)
  <2>1. Worth(m, Grants) = 0
    BY <1>2 DEF Worth, Grants
  <2>2. Amount(w, Grants) \in Nat
    BY <1>3, AmountNat
  <2>3. Amount(w, Grants) = Amount(q, Grants)
    BY <1>3, <2>1, <2>2
  <2> QED
    BY <1>1, <1>7, <1>8, <2>3 DEF Good, Fits
<1>20. u \in Servers /\ Good(r, w, p, u, throttled_all, app[c])
  <2>1. Room(r, w, p, u)
    <3>1. u.inwin <= MaxWindow /\ Len(Contents(w)) <= u.inwin
      BY <1>4, <1>8, <1>b
    <3>2. ASSUME r.s
          PROVE  u.inwin = r.remwindow + Amount(p, Takes) + Len(Contents(w))
      <4>1. v.inwin = r.remwindow + Amount(p, Takes) + Len(Contents(q))
        BY <1>1, <3>2 DEF Good, Room
      <4>2. r.remwindow \in Nat
        BY <1>1 DEF Channels, Unsigned, Ssh2ChannelsAssumption
      <4>3. Amount(p, Takes) \in Nat
        BY <1>1, AmountNat
      <4> DEFINE x == r.remwindow
                 y == Amount(p, Takes)
                 k == Len(Contents(w))
                 l == Len(m.bytes)
                 i == v.inwin
      <4>4. /\ x \in Nat /\ y \in Nat /\ k \in Nat /\ l \in Nat /\ i \in Nat
            /\ i = x + y + (l + k)
        BY <1>4, <1>b, <4>1, <4>2, <4>3
      <4>5. u.inwin = i - l
        BY <1>8
      <4> HIDE DEF x, y, k, l, i
      <4>6. u.inwin = x + y + k
        BY <4>4, <4>5
      <4> QED
        BY <4>6 DEF x, y, k
    <3> QED
      BY <3>1, <3>2 DEF Room
  <2>2. Whole(r, w, p, u, app[c])
    <3>1. SUFFICES ASSUME Leftovers \subseteq {0}, r.s
                   PROVE  /\ r.buffer = <<>>
                          /\ Cat(u.got, Cat(Cat(Contents(w), r.outbuffer), r.missed))
                                = Run(0, app[c])
      BY DEF Whole
    <3>2. /\ r.buffer = <<>>
          /\ Cat(v.got, Cat(Cat(Contents(q), r.outbuffer), r.missed)) = Run(0, app[c])
      BY <1>1, <1>7, <3>1 DEF Good, Whole
    <3>3. r.outbuffer \in Seq(Nat) /\ r.missed \in Seq(Nat)
      BY <1>1 DEF Channels
    <3> DEFINE b == m.bytes
               k == Contents(w)
               o == r.outbuffer
               n == r.missed
               g == v.got
    <3>4. b \in Seq(Nat) /\ k \in Seq(Nat) /\ o \in Seq(Nat) /\ n \in Seq(Nat) /\ g \in Seq(Nat)
      BY <1>4, <1>b, <3>3
    <3>5. Cat(g, Cat(Cat(Cat(b, k), o), n)) = Run(0, app[c]) /\ u.got = Cat(g, b)
      BY <1>3, <1>8, <3>2
    <3> HIDE DEF b, k, o, n, g
    <3>6. /\ Cat(Cat(b, k), o) = Cat(b, Cat(k, o)) /\ Cat(k, o) \in Seq(Nat)
          /\ Cat(Cat(k, o), n) \in Seq(Nat)
      BY <3>4, CatProperties
    <3>7. Cat(Cat(b, Cat(k, o)), n) = Cat(b, Cat(Cat(k, o), n))
      BY <3>4, <3>6, CatAssociative
    <3>8. Cat(Cat(g, b), Cat(Cat(k, o), n)) = Cat(g, Cat(b, Cat(Cat(k, o), n)))
      BY <3>4, <3>6, CatAssociative
    <3>9. Cat(u.got, Cat(Cat(k, o), n)) = Run(0, app[c])
      BY <3>5, <3>6, <3>7, <3>8
    <3> QED
      BY <3>2, <3>9 DEF k, o, n
  <2> QED
    BY <1>1, <1>3, <1>8, <1>9, <1>10, <1>11, <2>1, <2>2 DEF Good, Fresh
<1> QED
  BY <1>1, <1>2, <1>20, TakesStep DEF r, q, w

LEMMA TakesAdjust ==
    ASSUME Ssh2ChannelsAssumption, IInv, NEW c \in Chan, SrvTakes(c),
           Head(toServer[c]).t = "adjust"
    PROVE  IInv'
<1> DEFINE r == channel[c]
           q == toServer[c]
           p == toClient[c]
           v == srv[c]
           m == Head(q)
           w == Tail(q)
           u == [v EXCEPT !.outwin = @ + m.n]
<1>1. /\ r \in Channels /\ q \in Seq(Messages) /\ p \in Seq(Messages) /\ v \in Servers
      /\ Good(r, q, p, v, throttled_all, app[c])
  BY Here
<1>a. srv \in [Chan -> Servers] /\ toClient \in [Chan -> Seq(Messages)]
  BY DEF IInv, TypeOK
<1>2. /\ q # <<>> /\ m.t = "adjust"
      /\ toServer' = [toServer EXCEPT ![c] = Tail(@)]
      /\ UNCHANGED <<channel, throttled_all, app, fault>>
      /\ toClient' = [toClient EXCEPT ![c] = p] /\ srv' = [srv EXCEPT ![c] = u]
  <2>1. q # <<>> /\ m.t = "adjust"
    BY ZenonT(60) DEF SrvTakes
  <2>2. /\ toServer' = [toServer EXCEPT ![c] = Tail(@)]
        /\ UNCHANGED <<channel, throttled_all, app, fault>>
    BY ZenonT(60) DEF SrvTakes
  <2>3. /\ srv' = [srv EXCEPT ![c].outwin = @ + m.n]
        /\ UNCHANGED toClient
    BY <2>1 DEF SrvTakes
  <2>4. toClient' = [toClient EXCEPT ![c] = p]
    BY <1>a, <2>3
  <2>5. srv' = [srv EXCEPT ![c] = u]
    BY <1>a, <2>3
  <2> QED
    BY <2>1, <2>2, <2>4, <2>5, SMTT(40)
<1> HIDE DEF r, q, p, v, m, w, u
<1>3. /\ w \in Seq(Messages) /\ m \in Messages /\ Blank(w)
      /\ m.t # "data" => Contents(w) = Contents(q)
      /\ Contents(q) = Cat(m.bytes, Contents(w))
      /\ Amount(q, Grants) = Worth(m, Grants) + Amount(w, Grants)
  BY <1>1, <1>2, TakenFacts DEF Good, m, w
<1>4. m.n \in Nat /\ m.bytes \in Seq(Nat) /\ v.inwin \in Nat /\ v.outwin \in Nat
      /\ v.got \in Seq(Nat) /\ v.sentClose \in BOOLEAN
  BY <1>1, <1>3 DEF Messages, Servers
<1>5. Joined(r, q, p, v) \/ Deleted(r, q, p, v)
  <2>1. ~Asked(r, q, p, v)
    <3>1. m = q[1]
      BY <1>1, <1>2, TakenFacts DEF Good, m
    <3> QED
      BY <1>2, <3>1 DEF Asked
  <2> QED
    BY <1>1, <1>2, <2>1 DEF Good, Phase, Idle, Declined, Accepted, HalfClosed, Forgotten
<1>6. /\ Up(q, v.state = "asking") /\ Up(w, FALSE)
      /\ m.t = "confirm" <=> v.state = "asking"
      /\ m.t # "close" => (Ends(w) <=> Ends(q))
      /\ m.t = "close" => w = <<>> /\ Ends(q)
  <2>1. (v.state = "asking") \in BOOLEAN
    OBVIOUS
  <2>2. Up(q, v.state = "asking")
    <3>1. ASSUME Deleted(r, q, p, v) PROVE (v.state = "asking") = FALSE
      BY <3>1 DEF Deleted
    <3> QED
      BY <1>5, <3>1 DEF Joined, Deleted
  <2> QED
    BY <1>1, <1>2, <2>1, <2>2, UpTakes DEF m, w
<1>7. ~Declined(r, q, p, v) /\ ~Declined(r, w, p, u)
  BY <1>5 DEF Joined, Deleted, Declined
<1>8. /\ u \in Servers /\ u.state = v.state /\ u.outwin = v.outwin + m.n
      /\ u.inwin = v.inwin
      /\ u.got = v.got /\ u.gotClose = v.gotClose /\ u.sentClose = v.sentClose
  <2> DEFINE o == v.outwin + m.n
  <2>1. o \in Nat
    BY <1>4
  <2>2. u = [v EXCEPT !.outwin = o]
    BY DEF u
  <2> HIDE DEF o
  <2>3. /\ u \in Servers /\ u.state = v.state /\ u.outwin = o
        /\ u.inwin = v.inwin
        /\ u.got = v.got /\ u.gotClose = v.gotClose /\ u.sentClose = v.sentClose
    BY <1>1, <2>1, <2>2 DEF Servers
  <2> QED
    BY <2>3 DEF o
<1>9. v.state = "open"
  BY <1>2, <1>5, <1>6 DEF Joined, Deleted
<1>10. Phase(r, w, p, u)
  <2>1. CASE Joined(r, q, p, v)
    <3>1. Up(w, u.state = "asking")
      <4>1. (u.state = "asking") = FALSE
        BY <1>8, <1>9
      <4> QED
        BY <1>6, <4>1
    <3>2. Joined(r, w, p, u)
      BY <1>2, <1>6, <1>8, <1>9, <2>1, <3>1 DEF Joined
    <3> QED
      BY <3>2 DEF Phase
  <2>2. CASE Deleted(r, q, p, v)
    <3>1. Deleted(r, w, p, u)
      BY <1>2, <1>6, <1>8, <1>9, <2>2 DEF Deleted
    <3> QED
      BY <3>1 DEF Phase
  <2> QED
    BY <1>5, <2>1, <2>2
<1>11. Fits(r, w, p, u)
  <2>1. SUFFICES ASSUME Replies \subseteq {0}, r.s
                 PROVE  /\ r.locwindow = u.outwin + Amount(w, Grants) + Amount(p, {"data"})
                        /\ r.locwindow + r.out <= OUR_V2_WINSIZE
    BY DEF Fits
  <2>2. /\ r.locwindow = v.outwin + Amount(q, Grants) + Amount(p, {"data"})
        /\ r.locwindow + r.out <= OUR_V2_WINSIZE
    BY <1>1, <1>7, <2>1 DEF Good, Fits
  <2>4. Worth(m, Grants) = m.n
    BY <1>2 DEF Worth, Grants
  <2>5. Amount(w, Grants) \in Nat /\ Amount(p, {"data"}) \in Nat
    BY <1>1, <1>3, AmountNat
  <2> QED
    BY <1>3, <1>4, <1>8, <2>2, <2>4, <2>5
<1>20. u \in Servers /\ Good(r, w, p, u, throttled_all, app[c])
  <2>1. Room(r, w, p, u)
    BY <1>1, <1>2, <1>3, <1>8 DEF Good, Room
  <2>2. Whole(r, w, p, u, app[c])
    BY <1>1, <1>2, <1>3, <1>7, <1>8 DEF Good, Whole
  <2> QED
    BY <1>1, <1>3, <1>8, <1>9, <1>10, <1>11, <2>1, <2>2 DEF Good, Fresh
<1> QED
  BY <1>1, <1>2, <1>20, TakesStep DEF r, q, w

LEMMA TakesClose ==
    ASSUME Ssh2ChannelsAssumption, IInv, NEW c \in Chan, SrvTakes(c),
           Head(toServer[c]).t = "close"
    PROVE  IInv'
<1> DEFINE r == channel[c]
           q == toServer[c]
           p == toClient[c]
           v == srv[c]
           m == Head(q)
           w == Tail(q)
           u == IF v.sentClose THEN NoServer ELSE [v EXCEPT !.gotClose = TRUE]
<1>1. /\ r \in Channels /\ q \in Seq(Messages) /\ p \in Seq(Messages) /\ v \in Servers
      /\ Good(r, q, p, v, throttled_all, app[c])
  BY Here
<1>a. srv \in [Chan -> Servers] /\ toClient \in [Chan -> Seq(Messages)]
  BY DEF IInv, TypeOK
<1>2. /\ q # <<>> /\ m.t = "close"
      /\ toServer' = [toServer EXCEPT ![c] = Tail(@)]
      /\ UNCHANGED <<channel, throttled_all, app, fault>>
      /\ toClient' = [toClient EXCEPT ![c] = p] /\ srv' = [srv EXCEPT ![c] = u]
  <2>1. q # <<>> /\ m.t = "close"
    BY ZenonT(60) DEF SrvTakes
  <2>2. /\ toServer' = [toServer EXCEPT ![c] = Tail(@)]
        /\ UNCHANGED <<channel, throttled_all, app, fault>>
    BY ZenonT(60) DEF SrvTakes
  <2>3. /\ srv' = [srv EXCEPT ![c] = IF @.sentClose THEN NoServer ELSE [@ EXCEPT !.gotClose = TRUE]]
        /\ UNCHANGED toClient
    BY <2>1 DEF SrvTakes
  <2>4. toClient' = [toClient EXCEPT ![c] = p]
    BY <1>a, <2>3
  <2>5. srv' = [srv EXCEPT ![c] = u]
    BY <1>a, <2>3
  <2> QED
    BY <2>1, <2>2, <2>4, <2>5, SMTT(40)
<1> HIDE DEF r, q, p, v, m, w, u
<1>3. /\ w \in Seq(Messages) /\ m \in Messages /\ Blank(w)
      /\ m.t # "data" => Contents(w) = Contents(q)
      /\ Contents(q) = Cat(m.bytes, Contents(w))
      /\ Amount(q, Grants) = Worth(m, Grants) + Amount(w, Grants)
  BY <1>1, <1>2, TakenFacts DEF Good, m, w
<1>4. m.n \in Nat /\ m.bytes \in Seq(Nat) /\ v.inwin \in Nat /\ v.outwin \in Nat
      /\ v.got \in Seq(Nat) /\ v.sentClose \in BOOLEAN
  BY <1>1, <1>3 DEF Messages, Servers
<1>5. Joined(r, q, p, v) \/ Deleted(r, q, p, v)
  <2>1. ~Asked(r, q, p, v)
    <3>1. m = q[1]
      BY <1>1, <1>2, TakenFacts DEF Good, m
    <3> QED
      BY <1>2, <3>1 DEF Asked
  <2> QED
    BY <1>1, <1>2, <2>1 DEF Good, Phase, Idle, Declined, Accepted, HalfClosed, Forgotten
<1>6. /\ Up(q, v.state = "asking") /\ Up(w, FALSE)
      /\ m.t = "confirm" <=> v.state = "asking"
      /\ m.t # "close" => (Ends(w) <=> Ends(q))
      /\ m.t = "close" => w = <<>> /\ Ends(q)
  <2>1. (v.state = "asking") \in BOOLEAN
    OBVIOUS
  <2>2. Up(q, v.state = "asking")
    <3>1. ASSUME Deleted(r, q, p, v) PROVE (v.state = "asking") = FALSE
      BY <3>1 DEF Deleted
    <3> QED
      BY <1>5, <3>1 DEF Joined, Deleted
  <2> QED
    BY <1>1, <1>2, <2>1, <2>2, UpTakes DEF m, w
<1>7. ~Declined(r, q, p, v) /\ ~Declined(r, w, p, u)
  BY <1>5 DEF Joined, Deleted, Declined
<1>8. IF v.sentClose THEN u = NoServer
      ELSE /\ u \in Servers /\ u.state = v.state /\ u.outwin = v.outwin
           /\ u.inwin = v.inwin /\ u.got = v.got /\ u.gotClose = TRUE
           /\ u.sentClose = v.sentClose
  BY <1>1 DEF Servers, u
<1>9. v.state = "open" /\ w = <<>> /\ Ends(q)
  BY <1>2, <1>5, <1>6 DEF Joined, Deleted
<1>10. /\ ~r.s /\ Contents(w) = <<>> /\ Len(<<>>) = 0
       /\ v.inwin <= MaxWindow /\ MaxWindow \in Nat
  <2>1. ~r.s
    <3>1. CASE Joined(r, q, p, v)
      <4>1. r.closes = 1
        BY <1>9, <3>1 DEF Joined
      <4> QED
        BY <1>1, <4>1 DEF Good, Plugged
    <3>2. CASE Deleted(r, q, p, v)
      <4>1. r.type = "none"
        BY <3>2 DEF Deleted
      <4> QED
        BY <1>1, <4>1 DEF Good, Plugged
    <3> QED
      BY <1>5, <3>1, <3>2
  <2> QED
    BY <1>1, <1>9, <2>1, NoMessages, EmptySeq
       DEF Good, Room, Ssh2ChannelsAssumption, Unsigned
<1>11. CASE v.sentClose
  <2>1. u = NoServer
    BY <1>8, <1>11
  <2>2. Phase(r, w, p, u)
    <3>1. CASE Joined(r, q, p, v)
      <4>1. Forgotten(r, w, p, u)
        <5>1. Down(p, 1, TRUE)
          BY <1>4, <1>11, <3>1 DEF Joined
        <5> QED
          BY <1>9, <2>1, <3>1, <5>1, NoServerFacts DEF Joined, Forgotten
      <4> QED
        BY <4>1 DEF Phase
    <3>2. CASE Deleted(r, q, p, v)
      <4>1. Idle(r, w, p, u)
        BY <1>9, <2>1, <3>2, NoServerFacts DEF Deleted, Idle
      <4> QED
        BY <4>1 DEF Phase
    <3> QED
      BY <1>5, <3>1, <3>2
  <2>3. Room(r, w, p, u)
    BY <1>10, <2>1, NoServerFacts DEF Room
  <2>4. Good(r, w, p, u, throttled_all, app[c]) /\ u \in Servers
    BY <1>1, <1>3, <1>10, <2>1, <2>2, <2>3, NoServerFacts DEF Good, Fits, Whole
  <2> QED
    BY <1>1, <1>2, <2>4, TakesStep DEF r, q, w
<1>12. CASE ~v.sentClose
  <2>1. /\ u \in Servers /\ u.state = v.state /\ u.outwin = v.outwin
        /\ u.inwin = v.inwin /\ u.got = v.got /\ u.gotClose = TRUE
        /\ u.sentClose = v.sentClose
    BY <1>8, <1>12
  <2>2. HalfClosed(r, w, p, u)
    <3>1. Joined(r, q, p, v)
      BY <1>5, <1>12 DEF Deleted
    <3>2. Down(p, 1, FALSE)
      BY <1>4, <1>12, <3>1 DEF Joined
    <3> QED
      BY <1>9, <1>12, <2>1, <3>1, <3>2 DEF Joined, HalfClosed
  <2>3. Room(r, w, p, u)
    BY <1>4, <1>10, <2>1 DEF Room
  <2>4. Good(r, w, p, u, throttled_all, app[c])
    BY <1>1, <1>3, <1>9, <1>10, <2>1, <2>2, <2>3 DEF Good, Phase, Fits, Whole, Fresh
  <2> QED
    BY <1>1, <1>2, <2>1, <2>4, TakesStep DEF r, q, w
<1> QED
  BY <1>11, <1>12

LEMMA SrvTakesKeeps ==
    ASSUME Ssh2ChannelsAssumption, IInv, NEW c \in Chan, SrvTakes(c)
    PROVE  IInv'
<1>1. Head(toServer[c]).t \in {"open", "confirm", "data", "adjust", "close"}
  BY DEF SrvTakes
<1> QED
  BY <1>1, TakesOpen, TakesConfirm, TakesData, TakesAdjust, TakesClose, SMTT(40)

-------------------------------------------------------------------------------
(* The program's steps and the applications'.                               *)

(* A step that concerns channel c alone leaves the invariant true if what   *)
(* it makes of the channel is good.                                         *)
LEMMA ClientStep ==
    ASSUME IInv, NEW c \in Chan, NEW st \in States, NEW x \in Seq(Messages),
           NEW u \in Servers, NEW a \in Nat,
           Becomes(c, st), toClient' = [toClient EXCEPT ![c] = x],
           srv' = [srv EXCEPT ![c] = u], app' = [app EXCEPT ![c] = a],
           UNCHANGED <<throttled_all, fault>>,
           Good(st.r, st.q, x, u, throttled_all, a)
    PROVE  IInv'
<1>1. st.r \in Channels /\ st.q \in Seq(Messages)
  BY StateFields
<1>2. /\ channel' = [channel EXCEPT ![c] = st.r]
      /\ toServer' = [toServer EXCEPT ![c] = st.q]
  BY DEF Becomes
<1>3. /\ TypeOK' /\ ~fault' /\ throttled_all' = throttled_all
      /\ \A d \in Chan : d # c =>
            /\ channel'[d] = channel[d] /\ toServer'[d] = toServer[d]
            /\ toClient'[d] = toClient[d] /\ srv'[d] = srv[d] /\ app'[d] = app[d]
      /\ channel'[c] = st.r /\ toServer'[c] = st.q /\ app'[c] = a
      /\ toClient'[c] = x /\ srv'[c] = u
  BY <1>1, <1>2 DEF IInv, TypeOK
<1>4. Good(channel'[c], toServer'[c], toClient'[c], srv'[c], throttled_all, app'[c])
  BY <1>3
<1> QED
  BY <1>3, <1>4, OneStep

(* What a step that leaves a variable alone does to its value for c. *)
LEMMA Unchanged ==
    ASSUME IInv, NEW c \in Chan
    PROVE  /\ UNCHANGED toClient => toClient' = [toClient EXCEPT ![c] = toClient[c]]
           /\ UNCHANGED srv => srv' = [srv EXCEPT ![c] = srv[c]]
           /\ UNCHANGED app => app' = [app EXCEPT ![c] = app[c]]
           /\ UNCHANGED <<channel, toServer>> => Becomes(c, State(c))
BY DEF IInv, TypeOK, Becomes, State

(* The phase depends on the channel's type and on closes only. *)
LEMMA SamePhase ==
    ASSUME NEW r, NEW e, NEW q, NEW p, NEW v, e.type = r.type, e.closes = r.closes
    PROVE  /\ Phase(r, q, p, v) <=> Phase(e, q, p, v)
           /\ Declined(r, q, p, v) <=> Declined(e, q, p, v)
<1>1. /\ Idle(r, q, p, v) <=> Idle(e, q, p, v)
      /\ Asked(r, q, p, v) <=> Asked(e, q, p, v)
      /\ Declined(r, q, p, v) <=> Declined(e, q, p, v)
      /\ Accepted(r, q, p, v) <=> Accepted(e, q, p, v)
  BY DEF Idle, Asked, Declined, Accepted
<1>2. /\ Joined(r, q, p, v) <=> Joined(e, q, p, v)
      /\ HalfClosed(r, q, p, v) <=> HalfClosed(e, q, p, v)
      /\ Forgotten(r, q, p, v) <=> Forgotten(e, q, p, v)
      /\ Deleted(r, q, p, v) <=> Deleted(e, q, p, v)
  BY DEF Joined, HalfClosed, Forgotten, Deleted
<1> QED
  BY <1>1, <1>2 DEF Phase

(* What the application writes comes after all it has written before. *)
LEMMA WroteMore ==
    ASSUME NEW g \in Seq(Nat), NEW x \in Seq(Nat), NEW a \in Nat, NEW n \in Nat,
           Cat(g, x) = Run(0, a)
    PROVE  Cat(g, Cat(x, Run(a, n))) = Run(0, a + n)
<1>1. Run(a, n) \in Seq(Nat) /\ Cat(Run(0, a), Run(a, n)) = Run(0, a + n)
  BY RunFacts
<1>2. Cat(Cat(g, x), Run(a, n)) = Cat(g, Cat(x, Run(a, n)))
  BY <1>1, CatProperties
<1> QED
  BY <1>1, <1>2

LEMMA AppWritesKeeps ==
    ASSUME Ssh2ChannelsAssumption, IInv, NEW c \in Chan, NEW n \in 1 .. MaxApp,
           AppWrites(c, n)
    PROVE  IInv'
<1> DEFINE st == State(c)
           p == toClient[c]
           v == srv[c]
           a == app[c]
           b == Run(a, n)
           u == PfdReceive(st, b)
           e == [st EXCEPT !.r.missed = b]
<1>1. /\ st \in States /\ p \in Seq(Messages) /\ v \in Servers /\ a \in Nat
      /\ Good(st.r, st.q, p, v, throttled_all, a) /\ st.r = channel[c]
  BY Here
<1>2. /\ st.r.s /\ st.r.missed = <<>> /\ a + n \in Nat /\ n \in Nat
      /\ app' = [app EXCEPT ![c] = a + n]
      /\ IF st.r.frozen THEN Becomes(c, e) ELSE Becomes(c, u)
      /\ toClient' = [toClient EXCEPT ![c] = p] /\ srv' = [srv EXCEPT ![c] = v]
      /\ UNCHANGED <<throttled_all, fault>>
  <2>1. n \in Nat
    BY DEF Ssh2ChannelsAssumption
  <2>2. /\ st.r.s /\ st.r.missed = <<>> /\ app' = [app EXCEPT ![c] = @ + n]
        /\ IF st.r.frozen THEN Becomes(c, e) ELSE Becomes(c, u)
        /\ UNCHANGED <<toClient, srv, throttled_all, fault>>
    BY <1>1 DEF AppWrites
  <2>3. app' = [app EXCEPT ![c] = a + n]
    BY <2>2
  <2>4. toClient' = [toClient EXCEPT ![c] = p] /\ srv' = [srv EXCEPT ![c] = v]
    BY <2>2, Unchanged
  <2> HIDE DEF st, p, v, a, u, e, b
  <2>5. a + n \in Nat
    BY <1>1, <2>1
  <2>6. UNCHANGED <<throttled_all, fault>>
    BY <2>2
  <2> QED
    BY <2>1, <2>2, <2>3, <2>4, <2>5, <2>6
<1> HIDE DEF st, p, v, a, u, e, b
<1>3. b \in Seq(Nat) /\ b = Run(a, n)
  BY <1>1, <1>2, RunFacts DEF b
<1>4. v.got \in Seq(Nat) /\ Written(st) \in Seq(Nat) /\ Held(st) = Written(st)
  <2>1. Written(st) \in Seq(Nat)
    BY <1>1, StateFields
  <2> QED
    BY <1>1, <1>2, <2>1, CatProperties DEF Servers, Held
<1>5. ASSUME Leftovers \subseteq {0}, ~Declined(st.r, st.q, p, v)
      PROVE  st.r.buffer = <<>> /\ Cat(v.got, Cat(Written(st), b)) = Run(0, a + n)
  <2>1. st.r.buffer = <<>> /\ Cat(v.got, Held(st)) = Run(0, a)
    BY <1>1, <1>2, <1>5 DEF Good, Whole, Held, Written
  <2> QED
    BY <1>1, <1>2, <1>3, <1>4, <2>1, WroteMore
<1>6. CASE st.r.frozen
  <2> DEFINE r == st.r
             z == [r EXCEPT !.missed = b]
  <2>1. e = [st EXCEPT !.r = z]
    BY <1>1 DEF e
  <2>2. r \in Channels /\ st.q \in Seq(Messages)
    BY <1>1, StateFields
  <2>3. /\ z \in Channels /\ z.type = r.type /\ z.closes = r.closes /\ z.s = r.s
        /\ z.missed = b /\ z.outbuffer = r.outbuffer /\ z.buffer = r.buffer
        /\ z.ready = r.ready /\ z.frozen = r.frozen /\ z.throttled = r.throttled
        /\ z.throttle_override = r.throttle_override /\ z.out = r.out
        /\ z.remwindow = r.remwindow /\ z.locwindow = r.locwindow
    BY <1>3, <2>2 DEF Channels
  <2> HIDE DEF r, z
  <2>4. e \in States /\ e.r = z /\ e.q = st.q
    BY <1>1, <2>1, <2>3 DEF States
  <2>5. Good(r, st.q, p, v, throttled_all, a) /\ r.frozen /\ r.s
    BY <1>1, <1>2, <1>6 DEF r
  <2>6. Phase(z, st.q, p, v) /\ (Declined(r, st.q, p, v) <=> Declined(z, st.q, p, v))
    BY <2>3, <2>5, SamePhase DEF Good
  <2>7. Plugged(z, throttled_all)
    BY <2>3, <2>5 DEF Good, Plugged, Steady, Sound
  <2>8. Room(z, st.q, p, v) /\ Fits(z, st.q, p, v)
    BY <2>3, <2>5, <2>6 DEF Good, Room, Fits
  <2>9. Whole(z, st.q, p, v, a + n)
    <3>1. Written(st) = Cat(Contents(st.q), z.outbuffer)
      BY <2>3 DEF Written, r
    <3>2. Declined(st.r, st.q, p, v) <=> Declined(z, st.q, p, v)
      BY <2>6 DEF r
    <3>3. z.buffer = st.r.buffer
      BY <2>3 DEF r
    <3> QED
      BY <1>5, <2>3, <3>1, <3>2, <3>3 DEF Whole
  <2>10. Good(e.r, e.q, p, v, throttled_all, a + n)
    BY <2>4, <2>5, <2>6, <2>7, <2>8, <2>9 DEF Good
  <2> QED
    BY <1>1, <1>2, <1>6, <2>4, <2>10, ClientStep
<1>7. CASE ~st.r.frozen
  <2>1. /\ st.r.type = "sockdata" /\ st.r.closes = 0 /\ st.r.ready /\ st.r.buffer = <<>>
        /\ Steady(st.r) /\ (st.r.throttle_override => throttled_all)
    <3>1. st.r.type # "dormant"
      BY <1>1, <1>2, <1>7 DEF Good, Plugged
    <3>2. st.r.type \in {"none", "dormant", "sockdata"} /\ st.r.closes \in {0, 1}
      BY <1>1, StateFields
    <3> QED
      BY <1>1, <1>2, <3>1, <3>2 DEF Good, Plugged
  <2>2. ~Declined(st.r, st.q, p, v)
    BY <2>1 DEF Declined
  <2>3. Sound(st.r)
    BY <2>1 DEF Steady
  <2>4. /\ Moves(st, u) /\ u.r.missed = <<>> /\ Written(u) = Cat(Written(st), b)
        /\ Sound(u.r) /\ (u.r.frozen => u.r.throttled)
    BY <1>1, <1>2, <1>3, <1>7, <2>1, <2>3, PfdReceiveMoves DEF u
  <2>5. u \in States /\ u.r.throttle_override = st.r.throttle_override
    BY <2>4 DEF Moves
  <2>6. Steady(u.r)
    BY <2>4 DEF Steady
  <2>7. Held(u) = Cat(Written(st), b)
    <3>1. Cat(Written(st), b) \in Seq(Nat)
      BY <1>3, <1>4, CatProperties
    <3> QED
      BY <2>4, <3>1, CatProperties DEF Held
  <2>8. Leftovers \subseteq {0} => Cat(v.got, Held(u)) = Run(0, a + n)
    BY <1>5, <2>2, <2>7
  <2>9. /\ Phase(st.r, st.q, p, v) /\ Fresh(v) /\ Blank(st.q) /\ Room(st.r, st.q, p, v)
        /\ Fits(st.r, st.q, p, v)
    BY <1>1 DEF Good
  <2>10. Good(u.r, u.q, p, v, throttled_all, a + n)
    BY <1>1, <1>2, <2>1, <2>4, <2>5, <2>6, <2>8, <2>9, GoodMoves
  <2> QED
    BY <1>1, <1>2, <1>7, <2>5, <2>10, ClientStep
<1> QED
  BY <1>6, <1>7

LEMMA BlankAppend ==
    ASSUME NEW q \in Seq(Messages), NEW m \in Messages, Blank(q),
           m.t # "data" => m.bytes = <<>>
    PROVE  Blank(Append(q, m))
<1> DEFINE w == Append(q, m)
<1>1. /\ Len(q) \in Nat /\ Len(w) = Len(q) + 1 /\ w[Len(q) + 1] = m
      /\ \A i \in 1 .. Len(q) : w[i] = q[i]
  BY OneMore, LenProperties
<1> HIDE DEF w
<1>2. ASSUME NEW i \in 1 .. Len(w), w[i].t # "data" PROVE w[i].bytes = <<>>
  <2>1. CASE i = Len(q) + 1
    BY <1>1, <1>2, <2>1
  <2>2. CASE i \in 1 .. Len(q)
    BY <1>1, <1>2, <2>2 DEF Blank
  <2> QED
    BY <1>1, <2>1, <2>2
<1> QED
  BY <1>2 DEF Blank, w

(* Closing a channel from the program's side, with data and window on their *)
(* way or not.                                                              *)
LEMMA FwdCloseKeeps ==
    ASSUME NEW st \in States, NEW p \in Seq(Messages), NEW v \in Servers, NEW th, NEW a,
           Good(st.r, st.q, p, v, th, a), st.r.type # "none"
    PROVE  /\ FwdClose(st) \in States /\ FwdClose(st).r.closes = 1
           /\ FwdClose(st).r.type = st.r.type
           /\ Good(FwdClose(st).r, FwdClose(st).q, p, v, th, a)
<1> DEFINE u == FwdClose(st)
           r == st.r
           q == st.q
           z == NoSocket([r EXCEPT !.closes = 1])
           m == Msg("close", 0)
<1>1. /\ r \in Channels /\ q \in Seq(Messages) /\ r.closes \in {0, 1}
      /\ r.type \in {"none", "dormant", "sockdata"} /\ r.s \in BOOLEAN
  BY StateFields
<1>2. /\ z \in Channels /\ z.type = r.type /\ z.closes = 1 /\ z.s = FALSE
  BY <1>1, EmptySeq DEF NoSocket, Channels
<1>3. m \in Messages /\ m.t = "close" /\ m.bytes = <<>>
  BY MsgType
<1>4. /\ r.closes # 0 => u = st
      /\ r.closes = 0 /\ r.type = "dormant" => u = [st EXCEPT !.r = z]
      /\ r.closes = 0 /\ r.type # "dormant" =>
           u = [[st EXCEPT !.r = z] EXCEPT !.q = Append(@, m)]
  <2>1. [st EXCEPT !.r = NoSocket([@ EXCEPT !.closes = 1])] = [st EXCEPT !.r = z]
    OBVIOUS
  <2> HIDE DEF z
  <2> QED
    BY <2>1 DEF FwdClose, Send
<1> HIDE DEF u, r, q, z, m
<1>5. CASE r.closes # 0
  BY <1>1, <1>4, <1>5 DEF u, r
<1>6. CASE r.closes = 0 /\ r.type = "dormant"
  <2>1. u \in States /\ u.r = z /\ u.q = q
    BY <1>1, <1>2, <1>4, <1>6 DEF States, q
  <2>2. Phase(z, q, p, v)
    BY <1>2, <1>6 DEF Good, Phase, Idle, Asked, Declined, Accepted, Joined,
                      HalfClosed, Forgotten, Deleted, r, q
  <2>3. Plugged(z, th) /\ Room(z, q, p, v) /\ Fits(z, q, p, v) /\ Whole(z, q, p, v, a)
    BY <1>2, <1>6 DEF Good, Plugged, Room, Fits, Whole, q, r
  <2>4. Good(z, q, p, v, th, a)
    BY <2>2, <2>3 DEF Good, q
  <2> QED
    BY <1>2, <2>1, <2>4 DEF u, r
<1>7. CASE r.closes = 0 /\ r.type # "dormant"
  <2>0. r.type = "sockdata"
    BY <1>1, <1>7 DEF r
  <2> DEFINE w == Append(q, m)
  <2>1. w \in Seq(Messages) /\ Contents(w) = Contents(q)
    BY <1>1, <1>3, OneMore, EmptyMessage
  <2>2. u \in States /\ u.r = z /\ u.q = w
    BY <1>1, <1>2, <1>4, <1>7, <2>1 DEF States, q
  <2>3. Joined(r, q, p, v)
    BY <1>7, <2>0 DEF Good, Phase, Idle, Asked, Declined, Accepted, Joined,
                      HalfClosed, Forgotten, Deleted, r, q
  <2>4. Up(w, v.state = "asking") /\ Ends(w)
    <3>1. ~Ends(q) /\ Up(q, v.state = "asking") /\ (v.state = "asking") \in BOOLEAN
      BY <1>7, <2>3 DEF Joined
    <3> QED
      BY <1>1, <1>3, <3>1, UpCloses
  <2>5. Blank(w)
    <3>1. Blank(q)
      BY DEF Good, q
    <3> QED
      BY <1>1, <1>3, <3>1, BlankAppend
  <2> HIDE DEF w
  <2>6. Joined(z, w, p, v)
    BY <1>2, <2>0, <2>3, <2>4 DEF Joined
  <2>7. Plugged(z, th) /\ Room(z, w, p, v) /\ Fits(z, w, p, v) /\ Whole(z, w, p, v, a)
    BY <1>2, <2>0, <2>1 DEF Good, Plugged, Room, Fits, Whole, q, r
  <2>8. Good(z, w, p, v, th, a)
    BY <2>5, <2>6, <2>7 DEF Good, Phase
  <2> QED
    BY <1>2, <2>2, <2>8 DEF u, r
<1> QED
  BY <1>1, <1>5, <1>6, <1>7

LEMMA AppEndsKeeps ==
    ASSUME Ssh2ChannelsAssumption, IInv, NEW c \in Chan, AppEnds(c)
    PROVE  IInv'
<1> DEFINE st == State(c)
           p == toClient[c]
           v == srv[c]
           a == app[c]
           u == FwdClose(st)
<1>1. /\ st \in States /\ p \in Seq(Messages) /\ v \in Servers /\ a \in Nat
      /\ Good(st.r, st.q, p, v, throttled_all, a) /\ st.r = channel[c]
  BY Here
<1>2. /\ st.r.s /\ Becomes(c, u)
      /\ toClient' = [toClient EXCEPT ![c] = p] /\ srv' = [srv EXCEPT ![c] = v]
      /\ app' = [app EXCEPT ![c] = a] /\ UNCHANGED <<throttled_all, fault>>
  <2>1. st.r.s /\ Becomes(c, u) /\ UNCHANGED <<toClient, srv, throttled_all, app, fault>>
    BY <1>1 DEF AppEnds
  <2> HIDE DEF u, st
  <2> QED
    BY <2>1, Unchanged
<1> HIDE DEF st, p, v, a, u
<1>3. st.r.type # "none"
  BY <1>1, <1>2 DEF Good, Plugged
<1>4. u \in States /\ Good(u.r, u.q, p, v, throttled_all, a)
  BY <1>1, <1>3, FwdCloseKeeps DEF u
<1> QED
  BY <1>1, <1>2, <1>4, ClientStep

(* Windows are modulo UINT_MAX + 1. *)
LEMMA Modulo ==
    ASSUME Ssh2ChannelsAssumption, NEW x \in Int
    PROVE  x % (UINT_MAX + 1) \in Unsigned /\ (x \in Unsigned => x % (UINT_MAX + 1) = x)
<1>1. UINT_MAX \in Nat
  BY DEF Ssh2ChannelsAssumption
<1> DEFINE n == UINT_MAX + 1
           y == x % n
<1>2. n \in Nat \ {0} /\ UINT_MAX = n - 1
  BY <1>1
<1> HIDE DEF n
<1>3. y \in 0 .. n - 1
  BY <1>2
<1>4. x \in 0 .. n - 1 => y = x
  BY <1>2
<1> QED
  BY <1>2, <1>3, <1>4 DEF Unsigned, n

(* Giving the server more window: what is granted grows as locwindow does.  *)
LEMMA AdjustKeeps ==
    ASSUME Ssh2ChannelsAssumption, NEW st \in States, NEW p \in Seq(Messages),
           NEW v \in Servers, NEW th, NEW a,
           Good(st.r, st.q, p, v, th, a), st.r.type # "none", NEW newwin \in Unsigned,
           st.r.type = "dormant" => newwin <= OUR_V2_WINSIZE,
           Replies \subseteq {0} /\ st.r.s /\ st.r.type = "sockdata" =>
              newwin + st.r.out <= OUR_V2_WINSIZE
    PROVE  /\ SetWindow(st, newwin) \in States
           /\ Good(SetWindow(st, newwin).r, SetWindow(st, newwin).q, p, v, th, a)
<1> DEFINE u == SetWindow(st, newwin)
           r == st.r
           q == st.q
           g == (newwin - r.locwindow) % (UINT_MAX + 1)
           d == (2 * r.locwindow) % (UINT_MAX + 1)
           z == [r EXCEPT !.locwindow = newwin]
           m == Msg("adjust", g)
           w == Append(q, m)
<1>1. /\ r \in Channels /\ q \in Seq(Messages) /\ r.closes \in {0, 1}
      /\ r.type \in {"none", "dormant", "sockdata"} /\ r.s \in BOOLEAN
      /\ r.locwindow \in Unsigned /\ r.out \in Nat
  BY StateFields
<1>2. /\ UINT_MAX \in Nat /\ OUR_V2_WINSIZE \in Nat /\ UINT_MAX >= 2 * OUR_V2_WINSIZE
      /\ r.locwindow \in Nat /\ newwin \in Nat /\ Unsigned = 0 .. UINT_MAX
  BY <1>1 DEF Ssh2ChannelsAssumption, Unsigned
<1>3. u = IF r.closes = 0 /\ newwin > d THEN Send([st EXCEPT !.r.locwindow = newwin], m) ELSE st
  BY DEF SetWindow
<1>4. /\ g \in Unsigned /\ (newwin - r.locwindow \in Unsigned => g = newwin - r.locwindow)
      /\ 2 * r.locwindow \in Unsigned => d = 2 * r.locwindow
  <2>1. newwin - r.locwindow \in Int /\ 2 * r.locwindow \in Int
    BY <1>2
  <2> QED
    BY <2>1, Modulo
<1>5. Good(r, q, p, v, th, a)
  OBVIOUS
<1> HIDE DEF u, r, q, d, g
<1>6. CASE ~(r.closes = 0 /\ newwin > d)
  BY <1>3, <1>6 DEF u, r, q
<1>7. CASE r.closes = 0 /\ newwin > d
  <2>1. r.s
    BY <1>5, <1>7 DEF Good, Plugged, r
  <2>2. r.type = "sockdata"
    <3>1. ASSUME r.type = "dormant" PROVE FALSE
      <4>1. r.locwindow = OUR_V2_WINSIZE
        BY <1>5, <2>1, <3>1 DEF Good, Plugged
      <4>2. 2 * r.locwindow \in Unsigned /\ newwin <= OUR_V2_WINSIZE
        BY <1>2, <3>1, <4>1 DEF r
      <4> QED
        BY <1>2, <1>4, <1>7, <4>1, <4>2
    <3> QED
      BY <1>1, <3>1 DEF r
  <2>3. g \in Nat
    BY <1>2, <1>4
  <2>4. m \in Messages /\ m.t = "adjust" /\ m.n = g /\ m.bytes = <<>>
    BY <2>3, MsgType
  <2>5. /\ z \in Channels /\ z.type = r.type /\ z.closes = r.closes /\ z.s = r.s
        /\ z.missed = r.missed /\ z.outbuffer = r.outbuffer /\ z.buffer = r.buffer
        /\ z.ready = r.ready /\ z.frozen = r.frozen /\ z.throttled = r.throttled
        /\ z.throttle_override = r.throttle_override /\ z.out = r.out
        /\ z.remwindow = r.remwindow /\ z.locwindow = newwin
    BY <1>1 DEF Channels
  <2> HIDE DEF m, z
  <2>6. /\ w \in Seq(Messages) /\ Len(w) = Len(q) + 1 /\ w[Len(q) + 1] = m
        /\ \A i \in 1 .. Len(q) : w[i] = q[i]
        /\ Amount(w, Grants) = Amount(q, Grants) + g
        /\ Contents(w) = Contents(q) /\ Blank(w) /\ Len(q) \in Nat
    <3>1. Worth(m, Grants) = g /\ Blank(q)
      BY <1>5, <2>4 DEF Worth, Grants, Good
    <3> QED
      BY <1>1, <2>4, <3>1, OneMore, EmptyMessage, BlankAppend, LenProperties
  <2> HIDE DEF w
  <2>7. u \in States /\ u.r = z /\ u.q = w
    <3>1. u = Send([st EXCEPT !.r = z], m)
      BY <1>3, <1>7 DEF z, r
    <3> QED
      BY <1>1, <2>5, <2>6, <3>1 DEF States, Send, w, q
  <2>8. Adds(q, w)
    BY <2>4, <2>6 DEF Adds
  <2>9. Phase(z, w, p, v)
    BY <1>1, <1>5, <1>7, <2>2, <2>5, <2>6, <2>8, PhaseAdds DEF Good
  <2>10. Plugged(z, th) /\ Room(z, w, p, v)
    BY <1>5, <2>2, <2>5, <2>6 DEF Good, Plugged, Steady, Sound, Room
  <2>11. ~Declined(z, w, p, v) /\ ~Declined(r, q, p, v)
    BY <2>2, <2>5 DEF Declined
  <2>12. Whole(z, w, p, v, a)
    BY <1>5, <2>5, <2>6, <2>11 DEF Good, Whole
  <2>13. Fits(z, w, p, v)
    <3>1. SUFFICES ASSUME Replies \subseteq {0}
                   PROVE  /\ newwin = v.outwin + Amount(w, Grants) + Amount(p, {"data"})
                          /\ newwin + r.out <= OUR_V2_WINSIZE
      BY <2>5 DEF Fits
    <3>2. /\ r.locwindow = v.outwin + Amount(q, Grants) + Amount(p, {"data"})
          /\ r.locwindow + r.out <= OUR_V2_WINSIZE
      BY <1>5, <2>1, <2>11, <3>1 DEF Good, Fits
    <3>3. newwin + r.out <= OUR_V2_WINSIZE
      BY <2>1, <2>2, <3>1 DEF r
    <3>4. r.locwindow <= OUR_V2_WINSIZE
      BY <1>1, <1>2, <3>2
    <3>5. 2 * r.locwindow \in Unsigned
      BY <1>2, <3>4
    <3>6. newwin > 2 * r.locwindow
      BY <1>4, <1>7, <3>5
    <3>7. newwin - r.locwindow \in Unsigned
      BY <1>2, <3>6
    <3>8. g = newwin - r.locwindow
      BY <1>4, <3>7
    <3>9. v.outwin \in Nat /\ Amount(q, Grants) \in Nat /\ Amount(p, {"data"}) \in Nat
      BY <1>1, AmountNat DEF Servers
    <3> DEFINE o == v.outwin
               x == Amount(q, Grants)
               y == Amount(p, {"data"})
               k == Amount(w, Grants)
               l == r.locwindow
    <3>10. /\ l = o + x + y /\ g = newwin - l /\ k = x + g
           /\ o \in Nat /\ x \in Nat /\ y \in Nat /\ l \in Nat
      BY <1>2, <2>6, <3>2, <3>8, <3>9
    <3> HIDE DEF o, x, y, k, l
    <3>11. newwin = o + k + y
      BY <1>2, <3>10, SMTT(40)
    <3> QED
      BY <3>3, <3>11 DEF o, k, y
  <2>14. Good(z, w, p, v, th, a)
    BY <1>5, <2>6, <2>9, <2>10, <2>12, <2>13 DEF Good
  <2> QED
    BY <2>7, <2>14 DEF u
<1> QED
  BY <1>6, <1>7

LEMMA AppTakesKeeps ==
    ASSUME Ssh2ChannelsAssumption, IInv, NEW c \in Chan, NEW n \in 1 .. channel[c].out,
           AppTakes(c, n)
    PROVE  IInv'
<1> DEFINE st == State(c)
           p == toClient[c]
           v == srv[c]
           a == app[c]
           left == st.r.out - n
           e == [st EXCEPT !.r.out = left]
           newwin == (OUR_V2_WINSIZE - left) % (UINT_MAX + 1)
           u == SetWindow(e, newwin)
<1>1. /\ st \in States /\ p \in Seq(Messages) /\ v \in Servers /\ a \in Nat
      /\ Good(st.r, st.q, p, v, throttled_all, a) /\ st.r = channel[c]
  BY Here
<1>2. /\ st.r.s /\ Becomes(c, u)
      /\ toClient' = [toClient EXCEPT ![c] = p] /\ srv' = [srv EXCEPT ![c] = v]
      /\ app' = [app EXCEPT ![c] = a] /\ UNCHANGED <<throttled_all, fault>>
  <2>1. st.r.s /\ Becomes(c, u) /\ UNCHANGED <<toClient, srv, throttled_all, app, fault>>
    BY <1>1 DEF AppTakes
  <2> HIDE DEF u, st
  <2> QED
    BY <2>1, Unchanged
<1>3. /\ OUR_V2_WINSIZE \in Nat /\ UINT_MAX \in Nat /\ UINT_MAX >= 2 * OUR_V2_WINSIZE
      /\ Unsigned = 0 .. UINT_MAX /\ n \in Nat
  BY DEF Ssh2ChannelsAssumption, Unsigned
<1>4. st.r.out \in Nat /\ n \in 1 .. st.r.out
  BY <1>1, StateFields
<1>5. left \in Nat /\ left <= st.r.out
  BY <1>3, <1>4
<1> DEFINE r == st.r
           z == [r EXCEPT !.out = left]
<1>6. e = [st EXCEPT !.r = z]
  OBVIOUS
<1>7. r \in Channels /\ st.q \in Seq(Messages) /\ r = st.r
  BY <1>1, StateFields
<1> HIDE DEF st, p, v, a, left, e, u, r
<1>8. /\ z \in Channels /\ z.type = r.type /\ z.closes = r.closes /\ z.s = r.s
      /\ z.missed = r.missed /\ z.outbuffer = r.outbuffer /\ z.buffer = r.buffer
      /\ z.ready = r.ready /\ z.frozen = r.frozen /\ z.throttled = r.throttled
      /\ z.throttle_override = r.throttle_override /\ z.out = left
      /\ z.remwindow = r.remwindow /\ z.locwindow = r.locwindow
  BY <1>5, <1>7 DEF Channels
<1> HIDE DEF z
<1>9. e \in States /\ e.r = z /\ e.q = st.q
  BY <1>1, <1>6, <1>8 DEF States
<1>10. Good(r, st.q, p, v, throttled_all, a) /\ r.s /\ r.locwindow \in Nat /\ r.out \in Nat
       /\ left <= r.out /\ r.type # "none"
  BY <1>1, <1>2, <1>4, <1>5, <1>7, StateFields DEF Unsigned, Good, Plugged
<1>11. Phase(z, st.q, p, v) /\ (Declined(r, st.q, p, v) <=> Declined(z, st.q, p, v))
  BY <1>8, <1>10, SamePhase DEF Good
<1>12. Plugged(z, throttled_all)
  BY <1>3, <1>5, <1>8, <1>10 DEF Good, Plugged, Steady, Sound
<1>13. Room(z, st.q, p, v) /\ Whole(z, st.q, p, v, a)
  BY <1>8, <1>10, <1>11 DEF Good, Room, Whole
<1>14. Fits(z, st.q, p, v)
  <2>1. SUFFICES ASSUME Replies \subseteq {0}, ~Declined(r, st.q, p, v)
                 PROVE  /\ r.locwindow = v.outwin + Amount(st.q, Grants) + Amount(p, {"data"})
                        /\ r.locwindow + left <= OUR_V2_WINSIZE
    BY <1>8, <1>11 DEF Fits
  <2>2. /\ r.locwindow = v.outwin + Amount(st.q, Grants) + Amount(p, {"data"})
        /\ r.locwindow + r.out <= OUR_V2_WINSIZE
    BY <1>10, <2>1 DEF Good, Fits
  <2> QED
    BY <1>3, <1>5, <1>10, <2>2
<1>15. Good(z, st.q, p, v, throttled_all, a)
  BY <1>10, <1>11, <1>12, <1>13, <1>14 DEF Good
<1>16. OUR_V2_WINSIZE - left \in Int
  BY <1>3, <1>5
<1>17. newwin \in Unsigned
  BY <1>16, Modulo
<1>18. left <= OUR_V2_WINSIZE => newwin = OUR_V2_WINSIZE - left
  <2>1. ASSUME left <= OUR_V2_WINSIZE PROVE OUR_V2_WINSIZE - left \in Unsigned
    BY <1>3, <1>5, <2>1
  <2> QED
    BY <1>16, <2>1, Modulo
<1> HIDE DEF newwin
<1>19. ASSUME z.type = "dormant" PROVE newwin <= OUR_V2_WINSIZE
  <2>1. r.out <= OUR_V2_WINSIZE
    BY <1>8, <1>10, <1>19 DEF Good, Plugged
  <2> QED
    BY <1>3, <1>5, <1>10, <1>18, <2>1
<1>20. ASSUME Replies \subseteq {0}, z.type = "sockdata"
       PROVE  newwin + z.out <= OUR_V2_WINSIZE
  <2>1. ~Declined(r, st.q, p, v)
    BY <1>8, <1>20 DEF Declined
  <2>2. r.locwindow + r.out <= OUR_V2_WINSIZE
    BY <1>10, <1>20, <2>1 DEF Good, Fits
  <2> QED
    BY <1>3, <1>5, <1>8, <1>10, <1>18, <2>2
<1>21. u \in States /\ Good(u.r, u.q, p, v, throttled_all, a)
  BY <1>1, <1>8, <1>9, <1>10, <1>15, <1>17, <1>19, <1>20, AdjustKeeps DEF u
<1> QED
  BY <1>1, <1>2, <1>21, ClientStep

(* The next message of the server's is taken: what that leaves of the       *)
(* phase, when the channel is confirmed and the message does not close it.  *)
LEMMA PhaseTakes ==
    ASSUME NEW r, NEW q, NEW p \in Seq(Messages), NEW v \in Servers, Phase(r, q, p, v),
           p # <<>>, Head(p).t \in {"data", "adjust", "eof"}
    PROVE  r.type = "sockdata" /\ Phase(r, q, Tail(p), v)
<1>1. Head(p) = p[1] /\ v.sentClose \in BOOLEAN
  BY OneLess DEF Servers
<1>2. Joined(r, q, p, v) \/ HalfClosed(r, q, p, v) \/ Forgotten(r, q, p, v)
  BY <1>1 DEF Phase, Idle, Asked, Declined, Accepted, Deleted
<1>3. \A closed \in BOOLEAN : Down(p, 1, closed) => Down(Tail(p), 1, closed)
  BY DownTakes
<1>4. CASE Joined(r, q, p, v)
  <2>1. Down(Tail(p), 1, v.sentClose) /\ v.state # "asking"
    BY <1>1, <1>3, <1>4 DEF Joined
  <2>2. Joined(r, q, Tail(p), v)
    BY <1>4, <2>1 DEF Joined
  <2> QED
    BY <1>4, <2>2 DEF Phase, Joined
<1>5. CASE HalfClosed(r, q, p, v)
  <2>1. HalfClosed(r, q, Tail(p), v)
    BY <1>3, <1>5 DEF HalfClosed
  <2> QED
    BY <1>5, <2>1 DEF Phase, HalfClosed
<1>6. CASE Forgotten(r, q, p, v)
  <2>1. Forgotten(r, q, Tail(p), v)
    BY <1>3, <1>6 DEF Forgotten
  <2> QED
    BY <1>6, <2>1 DEF Phase, Forgotten
<1> QED
  BY <1>2, <1>4, <1>5, <1>6

LEMMA ReceivesFacts ==
    ASSUME IInv, NEW c \in Chan, NEW t, Receives(c, t)
    PROVE  /\ toClient[c] # <<>> /\ Head(toClient[c]).t = t
           /\ Tail(toClient[c]) \in Seq(Messages) /\ Head(toClient[c]) \in Messages
           /\ Head(toClient[c]).n \in Nat
           /\ toClient' = [toClient EXCEPT ![c] = Tail(toClient[c])]
           /\ \A types : Amount(toClient[c], types)
                           = Worth(Head(toClient[c]), types) + Amount(Tail(toClient[c]), types)
<1>1. toClient[c] # <<>> /\ Head(toClient[c]).t = t
  BY DEF Receives
<1>2. toClient[c] \in Seq(Messages)
  BY Here
<1>3. /\ Tail(toClient[c]) \in Seq(Messages) /\ Head(toClient[c]) \in Messages
      /\ \A types : Amount(toClient[c], types)
                      = Worth(Head(toClient[c]), types) + Amount(Tail(toClient[c]), types)
  BY <1>1, <1>2, OneLess
<1>4. Head(toClient[c]).n \in Nat
  BY <1>3 DEF Messages
<1>5. toClient' = [toClient EXCEPT ![c] = Tail(toClient[c])]
  BY DEF Receives
<1> QED
  BY <1>1, <1>3, <1>4, <1>5

LEMMA EofKeeps ==
    ASSUME Ssh2ChannelsAssumption, IInv, NEW c \in Chan, Eof(c)
    PROVE  IInv'
<1> DEFINE st == State(c)
           p == toClient[c]
           x == Tail(p)
           v == srv[c]
           a == app[c]
           u == FwdClose(st)
<1>1. /\ st \in States /\ p \in Seq(Messages) /\ v \in Servers /\ a \in Nat
      /\ Good(st.r, st.q, p, v, throttled_all, a) /\ st.r = channel[c]
  BY Here
<1>2. Receives(c, "eof")
  BY DEF Eof
<1>3. /\ p # <<>> /\ Head(p).t = "eof" /\ x \in Seq(Messages) /\ Head(p).n \in Nat
      /\ toClient' = [toClient EXCEPT ![c] = x]
      /\ \A types : Amount(p, types) = Worth(Head(p), types) + Amount(x, types)
  BY <1>2, ReceivesFacts
<1>4. /\ st.r.type = "sockdata" => Becomes(c, u)
      /\ srv' = [srv EXCEPT ![c] = v]
      /\ app' = [app EXCEPT ![c] = a] /\ UNCHANGED <<throttled_all, fault>>
  <2>1. /\ st.r.type = "sockdata" => Becomes(c, u)
        /\ UNCHANGED <<srv, throttled_all, app, fault>>
    BY <1>1 DEF Eof, Forwarded
  <2> HIDE DEF u, st
  <2> QED
    BY <2>1, Unchanged
<1> HIDE DEF st, p, x, v, a, u
<1>5. /\ st.r.type = "sockdata" /\ Phase(st.r, st.q, x, v)
  BY <1>1, <1>3, PhaseTakes DEF Good, x
<1>6. ~Declined(st.r, st.q, x, v) /\ ~Declined(st.r, st.q, p, v)
  BY <1>5 DEF Declined
<1>7. Amount(p, Takes) = Amount(x, Takes) /\ Amount(p, {"data"}) = Amount(x, {"data"})
  <2>1. Worth(Head(p), Takes) = 0 /\ Worth(Head(p), {"data"}) = 0
    BY <1>3 DEF Worth, Takes
  <2>2. Amount(x, Takes) \in Nat /\ Amount(x, {"data"}) \in Nat
    BY <1>3, AmountNat
  <2> QED
    BY <1>3, <2>1, <2>2
<1>8. Good(st.r, st.q, x, v, throttled_all, a)
  <2>1. Room(st.r, st.q, x, v)
    BY <1>1, <1>7 DEF Good, Room
  <2>2. Fits(st.r, st.q, x, v)
    BY <1>1, <1>6, <1>7 DEF Good, Fits
  <2>3. Whole(st.r, st.q, x, v, a)
    BY <1>1, <1>6 DEF Good, Whole
  <2> QED
    BY <1>1, <1>5, <2>1, <2>2, <2>3 DEF Good
<1>9. u \in States /\ Good(u.r, u.q, x, v, throttled_all, a)
  BY <1>1, <1>3, <1>5, <1>8, FwdCloseKeeps DEF u
<1> QED
  BY <1>1, <1>3, <1>4, <1>5, <1>9, ClientStep

LEMMA CloseKeeps ==
    ASSUME Ssh2ChannelsAssumption, IInv, NEW c \in Chan, Close(c)
    PROVE  IInv'
<1> DEFINE st == State(c)
           p == toClient[c]
           x == Tail(p)
           v == srv[c]
           a == app[c]
           u == FwdClose(st)
           e == [u EXCEPT !.r = NoChannel]
<1>1. /\ st \in States /\ p \in Seq(Messages) /\ v \in Servers /\ a \in Nat
      /\ Good(st.r, st.q, p, v, throttled_all, a) /\ st.r = channel[c]
  BY Here
<1>2. Receives(c, "close")
  BY DEF Close
<1>3. /\ p # <<>> /\ Head(p).t = "close" /\ x \in Seq(Messages)
      /\ toClient' = [toClient EXCEPT ![c] = x]
  BY <1>2, ReceivesFacts
<1>4. Head(p) = p[1] /\ v.sentClose \in BOOLEAN
  BY <1>1, <1>3, OneLess DEF Servers
<1> HIDE DEF u, e, x, st, p, v, a
<1>5. Joined(st.r, st.q, p, v) \/ HalfClosed(st.r, st.q, p, v) \/ Forgotten(st.r, st.q, p, v)
  BY <1>1, <1>3, <1>4 DEF Good, Phase, Idle, Asked, Declined, Accepted, Deleted
<1>6. st.r.type = "sockdata"
  BY <1>5 DEF Joined, HalfClosed, Forgotten
<1>7. /\ Becomes(c, e) /\ srv' = [srv EXCEPT ![c] = v]
      /\ app' = [app EXCEPT ![c] = a] /\ UNCHANGED <<throttled_all, fault>>
  <2>1. channel[c].type = "sockdata"
    BY <1>1, <1>6
  <2>2. Becomes(c, e) /\ UNCHANGED <<srv, throttled_all, app, fault>>
    BY <2>1 DEF Close, e, u, st
  <2> QED
    BY <2>2, Unchanged DEF v, a
<1>8. /\ u \in States /\ u.r.closes = 1 /\ u.r.type = "sockdata"
      /\ Good(u.r, u.q, p, v, throttled_all, a)
  BY <1>1, <1>6, FwdCloseKeeps DEF u
<1>9. \A closed \in BOOLEAN : Down(p, 1, closed) => x = <<>> /\ closed
  BY <1>1, <1>3, DownTakes DEF x
<1>10. NoChannel \in Channels /\ Len(<<>>) = 0
  BY EmptySeq DEF NoChannel, Channels, Unsigned, Ssh2ChannelsAssumption
<1>11. e \in States /\ e.r = NoChannel /\ e.q = u.q
  BY <1>8, <1>10 DEF e, States
<1>12. Phase(NoChannel, u.q, x, v)
  <2>1. Joined(u.r, u.q, p, v) \/ HalfClosed(u.r, u.q, p, v) \/ Forgotten(u.r, u.q, p, v)
    BY <1>3, <1>4, <1>8 DEF Good, Phase, Idle, Asked, Declined, Accepted, Deleted
  <2>2. CASE Joined(u.r, u.q, p, v)
    <3>1. x = <<>> /\ v.sentClose
      BY <1>4, <1>9, <2>2 DEF Joined
    <3>2. v.state = "open" /\ (v.state = "asking") = FALSE
      BY <1>3, <2>2 DEF Joined
    <3>3. Up(u.q, FALSE) /\ Ends(u.q) /\ ~v.gotClose
      BY <1>8, <2>2, <3>2 DEF Joined
    <3>4. Deleted(NoChannel, u.q, x, v)
      BY <3>1, <3>2, <3>3 DEF Deleted, NoChannel
    <3> QED
      BY <3>4 DEF Phase
  <2>3. CASE HalfClosed(u.r, u.q, p, v)
    <3>1. FALSE
      BY <1>9, <2>3 DEF HalfClosed
    <3> QED
      BY <3>1
  <2>4. CASE Forgotten(u.r, u.q, p, v)
    <3>1. x = <<>> /\ u.q = <<>> /\ v.state = "none"
      BY <1>9, <2>4 DEF Forgotten
    <3>2. Idle(NoChannel, u.q, x, v)
      BY <3>1 DEF Idle, NoChannel
    <3> QED
      BY <3>2 DEF Phase
  <2> QED
    BY <2>1, <2>2, <2>3, <2>4
<1>13. Good(NoChannel, u.q, x, v, throttled_all, a)
  <2>1. /\ NoChannel.s = FALSE /\ NoChannel.type = "none" /\ NoChannel.closes = 0
    BY DEF NoChannel
  <2>2. Plugged(NoChannel, throttled_all)
    BY <2>1 DEF Plugged
  <2>3. Room(NoChannel, u.q, x, v)
    BY <1>8, <2>1 DEF Good, Room
  <2> QED
    BY <1>8, <1>12, <2>1, <2>2, <2>3 DEF Good, Fits, Whole
<1> QED
  BY <1>1, <1>3, <1>7, <1>11, <1>13, ClientStep

LEMMA FailureKeeps ==
    ASSUME Ssh2ChannelsAssumption, IInv, NEW c \in Chan, Failure(c)
    PROVE  IInv'
<1> DEFINE st == State(c)
           p == toClient[c]
           x == Tail(p)
           v == srv[c]
           a == app[c]
           e == [st EXCEPT !.r = NoChannel]
<1>1. /\ st \in States /\ p \in Seq(Messages) /\ v \in Servers /\ a \in Nat
      /\ Good(st.r, st.q, p, v, throttled_all, a)
      /\ st.r = channel[c] /\ st.q = toServer[c]
  BY Here
<1>2. Receives(c, "failure")
  BY DEF Failure
<1>3. /\ p # <<>> /\ Head(p).t = "failure" /\ x \in Seq(Messages)
      /\ toClient' = [toClient EXCEPT ![c] = x]
  BY <1>2, ReceivesFacts
<1>4. Head(p) = p[1] /\ v.sentClose \in BOOLEAN /\ Len(x) = Len(p) - 1
  BY <1>1, <1>3, OneLess DEF Servers
<1> HIDE DEF e, x, st, p, v, a
<1>5. Declined(st.r, st.q, p, v)
  <2>1. \A closed \in BOOLEAN : ~Down(p, 1, closed)
    BY <1>1, <1>3, DownTakes
  <2> QED
    BY <1>1, <1>3, <1>4, <2>1
       DEF Good, Phase, Idle, Asked, Accepted, Joined, HalfClosed, Forgotten, Deleted
<1>6. x = <<>> /\ st.q = <<>> /\ st.r.type = "dormant" /\ v.state = "none"
  <2>1. Len(x) = 0
    BY <1>4, <1>5 DEF Declined
  <2> QED
    BY <1>3, <1>5, <2>1, EmptySeq DEF Declined
<1>7. NoChannel \in Channels
  BY EmptySeq DEF NoChannel, Channels, Unsigned, Ssh2ChannelsAssumption
<1>8. e \in States /\ e.r = NoChannel /\ e.q = st.q
  BY <1>1, <1>7 DEF e, States
<1>9. /\ Becomes(c, e) /\ srv' = [srv EXCEPT ![c] = v]
      /\ app' = [app EXCEPT ![c] = a] /\ UNCHANGED <<throttled_all, fault>>
  <2>1. channel[c].type = "dormant"
    BY <1>1, <1>6
  <2>2. /\ channel' = [channel EXCEPT ![c] = NoChannel]
        /\ UNCHANGED <<toServer, srv, throttled_all, app, fault>>
    BY <2>1 DEF Failure
  <2>3. toServer' = [toServer EXCEPT ![c] = toServer[c]]
    BY <2>2 DEF IInv, TypeOK
  <2>4. Becomes(c, e)
    BY <1>1, <1>8, <2>2, <2>3 DEF Becomes
  <2> QED
    BY <2>2, <2>4, Unchanged DEF v, a
<1>10. Good(NoChannel, st.q, x, v, throttled_all, a)
  <2>1. NoChannel.s = FALSE /\ NoChannel.type = "none" /\ NoChannel.closes = 0
    BY DEF NoChannel
  <2>2. Plugged(NoChannel, throttled_all)
    BY <2>1 DEF Plugged
  <2>3. Room(NoChannel, st.q, x, v)
    BY <1>1, <2>1 DEF Good, Room
  <2>4. Idle(NoChannel, st.q, x, v)
    BY <1>6, <2>1 DEF Idle
  <2> QED
    BY <1>1, <2>1, <2>2, <2>3, <2>4 DEF Good, Phase, Fits, Whole
<1> QED
  BY <1>1, <1>3, <1>8, <1>9, <1>10, ClientStep

LEMMA WindowAdjustKeeps ==
    ASSUME Ssh2ChannelsAssumption, IInv, NEW c \in Chan, WindowAdjust(c)
    PROVE  IInv'
<1> DEFINE st == State(c)
           p == toClient[c]
           x == Tail(p)
           v == srv[c]
           a == app[c]
           n == Head(p).n
           k == (st.r.remwindow + n) % (UINT_MAX + 1)
           e == [st EXCEPT !.r.remwindow = k]
           u == TrySendAndUnthrottle(e)
<1>1. /\ st \in States /\ p \in Seq(Messages) /\ v \in Servers /\ a \in Nat
      /\ Good(st.r, st.q, p, v, throttled_all, a)
      /\ st.r = channel[c] /\ st.q = toServer[c]
  BY Here
<1>2. Receives(c, "adjust")
  BY DEF WindowAdjust
<1>3. /\ p # <<>> /\ Head(p).t = "adjust" /\ x \in Seq(Messages) /\ n \in Nat
      /\ toClient' = [toClient EXCEPT ![c] = x]
      /\ \A types : Amount(p, types) = Worth(Head(p), types) + Amount(x, types)
  BY <1>2, ReceivesFacts
<1>4. /\ IF st.r.type = "none" \/ st.r.closes # 0 THEN Becomes(c, st) ELSE Becomes(c, u)
      /\ srv' = [srv EXCEPT ![c] = v]
      /\ app' = [app EXCEPT ![c] = a] /\ UNCHANGED <<throttled_all, fault>>
  <2>1. /\ IF st.r.type = "none" \/ st.r.closes # 0
           THEN UNCHANGED <<channel, toServer>> ELSE Becomes(c, u)
        /\ UNCHANGED <<srv, throttled_all, app, fault>>
    BY <1>1 DEF WindowAdjust
  <2> HIDE DEF u
  <2> QED
    BY <2>1, Unchanged
<1>a. /\ st.r \in Channels /\ st.q \in Seq(Messages) /\ st.r.remwindow \in Unsigned
      /\ st.r.closes \in {0, 1}
  BY <1>1, StateFields
<1> DEFINE r == st.r
           q == st.q
<1>b. e = [st EXCEPT !.r = [r EXCEPT !.remwindow = k]]
  OBVIOUS
<1>5. /\ r.type = "sockdata" /\ Phase(r, q, x, v)
  BY <1>1, <1>3, PhaseTakes DEF Good
<1> HIDE DEF st, p, x, v, a, n, k, e, u, r, q
<1>6. ~Declined(r, q, x, v) /\ ~Declined(r, q, p, v)
  BY <1>5 DEF Declined
<1>7. /\ Amount(p, Takes) = n + Amount(x, Takes) /\ Amount(p, {"data"}) = Amount(x, {"data"})
      /\ Amount(x, Takes) \in Nat
  <2>1. Worth(Head(p), Takes) = n /\ Worth(Head(p), {"data"}) = 0
    BY <1>3 DEF Worth, Takes, n
  <2>2. Amount(x, Takes) \in Nat /\ Amount(x, {"data"}) \in Nat
    BY <1>3, AmountNat
  <2> QED
    BY <1>3, <2>1, <2>2
<1>8. Fits(r, q, x, v) /\ Whole(r, q, x, v, a)
  BY <1>1, <1>6, <1>7 DEF Good, Fits, Whole, r, q
<1>9. CASE r.closes # 0
  <2>1. ~r.s
    BY <1>1, <1>9 DEF Good, Plugged, r
  <2>2. Room(r, q, x, v)
    BY <1>1, <2>1 DEF Good, Room, r, q
  <2>3. Good(r, q, x, v, throttled_all, a)
    BY <1>1, <1>5, <1>8, <2>2 DEF Good, r, q
  <2> QED
    BY <1>1, <1>3, <1>4, <1>9, <2>3, ClientStep DEF r, q
<1>10. CASE r.closes = 0
  <2>1. /\ r.s /\ r.ready /\ r.buffer = <<>> /\ Steady(r)
        /\ (r.throttle_override => throttled_all)
    BY <1>1, <1>5, <1>10 DEF Good, Plugged, r
  <2>2. /\ v.inwin = r.remwindow + Amount(p, Takes) + Len(Contents(q))
        /\ Len(Contents(q)) \in Nat /\ v.inwin <= MaxWindow /\ v.inwin \in Nat
        /\ r.remwindow \in Nat /\ MaxWindow \in Nat /\ MaxWindow <= UINT_MAX
        /\ UINT_MAX \in Nat
    <3>1. v.inwin \in Nat /\ r.remwindow \in Nat
      BY <1>1, <1>a DEF Servers, Unsigned, r
    <3>2. MaxWindow \in Nat /\ MaxWindow <= UINT_MAX /\ UINT_MAX \in Nat
      BY DEF Ssh2ChannelsAssumption, Unsigned
    <3>3. Len(Contents(q)) \in Nat
      BY <1>a, ContentsType DEF q
    <3>4. /\ v.inwin = r.remwindow + Amount(p, Takes) + Len(Contents(q))
          /\ v.inwin <= MaxWindow
      BY <1>1, <2>1 DEF Good, Room, r, q
    <3> QED
      BY <3>1, <3>2, <3>3, <3>4
  <2>3. r.remwindow + n \in Unsigned
    <3>1. r.remwindow + n <= v.inwin
      BY <1>3, <1>7, <2>2
    <3> QED
      BY <1>3, <2>2, <3>1 DEF Unsigned
  <2>4. k = r.remwindow + n
    <3>1. r.remwindow + n \in Int
      BY <1>3, <2>2
    <3> QED
      BY <2>3, <3>1, Modulo DEF k, r
  <2> DEFINE z == [r EXCEPT !.remwindow = k]
  <2>5. k \in Unsigned
    BY <2>3, <2>4
  <2>6. /\ z \in Channels /\ z.type = r.type /\ z.closes = r.closes /\ z.s = r.s
        /\ z.missed = r.missed /\ z.outbuffer = r.outbuffer /\ z.buffer = r.buffer
        /\ z.ready = r.ready /\ z.frozen = r.frozen /\ z.throttled = r.throttled
        /\ z.throttle_override = r.throttle_override /\ z.out = r.out
        /\ z.remwindow = k /\ z.locwindow = r.locwindow
    BY <1>a, <2>5 DEF Channels, r
  <2> HIDE DEF z
  <2>7. e \in States /\ e.r = z /\ e.q = q
    <3>1. e = [st EXCEPT !.r = z]
      BY <1>b DEF z
    <3> QED
      BY <1>1, <2>6, <3>1 DEF States, q
  <2>8. Phase(z, q, x, v) /\ ~Declined(z, q, x, v)
    BY <1>5, <1>6, <2>6, SamePhase
  <2>9. Room(z, q, x, v)
    <3>1. v.inwin = k + Amount(x, Takes) + Len(Contents(q))
      BY <1>3, <1>7, <2>2, <2>4
    <3>2. Len(Contents(q)) <= v.inwin /\ v.inwin <= MaxWindow
      BY <1>1 DEF Good, Room, q
    <3> QED
      BY <2>6, <3>1, <3>2 DEF Room
  <2>10. Fits(z, q, x, v)
    BY <1>6, <1>8, <2>6, <2>8 DEF Fits
  <2>11. Steady(r) /\ Sound(r)
    BY <2>1 DEF Steady
  <2>12. /\ e.r.throttled => e.r.outbuffer # <<>>
         /\ e.r.frozen => e.r.throttled \/ e.r.throttle_override
         /\ e.r.missed # <<>> => e.r.frozen
         /\ e.r.ready /\ e.r.s /\ e.r.closes = 0
    BY <1>10, <2>1, <2>6, <2>7, <2>11 DEF Steady, Sound
  <2>13. Moves(e, u) /\ Held(u) = Held(e) /\ Steady(u.r)
    BY <2>7, <2>12, TrySendAndUnthrottleMoves DEF u
  <2>14. u \in States /\ u.r.throttle_override = r.throttle_override
    BY <2>6, <2>7, <2>13 DEF Moves
  <2>15. Held(e) = Cat(Cat(Contents(q), r.outbuffer), r.missed)
    BY <2>6, <2>7 DEF Held, Written
  <2>16. Leftovers \subseteq {0} => Cat(v.got, Held(u)) = Run(0, a)
    BY <1>6, <1>8, <2>1, <2>13, <2>15 DEF Whole
  <2>17. Fresh(v) /\ Blank(q)
    BY <1>1 DEF Good, q
  <2>18. e.r.type = "sockdata" /\ e.r.buffer = <<>> /\ (u.r.throttle_override => throttled_all)
    BY <1>5, <2>1, <2>6, <2>7, <2>14
  <2>19. Phase(e.r, e.q, x, v) /\ Blank(e.q) /\ Room(e.r, e.q, x, v) /\ Fits(e.r, e.q, x, v)
    BY <2>7, <2>8, <2>9, <2>10, <2>17
  <2>20. Good(u.r, u.q, x, v, throttled_all, a)
    BY <1>1, <1>3, <2>7, <2>12, <2>13, <2>16, <2>17, <2>18, <2>19, GoodMoves
  <2> QED
    BY <1>1, <1>3, <1>4, <1>5, <1>10, <2>14, <2>20, ClientStep DEF r
<1> QED
  BY <1>a, <1>9, <1>10 DEF r

LEMMA DataKeeps ==
    ASSUME Ssh2ChannelsAssumption, IInv, NEW c \in Chan, Data(c)
    PROVE  IInv'
<1> DEFINE st == State(c)
           p == toClient[c]
           x == Tail(p)
           v == srv[c]
           a == app[c]
           n == Head(p).n
           out == IF st.r.s THEN st.r.out + n ELSE 0
           k == (st.r.locwindow - n) % (UINT_MAX + 1)
           e == [st EXCEPT !.r.out = out, !.r.locwindow = k]
           newwin == OUR_V2_WINSIZE - out
           u == IF out < OUR_V2_WINSIZE THEN SetWindow(e, newwin) ELSE e
<1>1. /\ st \in States /\ p \in Seq(Messages) /\ v \in Servers /\ a \in Nat
      /\ Good(st.r, st.q, p, v, throttled_all, a)
      /\ st.r = channel[c] /\ st.q = toServer[c]
  BY Here
<1>2. Receives(c, "data")
  BY DEF Data
<1>3. /\ p # <<>> /\ Head(p).t = "data" /\ x \in Seq(Messages) /\ n \in Nat
      /\ toClient' = [toClient EXCEPT ![c] = x]
      /\ \A types : Amount(p, types) = Worth(Head(p), types) + Amount(x, types)
  BY <1>2, ReceivesFacts
<1>a. /\ st.r \in Channels /\ st.q \in Seq(Messages) /\ st.r.locwindow \in Unsigned
      /\ st.r.closes \in {0, 1} /\ st.r.out \in Nat
  BY <1>1, StateFields
<1> DEFINE r == st.r
           q == st.q
<1>5. /\ r.type = "sockdata" /\ Phase(r, q, x, v)
  BY <1>1, <1>3, PhaseTakes DEF Good
<1>4. /\ Becomes(c, u) /\ srv' = [srv EXCEPT ![c] = v]
      /\ app' = [app EXCEPT ![c] = a] /\ UNCHANGED <<throttled_all, fault>>
  <2>1. channel[c].type # "none"
    BY <1>1, <1>5
  <2>a. channel[c].s = st.r.s /\ channel[c].out = st.r.out
    BY <1>1
  <2>b. e = [State(c) EXCEPT !.r.out = IF channel[c].s THEN channel[c].out + n ELSE 0,
                             !.r.locwindow = (@ - n) % (UINT_MAX + 1)]
    BY <2>a
  <2>2. Becomes(c, u) /\ UNCHANGED <<srv, throttled_all, app, fault>>
    BY <2>1, <2>a, <2>b DEF Data
  <2> HIDE DEF u
  <2> QED
    BY <2>2, Unchanged
<1>b. e = [st EXCEPT !.r = [r EXCEPT !.out = out, !.locwindow = k]]
  OBVIOUS
<1> HIDE DEF st, p, x, v, a, n, out, k, e, u, newwin, r, q
<1>6. ~Declined(r, q, x, v) /\ ~Declined(r, q, p, v)
  BY <1>5 DEF Declined
<1>7. /\ Amount(p, Takes) = Amount(x, Takes) /\ Amount(p, {"data"}) = n + Amount(x, {"data"})
      /\ Amount(x, {"data"}) \in Nat
  <2>1. Worth(Head(p), Takes) = 0 /\ Worth(Head(p), {"data"}) = n
    BY <1>3 DEF Worth, Takes, n
  <2>2. Amount(x, Takes) \in Nat /\ Amount(x, {"data"}) \in Nat
    BY <1>3, AmountNat
  <2> QED
    BY <1>3, <2>1, <2>2
<1>8. /\ OUR_V2_WINSIZE \in Nat /\ UINT_MAX \in Nat /\ UINT_MAX >= 2 * OUR_V2_WINSIZE
      /\ Unsigned = 0 .. UINT_MAX /\ r.locwindow \in Nat /\ r.locwindow <= UINT_MAX
      /\ r.out \in Nat
  BY <1>a DEF Ssh2ChannelsAssumption, Unsigned, r
<1>9. out \in Nat /\ (r.s => out = r.out + n)
  BY <1>3, <1>8 DEF out, r
<1>10. k \in Unsigned /\ (r.locwindow >= n => k = r.locwindow - n)
  <2>1. r.locwindow - n \in Int
    BY <1>3, <1>8
  <2>2. r.locwindow >= n => r.locwindow - n \in Unsigned
    BY <1>3, <1>8
  <2> QED
    BY <2>1, <2>2, Modulo DEF k, r
<1> DEFINE z == [r EXCEPT !.out = out, !.locwindow = k]
<1>11. /\ z \in Channels /\ z.type = r.type /\ z.closes = r.closes /\ z.s = r.s
       /\ z.missed = r.missed /\ z.outbuffer = r.outbuffer /\ z.buffer = r.buffer
       /\ z.ready = r.ready /\ z.frozen = r.frozen /\ z.throttled = r.throttled
       /\ z.throttle_override = r.throttle_override /\ z.out = out
       /\ z.remwindow = r.remwindow /\ z.locwindow = k
  BY <1>9, <1>10, <1>a DEF Channels, r
<1> HIDE DEF z
<1>12. e \in States /\ e.r = z /\ e.q = q
  <2>1. e = [st EXCEPT !.r = z]
    BY <1>b DEF z
  <2> QED
    BY <1>1, <1>11, <2>1 DEF States, q
<1>13. Phase(z, q, x, v) /\ ~Declined(z, q, x, v)
  BY <1>5, <1>6, <1>11, SamePhase
<1>14. Fresh(v) /\ Blank(q) /\ Good(r, q, p, v, throttled_all, a)
  BY <1>1 DEF Good, r, q
<1>15. Plugged(z, throttled_all)
  BY <1>5, <1>11, <1>14 DEF Good, Plugged, Steady, Sound
<1>16. Room(z, q, x, v)
  BY <1>7, <1>11, <1>14 DEF Good, Room
<1>17. Whole(z, q, x, v, a)
  BY <1>6, <1>11, <1>14 DEF Good, Whole
<1>18. ASSUME Replies \subseteq {0}, r.s
       PROVE  /\ k = v.outwin + Amount(q, Grants) + Amount(x, {"data"})
              /\ k + out <= OUR_V2_WINSIZE
  <2>1. /\ r.locwindow = v.outwin + Amount(q, Grants) + Amount(p, {"data"})
        /\ r.locwindow + r.out <= OUR_V2_WINSIZE
    BY <1>6, <1>14, <1>18 DEF Good, Fits
  <2>2. v.outwin \in Nat /\ Amount(q, Grants) \in Nat
    BY <1>1, <1>a, AmountNat DEF Servers, q
  <2> DEFINE o == v.outwin
             y == Amount(q, Grants)
             g == Amount(x, {"data"})
             l == r.locwindow
  <2>3. l = o + y + (n + g) /\ l \in Nat /\ o \in Nat /\ y \in Nat /\ g \in Nat
    BY <1>7, <1>8, <2>1, <2>2
  <2> HIDE DEF o, y, g
  <2>4. l >= n /\ l - n = o + y + g
    BY <1>3, <2>3
  <2>5. k = l - n
    BY <1>10, <2>4
  <2>6. k = o + y + g
    BY <2>4, <2>5
  <2>7. k + out <= OUR_V2_WINSIZE
    BY <1>3, <1>8, <1>9, <1>18, <2>1, <2>5, SMTT(40)
  <2> QED
    BY <2>6, <2>7 DEF o, y, g
<1>19. Fits(z, q, x, v)
  BY <1>11, <1>18 DEF Fits
<1>20. Good(z, q, x, v, throttled_all, a)
  BY <1>13, <1>14, <1>15, <1>16, <1>17, <1>19 DEF Good
<1>21. u \in States /\ Good(u.r, u.q, x, v, throttled_all, a)
  <2>1. CASE out < OUR_V2_WINSIZE
    <3>1. newwin \in Unsigned /\ newwin + out = OUR_V2_WINSIZE
      BY <1>8, <1>9, <2>1 DEF newwin
    <3>2. e.r.type = "sockdata" /\ newwin + e.r.out <= OUR_V2_WINSIZE
      BY <1>5, <1>8, <1>11, <1>12, <3>1
    <3>3. Good(e.r, e.q, x, v, throttled_all, a)
      BY <1>12, <1>20
    <3>4. /\ SetWindow(e, newwin) \in States
          /\ Good(SetWindow(e, newwin).r, SetWindow(e, newwin).q, x, v, throttled_all, a)
      BY <1>1, <1>3, <1>12, <3>1, <3>2, <3>3, AdjustKeeps
    <3> QED
      BY <2>1, <3>4 DEF u
  <2>2. CASE ~(out < OUR_V2_WINSIZE)
    BY <1>12, <1>20, <2>2 DEF u
  <2> QED
    BY <2>1, <2>2
<1> QED
  BY <1>1, <1>3, <1>4, <1>21, ClientStep

LEMMA ConfirmationKeeps ==
    ASSUME Ssh2ChannelsAssumption, IInv, NEW c \in Chan, Confirmation(c)
    PROVE  IInv'
<1> DEFINE st == State(c)
           p == toClient[c]
           x == Tail(p)
           v == srv[c]
           a == app[c]
           n == Head(p).n
           e == [st EXCEPT !.r.type = "sockdata", !.r.remwindow = n]
           t == PfdConfirm(e)
           u == IF t.r.closes = 0 THEN t ELSE Send(t, Msg("close", 0))
           r == st.r
           q == st.q
<1>1. /\ st \in States /\ p \in Seq(Messages) /\ v \in Servers /\ a \in Nat
      /\ Good(st.r, st.q, p, v, throttled_all, a)
      /\ st.r = channel[c] /\ st.q = toServer[c]
  BY Here
<1>2. Receives(c, "confirm")
  BY DEF Confirmation
<1>3. /\ p # <<>> /\ Head(p).t = "confirm" /\ x \in Seq(Messages) /\ n \in Nat
      /\ toClient' = [toClient EXCEPT ![c] = x]
      /\ \A types : Amount(p, types) = Worth(Head(p), types) + Amount(x, types)
  BY <1>2, ReceivesFacts
<1>4. Head(p) = p[1] /\ v.sentClose \in BOOLEAN
  BY <1>1, <1>3, OneLess DEF Servers
<1>a. /\ r \in Channels /\ q \in Seq(Messages)
      /\ r.closes \in {0, 1} /\ r.out \in Nat
  BY <1>1, StateFields
<1>b. e = [st EXCEPT !.r = [r EXCEPT !.type = "sockdata", !.remwindow = n]]
  OBVIOUS
<1>5. Accepted(r, q, p, v)
  <2>1. \A closed \in BOOLEAN : ~Down(p, 1, closed)
    BY <1>1, <1>3, DownTakes
  <2> HIDE DEF st, p, v, a, r, q, x
  <2> QED
    BY <1>1, <1>3, <1>4, <2>1
       DEF Good, Phase, Idle, Asked, Declined, Joined, HalfClosed, Forgotten, Deleted, r, q
<1>6. /\ Becomes(c, u) /\ srv' = [srv EXCEPT ![c] = v]
      /\ app' = [app EXCEPT ![c] = a] /\ UNCHANGED <<throttled_all, fault>>
  <2>1. channel[c].type = "dormant"
    BY <1>1, <1>5 DEF Accepted
  <2>2. Becomes(c, u) /\ UNCHANGED <<srv, throttled_all, app, fault>>
    BY <2>1 DEF Confirmation
  <2> HIDE DEF u
  <2> QED
    BY <2>2, Unchanged
<1> HIDE DEF st, p, x, v, a, n, e, t, u, r, q
<1>7. /\ r.type = "dormant" /\ q = <<>> /\ v.state = "open" /\ ~v.gotClose
      /\ n <= MaxWindow /\ Down(x, 1, v.sentClose)
  <2>1. Down(p, 2, v.sentClose)
    BY <1>5 DEF Accepted
  <2>2. Down(x, 1, v.sentClose)
    BY <1>1, <1>3, <1>4, <2>1, DownTakes DEF x
  <2> QED
    BY <1>4, <1>5, <2>2 DEF Accepted, n
<1>8. n \in Unsigned
  BY <1>3, <1>7 DEF Ssh2ChannelsAssumption, Unsigned
<1>9. /\ Amount(p, Takes) = n + Amount(x, Takes) /\ Amount(p, {"data"}) = Amount(x, {"data"})
      /\ Amount(x, Takes) \in Nat
  <2>1. Worth(Head(p), Takes) = n /\ Worth(Head(p), {"data"}) = 0
    BY <1>3 DEF Worth, Takes, n
  <2>2. Amount(x, Takes) \in Nat /\ Amount(x, {"data"}) \in Nat
    BY <1>3, AmountNat
  <2> QED
    BY <1>3, <2>1, <2>2
<1> DEFINE z == [r EXCEPT !.type = "sockdata", !.remwindow = n]
<1>10. /\ z \in Channels /\ z.type = "sockdata" /\ z.closes = r.closes /\ z.s = r.s
       /\ z.missed = r.missed /\ z.outbuffer = r.outbuffer /\ z.buffer = r.buffer
       /\ z.ready = r.ready /\ z.frozen = r.frozen /\ z.throttled = r.throttled
       /\ z.throttle_override = r.throttle_override /\ z.out = r.out
       /\ z.remwindow = n /\ z.locwindow = r.locwindow
  BY <1>8, <1>a DEF Channels
<1>11. e = [st EXCEPT !.r = z]
  BY <1>b DEF z
<1> HIDE DEF z
<1>12. e \in States /\ e.r = z /\ e.q = q
  BY <1>1, <1>10, <1>11 DEF States, q
<1>13. Good(r, q, p, v, throttled_all, a) /\ Fresh(v) /\ Blank(q) /\ Plugged(r, throttled_all)
  BY <1>1 DEF Good, r, q
<1>14. Contents(q) = <<>> /\ Len(<<>>) = 0
  BY <1>7, NoMessages, EmptySeq
<1>15. v.inwin \in Nat /\ v.inwin <= MaxWindow
  BY <1>1, <1>13 DEF Servers, Good, Room
<1>16. ~Ends(q) /\ Up(q, FALSE)
  BY <1>7, <1>14 DEF Ends, Up
<1>17. CASE r.s
  <2>1. /\ r.closes = 0 /\ r.frozen /\ ~r.throttled /\ ~r.throttle_override
        /\ r.outbuffer = <<>> /\ r.remwindow = 0
    BY <1>7, <1>13, <1>17 DEF Plugged
  <2> DEFINE y == Ready(e)
             yr == [z EXCEPT !.ready = TRUE, !.buffer = <<>>]
  <2>2. e.r.s /\ ~e.r.throttled /\ e.r.outbuffer = <<>> /\ (e.r.missed # <<>> => e.r.frozen)
    BY <1>10, <1>12, <1>17, <2>1
  <2>3. /\ y \in States /\ Moves(y, t)
        /\ e.r.buffer = <<>> => Held(t) = Held(e)
        /\ Steady(t.r)
    BY <1>12, <2>2, PfdConfirmMoves DEF t
  <2>4. y = [e EXCEPT !.r = yr]
    BY <1>12 DEF Ready
  <2>5. <<>> \in Seq(Nat)
    BY EmptySeq
  <2>6. /\ yr.type = "sockdata" /\ yr.closes = 0 /\ yr.s
        /\ yr.ready /\ yr.buffer = <<>>
        /\ yr.throttle_override = FALSE /\ yr.out = r.out
        /\ yr.remwindow = n /\ yr.locwindow = r.locwindow
    BY <1>10, <1>17, <2>1, <2>5 DEF Channels
  <2> HIDE DEF yr
  <2>7. y.r = yr /\ y.q = q
    BY <1>12, <2>4 DEF States
  <2> HIDE DEF y
  <2>8. Joined(yr, q, x, v)
    <3>1. Up(q, v.state = "asking")
      <4>1. (v.state = "asking") = FALSE
        BY <1>7
      <4> QED
        BY <1>16, <4>1
    <3>2. v.state = "open" /\ ~v.gotClose /\ Down(x, 1, v.sentClose)
      BY <1>7
    <3> QED
      BY <1>16, <2>6, <3>1, <3>2 DEF Joined
  <2>9. Room(yr, q, x, v)
    <3>1. v.inwin = r.remwindow + Amount(p, Takes) + Len(Contents(q))
      BY <1>13, <1>17 DEF Good, Room
    <3>2. v.inwin = n + Amount(x, Takes) + Len(Contents(q))
      BY <1>3, <1>9, <1>14, <2>1, <3>1
    <3> QED
      BY <1>13, <2>6, <3>2 DEF Good, Room
  <2>10. ~Declined(r, q, p, v)
    BY <1>7 DEF Declined
  <2>11. Fits(yr, q, x, v)
    BY <1>9, <1>13, <1>17, <2>6, <2>10 DEF Good, Fits
  <2>12. Phase(yr, q, x, v)
    BY <2>8 DEF Phase
  <2>13. t.r.closes = 0 /\ t \in States /\ t.r.throttle_override = FALSE
    BY <2>3, <2>6, <2>7 DEF Moves
  <2>14. ASSUME Leftovers \subseteq {0} PROVE Cat(v.got, Held(t)) = Run(0, a)
    <3>1. r.buffer = <<>> /\ Cat(v.got, Cat(Cat(Contents(q), r.outbuffer), r.missed)) = Run(0, a)
      BY <1>13, <1>17, <2>10, <2>14 DEF Good, Whole
    <3>2. Held(e) = Cat(Cat(Contents(q), r.outbuffer), r.missed) /\ e.r.buffer = <<>>
      BY <1>10, <1>12, <3>1 DEF Held, Written
    <3> QED
      BY <2>3, <3>1, <3>2
  <2>15. Good(t.r, t.q, x, v, throttled_all, a)
    <3>1. /\ y.r.s /\ y.r.type = "sockdata" /\ y.r.closes = 0 /\ y.r.ready
          /\ y.r.buffer = <<>> /\ Phase(y.r, y.q, x, v) /\ Blank(y.q)
          /\ Room(y.r, y.q, x, v) /\ Fits(y.r, y.q, x, v)
      BY <1>13, <2>6, <2>7, <2>9, <2>11, <2>12
    <3> QED
      BY <1>1, <1>3, <1>13, <2>3, <2>13, <2>14, <3>1, GoodMoves
  <2> QED
    BY <1>1, <1>3, <1>6, <2>13, <2>15, ClientStep DEF u
<1>18. CASE ~r.s
  <2> DEFINE m == Msg("close", 0)
             w == Append(q, m)
             f == [e EXCEPT !.q = w]
  <2>1. r.closes = 1
    BY <1>7, <1>13, <1>18, <1>a DEF Plugged
  <2>2. m \in Messages /\ m.t = "close" /\ m.bytes = <<>>
    BY MsgType
  <2>3. t = e
    BY <1>10, <1>12, <1>18 DEF t, PfdConfirm
  <2>4. u = f
    <3>1. t.r.closes # 0
      BY <1>10, <1>12, <2>1, <2>3
    <3>2. u = Send(e, m)
      BY <2>3, <3>1 DEF u
    <3> QED
      BY <1>12, <3>2 DEF Send
  <2> HIDE DEF m
  <2>5. w \in Seq(Messages) /\ Contents(w) = Contents(q) /\ Blank(w)
    BY <1>13, <1>a, <2>2, OneMore, EmptyMessage, BlankAppend
  <2>6. Up(w, FALSE) /\ Ends(w)
    BY <1>16, <1>a, <2>2, UpCloses
  <2> HIDE DEF w
  <2>7. f \in States /\ f.r = z /\ f.q = w
    BY <1>12, <2>5 DEF States
  <2>8. Joined(z, w, x, v)
    BY <1>7, <1>10, <2>1, <2>6 DEF Joined
  <2>9. Plugged(z, throttled_all) /\ ~z.s
    BY <1>10, <1>18, <2>1 DEF Plugged
  <2>10. Room(z, w, x, v)
    BY <1>14, <1>15, <2>5, <2>9 DEF Room
  <2>11. Good(z, w, x, v, throttled_all, a)
    BY <1>13, <2>5, <2>8, <2>9, <2>10 DEF Good, Phase, Fits, Whole
  <2> QED
    BY <1>1, <1>3, <1>6, <2>4, <2>7, <2>11, ClientStep
<1> QED
  BY <1>17, <1>18

LEMMA OneMessage ==
    ASSUME NEW m \in Messages, m.t \in Grants, m.bytes = <<>>
    PROVE  /\ <<m>> \in Seq(Messages) /\ Len(<<m>>) = 1 /\ <<m>>[1] = m /\ <<m>> # <<>>
           /\ Amount(<<m>>, Grants) = m.n /\ Contents(<<m>>) = <<>> /\ Blank(<<m>>)
<1> DEFINE o == <<>>
           q == <<m>>
<1>1. q = Append(o, m)
  OBVIOUS
<1>2. o \in Seq(Messages) /\ Len(o) = 0 /\ Len(q) = 1 /\ q[1] = m
  BY EmptySeq
<1>3. Amount(o, Grants) = 0 /\ Contents(o) = <<>>
  BY NoMessages
<1>4. Blank(o)
  BY <1>2 DEF Blank
<1>5. Worth(m, Grants) = m.n /\ m.n \in Nat
  BY DEF Worth, Messages
<1>6. q # <<>>
  OBVIOUS
<1> HIDE DEF o, q
<1>7. o \in Seq(Messages)
  BY <1>2
<1>8. /\ q \in Seq(Messages) /\ Amount(q, Grants) = Amount(o, Grants) + Worth(m, Grants)
      /\ Contents(q) = Contents(o) /\ Blank(q)
  BY <1>1, <1>4, <1>7, OneMore, EmptyMessage, BlankAppend
<1>9. Amount(q, Grants) = m.n
  BY <1>3, <1>5, <1>8
<1> QED
  BY <1>2, <1>3, <1>6, <1>8, <1>9 DEF q

(* An id that is not in use. *)
LEMMA UnusedFacts ==
    ASSUME IInv, NEW c \in Chan, Unused(c)
    PROVE  /\ toServer[c] = <<>> /\ toClient[c] = <<>> /\ srv[c].state = "none"
           /\ srv[c].inwin = 0 /\ srv[c].outwin = 0 /\ srv[c].got = <<>>
           /\ ~srv[c].gotClose /\ ~srv[c].sentClose /\ Fresh(srv[c])
BY Here DEF Unused, Good, Fresh

LEMMA PortOpenKeeps ==
    ASSUME Ssh2ChannelsAssumption, IInv, NEW c \in Chan,
           NEW n \in 0 .. MaxApp, n = 0 \/ n \in Leftovers,
           NEW out \in 0 .. OUR_V2_WINSIZE, out = 0 \/ out \in Replies,
           PortOpen(c, Run(0, n), out)
    PROVE  IInv'
<1> DEFINE p == toClient[c]
           v == srv[c]
           b == Run(0, n)
           m == Msg("open", OUR_V2_WINSIZE)
           r == [NoChannel EXCEPT !.type = "dormant", !.locwindow = OUR_V2_WINSIZE,
                                  !.s = TRUE, !.frozen = TRUE,
                                  !.buffer = b, !.out = out]
           e == [r |-> r, q |-> <<m>>]
<1>1. /\ p \in Seq(Messages) /\ v \in Servers /\ p = <<>> /\ v.state = "none"
      /\ v.inwin = 0 /\ v.outwin = 0 /\ v.got = <<>> /\ ~v.gotClose /\ ~v.sentClose
      /\ Fresh(v)
  BY Here, UnusedFacts DEF PortOpen
<1>2. /\ OUR_V2_WINSIZE \in Nat /\ n \in Nat /\ out \in Nat /\ out <= OUR_V2_WINSIZE
      /\ UINT_MAX \in Nat /\ OUR_V2_WINSIZE \in Unsigned /\ 0 \in Unsigned
      /\ MaxWindow \in Nat
  BY DEF Ssh2ChannelsAssumption, Unsigned
<1>3. b \in Seq(Nat) /\ Len(b) = n /\ (n = 0 => b = <<>>)
  BY <1>2, RunFacts
<1>4. /\ Becomes(c, e) /\ toClient' = [toClient EXCEPT ![c] = p]
      /\ srv' = [srv EXCEPT ![c] = v] /\ app' = [app EXCEPT ![c] = n]
      /\ UNCHANGED <<throttled_all, fault>>
  <2>1. /\ Becomes(c, e) /\ app' = [app EXCEPT ![c] = Len(b)]
        /\ UNCHANGED <<toClient, srv, throttled_all, fault>>
    BY DEF PortOpen
  <2> HIDE DEF e, b
  <2> QED
    BY <1>3, <2>1, Unchanged
<1>5. /\ m \in Messages /\ m.t = "open" /\ m.n = OUR_V2_WINSIZE /\ m.bytes = <<>>
  BY <1>2, MsgType
<1> HIDE DEF p, v, b, m
<1>6. <<>> \in Seq(Nat) /\ <<>> \in Seq(Messages) /\ Len(<<>>) = 0
  BY EmptySeq
<1>7. /\ r \in Channels /\ r.type = "dormant" /\ r.closes = 0 /\ r.s = TRUE
      /\ r.missed = <<>> /\ r.outbuffer = <<>> /\ r.buffer = b
      /\ r.frozen = TRUE /\ r.throttled = FALSE /\ r.throttle_override = FALSE
      /\ r.out = out /\ r.remwindow = 0 /\ r.locwindow = OUR_V2_WINSIZE
  BY <1>2, <1>3, <1>6 DEF NoChannel, Channels
<1> DEFINE q == <<m>>
<1>8. /\ q \in Seq(Messages) /\ Len(q) = 1 /\ q[1] = m
      /\ Amount(q, Grants) = OUR_V2_WINSIZE /\ Contents(q) = <<>> /\ Blank(q)
  <2>1. m.t \in Grants
    BY <1>5 DEF Grants
  <2> QED
    BY <1>5, <2>1, OneMessage
<1>9. e \in States /\ e.r = r /\ e.q = q
  BY <1>7, <1>8 DEF States
<1> HIDE DEF r, q, e
<1>10. Asked(r, q, p, v)
  BY <1>1, <1>5, <1>7, <1>8 DEF Asked
<1>11. Plugged(r, throttled_all)
  BY <1>2, <1>7 DEF Plugged
<1>12. Room(r, q, p, v)
  <2>1. Amount(p, Takes) = 0
    BY <1>1, NoMessages
  <2> QED
    BY <1>1, <1>2, <1>6, <1>7, <1>8, <2>1 DEF Room
<1>13. Fits(r, q, p, v)
  <2>1. Amount(p, {"data"}) = 0
    BY <1>1, NoMessages
  <2>2. Replies \subseteq {0} => out = 0
    OBVIOUS
  <2> QED
    BY <1>1, <1>2, <1>7, <1>8, <2>1, <2>2 DEF Fits
<1>14. Whole(r, q, p, v, n)
  <2>1. SUFFICES ASSUME Leftovers \subseteq {0}
                 PROVE  /\ r.buffer = <<>>
                        /\ Cat(v.got, Cat(Cat(Contents(q), r.outbuffer), r.missed)) = Run(0, n)
    BY DEF Whole
  <2>2. n = 0 /\ b = <<>>
    BY <1>3, <2>1
  <2>3. Cat(<<>>, Cat(Cat(<<>>, <<>>), <<>>)) = <<>>
    BY <1>6, CatProperties
  <2>4. Run(0, n) = <<>>
    BY <2>2 DEF b
  <2> QED
    BY <1>1, <1>7, <1>8, <2>2, <2>3, <2>4
<1>15. Good(r, q, p, v, throttled_all, n)
  BY <1>1, <1>8, <1>10, <1>11, <1>12, <1>13, <1>14 DEF Good, Phase
<1> QED
  BY <1>1, <1>2, <1>4, <1>9, <1>15, ClientStep

LEMMA AcceptingKeeps ==
    ASSUME Ssh2ChannelsAssumption, IInv, NEW c \in Chan, Accepting(c)
    PROVE  IInv'
<1>1. Run(0, 0) = <<>>
  BY RunFacts
<1>2. PortOpen(c, Run(0, 0), 0)
  BY <1>1 DEF Accepting
<1>3. 0 \in 0 .. MaxApp /\ 0 \in 0 .. OUR_V2_WINSIZE
  BY DEF Ssh2ChannelsAssumption
<1> QED
  BY <1>2, <1>3, PortOpenKeeps

LEMMA ConnectedKeeps ==
    ASSUME Ssh2ChannelsAssumption, IInv, NEW c \in Chan, Connected(c)
    PROVE  IInv'
<1>1. PICK n \in Leftovers : \E out \in Replies : PortOpen(c, Run(0, n), out)
  BY DEF Connected
<1>2. PICK out \in Replies : PortOpen(c, Run(0, n), out)
  BY <1>1
<1>3. n \in 0 .. MaxApp /\ out \in 0 .. OUR_V2_WINSIZE
  BY DEF Ssh2ChannelsAssumption
<1> QED
  BY <1>2, <1>3, PortOpenKeeps

LEMMA OpenRequestKeeps ==
    ASSUME Ssh2ChannelsAssumption, IInv, NEW c \in Chan, OpenRequest(c)
    PROVE  IInv'
<1>1. PICK z \in Windows :
        /\ Becomes(c, [r |-> [NoChannel EXCEPT
                                !.type = "sockdata", !.locwindow = OUR_V2_WINSIZE,
                                !.remwindow = z, !.s = TRUE, !.ready = TRUE],
                       q |-> <<Msg("confirm", OUR_V2_WINSIZE)>>])
        /\ srv' = [srv EXCEPT ![c] = [NoServer EXCEPT !.state = "asking", !.inwin = z]]
  BY DEF OpenRequest
<1> DEFINE p == toClient[c]
           v == [NoServer EXCEPT !.state = "asking", !.inwin = z]
           m == Msg("confirm", OUR_V2_WINSIZE)
           r == [NoChannel EXCEPT !.type = "sockdata", !.locwindow = OUR_V2_WINSIZE,
                                  !.remwindow = z, !.s = TRUE, !.ready = TRUE]
           e == [r |-> r, q |-> <<m>>]
           q == <<m>>
<1>2. p \in Seq(Messages) /\ p = <<>>
  BY Here, UnusedFacts DEF OpenRequest
<1>3. /\ OUR_V2_WINSIZE \in Nat /\ z \in Nat /\ z <= MaxWindow /\ z \in Unsigned
      /\ UINT_MAX \in Nat /\ OUR_V2_WINSIZE \in Unsigned /\ 0 \in Unsigned
      /\ MaxWindow \in Nat
  BY DEF Ssh2ChannelsAssumption, Unsigned
<1>4. /\ Becomes(c, e) /\ toClient' = [toClient EXCEPT ![c] = p]
      /\ srv' = [srv EXCEPT ![c] = v] /\ app' = [app EXCEPT ![c] = 0]
      /\ UNCHANGED <<throttled_all, fault>>
  <2>1. /\ Becomes(c, e) /\ app' = [app EXCEPT ![c] = 0] /\ srv' = [srv EXCEPT ![c] = v]
        /\ UNCHANGED <<toClient, throttled_all, fault>>
    BY <1>1 DEF OpenRequest
  <2> HIDE DEF e, v
  <2> QED
    BY <2>1, Unchanged
<1>5. /\ m \in Messages /\ m.t = "confirm" /\ m.n = OUR_V2_WINSIZE /\ m.bytes = <<>>
  BY <1>3, MsgType
<1> HIDE DEF p, m
<1>6. <<>> \in Seq(Nat) /\ <<>> \in Seq(Messages) /\ Len(<<>>) = 0
  BY EmptySeq
<1>7. /\ r \in Channels /\ r.type = "sockdata" /\ r.closes = 0 /\ r.s = TRUE
      /\ r.missed = <<>> /\ r.outbuffer = <<>> /\ r.buffer = <<>> /\ r.ready = TRUE
      /\ r.frozen = FALSE /\ r.throttled = FALSE /\ r.throttle_override = FALSE
      /\ r.out = 0 /\ r.remwindow = z /\ r.locwindow = OUR_V2_WINSIZE
  BY <1>3, <1>6 DEF NoChannel, Channels
<1>8. /\ v \in Servers /\ v.state = "asking" /\ v.inwin = z /\ v.outwin = 0
      /\ v.got = <<>> /\ v.gotClose = FALSE /\ v.sentClose = FALSE
  BY <1>3, <1>6 DEF NoServer, Servers
<1>9. /\ q \in Seq(Messages) /\ Len(q) = 1 /\ q[1] = m /\ q # <<>>
      /\ Amount(q, Grants) = OUR_V2_WINSIZE /\ Contents(q) = <<>> /\ Blank(q)
  <2>1. m.t \in Grants
    BY <1>5 DEF Grants
  <2> QED
    BY <1>5, <2>1, OneMessage
<1>10. e \in States /\ e.r = r /\ e.q = q
  BY <1>7, <1>9 DEF States
<1> HIDE DEF r, q, e, v
<1>11. Joined(r, q, p, v)
  <2>1. Up(q, TRUE)
    BY <1>5, <1>9 DEF Up
  <2>2. ~Ends(q)
    BY <1>5, <1>9 DEF Ends
  <2>3. Down(p, 1, v.sentClose) /\ (v.state = "asking" => p = <<>>)
    <3>1. Down(p, 1, FALSE)
      BY <1>2, <1>6 DEF Down, Ends
    <3> QED
      BY <1>2, <1>8, <3>1
  <2>4. Up(q, v.state = "asking")
    <3>1. (v.state = "asking") = TRUE
      BY <1>8
    <3> QED
      BY <2>1, <3>1
  <2> QED
    BY <1>7, <1>8, <2>2, <2>3, <2>4 DEF Joined
<1>12. Plugged(r, throttled_all)
  BY <1>7 DEF Plugged, Steady, Sound
<1>13. Room(r, q, p, v)
  <2>1. Amount(p, Takes) = 0
    BY <1>2, NoMessages
  <2> QED
    BY <1>3, <1>6, <1>7, <1>8, <1>9, <2>1 DEF Room
<1>14. Fits(r, q, p, v)
  <2>1. Amount(p, {"data"}) = 0
    BY <1>2, NoMessages
  <2> QED
    BY <1>3, <1>7, <1>8, <1>9, <2>1 DEF Fits
<1>15. Whole(r, q, p, v, 0)
  <2>1. Cat(<<>>, Cat(Cat(<<>>, <<>>), <<>>)) = <<>>
    BY <1>6, CatProperties
  <2>2. Run(0, 0) = <<>>
    BY RunFacts
  <2> QED
    BY <1>7, <1>8, <1>9, <2>1, <2>2 DEF Whole
<1>16. Good(r, q, p, v, throttled_all, 0)
  BY <1>8, <1>9, <1>11, <1>12, <1>13, <1>14, <1>15 DEF Good, Phase, Fresh
<1>17. p \in Seq(Messages) /\ v \in Servers /\ 0 \in Nat
  BY <1>2, <1>8
<1> QED
  BY <1>4, <1>10, <1>16, <1>17, ClientStep

(* Throttling the sockets, or no longer, according to the connection's      *)
(* backlog: afterwards the channel is good whether all are throttled (on)   *)
(* or not.                                                                  *)
LEMMA OverrideKeeps ==
    ASSUME Ssh2ChannelsAssumption, NEW st \in States, NEW p \in Seq(Messages),
           NEW v \in Servers, NEW a \in Nat, NEW th,
           Good(st.r, st.q, p, v, th, a), st.r.type = "sockdata",
           NEW enable \in BOOLEAN, NEW on, enable => on
    PROVE  /\ PfdOverride(st, enable) \in States
           /\ PfdOverride(st, enable).r.type = "sockdata"
           /\ Good(PfdOverride(st, enable).r, PfdOverride(st, enable).q, p, v, on, a)
<1> DEFINE u == PfdOverride(st, enable)
           r == st.r
           q == st.q
           z == [r EXCEPT !.throttle_override = enable]
           y == [st EXCEPT !.r.throttle_override = enable]
<1>1. r \in Channels /\ q \in Seq(Messages) /\ r.s \in BOOLEAN /\ r.closes \in {0, 1}
  BY StateFields
<1>2. Good(r, q, p, v, th, a) /\ r.type = "sockdata"
  OBVIOUS
<1>3. /\ z \in Channels /\ z.type = r.type /\ z.closes = r.closes /\ z.s = r.s
      /\ z.missed = r.missed /\ z.outbuffer = r.outbuffer /\ z.buffer = r.buffer
      /\ z.ready = r.ready /\ z.frozen = r.frozen /\ z.throttled = r.throttled
      /\ z.throttle_override = enable /\ z.out = r.out
      /\ z.remwindow = r.remwindow /\ z.locwindow = r.locwindow
  BY <1>1 DEF Channels
<1>4. y = [st EXCEPT !.r = z]
  OBVIOUS
<1> HIDE DEF z
<1>5. y \in States /\ y.r = z /\ y.q = q
  BY <1>1, <1>3, <1>4 DEF States
<1>6. CASE ~r.s
  <2>1. u = st
    BY <1>6 DEF PfdOverride
  <2>2. Good(r, q, p, v, on, a)
    BY <1>2, <1>6 DEF Good, Plugged
  <2> HIDE DEF u
  <2> QED
    BY <1>2, <2>1, <2>2 DEF u
<1>7. CASE r.s
  <2>1. /\ r.closes = 0 /\ r.ready /\ r.buffer = <<>> /\ Steady(r)
    BY <1>2, <1>7 DEF Good, Plugged
  <2>2. Moves(y, u) /\ Held(u) = Held(st) /\ Steady(u.r)
    BY <1>7, <2>1, PfdOverrideMoves
  <2> HIDE DEF u, y, r, q
  <2>3. u \in States /\ u.r.throttle_override = enable /\ u.r.type = "sockdata"
    BY <1>2, <1>3, <1>5, <2>2 DEF Moves
  <2>4. Phase(z, q, p, v) /\ (Declined(r, q, p, v) <=> Declined(z, q, p, v))
    BY <1>2, <1>3, SamePhase DEF Good
  <2>5. Room(z, q, p, v) /\ Fits(z, q, p, v)
    BY <1>2, <1>3, <2>4 DEF Good, Room, Fits
  <2>6. ~Declined(r, q, p, v)
    BY <1>2 DEF Declined
  <2>7. ASSUME Leftovers \subseteq {0} PROVE Cat(v.got, Held(u)) = Run(0, a)
    <3>1. Cat(v.got, Cat(Cat(Contents(q), r.outbuffer), r.missed)) = Run(0, a)
      BY <1>2, <1>7, <2>6, <2>7 DEF Good, Whole
    <3>2. Held(st) = Cat(Cat(Contents(q), r.outbuffer), r.missed)
      BY DEF Held, Written, q, r
    <3> QED
      BY <2>2, <3>1, <3>2
  <2>8. /\ Phase(y.r, y.q, p, v) /\ Fresh(v) /\ Blank(y.q) /\ Room(y.r, y.q, p, v)
        /\ Fits(y.r, y.q, p, v) /\ y.r.s /\ y.r.type = "sockdata" /\ y.r.closes = 0
        /\ y.r.ready /\ y.r.buffer = <<>>
    BY <1>2, <1>3, <1>5, <1>7, <2>1, <2>4, <2>5 DEF Good
  <2>9. Good(u.r, u.q, p, v, on, a)
    BY <1>5, <2>2, <2>3, <2>7, <2>8, GoodMoves
  <2> QED
    BY <2>3, <2>9 DEF u
<1> QED
  BY <1>1, <1>6, <1>7

(* Other channels are as good whether all are throttled or not. *)
LEMMA OtherKeeps ==
    ASSUME NEW r, NEW q, NEW p, NEW v, NEW a, NEW th, NEW on,
           Good(r, q, p, v, th, a), r.type # "sockdata"
    PROVE  Good(r, q, p, v, on, a)
BY DEF Good, Plugged

LEMMA OverriddenKeeps ==
    ASSUME Ssh2ChannelsAssumption, IInv, NEW c \in Chan, NEW enable \in BOOLEAN,
           NEW on, enable => on
    PROVE  /\ Overridden(c, enable) \in States
           /\ Good(Overridden(c, enable).r, Overridden(c, enable).q,
                   toClient[c], srv[c], on, app[c])
           /\ Forwarded(c) => Overridden(c, enable).r.type = "sockdata"
<1> DEFINE st == State(c)
<1>1. /\ st \in States /\ st.r = channel[c] /\ st.q = toServer[c]
      /\ toClient[c] \in Seq(Messages) /\ srv[c] \in Servers /\ app[c] \in Nat
      /\ Good(st.r, st.q, toClient[c], srv[c], throttled_all, app[c])
  BY Here
<1> HIDE DEF st
<1>2. CASE Forwarded(c)
  <2>1. st.r.type = "sockdata"
    BY <1>1, <1>2 DEF Forwarded
  <2>2. Overridden(c, enable) = PfdOverride(st, enable)
    BY <1>2 DEF Overridden, st
  <2> QED
    BY <1>1, <2>1, <2>2, OverrideKeeps
<1>3. CASE ~Forwarded(c)
  <2>1. st.r.type # "sockdata"
    BY <1>1, <1>3 DEF Forwarded
  <2>2. Overridden(c, enable) = st
    BY <1>3 DEF Overridden, st
  <2> QED
    BY <1>1, <1>3, <2>1, <2>2, OtherKeeps
<1> QED
  BY <1>2, <1>3

(* All channels change at once. *)
LEMMA AllKeep ==
    ASSUME IInv, NEW st \in [Chan -> States], NEW on \in BOOLEAN,
           AllBecome(st), throttled_all' = on,
           \A c \in Chan : Good(st[c].r, st[c].q, toClient[c], srv[c], on, app[c])
    PROVE  IInv'
<1>1. \A c \in Chan : st[c].r \in Channels /\ st[c].q \in Seq(Messages)
  BY StateFields
<1>2. /\ channel' = [c \in Chan |-> st[c].r] /\ toServer' = [c \in Chan |-> st[c].q]
      /\ UNCHANGED <<toClient, srv, app, fault>>
  BY DEF AllBecome
<1>3. TypeOK' /\ ~fault'
  BY <1>1, <1>2 DEF IInv, TypeOK
<1>4. ASSUME NEW c \in Chan
      PROVE  Good(channel'[c], toServer'[c], toClient'[c], srv'[c], throttled_all', app'[c])
  <2>1. channel'[c] = st[c].r /\ toServer'[c] = st[c].q
    BY <1>2
  <2> QED
    BY <1>2, <2>1
<1> QED
  BY <1>3, <1>4 DEF IInv

LEMMA BacklogGrowsKeeps ==
    ASSUME Ssh2ChannelsAssumption, IInv, BacklogGrows
    PROVE  IInv'
<1> DEFINE st == [c \in Chan |-> Overridden(c, TRUE)]
<1>1. AllBecome(st) /\ throttled_all' = TRUE
  BY DEF BacklogGrows
<1>2. \A c \in Chan :
         /\ Overridden(c, TRUE) \in States
         /\ Good(Overridden(c, TRUE).r, Overridden(c, TRUE).q,
                 toClient[c], srv[c], TRUE, app[c])
  BY OverriddenKeeps
<1>3. /\ st \in [Chan -> States]
      /\ \A c \in Chan : Good(st[c].r, st[c].q, toClient[c], srv[c], TRUE, app[c])
  BY <1>2
<1> HIDE DEF st
<1> QED
  BY <1>1, <1>3, AllKeep

LEMMA BacklogShrinksKeeps ==
    ASSUME Ssh2ChannelsAssumption, IInv, BacklogShrinks
    PROVE  IInv'
<1> DEFINE st == [c \in Chan |-> Overridden(c, FALSE)]
           again(d) == [c \in Chan |->
                          IF Forwarded(c) /\ c <= d THEN PfdOverride(st[c], TRUE) ELSE st[c]]
<1>1. \/ AllBecome(st) /\ throttled_all' = FALSE
      \/ \E d \in Chan : AllBecome(again(d)) /\ throttled_all' = TRUE
  BY DEF BacklogShrinks
<1>2. ASSUME NEW c \in Chan, NEW on \in BOOLEAN
      PROVE  /\ st[c] \in States
             /\ Good(st[c].r, st[c].q, toClient[c], srv[c], on, app[c])
             /\ Forwarded(c) => st[c].r.type = "sockdata"
  <2>1. st[c] = Overridden(c, FALSE)
    OBVIOUS
  <2> HIDE DEF st
  <2> QED
    BY <2>1, OverriddenKeeps
<1>3. st \in [Chan -> States]
  <2>1. \A c \in Chan : Overridden(c, FALSE) \in States
    BY OverriddenKeeps
  <2> QED
    BY <2>1
<1> HIDE DEF st
<1>4. CASE AllBecome(st) /\ throttled_all' = FALSE
  BY <1>2, <1>3, <1>4, AllKeep
<1>5. CASE \E d \in Chan : AllBecome(again(d)) /\ throttled_all' = TRUE
  <2>1. PICK d \in Chan : AllBecome(again(d)) /\ throttled_all' = TRUE
    BY <1>5
  <2>2. ASSUME NEW c \in Chan
        PROVE  /\ again(d)[c] \in States
               /\ Good(again(d)[c].r, again(d)[c].q, toClient[c], srv[c], TRUE, app[c])
    <3>1. /\ st[c] \in States /\ Good(st[c].r, st[c].q, toClient[c], srv[c], TRUE, app[c])
          /\ Forwarded(c) => st[c].r.type = "sockdata"
      BY <1>2
    <3>2. toClient[c] \in Seq(Messages) /\ srv[c] \in Servers /\ app[c] \in Nat
      BY Here
    <3>3. CASE Forwarded(c) /\ c <= d
      <4>1. again(d)[c] = PfdOverride(st[c], TRUE)
        BY <3>3
      <4> HIDE DEF again
      <4>2. /\ PfdOverride(st[c], TRUE) \in States
            /\ Good(PfdOverride(st[c], TRUE).r, PfdOverride(st[c], TRUE).q,
                    toClient[c], srv[c], TRUE, app[c])
        BY <3>1, <3>2, <3>3, OverrideKeeps
      <4> QED
        BY <4>1, <4>2
    <3>4. CASE ~(Forwarded(c) /\ c <= d)
      <4>1. again(d)[c] = st[c]
        BY <3>4
      <4> HIDE DEF again
      <4> QED
        BY <3>1, <4>1
    <3> QED
      BY <3>3, <3>4
  <2>3. again(d) \in [Chan -> States]
    <3> DEFINE f == again(d)
    <3>1. f = [c \in Chan |-> f[c]]
      OBVIOUS
    <3> HIDE DEF again
    <3>2. \A c \in Chan : f[c] \in States
      BY <2>2
    <3> HIDE DEF f
    <3>3. f \in [Chan -> States]
      BY <3>1, <3>2
    <3> QED
      BY <3>3 DEF f
  <2> HIDE DEF again
  <2> QED
    BY <2>1, <2>2, <2>3, AllKeep
<1> QED
  BY <1>1, <1>4, <1>5

-------------------------------------------------------------------------------
(* The invariant, and what follows from it                                  *)

LEMMA NextKeeps ==
    ASSUME Ssh2ChannelsAssumption, IInv, Next
    PROVE  IInv'
<1>1. ASSUME NEW c \in Chan, Application(c) PROVE IInv'
  <2>1. CASE Accepting(c)
    BY <2>1, AcceptingKeeps
  <2>2. CASE Connected(c)
    BY <2>2, ConnectedKeeps
  <2>3. CASE \E n \in 1 .. MaxApp : AppWrites(c, n)
    BY <2>3, AppWritesKeeps
  <2>4. CASE AppEnds(c)
    BY <2>4, AppEndsKeeps
  <2>5. CASE \E n \in 1 .. channel[c].out : AppTakes(c, n)
    BY <2>5, AppTakesKeeps
  <2> QED
    BY <1>1, <2>1, <2>2, <2>3, <2>4, <2>5 DEF Application
<1>2. ASSUME NEW c \in Chan, Dispatch(c) PROVE IInv'
  BY <1>2, ConfirmationKeeps, FailureKeeps, DataKeeps, WindowAdjustKeeps, EofKeeps,
     CloseKeeps DEF Dispatch
<1>3. ASSUME NEW c \in Chan, Server(c) PROVE IInv'
  <2>1. CASE SrvTakes(c)
    BY <2>1, SrvTakesKeeps
  <2>2. CASE \E n \in 1 .. OUR_V2_WINSIZE : SrvWrites(c, n)
    BY <2>2, SrvWritesKeeps
  <2>3. CASE \E n \in 1 .. MaxWindow : SrvAdjusts(c, n)
    BY <2>3, SrvAdjustsKeeps
  <2>4. CASE SrvEnds(c)
    BY <2>4, SrvEndsKeeps
  <2>5. CASE SrvCloses(c)
    BY <2>5, SrvClosesKeeps
  <2> QED
    BY <1>3, <2>1, <2>2, <2>3, <2>4, <2>5 DEF Server
<1>4. ASSUME NEW c \in Chan, OpenRequest(c) PROVE IInv'
  BY <1>4, OpenRequestKeeps
<1> QED
  BY <1>1, <1>2, <1>3, <1>4, BacklogGrowsKeeps, BacklogShrinksKeeps DEF Next

LEMMA Inductive == Spec => []IInv
<1>1. Ssh2ChannelsAssumption
  BY Ssh2ChannelsAssumption
<1>2. Init => IInv
  BY <1>1, Initial
<1>3. IInv /\ [Next]_vars => IInv'
  <2>1. ASSUME IInv, UNCHANGED vars PROVE IInv'
    <3>1. TypeOK' /\ ~fault'
      BY <2>1 DEF IInv, TypeOK, vars
    <3>2. ASSUME NEW c \in Chan
          PROVE  Good(channel'[c], toServer'[c], toClient'[c], srv'[c], throttled_all', app'[c])
      BY <2>1 DEF IInv, vars
    <3> QED
      BY <3>1, <3>2 DEF IInv
  <2> QED
    BY <1>1, <2>1, NextKeeps
<1> QED
  BY <1>2, <1>3, PTL DEF Spec

(* A channel that is in use has its socket, and the invariant speaks of it. *)
LEMMA UsedFacts ==
    ASSUME IInv, NEW c \in Chan, InUse(c)
    PROVE  channel[c].s /\ ~Declined(channel[c], toServer[c], toClient[c], srv[c])
<1>1. channel[c].s
  BY Here DEF InUse, Good, Plugged
<1>2. ASSUME Declined(channel[c], toServer[c], toClient[c], srv[c]) PROVE FALSE
  <2>1. Len(toClient[c]) = 1 /\ toClient[c][1].t = "failure"
    BY <1>2 DEF Declined
  <2>2. Refused(c)
    BY <2>1 DEF Refused
  <2> QED
    BY <2>2 DEF InUse
<1> QED
  BY <1>1, <1>2

(* Every variable keeps its type: no window leaves the range of an unsigned *)
(* and no socket has half a state.                                          *)
THEOREM TypeCorrect == Spec => []TypeOK
<1>1. IInv => TypeOK
  BY DEF IInv
<1> QED
  BY <1>1, Inductive, PTL

(* A frozen socket is frozen because its channel is not confirmed, because  *)
(* data waits in the outbuffer for want of window, or because of the        *)
(* connection's backlog.                                                    *)
THEOREM FrozenCorrect == Spec => []FrozenForAReason
<1>1. ASSUME IInv, NEW c \in Chan, channel[c].s, channel[c].frozen
      PROVE  \/ channel[c].type = "dormant"
             \/ channel[c].outbuffer # <<>> /\ channel[c].remwindow = 0
             \/ throttled_all
  <2>1. /\ channel[c].type \in {"none", "dormant", "sockdata"}
        /\ Plugged(channel[c], throttled_all)
    BY <1>1, Here DEF Good, Channels
  <2>2. CASE channel[c].type = "sockdata"
    <3>1. Steady(channel[c]) /\ (channel[c].throttle_override => throttled_all)
      BY <1>1, <2>1, <2>2 DEF Plugged
    <3> QED
      BY <1>1, <3>1 DEF Steady, Sound
  <2>3. channel[c].type # "none"
    BY <1>1, <2>1 DEF Plugged
  <2> QED
    BY <2>1, <2>2, <2>3
<1>2. IInv => FrozenForAReason
  BY <1>1 DEF FrozenForAReason
<1> QED
  BY <1>2, Inductive, PTL

(* After CLOSE nothing more is sent on a channel, and CLOSE is sent once.   *)
THEOREM LastCorrect == Spec => []CloseIsLast
<1>1. ASSUME IInv, NEW c \in Chan
      PROVE  /\ \A i \in 1 .. Len(toServer[c]) - 1 : toServer[c][i].t # "close"
             /\ srv[c].gotClose => toServer[c] = <<>>
  <2> DEFINE r == channel[c]
             q == toServer[c]
             p == toClient[c]
             v == srv[c]
  <2>1. Phase(r, q, p, v) /\ Fresh(v) /\ q \in Seq(Messages)
    BY <1>1, Here DEF Good
  <2> HIDE DEF r, q, p, v
  <2>2. ASSUME q = <<>> PROVE \A i \in 1 .. Len(q) - 1 : q[i].t # "close"
    <3>1. Len(q) = 0
      BY <2>1, <2>2, EmptySeq
    <3> QED
      BY <3>1
  <2>3. ASSUME Asked(r, q, p, v) PROVE \A i \in 1 .. Len(q) - 1 : q[i].t # "close"
    BY <2>3 DEF Asked
  <2>4. ASSUME Joined(r, q, p, v) \/ Deleted(r, q, p, v)
        PROVE  \A i \in 1 .. Len(q) - 1 : q[i].t # "close"
    BY <2>4 DEF Joined, Deleted, Up
  <2>5. \A i \in 1 .. Len(q) - 1 : q[i].t # "close"
    <3>1. \/ q = <<>> \/ Asked(r, q, p, v) \/ Joined(r, q, p, v) \/ Deleted(r, q, p, v)
      BY <2>1 DEF Phase, Idle, Declined, Accepted, HalfClosed, Forgotten
    <3> QED
      BY <2>2, <2>3, <2>4, <3>1
  <2>6. v.gotClose => q = <<>>
    BY <2>1 DEF Phase, Fresh, Idle, Asked, Declined, Accepted, Joined, HalfClosed,
                Forgotten, Deleted
  <2> QED
    BY <2>5, <2>6 DEF q, v
<1>2. IInv => CloseIsLast
  BY <1>1 DEF CloseIsLast
<1> QED
  BY <1>2, Inductive, PTL

(* A deleted channel's id is free: nothing more comes from the server on    *)
(* it, and a server that keeps to the protocol is never taken to be at      *)
(* fault, so that the connection is not given up.                           *)
THEOREM IdCorrect == Spec => []IdIsFree
<1>1. ASSUME IInv, NEW c \in Chan, channel[c].type = "none" PROVE toClient[c] = <<>>
  <2>1. Phase(channel[c], toServer[c], toClient[c], srv[c])
    BY <1>1, Here DEF Good
  <2> QED
    BY <1>1, <2>1 DEF Phase, Idle, Asked, Declined, Accepted, Joined, HalfClosed,
                      Forgotten, Deleted
<1>2. IInv => IdIsFree
  BY <1>1 DEF IdIsFree, IInv
<1> QED
  BY <1>2, Inductive, PTL

(* Both ends agree about both windows, and the server is never given room   *)
(* for more than OUR_V2_WINSIZE bytes - as long as no SOCKS reply is queued *)
(* when a channel is opened, which the program does not count against the   *)
(* window it has presented.                                                 *)
THEOREM WindowsCorrect ==
    ASSUME Replies \subseteq {0}
    PROVE  Spec => []WindowsAgree
<1>1. ASSUME IInv, NEW c \in Chan, InUse(c), Replies \subseteq {0}
      PROVE  /\ channel[c].locwindow = srv[c].outwin + Granted(c) + Coming(c)
             /\ srv[c].inwin = channel[c].remwindow + Presented(c) + Len(Sent(c))
             /\ channel[c].locwindow + channel[c].out <= OUR_V2_WINSIZE
  <2>1. /\ channel[c].s /\ ~Declined(channel[c], toServer[c], toClient[c], srv[c])
        /\ Room(channel[c], toServer[c], toClient[c], srv[c])
        /\ Fits(channel[c], toServer[c], toClient[c], srv[c])
    BY <1>1, UsedFacts, Here DEF Good
  <2> QED
    BY <1>1, <2>1 DEF Room, Fits, Granted, Coming, Presented, Sent, Grants, Takes
<1>2. Replies \subseteq {0} /\ IInv => WindowsAgree
  BY <1>1 DEF WindowsAgree
<1>3. Replies \subseteq {0} => [](Replies \subseteq {0})
  OBVIOUS
<1> QED
  BY <1>2, <1>3, Inductive, PTL

(* What an application has written is with the server, on its way, in the   *)
(* outbuffer or kept by the frozen socket, in the order it was written - as *)
(* long as no data follows a SOCKS request at once, which a byte that comes *)
(* later may overtake.                                                      *)
THEOREM StreamCorrect ==
    ASSUME Leftovers \subseteq {0}
    PROVE  Spec => []StreamIntact
<1>1. ASSUME IInv, NEW c \in Chan, InUse(c), Leftovers \subseteq {0}
      PROVE  srv[c].got \o Sent(c) \o channel[c].outbuffer \o channel[c].buffer
                \o channel[c].missed = Run(0, app[c])
  <2> DEFINE g == srv[c].got
             x == Contents(toServer[c])
             o == channel[c].outbuffer
             b == channel[c].buffer
             m == channel[c].missed
             w == Run(0, app[c])
  <2>1. /\ channel[c].s /\ ~Declined(channel[c], toServer[c], toClient[c], srv[c])
        /\ Whole(channel[c], toServer[c], toClient[c], srv[c], app[c])
    BY <1>1, UsedFacts, Here DEF Good
  <2>2. b = <<>> /\ Cat(g, Cat(Cat(x, o), m)) = w
    BY <1>1, <2>1 DEF Whole
  <2>3. /\ g \in Seq(Nat) /\ x \in Seq(Nat) /\ o \in Seq(Nat) /\ m \in Seq(Nat)
    BY <1>1, Here, ContentsType DEF Channels, Servers
  <2>4. Sent(c) = x
    BY DEF Sent
  <2> HIDE DEF g, x, o, b, m, w
  <2>5. /\ Cat(g, x) \in Seq(Nat) /\ Cat(x, o) \in Seq(Nat)
        /\ Cat(Cat(g, x), o) \in Seq(Nat)
    BY <2>3, CatProperties
  <2>6. Cat(g, Cat(Cat(x, o), m)) = Cat(Cat(g, Cat(x, o)), m)
    BY <2>3, <2>5, CatProperties
  <2>7. Cat(g, Cat(x, o)) = Cat(Cat(g, x), o)
    BY <2>3, CatProperties
  <2>8. Cat(Cat(Cat(g, x), o), b) = Cat(Cat(g, x), o)
    BY <2>2, <2>5, CatProperties
  <2>9. Cat(Cat(Cat(Cat(g, x), o), b), m) = w
    BY <2>2, <2>6, <2>7, <2>8
  <2>10. g \o x \o o \o b \o m = w
    BY <2>9, Zenon DEF Cat
  <2>11. srv[c].got \o x \o channel[c].outbuffer \o channel[c].buffer
            \o channel[c].missed = Run(0, app[c])
    BY <2>10, Zenon DEF g, o, b, m, w
  <2> QED
    BY <2>4, <2>11, Zenon
<1>2. Leftovers \subseteq {0} /\ IInv => StreamIntact
  BY <1>1, Zenon DEF StreamIntact
<1>3. Leftovers \subseteq {0} => [](Leftovers \subseteq {0})
  OBVIOUS
<1> QED
  BY <1>2, <1>3, Inductive, PTL

===============================================================================
