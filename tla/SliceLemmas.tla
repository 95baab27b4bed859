---------------------------- MODULE SliceLemmas ----------------------------
(***************************************************************************)
(* Facts the proofs share: induction over the natural numbers, stated for  *)
(* a set; what is left of a sequence when some of its elements are taken   *)
(* out; and queues, in which an element may be there once or often.        *)
(***************************************************************************)
EXTENDS Integers, Sequences, WellFoundedInduction, TLAPS

(* Every non-empty set of natural numbers has a least element.             *)
LEMMA LeastNatural ==
    ASSUME NEW T \in SUBSET Nat, T # {}
    PROVE  \E x \in T : \A y \in T : x <= y
<1> DEFINE LessThan == OpToRel(<, Nat)
<1>1. \A x, y \in Nat : y < x => <<y, x>> \in LessThan
  BY DEF OpToRel
<1>2. IsWellFoundedOn(LessThan, Nat)
  BY NatLessThanWellFounded, Zenon
<1> HIDE DEF LessThan
<1>3. PICK x \in T : \A y \in T : ~(<<y, x>> \in LessThan)
  BY <1>2, WFMin
<1>4. \A y \in T : ~(y < x)
  BY <1>1, <1>3
<1> QED
  BY <1>4

(* Induction: a set that holds 0 and with each number the next one.        *)
LEMMA NaturalsByInduction ==
    ASSUME NEW S, 0 \in S, \A n \in Nat : n \in S => n + 1 \in S
    PROVE  \A n \in Nat : n \in S
<1>1. SUFFICES ASSUME Nat \ S # {} PROVE FALSE
  OBVIOUS
<1>2. PICK x \in Nat \ S : \A y \in Nat \ S : x <= y
  BY <1>1, LeastNatural
<1> QED
  BY <1>2

-----------------------------------------------------------------------------

(* What is left of the first i elements of seq, for every i.               *)
IsFilter(f, seq, gone) ==
    f = [i \in 0..Len(seq) |->
            IF i = 0 THEN <<>>
            ELSE IF seq[i] \in gone THEN f[i - 1] ELSE Append(f[i - 1], seq[i])]

(* The recursion is well founded: there is such a function.                *)
LEMMA FilterExists ==
    ASSUME NEW S, NEW seq \in Seq(S), NEW gone
    PROVE  \E f : IsFilter(f, seq, gone)
<1> DEFINE Part(f, n) == f = [i \in 0..n |->
                IF i = 0 THEN <<>>
                ELSE IF seq[i] \in gone THEN f[i - 1] ELSE Append(f[i - 1], seq[i])]
           Good == {n \in Nat : \E f : Part(f, n)}
<1>1. 0 \in Good
  <2> DEFINE f == [i \in 0..0 |-> <<>>]
  <2>1. Part(f, 0)
    OBVIOUS
  <2> QED
    BY <2>1
<1>2. ASSUME NEW n \in Nat, n \in Good PROVE n + 1 \in Good
  <2>1. PICK f : Part(f, n)
    BY <1>2
  <2> DEFINE g == [i \in 0..(n + 1) |->
                     IF i <= n THEN f[i]
                     ELSE IF seq[i] \in gone THEN f[i - 1] ELSE Append(f[i - 1], seq[i])]
  <2>2. \A i \in 0..n : f[i] = IF i = 0 THEN <<>>
                ELSE IF seq[i] \in gone THEN f[i - 1] ELSE Append(f[i - 1], seq[i])
    BY <2>1
  <2>3. \A i \in 0..n : g[i] = f[i]
    OBVIOUS
  <2>4. \A i \in 0..(n + 1) : g[i] = IF i = 0 THEN <<>>
                ELSE IF seq[i] \in gone THEN g[i - 1] ELSE Append(g[i - 1], seq[i])
    BY <2>2, <2>3
  <2>5. Part(g, n + 1)
    BY <2>4
  <2> HIDE DEF g, Part
  <2>6. n + 1 \in Nat /\ \E h : Part(h, n + 1)
    BY <2>5
  <2> QED
    BY <2>6
<1> HIDE DEF Good
<1>3. Len(seq) \in Good
  BY <1>1, <1>2, NaturalsByInduction
<1> QED
  BY <1>3 DEF Good, IsFilter

(* What is left is a sequence over the same set, of exactly the elements   *)
(* that are not taken out, in the order they had.                          *)
Elements(seq) == {seq[i] : i \in DOMAIN seq}

InOrder(s, t) ==
    \A i, j \in DOMAIN s : i < j =>
        \E k, l \in DOMAIN t : k < l /\ s[i] = t[k] /\ s[j] = t[l]

(* What a filter leaves of a slice: the other elements, in their order.    *)
LEMMA FilterProperties ==
    ASSUME NEW S, NEW seq \in Seq(S), NEW gone, NEW f, IsFilter(f, seq, gone)
    PROVE  /\ f[Len(seq)] \in Seq(S)
           /\ Elements(f[Len(seq)]) = Elements(seq) \ gone
           /\ InOrder(f[Len(seq)], seq)
<1> DEFINE
      From(n) == \A i \in 1..Len(f[n]) : \E k \in 1..n : f[n][i] = seq[k] /\ seq[k] \notin gone
      To(n) == \A k \in 1..n : seq[k] \notin gone => \E i \in 1..Len(f[n]) : f[n][i] = seq[k]
      Sorted(n) == \A i, j \in 1..Len(f[n]) : i < j =>
                      \E k, l \in 1..n : k < l /\ f[n][i] = seq[k] /\ f[n][j] = seq[l]
      Holds(n) == f[n] \in Seq(S) /\ From(n) /\ To(n) /\ Sorted(n)
      Good == {n \in Nat : n <= Len(seq) => Holds(n)}
<1> HIDE DEF From, To, Sorted, Holds
<1>1. \A i \in 0..Len(seq) : f[i] = IF i = 0 THEN <<>>
                ELSE IF seq[i] \in gone THEN f[i - 1] ELSE Append(f[i - 1], seq[i])
  BY DEF IsFilter
<1>2. 0 \in Good
  <2>1. f[0] = <<>>
    BY <1>1
  <2>2. f[0] \in Seq(S) /\ Len(f[0]) = 0
    BY <2>1
  <2>3. From(0) /\ To(0) /\ Sorted(0)
    BY <2>2 DEF From, To, Sorted
  <2> QED
    BY <2>2, <2>3 DEF Holds
<1>3. ASSUME NEW n \in Nat, n \in Good PROVE n + 1 \in Good
  <2> SUFFICES ASSUME n + 1 <= Len(seq) PROVE Holds(n + 1)
    OBVIOUS
  <2>1. Holds(n) /\ seq[n + 1] \in S
    BY <1>3
  <2>2. f[n + 1] = IF seq[n + 1] \in gone THEN f[n] ELSE Append(f[n], seq[n + 1])
    BY <1>1
  <2>3. CASE seq[n + 1] \in gone
    <3>1. f[n + 1] = f[n]
      BY <2>2, <2>3
    <3>2. From(n + 1) /\ To(n + 1) /\ Sorted(n + 1)
      BY <2>1, <2>3, <3>1 DEF Holds, From, To, Sorted
    <3> QED
      BY <2>1, <3>1, <3>2 DEF Holds
  <2>4. CASE seq[n + 1] \notin gone
    <3>1. f[n + 1] = Append(f[n], seq[n + 1])
      BY <2>2, <2>4
    <3>2. /\ f[n + 1] \in Seq(S) /\ Len(f[n + 1]) = Len(f[n]) + 1 /\ Len(f[n]) \in Nat
          /\ \A i \in 1..Len(f[n]) : f[n + 1][i] = f[n][i]
          /\ f[n + 1][Len(f[n]) + 1] = seq[n + 1]
      BY <2>1, <3>1 DEF Holds
    <3>3. From(n + 1)
      <4> SUFFICES ASSUME NEW i \in 1..Len(f[n + 1])
                   PROVE  \E k \in 1..(n + 1) : f[n + 1][i] = seq[k] /\ seq[k] \notin gone
        BY DEF From
      <4>1. CASE i \in 1..Len(f[n])
        BY <2>1, <3>2, <4>1 DEF Holds, From
      <4>2. CASE i = Len(f[n]) + 1
        BY <2>4, <3>2, <4>2
      <4> QED
        BY <3>2, <4>1, <4>2
    <3>4. To(n + 1)
      BY <2>1, <3>2 DEF Holds, To
    <3>5. Sorted(n + 1)
      <4> SUFFICES ASSUME NEW i \in 1..Len(f[n + 1]), NEW j \in 1..Len(f[n + 1]), i < j
                   PROVE  \E k, l \in 1..(n + 1) :
                             k < l /\ f[n + 1][i] = seq[k] /\ f[n + 1][j] = seq[l]
        BY DEF Sorted
      <4>1. i \in 1..Len(f[n])
        BY <3>2
      <4>2. CASE j \in 1..Len(f[n])
        BY <2>1, <3>2, <4>1, <4>2 DEF Holds, Sorted
      <4>3. CASE j = Len(f[n]) + 1
        <5>1. PICK k \in 1..n : f[n][i] = seq[k]
          BY <2>1, <4>1 DEF Holds, From
        <5>2. k < n + 1 /\ f[n + 1][i] = seq[k] /\ f[n + 1][j] = seq[n + 1]
          BY <3>2, <4>1, <4>3, <5>1
        <5> QED
          BY <5>2
      <4> QED
        BY <3>2, <4>2, <4>3
    <3> QED
      BY <3>2, <3>3, <3>4, <3>5 DEF Holds
  <2> QED
    BY <2>3, <2>4
<1>4. Len(seq) \in Good
  <2> HIDE DEF Good
  <2> QED
    BY <1>2, <1>3, NaturalsByInduction
<1>5. Holds(Len(seq))
  BY <1>4
<1> DEFINE left == f[Len(seq)]
<1>6. /\ left \in Seq(S)
      /\ DOMAIN left = 1..Len(left) /\ DOMAIN seq = 1..Len(seq)
  BY <1>5 DEF Holds
<1>7. Elements(left) = Elements(seq) \ gone
  <2>1. \A x : x \in Elements(left) <=> \E i \in 1..Len(left) : left[i] = x
    BY <1>6 DEF Elements
  <2>2. \A x : x \in Elements(seq) <=> \E k \in 1..Len(seq) : seq[k] = x
    BY <1>6 DEF Elements
  <2>3. /\ \A i \in 1..Len(left) : \E k \in 1..Len(seq) : left[i] = seq[k] /\ seq[k] \notin gone
        /\ \A k \in 1..Len(seq) : seq[k] \notin gone => \E i \in 1..Len(left) : left[i] = seq[k]
    BY <1>5 DEF Holds, From, To
  <2> HIDE DEF left
  <2>4. ASSUME NEW x \in Elements(left) PROVE x \in Elements(seq) /\ x \notin gone
    <3>1. PICK i \in 1..Len(left) : left[i] = x
      BY <2>1
    <3> QED
      BY <3>1, <2>2, <2>3
  <2>5. ASSUME NEW x \in Elements(seq), x \notin gone PROVE x \in Elements(left)
    <3>1. PICK k \in 1..Len(seq) : seq[k] = x
      BY <2>2
    <3> QED
      BY <3>1, <2>1, <2>3, <2>5
  <2> QED
    BY <2>4, <2>5
<1>8. InOrder(left, seq)
  <2>1. \A i, j \in 1..Len(left) : i < j =>
            \E k, l \in 1..Len(seq) : k < l /\ left[i] = seq[k] /\ left[j] = seq[l]
    BY <1>5 DEF Holds, Sorted
  <2> HIDE DEF left
  <2> SUFFICES ASSUME NEW i \in DOMAIN left, NEW j \in DOMAIN left, i < j
               PROVE  \E k, l \in DOMAIN seq : k < l /\ left[i] = seq[k] /\ left[j] = seq[l]
    BY DEF InOrder
  <2>2. PICK k, l \in 1..Len(seq) : k < l /\ left[i] = seq[k] /\ left[j] = seq[l]
    BY <2>1, <1>6
  <2> QED
    BY <2>2, <1>6
<1> QED
  BY <1>6, <1>7, <1>8

-----------------------------------------------------------------------------
(* Queues without repetitions.                                             *)

Distinct(s) == \A i, j \in DOMAIN s : s[i] = s[j] => i = j

(* Something new goes to the end of a queue.                               *)
LEMMA QueueAppend ==
    ASSUME NEW S, NEW s \in Seq(S), NEW x \in S
    PROVE  /\ Append(s, x) \in Seq(S)
           /\ Elements(Append(s, x)) = Elements(s) \cup {x}
           /\ Distinct(s) /\ x \notin Elements(s) => Distinct(Append(s, x))
<1>1. /\ Append(s, x) \in Seq(S) /\ Len(s) \in Nat /\ DOMAIN s = 1..Len(s)
      /\ DOMAIN Append(s, x) = 1..Len(s) + 1
      /\ \A i \in 1..Len(s) : Append(s, x)[i] = s[i]
      /\ Append(s, x)[Len(s) + 1] = x
  OBVIOUS
<1>2. \A i \in 1..Len(s) + 1 : i \in 1..Len(s) \/ i = Len(s) + 1
  BY <1>1
<1>3. 1..Len(s) \subseteq 1..Len(s) + 1 /\ Len(s) + 1 \in 1..Len(s) + 1
  BY <1>1
<1>4. Elements(Append(s, x)) = Elements(s) \cup {x}
  BY <1>1, <1>2, <1>3 DEF Elements
<1>5. Distinct(s) /\ x \notin Elements(s) => Distinct(Append(s, x))
  <2> SUFFICES ASSUME Distinct(s), x \notin Elements(s),
                      NEW i \in 1..Len(s) + 1, NEW j \in 1..Len(s) + 1,
                      Append(s, x)[i] = Append(s, x)[j]
               PROVE  i = j
    BY <1>1 DEF Distinct
  <2> QED
    BY <1>1, <1>2 DEF Distinct, Elements
<1> QED
  BY <1>1, <1>4, <1>5

(* One entry of a list is replaced.                                        *)
LEMMA SeqExcept ==
    ASSUME NEW S, NEW s \in Seq(S), NEW i \in DOMAIN s, NEW x \in S
    PROVE  LET n == [s EXCEPT ![i] = x]
           IN  /\ n \in Seq(S) /\ DOMAIN n = DOMAIN s
               /\ n[i] = x /\ \A j \in DOMAIN s \ {i} : n[j] = s[j]
  OBVIOUS

(* The first in a queue leaves it.                                         *)
LEMMA QueueTail ==
    ASSUME NEW S, NEW s \in Seq(S), s # <<>>
    PROVE  /\ Tail(s) \in Seq(S) /\ Head(s) \in Elements(s) /\ Elements(s) \subseteq S
           /\ Elements(s) = Elements(Tail(s)) \cup {Head(s)}
           /\ Distinct(s) => Distinct(Tail(s)) /\ Head(s) \notin Elements(Tail(s))
<1>1. /\ Tail(s) \in Seq(S) /\ Len(s) \in Nat /\ Len(s) >= 1 /\ Len(Tail(s)) = Len(s) - 1
      /\ \A i \in 1..Len(Tail(s)) : i + 1 \in 1..Len(s) /\ Tail(s)[i] = s[i + 1]
      /\ Head(s) = s[1] /\ DOMAIN s = 1..Len(s) /\ DOMAIN Tail(s) = 1..Len(Tail(s))
  OBVIOUS
<1>2. Head(s) \in Elements(s) /\ Elements(s) \subseteq S
  BY <1>1 DEF Elements
<1>3. Elements(s) \subseteq Elements(Tail(s)) \cup {Head(s)}
  <2> SUFFICES ASSUME NEW i \in 1..Len(s), i # 1 PROVE s[i] \in Elements(Tail(s))
    BY <1>1 DEF Elements
  <2>1. i - 1 \in 1..Len(Tail(s)) /\ (i - 1) + 1 = i
    BY <1>1
  <2> QED
    BY <1>1, <2>1 DEF Elements
<1>4. Elements(Tail(s)) \subseteq Elements(s)
  BY <1>1 DEF Elements
<1>5. Distinct(s) => Distinct(Tail(s)) /\ Head(s) \notin Elements(Tail(s))
  <2> SUFFICES ASSUME Distinct(s) PROVE Distinct(Tail(s)) /\ Head(s) \notin Elements(Tail(s))
    OBVIOUS
  <2>1. ASSUME NEW i \in 1..Len(Tail(s)), NEW j \in 1..Len(Tail(s)), Tail(s)[i] = Tail(s)[j]
        PROVE  i = j
    <3>1. i + 1 = j + 1
      BY <1>1, <2>1 DEF Distinct
    <3> QED
      BY <3>1
  <2>2. ASSUME NEW i \in 1..Len(Tail(s)), Tail(s)[i] = Head(s) PROVE FALSE
    <3>1. i + 1 = 1
      BY <1>1, <2>2 DEF Distinct
    <3> QED
      BY <3>1
  <2> QED
    BY <1>1, <2>1, <2>2 DEF Distinct, Elements
<1> QED
  BY <1>1, <1>2, <1>3, <1>4, <1>5

=============================================================================
