-------------------------- MODULE BatchQueueProofs --------------------------
(***************************************************************************)
(* Proofs about the batch queue, for any set of transactions, key space,   *)
(* size limits and legacy entries.                                         *)
(***************************************************************************)
EXTENDS BatchQueue, SequenceTheorems, TLAPS

-----------------------------------------------------------------------------
(* Sequences of entries.                                                   *)
InKeyOrder(s) == \A i, j \in 1..Len(s) : i < j => s[i].key < s[j].key
Apart(s) == \A i, j \in 1..Len(s) : i # j => s[i].txs \cap s[j].txs = {}

(* The entries of a concatenation.                                         *)
LEMMA ElemsConcat ==
    ASSUME NEW S, NEW s \in Seq(S), NEW t \in Seq(S)
    PROVE  Elems(s \o t) = Elems(s) \cup Elems(t)
<1>1. /\ s \o t \in Seq(S)
      /\ Len(s \o t) = Len(s) + Len(t)
      /\ \A i \in 1..Len(s) + Len(t) :
            (s \o t)[i] = IF i <= Len(s) THEN s[i] ELSE t[i - Len(s)]
  BY ConcatProperties, Zenon
<1>2. Len(s) \in Nat /\ Len(t) \in Nat
  BY LenProperties, Zenon
<1>3. ASSUME NEW x \in Elems(s \o t) PROVE x \in Elems(s) \cup Elems(t)
  <2>1. PICK i \in 1..Len(s \o t) : x = (s \o t)[i]
    BY Zenon DEF Elems
  <2>2. CASE i <= Len(s)
    BY <1>1, <1>2, <2>1, <2>2 DEF Elems
  <2>3. CASE i > Len(s)
    <3>1. i - Len(s) \in 1..Len(t) /\ x = t[i - Len(s)]
      BY <1>1, <1>2, <2>1, <2>3
    <3> QED BY <3>1, Zenon DEF Elems
  <2> QED BY <1>2, <2>1, <2>2, <2>3
<1>4. ASSUME NEW x \in Elems(s) PROVE x \in Elems(s \o t)
  <2>1. PICK i \in 1..Len(s) : x = s[i]
    BY Zenon DEF Elems
  <2>2. i \in 1..Len(s \o t) /\ x = (s \o t)[i]
    BY <1>1, <1>2, <2>1
  <2> QED BY <2>2, Zenon DEF Elems
<1>5. ASSUME NEW x \in Elems(t) PROVE x \in Elems(s \o t)
  <2>1. PICK i \in 1..Len(t) : x = t[i]
    BY Zenon DEF Elems
  <2>2. /\ i + Len(s) \in 1..Len(s \o t)
        /\ ~(i + Len(s) <= Len(s))
        /\ (i + Len(s)) - Len(s) = i
    BY <1>1, <1>2
  <2>3. x = (s \o t)[i + Len(s)]
    BY <1>1, <2>1, <2>2, Zenon
  <2> QED BY <2>2, <2>3, Zenon DEF Elems
<1> QED BY <1>3, <1>4, <1>5, Zenon

(* Ordered and disjoint concatenations, in terms of the parts.             *)
LEMMA ConcatOrdered ==
    ASSUME NEW s \in Seq(Item), NEW t \in Seq(Item)
    PROVE  InKeyOrder(s \o t) <=>
             /\ InKeyOrder(s)
             /\ InKeyOrder(t)
             /\ \A a \in Elems(s), b \in Elems(t) : a.key < b.key
<1> DEFINE u == s \o t
           m == Len(s)
           n == Len(t)
<1>1. /\ Len(u) = m + n
      /\ \A i \in 1..(m + n) : u[i] = IF i <= m THEN s[i] ELSE t[i - m]
  BY ConcatProperties, Zenon
<1>2. m \in Nat /\ n \in Nat
  BY LenProperties, Zenon
<1>3. /\ \A i \in 1..m : i \in 1..Len(u) /\ u[i] = s[i]
      /\ \A i \in 1..n : i + m \in 1..Len(u) /\ u[i + m] = t[i]
  <2>1. \A i \in 1..m : i \in 1..Len(u) /\ u[i] = s[i]
    BY <1>1, <1>2
  <2>2. ASSUME NEW i \in 1..n
        PROVE  i + m \in 1..(m + n) /\ ~(i + m <= m) /\ (i + m) - m = i
    BY <1>2
  <2> HIDE DEF u, m, n
  <2> QED BY <1>1, <2>1, <2>2, Zenon
<1> HIDE DEF u, m, n
<1>4. ASSUME InKeyOrder(u)
      PROVE  /\ InKeyOrder(s)
             /\ InKeyOrder(t)
             /\ \A a \in Elems(s), b \in Elems(t) : a.key < b.key
  <2>1. InKeyOrder(s)
    BY <1>2, <1>3, <1>4, Zenon DEF InKeyOrder, m
  <2>2. ASSUME NEW i \in 1..n, NEW j \in 1..n, i < j
        PROVE  t[i].key < t[j].key
    <3>1. i + m < j + m /\ i + m \in 1..Len(u) /\ j + m \in 1..Len(u)
      BY <1>2, <1>3, <2>2
    <3> QED BY <3>1, <1>3, <1>4, Zenon DEF InKeyOrder
  <2>3. ASSUME NEW i \in 1..m, NEW j \in 1..n
        PROVE  s[i].key < t[j].key
    <3>1. i < j + m /\ i \in 1..Len(u) /\ j + m \in 1..Len(u)
      BY <1>2, <1>3
    <3> QED BY <3>1, <1>3, <1>4, Zenon DEF InKeyOrder
  <2> QED BY <2>1, <2>2, <2>3, Zenon DEF InKeyOrder, Elems, m, n
<1>5. ASSUME InKeyOrder(s), InKeyOrder(t),
             \A a \in Elems(s), b \in Elems(t) : a.key < b.key
      PROVE  InKeyOrder(u)
  <2> SUFFICES ASSUME NEW i \in 1..(m + n), NEW j \in 1..(m + n), i < j
               PROVE  u[i].key < u[j].key
    BY <1>1, Zenon DEF InKeyOrder, u, m, n
  <2>1. CASE j <= m
    BY <1>1, <1>2, <1>5, <2>1 DEF InKeyOrder, m, n, u
  <2>2. CASE i <= m /\ j > m
    <3>1. i \in 1..m /\ j - m \in 1..n /\ u[i] = s[i] /\ u[j] = t[j - m]
      BY <1>1, <1>2, <2>2 DEF u, m, n
    <3>2. s[i] \in Elems(s) /\ t[j - m] \in Elems(t)
      BY <3>1, Zenon DEF Elems, m, n
    <3> QED BY <3>1, <3>2, <1>5, Zenon
  <2>3. CASE i > m
    <3>1. /\ i - m \in 1..n /\ j - m \in 1..n /\ i - m < j - m
          /\ u[i] = t[i - m] /\ u[j] = t[j - m]
      BY <1>1, <1>2, <2>3 DEF u, m, n
    <3> QED BY <3>1, <1>5, Zenon DEF InKeyOrder, n
  <2> QED BY <1>2, <2>1, <2>2, <2>3
<1> QED BY <1>4, <1>5, Zenon DEF u

(* The batches of s \o t are disjoint if those of s and of t are, and no   *)
(* batch of s meets one of t.                                              *)
LEMMA ConcatApart ==
    ASSUME NEW s \in Seq(Item), NEW t \in Seq(Item)
    PROVE  Apart(s \o t) <=>
             /\ Apart(s)
             /\ Apart(t)
             /\ \A a \in Elems(s), b \in Elems(t) : a.txs \cap b.txs = {}
<1> DEFINE u == s \o t
           m == Len(s)
           n == Len(t)
<1>1. /\ Len(u) = m + n
      /\ \A i \in 1..(m + n) : u[i] = IF i <= m THEN s[i] ELSE t[i - m]
  BY ConcatProperties, Zenon
<1>2. m \in Nat /\ n \in Nat
  BY LenProperties, Zenon
<1>3. /\ \A i \in 1..m : i \in 1..Len(u) /\ u[i] = s[i]
      /\ \A i \in 1..n : i + m \in 1..Len(u) /\ u[i + m] = t[i]
  <2>1. \A i \in 1..m : i \in 1..Len(u) /\ u[i] = s[i]
    BY <1>1, <1>2
  <2>2. ASSUME NEW i \in 1..n
        PROVE  i + m \in 1..(m + n) /\ ~(i + m <= m) /\ (i + m) - m = i
    BY <1>2
  <2> HIDE DEF u, m, n
  <2> QED BY <1>1, <2>1, <2>2, Zenon
<1> HIDE DEF u, m, n
<1>4. ASSUME Apart(u)
      PROVE  /\ Apart(s)
             /\ Apart(t)
             /\ \A a \in Elems(s), b \in Elems(t) : a.txs \cap b.txs = {}
  <2>1. Apart(s)
    BY <1>2, <1>3, <1>4, Zenon DEF Apart, m
  <2>2. ASSUME NEW i \in 1..n, NEW j \in 1..n, i # j
        PROVE  t[i].txs \cap t[j].txs = {}
    <3>1. i + m # j + m /\ i + m \in 1..Len(u) /\ j + m \in 1..Len(u)
      BY <1>2, <1>3, <2>2
    <3> QED BY <3>1, <1>3, <1>4, Zenon DEF Apart
  <2>3. ASSUME NEW i \in 1..m, NEW j \in 1..n
        PROVE  s[i].txs \cap t[j].txs = {}
    <3>1. i < j + m
      BY <1>2
    <3>2. i # j + m
      BY <1>2, <3>1
    <3>3. i \in 1..Len(u) /\ j + m \in 1..Len(u)
      BY <1>3, Zenon
    <3> QED BY <3>2, <3>3, <1>3, <1>4, Zenon DEF Apart
  <2> QED BY <2>1, <2>2, <2>3, Zenon DEF Apart, Elems, m, n
<1>5. ASSUME Apart(s), Apart(t),
             \A a \in Elems(s), b \in Elems(t) : a.txs \cap b.txs = {}
      PROVE  Apart(u)
  <2>1. ASSUME NEW i \in 1..(m + n), NEW j \in 1..(m + n), i < j
        PROVE  u[i].txs \cap u[j].txs = {}
    <3>1. CASE j <= m
      BY <1>1, <1>2, <1>5, <2>1, <3>1 DEF Apart, m, n, u
    <3>2. CASE i <= m /\ j > m
      <4>1. i \in 1..m /\ j - m \in 1..n /\ u[i] = s[i] /\ u[j] = t[j - m]
        BY <1>1, <1>2, <3>2 DEF u, m, n
      <4>2. s[i] \in Elems(s) /\ t[j - m] \in Elems(t)
        BY <4>1, Zenon DEF Elems, m, n
      <4> QED BY <4>1, <4>2, <1>5, Zenon
    <3>3. CASE i > m
      <4>1. /\ i - m \in 1..n /\ j - m \in 1..n /\ i - m # j - m
            /\ u[i] = t[i - m] /\ u[j] = t[j - m]
        BY <1>1, <1>2, <2>1, <3>3 DEF u, m, n
      <4> QED BY <4>1, <1>5, Zenon DEF Apart, n
    <3> QED BY <1>2, <3>1, <3>2, <3>3
  <2>2. ASSUME NEW i \in 1..(m + n), NEW j \in 1..(m + n), i # j
        PROVE  u[i].txs \cap u[j].txs = {}
    <3>1. i < j \/ j < i
      BY <1>2, <2>2
    <3>2. u[j].txs \cap u[i].txs = u[i].txs \cap u[j].txs
      BY Zenon
    <3> QED BY <2>1, <3>1, <3>2, Zenon
  <2> QED BY <1>1, <2>2, Zenon DEF Apart
<1> QED BY <1>4, <1>5, Zenon DEF u

(* A sequence of one entry.                                                *)
LEMMA Single ==
    ASSUME NEW e \in Item
    PROVE  /\ <<e>> \in Seq(Item)
           /\ Elems(<<e>>) = {e}
           /\ InKeyOrder(<<e>>)
           /\ Apart(<<e>>)
<1>1. <<e>> \in Seq(Item) /\ Len(<<e>>) = 1 /\ <<e>>[1] = e
  OBVIOUS
<1> QED BY <1>1 DEF Elems, InKeyOrder, Apart

(* Adding an entry at the back, as AddBatch and Load do.                   *)
LEMMA Snoc ==
    ASSUME NEW s \in Seq(Item), NEW e \in Item
    PROVE  /\ Append(s, e) \in Seq(Item)
           /\ Append(s, e) = s \o <<e>>
           /\ Elems(Append(s, e)) = Elems(s) \cup {e}
           /\ InKeyOrder(s) /\ (\A it \in Elems(s) : it.key < e.key)
                => InKeyOrder(Append(s, e))
           /\ Apart(s) /\ (\A it \in Elems(s) : it.txs \cap e.txs = {})
                => Apart(Append(s, e))
<1>1. Append(s, e) = s \o <<e>> /\ Append(s, e) \in Seq(Item)
  BY AppendIsConcat, AppendProperties, Zenon
<1>2. /\ <<e>> \in Seq(Item) /\ Elems(<<e>>) = {e}
      /\ InKeyOrder(<<e>>) /\ Apart(<<e>>)
  BY Single, Zenon
<1>3. Elems(s \o <<e>>) = Elems(s) \cup {e}
  <2>1. Elems(s \o <<e>>) = Elems(s) \cup Elems(<<e>>)
    BY <1>2, ElemsConcat, ZenonT(40)
  <2> QED BY <1>2, <2>1, Zenon
<1>4. InKeyOrder(s) /\ (\A it \in Elems(s) : it.key < e.key)
        => InKeyOrder(s \o <<e>>)
  BY <1>2, ConcatOrdered, Zenon
<1>5. Apart(s) /\ (\A it \in Elems(s) : it.txs \cap e.txs = {})
        => Apart(s \o <<e>>)
  BY <1>2, ConcatApart, Zenon
<1> QED BY <1>1, <1>3, <1>4, <1>5, Zenon

(* Adding an entry at the front, as Ack does.                              *)
LEMMA Cons ==
    ASSUME NEW s \in Seq(Item), NEW e \in Item
    PROVE  /\ <<e>> \o s \in Seq(Item)
           /\ Elems(<<e>> \o s) = {e} \cup Elems(s)
           /\ InKeyOrder(s) /\ (\A it \in Elems(s) : e.key < it.key)
                => InKeyOrder(<<e>> \o s)
           /\ Apart(s) /\ (\A it \in Elems(s) : e.txs \cap it.txs = {})
                => Apart(<<e>> \o s)
<1>1. /\ <<e>> \in Seq(Item) /\ Elems(<<e>>) = {e}
      /\ InKeyOrder(<<e>>) /\ Apart(<<e>>)
  BY Single, Zenon
<1>2. <<e>> \o s \in Seq(Item)
  BY <1>1, ConcatProperties, Zenon
<1>3. Elems(<<e>> \o s) = {e} \cup Elems(s)
  <2>1. Elems(<<e>> \o s) = Elems(<<e>>) \cup Elems(s)
    <3> DEFINE o == <<e>>
    <3>1. o \in Seq(Item)
      BY <1>1, Zenon
    <3> HIDE DEF o
    <3>2. Elems(o \o s) = Elems(o) \cup Elems(s)
      BY <3>1, ElemsConcat
    <3> QED BY <3>2, Zenon DEF o
  <2> QED BY <1>1, <2>1, Zenon
<1>4. InKeyOrder(s) /\ (\A it \in Elems(s) : e.key < it.key)
        => InKeyOrder(<<e>> \o s)
  BY <1>1, ConcatOrdered, Zenon
<1>5. Apart(s) /\ (\A it \in Elems(s) : e.txs \cap it.txs = {})
        => Apart(<<e>> \o s)
  BY <1>1, ConcatApart, Zenon
<1> QED BY <1>2, <1>3, <1>4, <1>5, Zenon

(* Removing one entry, as DropIncluded does when all of it is included.    *)
LEMMA RemoveAt ==
    ASSUME NEW s \in Seq(Item), NEW i \in 1..Len(s), InKeyOrder(s), Apart(s)
    PROVE  LET r == SubSeq(s, 1, i - 1) \o SubSeq(s, i + 1, Len(s))
           IN  /\ r \in Seq(Item)
               /\ Elems(r) = Elems(s) \ {s[i]}
               /\ InKeyOrder(r)
               /\ Apart(r)
<1> DEFINE a == SubSeq(s, 1, i - 1)
           b == SubSeq(s, i + 1, Len(s))
           e == s[i]
<1>1. Len(s) \in Nat /\ \A j \in 1..Len(s) : s[j] \in Item
  BY LenProperties, ElementOfSeq, Zenon
<1>2. a \in Seq(Item) /\ b \in Seq(Item) /\ e \in Item
  <2>1. \A j \in 1..(i - 1) : s[j] \in Item
    BY <1>1
  <2>2. \A j \in (i + 1)..Len(s) : s[j] \in Item
    BY <1>1
  <2> QED BY <1>1, <2>1, <2>2, SubSeqProperties
<1>3. s = a \o (<<e>> \o b)
  <2>1. SubSeq(s, i, Len(s)) = <<e>> \o b
    BY <1>1, SubSeqRecursiveFirst
  <2>2. SubSeq(s, 1, i - 1) \o SubSeq(s, (i - 1) + 1, Len(s)) = SubSeq(s, 1, Len(s))
    <3>1. 1 \in 1..Len(s) + 1 /\ i - 1 \in 1 - 1..Len(s) /\ Len(s) \in i - 1..Len(s)
      BY <1>1
    <3> QED BY <3>1, ConcatAdjacentSubSeq, Zenon
  <2>3. (i - 1) + 1 = i
    OBVIOUS
  <2>4. SubSeq(s, 1, Len(s)) = s
    BY SubSeqFull, Zenon
  <2> QED BY <2>1, <2>2, <2>3, <2>4, Zenon
<1> HIDE DEF a, b, e
<1>4. <<e>> \o b \in Seq(Item) /\ Elems(<<e>> \o b) = {e} \cup Elems(b)
  BY <1>2, Cons, Zenon
<1>5. <<e>> \in Seq(Item) /\ Elems(<<e>>) = {e}
  BY <1>2, Single, Zenon
<1>6. /\ InKeyOrder(a) /\ InKeyOrder(b)
      /\ \A x \in Elems(a), y \in {e} \cup Elems(b) : x.key < y.key
      /\ \A y \in Elems(b) : e.key < y.key
  <2>1. InKeyOrder(a \o (<<e>> \o b))
    BY <1>3, Zenon
  <2>2. /\ InKeyOrder(a) /\ InKeyOrder(<<e>> \o b)
        /\ \A x \in Elems(a), y \in Elems(<<e>> \o b) : x.key < y.key
    BY <1>2, <1>4, <2>1, ConcatOrdered, Zenon
  <2>3. /\ InKeyOrder(b)
        /\ \A x \in Elems(<<e>>), y \in Elems(b) : x.key < y.key
    BY <1>2, <1>5, <2>2, ConcatOrdered, Zenon
  <2> QED BY <1>4, <1>5, <2>2, <2>3, Zenon
<1>7. /\ Apart(a) /\ Apart(b)
      /\ \A x \in Elems(a), y \in Elems(b) : x.txs \cap y.txs = {}
  <2>1. Apart(a \o (<<e>> \o b))
    BY <1>3, Zenon
  <2>2. /\ Apart(a) /\ Apart(<<e>> \o b)
        /\ \A x \in Elems(a), y \in Elems(<<e>> \o b) : x.txs \cap y.txs = {}
    BY <1>2, <1>4, <2>1, ConcatApart, Zenon
  <2>3. Apart(b)
    BY <1>2, <1>5, <2>2, ConcatApart, Zenon
  <2> QED BY <1>4, <2>2, <2>3, Zenon
<1>8. a \o b \in Seq(Item) /\ Elems(a \o b) = Elems(a) \cup Elems(b)
  BY <1>2, ElemsConcat, ConcatProperties
<1>9. InKeyOrder(a \o b) /\ Apart(a \o b)
  BY <1>2, <1>6, <1>7, ConcatOrdered, ConcatApart, Zenon
<1>10. Elems(s) = Elems(a) \cup ({e} \cup Elems(b))
  <2>1. Elems(a \o (<<e>> \o b)) = Elems(a) \cup Elems(<<e>> \o b)
    <3> DEFINE c == <<e>> \o b
    <3>1. c \in Seq(Item)
      BY <1>4, Zenon
    <3> HIDE DEF c
    <3>2. Elems(a \o c) = Elems(a) \cup Elems(c)
      BY <1>2, <3>1, ElemsConcat
    <3> QED BY <3>2, Zenon DEF c
  <2> QED BY <1>3, <1>4, <2>1, Zenon
<1>11. e \notin Elems(a) /\ e \notin Elems(b)
  <2>1. Elems(a) \subseteq Item /\ Elems(b) \subseteq Item
    BY <1>2, ElementOfSeq, Zenon DEF Elems
  <2>2. e.key \in Int
    BY <1>2, KeyAssumption DEF Item, Key
  <2>3. ~(e.key < e.key)
    BY <2>2
  <2> QED BY <1>6, <2>3, Zenon
<1>12. Elems(a \o b) = Elems(s) \ {e}
  BY <1>8, <1>10, <1>11, Zenon
<1> QED BY <1>8, <1>9, <1>12, Zenon DEF a, b, e

(* Shrinking one entry in place, as DropIncluded does otherwise.           *)
LEMMA ReplaceAt ==
    ASSUME NEW s \in Seq(Item), NEW i \in 1..Len(s), InKeyOrder(s), Apart(s),
           NEW e \in Item, e.key = s[i].key, e.txs \subseteq s[i].txs
    PROVE  LET r == [s EXCEPT ![i] = e]
           IN  /\ r \in Seq(Item)
               /\ Elems(r) = (Elems(s) \ {s[i]}) \cup {e}
               /\ InKeyOrder(r)
               /\ Apart(r)
<1> DEFINE r == [s EXCEPT ![i] = e]
<1>1. Len(s) \in Nat /\ \A j \in 1..Len(s) : s[j] \in Item
  BY LenProperties, ElementOfSeq, Zenon
<1>2. /\ r \in Seq(Item) /\ Len(r) = Len(s)
      /\ \A j \in 1..Len(s) : r[j] = IF j = i THEN e ELSE s[j]
  BY ExceptSeq
<1> HIDE DEF r
<1>3. \A j \in 1..Len(s) : r[j].key = s[j].key /\ r[j].txs \subseteq s[j].txs
  BY <1>2, Zenon
<1>4. InKeyOrder(r)
  BY <1>2, <1>3, Zenon DEF InKeyOrder
<1>5. Apart(r)
  BY <1>2, <1>3 DEF Apart
<1>6. \A j \in 1..Len(s) : j # i => s[j] # s[i]
  <2> SUFFICES ASSUME NEW j \in 1..Len(s), j # i PROVE s[j].key # s[i].key
    BY Zenon
  <2>1. j < i \/ i < j
    OBVIOUS
  <2>2. s[j].key \in Int /\ s[i].key \in Int
    BY <1>1, KeyAssumption DEF Item, Key
  <2>3. s[j].key < s[i].key \/ s[i].key < s[j].key
    BY <2>1, Zenon DEF InKeyOrder
  <2> QED BY <2>2, <2>3
<1>7. Elems(r) = (Elems(s) \ {s[i]}) \cup {e}
  BY <1>2, <1>6 DEF Elems
<1> QED BY <1>2, <1>4, <1>5, <1>7, Zenon DEF r

-----------------------------------------------------------------------------
(* The entries of a typed sequence are typed, their keys integers and      *)
(* their transactions a set.                                               *)
LEMMA ElemsTyped ==
    ASSUME NEW s \in Seq(Item)
    PROVE  /\ Elems(s) \subseteq Item
           /\ \A it \in Elems(s) : it.key \in Key /\ it.key \in Int /\ it.txs \in Batch
<1>1. Elems(s) \subseteq Item
  BY ElementOfSeq, Zenon DEF Elems
<1> QED BY <1>1, KeyAssumption DEF Item, Key

(* The empty queue has no entries.                                         *)
LEMMA ElemsEmpty == Elems(<<>>) = {}
BY DEF Elems

(* What the invariant says of the two parts of Held.                       *)
LEMMA HeldParts ==
    ASSUME IndInv
    PROVE  /\ Held \in Seq(Item)
           /\ Elems(Held) = Elems(inFlight) \cup Elems(queue)
           /\ Elems(Held) \subseteq Item
           /\ \A it \in Elems(Held) : it.key \in Int /\ it.txs \in Batch
           /\ InKeyOrder(Held) /\ InKeyOrder(inFlight) /\ InKeyOrder(queue)
           /\ Apart(Held) /\ Apart(inFlight) /\ Apart(queue)
           /\ \A a \in Elems(inFlight), b \in Elems(queue) :
                 a.key < b.key /\ a.txs \cap b.txs = {}
<1>1. inFlight \in Seq(Item) /\ queue \in Seq(Item)
  BY Zenon DEF IndInv, QueueTypeOK
<1>2. Held \in Seq(Item)
  BY <1>1, ConcatProperties, Zenon DEF Held
<1>3. Elems(Held) = Elems(inFlight) \cup Elems(queue)
  BY <1>1, ElemsConcat DEF Held
<1>4. InKeyOrder(Held) /\ Apart(Held)
  BY Zenon DEF IndInv, HeldInKeyOrder, HeldOnce, InKeyOrder, Apart
<1>5. /\ InKeyOrder(inFlight) /\ InKeyOrder(queue)
      /\ \A a \in Elems(inFlight), b \in Elems(queue) : a.key < b.key
  BY <1>1, <1>4, ConcatOrdered, Zenon DEF Held
<1>6. /\ Apart(inFlight) /\ Apart(queue)
      /\ \A a \in Elems(inFlight), b \in Elems(queue) : a.txs \cap b.txs = {}
  BY <1>1, <1>4, ConcatApart, Zenon DEF Held
<1> QED BY <1>2, <1>3, <1>4, <1>5, <1>6, ElemsTyped, Zenon

(* While nothing is in flight, Held is the queue.                          *)
LEMMA HeldIsQueue ==
    ASSUME NEW q \in Seq(Item)
    PROVE  <<>> \o q = q
BY ConcatEmptySeq, Zenon

(* The transactions of a union of entries.                                 *)
LEMMA TxsOfUnion ==
    ASSUME NEW A, NEW B
    PROVE  TxsOf(A \cup B) = TxsOf(A) \cup TxsOf(B)
BY Zenon DEF TxsOf

(* The transactions of a set of entries with one more.                     *)
LEMMA TxsOfAdd ==
    ASSUME NEW A, NEW e
    PROVE  TxsOf(A \cup {e}) = TxsOf(A) \cup e.txs
BY Zenon DEF TxsOf

-----------------------------------------------------------------------------
(* A new queue, with whatever legacy entries earlier releases left behind, *)
(* satisfies the invariant.                                                *)
THEOREM InitInv == QueueInit => IndInv
<1> SUFFICES ASSUME QueueInit PROVE IndInv
  BY Zenon
<1> USE DEF QueueInit, EmptyMemory
<1>1. DOMAIN wal = {} /\ wal \in [DOMAIN wal -> Batch]
  BY Zenon
<1>2. DOMAIN legacy \subseteq LegacyKey /\ legacy \in [DOMAIN legacy -> Batch]
  BY Zenon
<1>3. <<>> \in Seq(Item) /\ Elems(<<>>) = {} /\ <<>> \o <<>> = <<>>
  BY ElemsEmpty, EmptySeq, ConcatEmptySeq, Zenon
<1>4. Held = <<>> /\ Elems(Held) = {} /\ Len(Held) = 0
  BY <1>3, Zenon DEF Held
<1>5. QueueTypeOK
  BY <1>1, <1>2, <1>3, KeyAssumption DEF QueueTypeOK, Modes
<1>6. WriteAhead /\ SeenIsHeld /\ HeldOnce /\ HeldInKeyOrder /\ FreshKeys
  BY <1>4 DEF WriteAhead, SeenIsHeld, HeldOnce, HeldInKeyOrder, FreshKeys, TxsOf
<1>7. PostponedInFlight
  BY Zenon DEF PostponedInFlight
<1>8. RestartOK
  BY Zenon DEF RestartOK
<1> QED BY <1>5, <1>6, <1>7, <1>8, Zenon DEF IndInv

(* AddBatch preserves the invariant: what it appends is not held yet and   *)
(* goes under the largest number so far.                                   *)
LEMMA AddBatchInv ==
    ASSUME IndInv, NEW batch \in Batch, AddBatch(batch)
    PROVE  IndInv'
<1> DEFINE unique == batch \ txSeen
           e == [key |-> nextAddSeq, txs |-> unique]
<1>1. unique \in Batch /\ nextAddSeq \in 1..(MaxKey - 1) /\ mode = "up"
  BY KeyAssumption DEF AddBatch, IndInv, QueueTypeOK, Batch
<1>2. e \in Item /\ e.key = nextAddSeq /\ e.txs = unique
  BY <1>1, KeyAssumption DEF Item, Key
<1>3. /\ wal' = With(wal, nextAddSeq, unique)
      /\ queue' = Append(queue, e)
      /\ txSeen' = txSeen \cup unique
      /\ nextAddSeq' = nextAddSeq + 1
      /\ nextPrependSeq' = nextPrependSeq
      /\ legacy' = legacy /\ inFlight' = inFlight
      /\ inFlightPostponed' = inFlightPostponed /\ postponedItem' = postponedItem
      /\ mode' = mode /\ todo' = todo
  BY Zenon DEF AddBatch, postponeVars, restartVars
<1> HIDE DEF unique, e
<1>4. QueueTypeOK
  BY Zenon DEF IndInv
<1>5. /\ DOMAIN wal' = DOMAIN wal \cup {nextAddSeq}
      /\ wal' \in [DOMAIN wal' -> Batch]
      /\ wal'[nextAddSeq] = unique
      /\ \A j \in DOMAIN wal : j # nextAddSeq => wal'[j] = wal[j]
  <2>1. wal \in [DOMAIN wal -> Batch]
    BY <1>4, Zenon DEF QueueTypeOK
  <2> DEFINE w == With(wal, nextAddSeq, unique)
  <2>2. /\ DOMAIN w = DOMAIN wal \cup {nextAddSeq}
        /\ w \in [DOMAIN w -> Batch]
        /\ w[nextAddSeq] = unique
        /\ \A j \in DOMAIN wal : j # nextAddSeq => w[j] = wal[j]
    BY <1>1, <2>1, Zenon DEF With
  <2> HIDE DEF w
  <2>3. wal' = w
    BY <1>3, Zenon DEF w
  <2> QED BY <2>2, <2>3, Zenon
<1>6. \A k \in DOMAIN wal : nextPrependSeq < k /\ k < nextAddSeq
  BY <1>1, Zenon DEF IndInv, FreshKeys
<1>7. \A k \in DOMAIN wal : k # nextAddSeq /\ wal'[k] = wal[k]
  BY <1>4, <1>5, <1>6 DEF QueueTypeOK
<1>8. /\ Held' = Append(Held, e)
      /\ Held' \in Seq(Item)
      /\ Elems(Held') = Elems(Held) \cup {e}
  <2>1. Append(Held, e) = Held \o <<e>> /\ Append(queue, e) = queue \o <<e>>
    BY <1>2, <1>4, HeldParts, Snoc, Zenon DEF QueueTypeOK
  <2>2. (inFlight \o queue) \o <<e>> = inFlight \o (queue \o <<e>>)
    <3>1. <<e>> \in Seq(Item)
      BY <1>2, Single, Zenon
    <3> QED BY <3>1, <1>4, ConcatAssociative DEF QueueTypeOK
  <2>3. Held' = Append(Held, e)
    BY <1>3, <2>1, <2>2, Zenon DEF Held
  <2> QED BY <2>3, <1>2, HeldParts, Snoc, Zenon
<1>9. \A it \in Elems(Held) : it.key < e.key /\ it.txs \cap e.txs = {}
  <2>1. \A it \in Elems(Held) : it.key \in DOMAIN wal /\ it.txs \subseteq txSeen
    BY Zenon DEF IndInv, WriteAhead, SeenIsHeld, TxsOf
  <2> QED BY <2>1, <1>2, <1>6, Zenon DEF unique
<1>10. QueueTypeOK'
  <2>1. queue' \in Seq(Item)
    BY <1>2, <1>3, <1>4, Snoc, Zenon DEF QueueTypeOK
  <2>2. DOMAIN wal' \subseteq 1..(MaxKey - 1)
    BY <1>1, <1>4, <1>5, Zenon DEF QueueTypeOK
  <2>3. nextAddSeq' \in InitialSeqNum..MaxKey
    BY <1>1, <1>3, <1>4, KeyAssumption DEF QueueTypeOK
  <2>4. txSeen' \subseteq Tx
    BY <1>1, <1>3, <1>4, Zenon DEF QueueTypeOK, Batch
  <2> QED BY <1>3, <1>4, <1>5, <2>1, <2>2, <2>3, <2>4 DEF QueueTypeOK
<1>11. WriteAhead'
  <2>1. \A it \in Elems(Held) : it.key \in DOMAIN wal /\ it.txs \subseteq wal[it.key]
    BY Zenon DEF IndInv, WriteAhead
  <2> QED BY <2>1, <1>2, <1>5, <1>7, <1>8 DEF WriteAhead
<1>12. SeenIsHeld'
  <2>1. TxsOf(Elems(Held) \cup {e}) = TxsOf(Elems(Held)) \cup e.txs
    BY TxsOfAdd, Zenon
  <2> QED BY <2>1, <1>2, <1>3, <1>8, Zenon DEF IndInv, SeenIsHeld
<1>13. HeldOnce' /\ HeldInKeyOrder'
  <2>1. InKeyOrder(Append(Held, e)) /\ Apart(Append(Held, e))
    BY <1>2, <1>9, HeldParts, Snoc, Zenon
  <2> QED BY <2>1, <1>8, Zenon DEF HeldOnce, HeldInKeyOrder, InKeyOrder, Apart
<1>14. FreshKeys'
  <2>1. nextPrependSeq \in Int /\ nextAddSeq \in Int /\ nextPrependSeq < nextAddSeq
    BY <1>4, KeyAssumption DEF QueueTypeOK
  <2>2. \A k \in DOMAIN wal : k \in Int
    BY <1>4, KeyAssumption DEF QueueTypeOK
  <2>3. \A k \in DOMAIN wal' : nextPrependSeq < k /\ k < nextAddSeq + 1
    BY <1>5, <1>6, <2>1, <2>2
  <2> QED BY <1>3, <2>3, Zenon DEF FreshKeys
<1>15. PostponedInFlight'
  <2>1. FlightTxs' = FlightTxs
    BY <1>3, Zenon DEF FlightTxs
  <2>2. PostponedInFlight
    BY Zenon DEF IndInv
  <2>3. postponedItem # NoItem => postponedItem.key < e.key
    BY <1>2, <1>6, <2>2, Zenon DEF PostponedInFlight
  <2> QED BY <1>3, <1>5, <1>7, <1>8, <2>1, <2>2, <2>3 DEF PostponedInFlight
<1>16. RestartOK'
  BY <1>1, <1>3, Zenon DEF RestartOK
<1> QED BY <1>10, <1>11, <1>12, <1>13, <1>14, <1>15, <1>16 DEF IndInv

(* Steps that leave the batches alone only have to look after the type,    *)
(* the key bounds and the progress of a restart.                           *)
LEMMA SameBatches ==
    ASSUME IndInv, UNCHANGED <<wal, queue, inFlight, postponeVars, txSeen>>
    PROVE  WriteAhead' /\ SeenIsHeld' /\ HeldOnce' /\ HeldInKeyOrder' /\ PostponedInFlight'
<1>1. Held' = Held /\ FlightTxs' = FlightTxs
  BY Zenon DEF Held, FlightTxs
<1> QED BY <1>1, Zenon DEF IndInv, WriteAhead, SeenIsHeld, HeldOnce, HeldInKeyOrder,
                    PostponedInFlight, postponeVars

(* After a crash memory is empty.                                          *)
LEMMA LostMemory ==
    ASSUME LoseMemory
    PROVE  /\ WriteAhead' /\ SeenIsHeld' /\ HeldOnce' /\ HeldInKeyOrder' /\ FreshKeys'
           /\ PostponedInFlight' /\ RestartOK'
           /\ queue' \in Seq(Item) /\ inFlight' \in Seq(Item)
           /\ inFlightPostponed' = {} /\ postponedItem' = NoItem /\ txSeen' = {}
           /\ nextAddSeq' = InitialSeqNum /\ nextPrependSeq' = InitialSeqNum - 1
           /\ mode' = "down" /\ todo' = {}
<1> USE DEF LoseMemory
<1>1. <<>> \in Seq(Item) /\ Elems(<<>>) = {} /\ <<>> \o <<>> = <<>>
  BY ElemsEmpty, EmptySeq, ConcatEmptySeq, Zenon
<1>2. Held' = <<>> /\ Elems(Held') = {} /\ Len(Held') = 0
  BY <1>1, Zenon DEF Held
<1>3. WriteAhead' /\ SeenIsHeld' /\ HeldOnce' /\ HeldInKeyOrder' /\ FreshKeys'
  BY <1>2 DEF WriteAhead, SeenIsHeld, HeldOnce, HeldInKeyOrder, FreshKeys, TxsOf
<1>4. PostponedInFlight' /\ RestartOK'
  BY Zenon DEF PostponedInFlight, RestartOK
<1> QED BY <1>1, <1>3, <1>4, Zenon

(* A crash preserves the invariant: nothing held remains in memory.        *)
LEMMA CrashInv ==
    ASSUME IndInv, Crash
    PROVE  IndInv'
<1>1. LoseMemory /\ wal' = wal /\ legacy' = legacy
  BY Zenon DEF Crash, durableVars
<1>2. QueueTypeOK'
  BY <1>1, LostMemory, KeyAssumption DEF IndInv, QueueTypeOK, Modes
<1> QED BY <1>1, <1>2, LostMemory, Zenon DEF IndInv

(* Drain preserves the invariant: it only moves the border between         *)
(* inFlight and queue and deletes an entry that holds nothing in memory.   *)
LEMMA DrainInv ==
    ASSUME IndInv, Drain
    PROVE  IndInv'
<1>1. PICK n \in 0..Len(Held) : /\ inFlight' = SubSeq(Held, 1, n)
                                /\ queue' = SubSeq(Held, n + 1, Len(Held))
  BY Zenon DEF Drain
<1>2. /\ RollbackPostponed
      /\ legacy' = legacy /\ txSeen' = txSeen
      /\ nextAddSeq' = nextAddSeq /\ nextPrependSeq' = nextPrependSeq
      /\ mode = "up" /\ mode' = mode /\ todo' = todo
  BY Zenon DEF Drain, seqVars, restartVars
<1>3. Held \in Seq(Item) /\ Len(Held) \in Nat /\ \A i \in 1..Len(Held) : Held[i] \in Item
  BY HeldParts, LenProperties, ElementOfSeq, Zenon
<1>4. inFlight' \in Seq(Item) /\ queue' \in Seq(Item)
  <2>1. \A i \in 1..n : Held[i] \in Item
    BY <1>3
  <2>2. \A i \in (n + 1)..Len(Held) : Held[i] \in Item
    BY <1>3
  <2> QED BY <1>1, <1>3, <2>1, <2>2, SubSeqProperties
<1>5. Held' = Held
  <2>1. SubSeq(Held, 1, n) \o SubSeq(Held, n + 1, Len(Held)) = SubSeq(Held, 1, Len(Held))
    <3>1. 1 \in 1..Len(Held) + 1 /\ n \in 1 - 1..Len(Held) /\ Len(Held) \in n..Len(Held)
      BY <1>3
    <3> QED BY <1>3, <3>1, ConcatAdjacentSubSeq, Zenon
  <2>2. SubSeq(Held, 1, Len(Held)) = Held
    BY <1>3, SubSeqFull, Zenon
  <2> QED BY <1>1, <2>1, <2>2, Zenon DEF Held
<1>6. \/ wal' = wal /\ inFlightPostponed' = inFlightPostponed
         /\ postponedItem' = postponedItem /\ inFlight = <<>>
      \/ wal' = wal /\ inFlightPostponed' = {} /\ postponedItem' = NoItem
      \/ /\ wal' = Without(wal, postponedItem.key) /\ postponedItem # NoItem
         /\ inFlightPostponed' = {} /\ postponedItem' = NoItem
  BY <1>2, Zenon DEF RollbackPostponed, BestEffort, postponeVars
<1>7. inFlight = <<>> => inFlightPostponed = {} /\ postponedItem = NoItem
  <2>1. SUFFICES ASSUME inFlight = <<>> PROVE inFlightPostponed = {} /\ postponedItem = NoItem
    BY Zenon
  <2>2. FlightTxs = {}
    BY <2>1, ElemsEmpty, Zenon DEF FlightTxs, TxsOf
  <2>3. inFlightPostponed = {}
    BY <2>2, Zenon DEF IndInv, PostponedInFlight
  <2>4. postponedItem # NoItem => postponedItem.txs = {} /\ postponedItem \in Item
    BY <2>3, Zenon DEF IndInv, PostponedInFlight, QueueTypeOK
  <2>5. \A it \in Item : it.txs # {}
    BY Zenon DEF Item, Batch
  <2> QED BY <2>3, <2>4, <2>5, Zenon
<1>8. inFlightPostponed' = {} /\ postponedItem' = NoItem
  BY <1>6, <1>7, Zenon
<1>9. /\ DOMAIN wal' \subseteq DOMAIN wal
      /\ wal' \in [DOMAIN wal' -> Batch]
      /\ \A it \in Elems(Held) : it.key \in DOMAIN wal' /\ wal'[it.key] = wal[it.key]
  <2>1. wal \in [DOMAIN wal -> Batch] /\ \A it \in Elems(Held) : it.key \in DOMAIN wal
    BY Zenon DEF IndInv, QueueTypeOK, WriteAhead
  <2>2. CASE wal' = wal
    BY <2>1, <2>2, Zenon
  <2>3. CASE wal' = Without(wal, postponedItem.key) /\ postponedItem # NoItem
    <3>1. \A it \in Elems(Held) : it.key # postponedItem.key
      <4>1. \A it \in Elems(Held) : it.key \in Int /\ postponedItem.key < it.key
        BY <2>3, HeldParts, Zenon DEF IndInv, PostponedInFlight
      <4>2. postponedItem.key \in Int
        BY <2>3, KeyAssumption DEF IndInv, QueueTypeOK, Item, Key
      <4> QED BY <4>1, <4>2
    <3> QED BY <2>1, <2>3, <3>1, Zenon DEF Without
  <2> QED BY <1>6, <2>2, <2>3
<1>10. QueueTypeOK'
  BY <1>2, <1>4, <1>8, <1>9, Zenon DEF IndInv, QueueTypeOK
<1>11. WriteAhead'
  BY <1>5, <1>9, Zenon DEF IndInv, WriteAhead
<1>12. SeenIsHeld' /\ HeldOnce' /\ HeldInKeyOrder'
  BY <1>2, <1>5, Zenon DEF IndInv, SeenIsHeld, HeldOnce, HeldInKeyOrder
<1>13. FreshKeys'
  BY <1>2, <1>9, Zenon DEF IndInv, FreshKeys
<1>14. PostponedInFlight' /\ RestartOK'
  BY <1>2, <1>8, Zenon DEF PostponedInFlight, RestartOK
<1> QED BY <1>10, <1>11, <1>12, <1>13, <1>14, Zenon DEF IndInv

(* SetPostponed preserves the invariant: a persisted verdict is not        *)
(* replaced.                                                               *)
LEMMA SetPostponedInv ==
    ASSUME IndInv, NEW txs \in SUBSET FlightTxs, SetPostponed(txs)
    PROVE  IndInv'
<1>1. /\ wal' = wal /\ legacy' = legacy /\ queue' = queue /\ inFlight' = inFlight
      /\ postponedItem' = postponedItem /\ txSeen' = txSeen
      /\ nextAddSeq' = nextAddSeq /\ nextPrependSeq' = nextPrependSeq
      /\ mode = "up" /\ mode' = mode /\ todo' = todo
      /\ inFlightPostponed' = IF postponedItem = NoItem THEN txs ELSE inFlightPostponed
  BY Zenon DEF SetPostponed, durableVars, seqVars, restartVars
<1>2. Held' = Held /\ FlightTxs' = FlightTxs
  BY <1>1, Zenon DEF Held, FlightTxs
<1>3. FlightTxs \subseteq Tx
  BY HeldParts, Zenon DEF FlightTxs, TxsOf, Batch
<1>4. QueueTypeOK'
  BY <1>1, <1>3 DEF IndInv, QueueTypeOK
<1>5. WriteAhead' /\ SeenIsHeld' /\ HeldOnce' /\ HeldInKeyOrder' /\ FreshKeys' /\ RestartOK'
  BY <1>1, <1>2 DEF IndInv, WriteAhead, SeenIsHeld, HeldOnce, HeldInKeyOrder, FreshKeys,
                    RestartOK
<1>6. PostponedInFlight'
  BY <1>1, <1>2 DEF IndInv, PostponedInFlight
<1> QED BY <1>4, <1>5, <1>6, Zenon DEF IndInv

(* Steps of a restart that only move on to its next pass.                  *)
LEMMA PassInv ==
    ASSUME IndInv, Load \/ LoadDone \/ MigrateSkip \/ MigrateDone \/ ReconcileDone
    PROVE  IndInv'
<1> USE DEF durableVars, memoryVars, postponeVars, seqVars, restartVars
<1>1. /\ wal' = wal /\ legacy' = legacy /\ queue' = queue /\ inFlight' = inFlight
      /\ inFlightPostponed' = inFlightPostponed /\ postponedItem' = postponedItem
      /\ txSeen' = txSeen /\ nextAddSeq' = nextAddSeq /\ nextPrependSeq' = nextPrependSeq
  BY Zenon DEF Load, LoadDone, MigrateSkip, MigrateDone, ReconcileDone
<1>2. WriteAhead' /\ SeenIsHeld' /\ HeldOnce' /\ HeldInKeyOrder' /\ PostponedInFlight'
  BY <1>1, SameBatches, Zenon
<1>3. {it.key : it \in Elems(queue)} \subseteq Key
  BY HeldParts DEF Item
<1>4. DOMAIN wal \subseteq Key
  BY KeyAssumption DEF IndInv, QueueTypeOK, Key
<1>5. QueueTypeOK'
  BY <1>1, <1>3, <1>4
     DEF IndInv, QueueTypeOK, Modes, Load, LoadDone, MigrateSkip, MigrateDone, ReconcileDone
<1>6. FreshKeys'
  BY <1>1, Zenon DEF IndInv, FreshKeys, Load, LoadDone, MigrateSkip, MigrateDone, ReconcileDone
<1>7. RestartOK'
  BY <1>1, ElemsEmpty
     DEF IndInv, RestartOK, Load, LoadDone, MigrateSkip, MigrateDone, ReconcileDone
<1> QED BY <1>2, <1>5, <1>6, <1>7 DEF IndInv

(* What both halves of Ack use: the next number for a postponed batch is   *)
(* below every key in use, and the postponed transactions are in flight.   *)
LEMMA PostponedFacts ==
    ASSUME IndInv, mode = "up", MustPersistPostponed, nextPrependSeq > 0
    PROVE  /\ inFlightPostponed \in Batch
           /\ inFlightPostponed \subseteq FlightTxs
           /\ nextPrependSeq \in 1..(MaxKey - 1)
           /\ [key |-> nextPrependSeq, txs |-> inFlightPostponed] \in Item
           /\ \A k \in DOMAIN wal : nextPrependSeq < k /\ k \in Int
           /\ \A it \in Elems(Held) : nextPrependSeq < it.key
<1>1. QueueTypeOK /\ FreshKeys /\ PostponedInFlight /\ WriteAhead
  BY Zenon DEF IndInv
<1>2. inFlightPostponed \in Batch /\ inFlightPostponed \subseteq FlightTxs
  BY <1>1, Zenon DEF MustPersistPostponed, QueueTypeOK, Batch, PostponedInFlight
<1>3. nextPrependSeq \in 1..(MaxKey - 1)
  BY <1>1, KeyAssumption DEF QueueTypeOK
<1>4. [key |-> nextPrependSeq, txs |-> inFlightPostponed] \in Item
  BY <1>2, <1>3, KeyAssumption DEF Item, Key
<1>5. \A k \in DOMAIN wal : nextPrependSeq < k /\ k \in Int
  BY <1>1, KeyAssumption DEF FreshKeys, QueueTypeOK
<1>6. \A it \in Elems(Held) : nextPrependSeq < it.key
  BY <1>1, <1>5, Zenon DEF WriteAhead
<1> QED BY <1>2, <1>3, <1>4, <1>5, <1>6

(* An Ack that fails after its first write preserves the invariant.        *)
LEMMA AckDeleteFailsInv ==
    ASSUME IndInv, AckDeleteFails
    PROVE  IndInv'
<1>1. /\ mode = "up" /\ MustPersistPostponed /\ nextPrependSeq > 0
      /\ wal' = With(wal, nextPrependSeq, inFlightPostponed)
      /\ postponedItem' = [key |-> nextPrependSeq, txs |-> inFlightPostponed]
      /\ nextPrependSeq' = nextPrependSeq - 1
      /\ legacy' = legacy /\ queue' = queue /\ inFlight' = inFlight
      /\ inFlightPostponed' = inFlightPostponed /\ txSeen' = txSeen
      /\ nextAddSeq' = nextAddSeq /\ mode' = mode /\ todo' = todo
  BY Zenon DEF AckDeleteFails, restartVars
<1>2. /\ inFlightPostponed \in Batch
      /\ inFlightPostponed \subseteq FlightTxs
      /\ nextPrependSeq \in 1..(MaxKey - 1)
      /\ postponedItem' \in Item
      /\ \A k \in DOMAIN wal : nextPrependSeq < k /\ k \in Int
      /\ \A it \in Elems(Held) : nextPrependSeq < it.key
  BY <1>1, PostponedFacts, Zenon
<1>3. QueueTypeOK
  BY Zenon DEF IndInv
<1>4. /\ DOMAIN wal' = DOMAIN wal \cup {nextPrependSeq}
      /\ wal' \in [DOMAIN wal' -> Batch]
      /\ wal'[nextPrependSeq] = inFlightPostponed
      /\ \A k \in DOMAIN wal : wal'[k] = wal[k]
  <2>1. wal \in [DOMAIN wal -> Batch] /\ \A k \in DOMAIN wal : k # nextPrependSeq
    BY <1>2, <1>3 DEF QueueTypeOK
  <2> QED BY <1>1, <1>2, <2>1 DEF With
<1>5. Held' = Held /\ FlightTxs' = FlightTxs
  BY <1>1, Zenon DEF Held, FlightTxs
<1>6. QueueTypeOK'
  <2>1. DOMAIN wal' \subseteq 1..(MaxKey - 1)
    BY <1>2, <1>3, <1>4, Zenon DEF QueueTypeOK
  <2>2. nextPrependSeq' \in 0..(InitialSeqNum - 1)
    BY <1>1, <1>2, <1>3, KeyAssumption DEF QueueTypeOK
  <2> QED BY <1>1, <1>2, <1>3, <1>4, <2>1, <2>2 DEF QueueTypeOK
<1>7. WriteAhead'
  BY <1>4, <1>5, Zenon DEF IndInv, WriteAhead
<1>8. SeenIsHeld' /\ HeldOnce' /\ HeldInKeyOrder'
  BY <1>1, <1>5 DEF IndInv, SeenIsHeld, HeldOnce, HeldInKeyOrder
<1>9. FreshKeys'
  <2>1. nextAddSeq \in Int /\ nextPrependSeq \in Int /\ nextPrependSeq < nextAddSeq
    BY <1>3, KeyAssumption DEF QueueTypeOK
  <2>2. \A k \in DOMAIN wal : k < nextAddSeq
    BY <1>1, Zenon DEF IndInv, FreshKeys
  <2>3. \A k \in DOMAIN wal' : nextPrependSeq - 1 < k /\ k < nextAddSeq
    BY <1>2, <1>4, <2>1, <2>2
  <2> QED BY <1>1, <2>3, Zenon DEF FreshKeys
<1>10. PostponedInFlight'
  BY <1>1, <1>2, <1>4, <1>5, Zenon DEF PostponedInFlight
<1>11. RestartOK'
  BY <1>1, Zenon DEF RestartOK
<1> QED BY <1>6, <1>7, <1>8, <1>9, <1>10, <1>11 DEF IndInv

(* Ack preserves the invariant: the postponed batch goes under a number    *)
(* smaller than all in use, and what is deleted is no longer held.         *)
LEMMA AckInv ==
    ASSUME IndInv, Ack
    PROVE  IndInv'
<1> DEFINE persist == MustPersistPostponed
           item == IF persist THEN [key |-> nextPrependSeq, txs |-> inFlightPostponed]
                   ELSE postponedItem
           withItem == IF persist THEN With(wal, item.key, item.txs) ELSE wal
<1>1. /\ mode = "up" /\ (persist => nextPrependSeq > 0)
      /\ wal' = [k \in DOMAIN withItem \ AckedKeys |-> withItem[k]]
      /\ nextPrependSeq' = IF persist THEN nextPrependSeq - 1 ELSE nextPrependSeq
      /\ txSeen' = txSeen \ (FlightTxs \ inFlightPostponed)
      /\ queue' = IF item = NoItem THEN queue ELSE <<item>> \o queue
      /\ inFlight' = <<>> /\ inFlightPostponed' = {} /\ postponedItem' = NoItem
      /\ legacy' = legacy /\ nextAddSeq' = nextAddSeq /\ mode' = mode /\ todo' = todo
  BY Zenon DEF Ack, SeenAfterAck, restartVars
<1>2. QueueTypeOK /\ PostponedInFlight /\ FreshKeys /\ WriteAhead /\ SeenIsHeld
  BY Zenon DEF IndInv
<1>3. /\ Elems(Held) = Elems(inFlight) \cup Elems(queue)
      /\ Elems(Held) \subseteq Item
      /\ \A it \in Elems(Held) : it.key \in Int /\ it.txs \in Batch
      /\ InKeyOrder(queue) /\ Apart(queue)
      /\ \A a \in Elems(inFlight), b \in Elems(queue) :
            a.key < b.key /\ a.txs \cap b.txs = {}
  BY HeldParts, Zenon
(* the item that goes back to the front, if there is one *)
<1>4. ASSUME item # NoItem
      PROVE  /\ item \in Item
             /\ item.txs = inFlightPostponed
             /\ inFlightPostponed \subseteq FlightTxs
             /\ \A it \in Elems(Held) : item.key < it.key
             /\ item.key \in DOMAIN withItem /\ withItem[item.key] = item.txs
             /\ item.key \in 1..(MaxKey - 1)
  <2>1. CASE persist
    <3>1. /\ item = [key |-> nextPrependSeq, txs |-> inFlightPostponed]
          /\ withItem = With(wal, item.key, item.txs)
      BY <2>1, Zenon
    <3> QED BY <1>1, <2>1, <3>1, PostponedFacts DEF With
  <2>2. CASE ~persist
    <3>1. item = postponedItem /\ withItem = wal
      BY <2>2
    <3>2. item \in Item
      BY <1>2, <1>4, <3>1 DEF QueueTypeOK
    <3>3. /\ item.txs = inFlightPostponed /\ inFlightPostponed \subseteq FlightTxs
          /\ item.key \in DOMAIN wal /\ wal[item.key] = item.txs
          /\ \A it \in Elems(Held) : item.key < it.key
      BY <1>2, <1>4, <3>1 DEF PostponedInFlight
    <3>4. item.key \in 1..(MaxKey - 1)
      BY <1>2, <3>3 DEF QueueTypeOK
    <3> QED BY <3>1, <3>2, <3>3, <3>4
  <2> QED BY <2>1, <2>2
<1>5. item = NoItem => inFlightPostponed = {} /\ withItem = wal
  <2>1. SUFFICES ASSUME item = NoItem PROVE inFlightPostponed = {} /\ withItem = wal
    BY Zenon
  <2>2. ~persist
    <3>1. persist => item.key = nextPrependSeq /\ nextPrependSeq > 0
      BY <1>1, Zenon
    <3>2. NoItem.key = -1
      BY Zenon DEF NoItem
    <3> QED BY <2>1, <3>1, <3>2
  <2> QED BY <2>1, <2>2 DEF MustPersistPostponed
(* the WAL keeps every entry that is not acknowledged *)
<1>6. /\ DOMAIN withItem \subseteq 1..(MaxKey - 1)
      /\ DOMAIN wal \subseteq DOMAIN withItem
      /\ withItem \in [DOMAIN withItem -> Batch]
      /\ \A k \in DOMAIN wal : withItem[k] = wal[k]
  <2>1. CASE persist
    <3>1. /\ inFlightPostponed \in Batch /\ nextPrependSeq \in 1..(MaxKey - 1)
          /\ \A k \in DOMAIN wal : nextPrependSeq < k /\ k \in Int
      BY <1>1, <2>1, PostponedFacts
    <3>2. withItem = With(wal, nextPrependSeq, inFlightPostponed)
      BY <2>1, Zenon
    <3>3. \A k \in DOMAIN wal : k # nextPrependSeq
      BY <3>1
    <3>4. DOMAIN wal \subseteq 1..(MaxKey - 1) /\ wal \in [DOMAIN wal -> Batch]
      BY <1>2, Zenon DEF QueueTypeOK
    <3> HIDE DEF withItem, item, persist
    <3> QED BY <3>1, <3>2, <3>3, <3>4 DEF With
  <2>2. CASE ~persist
    <3>1. withItem = wal
      BY <2>2, Zenon
    <3> QED BY <1>2, <3>1, Zenon DEF QueueTypeOK
  <2> QED BY <2>1, <2>2
<1>7. \A k \in DOMAIN withItem : \/ k \in DOMAIN wal
                                 \/ persist /\ k = nextPrependSeq
  BY Zenon DEF With
<1> HIDE DEF withItem, item
<1>8. \A k \in AckedKeys : \E it \in Elems(inFlight) : k = it.key
  BY Zenon DEF AckedKeys
<1>9. \A it \in Elems(queue) : it.key \notin AckedKeys
  <2> SUFFICES ASSUME NEW it \in Elems(queue), NEW a \in Elems(inFlight), it.key = a.key
               PROVE  FALSE
    BY <1>8
  <2>1. a.key < it.key /\ it.key \in Int
    BY <1>3
  <2> QED BY <2>1
<1>10. item # NoItem => item.key \notin AckedKeys
  <2> SUFFICES ASSUME item # NoItem, NEW a \in Elems(inFlight), item.key = a.key
               PROVE  FALSE
    BY <1>8
  <2>1. item.key < a.key /\ a.key \in Int
    BY <1>3, <1>4, Zenon
  <2> QED BY <2>1
<1>11. queue' \in Seq(Item)
  BY <1>1, <1>2, <1>4, Cons DEF QueueTypeOK
<1>12. Held' = queue'
  BY <1>1, <1>11, HeldIsQueue DEF Held
<1>13. \A it \in Elems(queue) : item # NoItem => item.key < it.key /\ item.txs \cap it.txs = {}
  <2>1. \A it \in Elems(queue) : FlightTxs \cap it.txs = {}
    BY <1>3 DEF FlightTxs, TxsOf
  <2> QED BY <1>3, <1>4, <2>1
<1>14. /\ InKeyOrder(queue') /\ Apart(queue')
       /\ Elems(queue') = IF item = NoItem THEN Elems(queue) ELSE {item} \cup Elems(queue)
  <2>1. CASE item = NoItem
    BY <1>1, <1>3, <2>1
  <2>2. CASE item # NoItem
    <3>1. queue' = <<item>> \o queue /\ queue \in Seq(Item) /\ item \in Item
      BY <1>1, <1>2, <1>4, <2>2 DEF QueueTypeOK
    <3> QED BY <1>3, <1>13, <2>2, <3>1, Cons
  <2> QED BY <2>1, <2>2, Zenon
<1>15. QueueTypeOK'
  <2>1. DOMAIN wal' \subseteq 1..(MaxKey - 1) /\ wal' \in [DOMAIN wal' -> Batch]
    BY <1>1, <1>6
  <2>2. nextPrependSeq' \in 0..(InitialSeqNum - 1)
    BY <1>1, <1>2, KeyAssumption DEF QueueTypeOK
  <2>3. <<>> \in Seq(Item)
    OBVIOUS
  <2> QED BY <1>1, <1>2, <1>11, <2>1, <2>2, <2>3 DEF QueueTypeOK
<1>16. WriteAhead'
  <2>1. \A it \in Elems(queue) : /\ it.key \in DOMAIN withItem \ AckedKeys
                                 /\ it.txs \subseteq withItem[it.key]
    BY <1>2, <1>3, <1>6, <1>9 DEF WriteAhead
  <2>2. item # NoItem => /\ item.key \in DOMAIN withItem \ AckedKeys
                         /\ item.txs \subseteq withItem[item.key]
    BY <1>4, <1>10
  <2> QED BY <1>1, <1>12, <1>14, <2>1, <2>2 DEF WriteAhead
<1>17. SeenIsHeld'
  <2>1. txSeen = FlightTxs \cup TxsOf(Elems(queue))
    BY <1>2, <1>3, TxsOfUnion DEF SeenIsHeld, FlightTxs
  <2>2. FlightTxs \cap TxsOf(Elems(queue)) = {}
    BY <1>3 DEF FlightTxs, TxsOf
  <2>3. CASE item = NoItem
    <3>1. txSeen' = TxsOf(Elems(queue))
      BY <1>1, <1>5, <2>1, <2>2, <2>3
    <3> QED BY <3>1, <1>12, <1>14, <2>3, Zenon DEF SeenIsHeld
  <2>4. CASE item # NoItem
    <3>1. txSeen' = TxsOf(Elems(queue)) \cup item.txs
      BY <1>1, <1>4, <2>1, <2>2, <2>4
    <3>2. TxsOf(Elems(queue) \cup {item}) = TxsOf(Elems(queue)) \cup item.txs
      BY TxsOfAdd, Zenon
    <3>3. Elems(queue') = Elems(queue) \cup {item}
      BY <1>14, <2>4
    <3> QED BY <3>1, <3>2, <3>3, <1>12 DEF SeenIsHeld
  <2> QED BY <2>3, <2>4
<1>18. HeldOnce' /\ HeldInKeyOrder'
  BY <1>12, <1>14 DEF HeldOnce, HeldInKeyOrder, InKeyOrder, Apart
<1>19. FreshKeys'
  <2>1. nextAddSeq \in Int /\ nextPrependSeq \in Int /\ nextPrependSeq < nextAddSeq
    BY <1>2, KeyAssumption DEF QueueTypeOK
  <2>2. \A k \in DOMAIN wal : nextPrependSeq < k /\ k < nextAddSeq /\ k \in Int
    BY <1>1, <1>2, KeyAssumption DEF FreshKeys, QueueTypeOK
  <2>3. \A k \in DOMAIN wal' : k \in DOMAIN withItem
    BY <1>1, Zenon
  <2>4. \A k \in DOMAIN wal' : nextPrependSeq' < k /\ k < nextAddSeq
    BY <1>1, <1>7, <2>1, <2>2, <2>3
  <2> QED BY <1>1, <2>4 DEF FreshKeys
<1>20. PostponedInFlight'
  BY <1>1, Zenon DEF PostponedInFlight
<1>21. RestartOK'
  BY <1>1, Zenon DEF RestartOK
<1> QED BY <1>15, <1>16, <1>17, <1>18, <1>19, <1>20, <1>21 DEF IndInv

(* A datastore entry read back during a restart, under its own key or a    *)
(* new one, joins the queue behind everything already there.               *)
LEMMA EnqueueInv ==
    ASSUME IndInv, mode # "up",
           NEW batch \in Batch, NEW key \in 1..(MaxKey - 1),
           NEW store, store \in [DOMAIN store -> Batch],
           DOMAIN store \subseteq 1..(MaxKey - 1),
           key \in DOMAIN store, store[key] = batch,
           \A it \in Elems(queue) : /\ it.key < key
                                    /\ it.key \in DOMAIN store
                                    /\ store[it.key] = wal[it.key],
           DedupAndEnqueue(batch, key, store),
           UNCHANGED <<inFlight, postponeVars>>
    PROVE  /\ queue' \in Seq(Item) /\ inFlight' = <<>> /\ txSeen' \in SUBSET Tx
           /\ inFlightPostponed' \in SUBSET Tx /\ postponedItem' \in Item \cup {NoItem}
           /\ wal' \in [DOMAIN wal' -> Batch]
           /\ DOMAIN wal' \subseteq DOMAIN store
           /\ \A k \in DOMAIN store : k # key => k \in DOMAIN wal'
           /\ \A it \in Elems(queue') : it \in Elems(queue) \/ it.key = key
           /\ WriteAhead' /\ SeenIsHeld' /\ HeldOnce' /\ HeldInKeyOrder'
           /\ PostponedInFlight'
<1> DEFINE filtered == batch \ txSeen
           entry == [key |-> key, txs |-> filtered]
<1>1. /\ txSeen' = txSeen \cup filtered
      /\ queue' = IF filtered = {} THEN queue ELSE Append(queue, entry)
      /\ wal' \in CASE filtered = {}    -> BestEffort(store, Without(store, key))
                    [] filtered = batch -> {store}
                    [] OTHER            -> BestEffort(store, With(store, key, filtered))
  BY Zenon DEF DedupAndEnqueue, Enqueue
<1>2. /\ inFlight' = inFlight /\ inFlightPostponed' = inFlightPostponed
      /\ postponedItem' = postponedItem
  BY Zenon DEF postponeVars
<1>3. QueueTypeOK /\ RestartOK /\ WriteAhead /\ SeenIsHeld /\ PostponedInFlight
  BY DEF IndInv
<1>4. inFlight = <<>> /\ queue \in Seq(Item) /\ Held = queue
  BY <1>3, HeldIsQueue DEF RestartOK, QueueTypeOK, Held
<1>5. FlightTxs = {} /\ inFlightPostponed = {} /\ postponedItem = NoItem
  <2>1. FlightTxs = {}
    BY <1>4, ElemsEmpty, Zenon DEF FlightTxs, TxsOf
  <2>2. inFlightPostponed = {}
    BY <1>3, <2>1 DEF PostponedInFlight
  <2>3. postponedItem # NoItem => postponedItem.txs = {} /\ postponedItem \in Item
    BY <1>3, <2>2, Zenon DEF PostponedInFlight, QueueTypeOK
  <2> QED BY <2>1, <2>2, <2>3 DEF Item, Batch
<1>6. InKeyOrder(queue) /\ Apart(queue) /\ Elems(queue) \subseteq Item
  BY <1>4, HeldParts
<1>7. txSeen = TxsOf(Elems(queue)) /\ txSeen \in SUBSET Tx /\ batch \subseteq Tx
  BY <1>3, <1>4 DEF SeenIsHeld, QueueTypeOK, Batch
<1>8. filtered # {} => entry \in Item /\ filtered \in Batch
  BY <1>7, KeyAssumption DEF Item, Key, Batch
<1>9. \A it \in Elems(queue) : it.txs \cap entry.txs = {} /\ it.key < entry.key
  BY <1>7 DEF TxsOf
<1>10. /\ queue' \in Seq(Item) /\ InKeyOrder(queue') /\ Apart(queue')
       /\ Elems(queue') = IF filtered = {} THEN Elems(queue) ELSE Elems(queue) \cup {entry}
  <2>1. CASE filtered = {}
    BY <1>1, <1>4, <1>6, <2>1
  <2>2. CASE filtered # {}
    <3>1. queue' = Append(queue, entry) /\ entry \in Item
      BY <1>1, <1>8, <2>2, Zenon
    <3> HIDE DEF entry
    <3> QED BY <1>4, <1>6, <1>9, <2>2, <3>1, Snoc, Zenon
  <2> QED BY <2>1, <2>2, Zenon
<1>11. Held' = queue'
  BY <1>2, <1>4, <1>10, HeldIsQueue DEF Held
(* the clean-up touches only the entry's own key *)
<1>12. /\ wal' \in [DOMAIN wal' -> Batch]
       /\ DOMAIN wal' \subseteq DOMAIN store
       /\ \A k \in DOMAIN store : k # key => k \in DOMAIN wal' /\ wal'[k] = store[k]
       /\ filtered # {} => key \in DOMAIN wal' /\ filtered \subseteq wal'[key]
  <2>1. CASE wal' = store
    BY <2>1
  <2>2. CASE filtered = {} /\ wal' = Without(store, key)
    BY <2>2 DEF Without
  <2>3. CASE filtered # {} /\ wal' = With(store, key, filtered)
    <3>1. filtered \in Batch
      BY <1>8, <2>3
    <3> HIDE DEF filtered
    <3> QED BY <2>3, <3>1 DEF With
  <2> QED BY <1>1, <2>1, <2>2, <2>3 DEF BestEffort
<1>13. WriteAhead'
  <2>1. \A it \in Elems(queue) : /\ it.key # key
                                 /\ it.key \in DOMAIN wal'
                                 /\ it.txs \subseteq wal'[it.key]
    <3>1. \A it \in Elems(queue) : it.key # key
      BY <1>6, KeyAssumption DEF Item, Key
    <3>2. \A it \in Elems(queue) : it.txs \subseteq store[it.key]
      BY <1>3, <1>4 DEF WriteAhead
    <3> QED BY <1>12, <3>1, <3>2
  <2> QED BY <1>10, <1>11, <1>12, <2>1 DEF WriteAhead
<1>14. SeenIsHeld'
  <2>1. CASE filtered = {}
    BY <1>1, <1>7, <1>10, <1>11, <2>1 DEF SeenIsHeld
  <2>2. CASE filtered # {}
    <3>1. Elems(queue') = Elems(queue) \cup {entry}
      BY <1>10, <2>2
    <3>2. TxsOf(Elems(queue) \cup {entry}) = TxsOf(Elems(queue)) \cup entry.txs
      BY TxsOfAdd, Zenon
    <3> QED BY <1>1, <1>7, <1>11, <3>1, <3>2, Zenon DEF SeenIsHeld
  <2> QED BY <2>1, <2>2
<1>15. HeldOnce' /\ HeldInKeyOrder'
  BY <1>10, <1>11 DEF HeldOnce, HeldInKeyOrder, InKeyOrder, Apart
<1>16. PostponedInFlight'
  BY <1>2, <1>5 DEF PostponedInFlight
<1>17. \A it \in Elems(queue') : it \in Elems(queue) \/ it.key = key
  BY <1>10
<1>18. txSeen' \in SUBSET Tx
  BY <1>1, <1>7, Zenon
<1> QED BY <1>2, <1>4, <1>5, <1>10, <1>12, <1>13, <1>14, <1>15, <1>16, <1>17, <1>18

(* Load reads the WAL in key order, so a key it reads is above all it has  *)
(* queued, and the counters move past it on both sides.                    *)
LEMMA LoadEntryInv ==
    ASSUME IndInv, LoadEntry
    PROVE  IndInv'
<1>1. PICK k \in todo :
        /\ mode = "loading" /\ IsNext(k)
        /\ nextAddSeq' = AddSeqAbove(k) /\ nextPrependSeq' = PrependSeqBelow(k)
        /\ DedupAndEnqueue(wal[k], k, wal)
        /\ todo' = todo \ {k}
        /\ UNCHANGED <<inFlight, postponeVars>> /\ legacy' = legacy /\ mode' = mode
  BY DEF LoadEntry
<1>2. QueueTypeOK /\ RestartOK /\ FreshKeys /\ WriteAhead
  BY Zenon DEF IndInv
<1>3. /\ todo \subseteq DOMAIN wal
      /\ \A it \in Elems(queue), j \in todo : it.key < j
  BY <1>1, <1>2 DEF RestartOK
<1>4. k \in DOMAIN wal /\ k \in 1..(MaxKey - 1) /\ wal[k] \in Batch
  BY <1>2, <1>3 DEF QueueTypeOK
<1>5. Held = queue
  BY <1>1, <1>2, HeldIsQueue DEF RestartOK, QueueTypeOK, Held
<1>6. \A it \in Elems(queue) : it.key < k /\ it.key \in DOMAIN wal
  BY <1>2, <1>3, <1>5 DEF WriteAhead
<1>7. /\ wal \in [DOMAIN wal -> Batch]
      /\ DOMAIN wal \subseteq 1..(MaxKey - 1)
  BY <1>2, Zenon DEF QueueTypeOK
<1>8. /\ queue' \in Seq(Item) /\ inFlight' = <<>> /\ txSeen' \in SUBSET Tx
      /\ inFlightPostponed' \in SUBSET Tx /\ postponedItem' \in Item \cup {NoItem}
      /\ wal' \in [DOMAIN wal' -> Batch]
      /\ DOMAIN wal' \subseteq DOMAIN wal
      /\ \A j \in DOMAIN wal : j # k => j \in DOMAIN wal'
      /\ \A it \in Elems(queue') : it \in Elems(queue) \/ it.key = k
      /\ WriteAhead' /\ SeenIsHeld' /\ HeldOnce' /\ HeldInKeyOrder'
      /\ PostponedInFlight'
  BY <1>1, <1>4, <1>6, <1>7, EnqueueInv
<1>9. /\ nextAddSeq' \in InitialSeqNum..MaxKey
      /\ nextPrependSeq' \in 0..(InitialSeqNum - 1)
      /\ nextAddSeq <= nextAddSeq' /\ k < nextAddSeq'
      /\ nextPrependSeq' <= nextPrependSeq /\ nextPrependSeq' < k
  BY <1>1, <1>2, <1>4, KeyAssumption DEF QueueTypeOK, AddSeqAbove, PrependSeqBelow
<1>10. QueueTypeOK'
  <2>1. <<>> \in Seq(Item)
    OBVIOUS
  <2> QED BY <1>1, <1>2, <1>7, <1>8, <1>9, <2>1 DEF QueueTypeOK
<1>11. FreshKeys'
  <2>1. nextAddSeq \in Int /\ nextPrependSeq \in Int
    BY <1>2, KeyAssumption DEF QueueTypeOK
  <2>2. \A j \in DOMAIN wal : j \in todo \/ (nextPrependSeq < j /\ j < nextAddSeq)
    BY <1>1, <1>2, Zenon DEF FreshKeys
  <2>3. \A j \in DOMAIN wal : j \in Int
    BY <1>7, KeyAssumption
  <2>4. nextAddSeq' \in Int /\ nextPrependSeq' \in Int
    BY <1>9, KeyAssumption
  <2>5. \A j \in DOMAIN wal : j \in todo \ {k} \/ (nextPrependSeq' < j /\ j < nextAddSeq')
    BY <1>9, <2>1, <2>2, <2>3, <2>4
  <2> QED BY <1>1, <1>8, <2>5 DEF FreshKeys
<1>12. RestartOK'
  <2>1. todo' \subseteq DOMAIN wal'
    BY <1>1, <1>3, <1>8
  <2>2. \A j \in todo' : k < j
    <3>1. \A j \in todo : j \in Int /\ k <= j
      BY <1>1, <1>3, <1>7, KeyAssumption DEF IsNext
    <3> QED BY <1>1, <1>4, <3>1
  <2>3. \A it \in Elems(queue'), j \in todo' : it.key < j
    BY <1>1, <1>3, <1>8, <2>2
  <2> QED BY <1>1, <1>8, <2>1, <2>3 DEF RestartOK
<1> QED BY <1>8, <1>10, <1>11, <1>12 DEF IndInv

(* A migrated entry is written under a number no entry has.                *)
LEMMA MigratedStore ==
    ASSUME IndInv, mode = "migrating", nextAddSeq < MaxKey, NEW k \in todo
    PROVE  LET store == With(wal, nextAddSeq, legacy[k])
           IN  /\ legacy[k] \in Batch
               /\ nextAddSeq \in 1..(MaxKey - 1)
               /\ DOMAIN store = DOMAIN wal \cup {nextAddSeq}
               /\ DOMAIN store \subseteq 1..(MaxKey - 1)
               /\ store \in [DOMAIN store -> Batch]
               /\ store[nextAddSeq] = legacy[k]
               /\ \A j \in DOMAIN wal : j < nextAddSeq /\ store[j] = wal[j]
<1>1. QueueTypeOK /\ RestartOK /\ FreshKeys
  BY Zenon DEF IndInv
<1>2. legacy[k] \in Batch
  BY <1>1, Zenon DEF RestartOK, QueueTypeOK
<1>3. nextAddSeq \in 1..(MaxKey - 1)
  BY <1>1, KeyAssumption DEF QueueTypeOK
<1>4. \A j \in DOMAIN wal : j < nextAddSeq /\ j # nextAddSeq
  <2>1. \A j \in DOMAIN wal : j < nextAddSeq /\ j \in Int
    BY <1>1, KeyAssumption DEF FreshKeys, QueueTypeOK
  <2> QED BY <1>3, <2>1
<1>5. wal \in [DOMAIN wal -> Batch] /\ DOMAIN wal \subseteq 1..(MaxKey - 1)
  BY <1>1, Zenon DEF QueueTypeOK
<1> QED BY <1>2, <1>3, <1>4, <1>5 DEF With

(* Migration is an enqueue under a new key, and deletes at most a legacy   *)
(* entry.                                                                  *)
LEMMA MigrateEntryInv ==
    ASSUME IndInv, MigrateEntry
    PROVE  IndInv'
<1>1. PICK k \in todo :
        /\ mode = "migrating" /\ nextAddSeq < MaxKey
        /\ legacy' \in BestEffort(legacy, Without(legacy, k))
        /\ DedupAndEnqueue(legacy[k], nextAddSeq, With(wal, nextAddSeq, legacy[k]))
        /\ nextAddSeq' = nextAddSeq + 1 /\ nextPrependSeq' = nextPrependSeq
        /\ todo' = todo \ {k} /\ mode' = mode
        /\ UNCHANGED <<inFlight, postponeVars>>
  BY Zenon DEF MigrateEntry
<1> DEFINE store == With(wal, nextAddSeq, legacy[k])
<1>2. /\ legacy[k] \in Batch
      /\ nextAddSeq \in 1..(MaxKey - 1)
      /\ DOMAIN store = DOMAIN wal \cup {nextAddSeq}
      /\ DOMAIN store \subseteq 1..(MaxKey - 1)
      /\ store \in [DOMAIN store -> Batch]
      /\ store[nextAddSeq] = legacy[k]
      /\ \A j \in DOMAIN wal : j < nextAddSeq /\ store[j] = wal[j]
  BY <1>1, MigratedStore, Zenon
<1>3. DedupAndEnqueue(legacy[k], nextAddSeq, store)
  BY <1>1
<1> HIDE DEF store
<1>4. QueueTypeOK /\ RestartOK /\ FreshKeys /\ WriteAhead
  BY Zenon DEF IndInv
<1>5. Held = queue
  BY <1>1, <1>4, HeldIsQueue DEF RestartOK, QueueTypeOK, Held
<1>6. \A it \in Elems(queue) : /\ it.key < nextAddSeq
                               /\ it.key \in DOMAIN store
                               /\ store[it.key] = wal[it.key]
  BY <1>2, <1>4, <1>5 DEF WriteAhead
<1>7. /\ queue' \in Seq(Item) /\ inFlight' = <<>> /\ txSeen' \in SUBSET Tx
      /\ inFlightPostponed' \in SUBSET Tx /\ postponedItem' \in Item \cup {NoItem}
      /\ wal' \in [DOMAIN wal' -> Batch]
      /\ DOMAIN wal' \subseteq DOMAIN store
      /\ WriteAhead' /\ SeenIsHeld' /\ HeldOnce' /\ HeldInKeyOrder'
      /\ PostponedInFlight'
  BY <1>1, <1>2, <1>3, <1>6, EnqueueInv
<1>8. /\ DOMAIN legacy' \subseteq DOMAIN legacy
      /\ legacy' \in [DOMAIN legacy' -> Batch]
      /\ DOMAIN legacy \ {k} \subseteq DOMAIN legacy'
  <2>1. legacy \in [DOMAIN legacy -> Batch]
    BY <1>4, Zenon DEF QueueTypeOK
  <2>2. CASE legacy' = legacy
    BY <2>1, <2>2
  <2>3. CASE legacy' = Without(legacy, k)
    BY <2>1, <2>3 DEF Without
  <2> QED BY <1>1, <2>2, <2>3 DEF BestEffort
<1>9. QueueTypeOK'
  <2>1. nextAddSeq' \in InitialSeqNum..MaxKey
    BY <1>1, <1>4, KeyAssumption DEF QueueTypeOK
  <2>2. <<>> \in Seq(Item)
    OBVIOUS
  <2> QED BY <1>1, <1>2, <1>4, <1>7, <1>8, <2>1, <2>2 DEF QueueTypeOK
<1>10. FreshKeys'
  <2>1. nextPrependSeq < nextAddSeq /\ nextPrependSeq \in Int /\ nextAddSeq \in Int
    BY <1>4, KeyAssumption DEF QueueTypeOK
  <2>2. \A j \in DOMAIN wal : nextPrependSeq < j /\ j < nextAddSeq /\ j \in Int
    BY <1>1, <1>4, KeyAssumption DEF FreshKeys, QueueTypeOK
  <2>3. \A j \in DOMAIN store : nextPrependSeq < j /\ j < nextAddSeq + 1
    BY <1>2, <2>1, <2>2
  <2> QED BY <1>1, <1>7, <2>3 DEF FreshKeys
<1>11. RestartOK'
  BY <1>1, <1>4, <1>7, <1>8 DEF RestartOK
<1> QED BY <1>7, <1>9, <1>10, <1>11 DEF IndInv

(* A crash during migration leaves at most one entry more in the WAL.      *)
LEMMA MigrateCrashInv ==
    ASSUME IndInv, MigrateCrash
    PROVE  IndInv'
<1>1. PICK k \in todo :
        /\ mode = "migrating" /\ nextAddSeq < MaxKey
        /\ wal' = With(wal, nextAddSeq, legacy[k])
        /\ legacy' \in {legacy, Without(legacy, k)}
        /\ LoseMemory
  BY Zenon DEF MigrateCrash
<1>2. DOMAIN wal' \subseteq 1..(MaxKey - 1) /\ wal' \in [DOMAIN wal' -> Batch]
  BY <1>1, MigratedStore
<1>3. DOMAIN legacy' \subseteq LegacyKey /\ legacy' \in [DOMAIN legacy' -> Batch]
  BY <1>1 DEF IndInv, QueueTypeOK, Without
<1>4. QueueTypeOK'
  BY <1>1, <1>2, <1>3, LostMemory, KeyAssumption DEF QueueTypeOK, Modes
<1> QED BY <1>1, <1>4, LostMemory DEF IndInv

(* Reconciliation shrinks or removes one entry, on disk as in memory.      *)
LEMMA DropIncludedInv ==
    ASSUME IndInv, NEW included, DropIncluded(included)
    PROVE  IndInv'
<1>1. PICK i \in 1..Len(queue) :
        LET it == queue[i]
            remaining == Remaining(it, included)
        IN  /\ mode = "reconciling"
            /\ txSeen' = txSeen \ (it.txs \ remaining)
            /\ wal' = Rewritten(it, remaining)
            /\ queue' = IF remaining = {}
                        THEN SubSeq(queue, 1, i - 1) \o SubSeq(queue, i + 1, Len(queue))
                        ELSE [queue EXCEPT ![i] = [key |-> it.key, txs |-> remaining]]
            /\ todo' = todo \ {it.key}
            /\ UNCHANGED <<legacy, inFlight, postponeVars, seqVars, mode>>
  BY Zenon DEF DropIncluded
<1> DEFINE it == queue[i]
           remaining == it.txs \ included
           e == [key |-> it.key, txs |-> remaining]
<1>2. /\ mode = "reconciling" /\ mode' = mode
      /\ txSeen' = txSeen \ (it.txs \ remaining)
      /\ wal' = Rewritten(it, remaining)
      /\ queue' = IF remaining = {}
                  THEN SubSeq(queue, 1, i - 1) \o SubSeq(queue, i + 1, Len(queue))
                  ELSE [queue EXCEPT ![i] = e]
      /\ todo' = todo \ {it.key}
      /\ legacy' = legacy /\ inFlight' = inFlight
      /\ inFlightPostponed' = inFlightPostponed /\ postponedItem' = postponedItem
      /\ nextAddSeq' = nextAddSeq /\ nextPrependSeq' = nextPrependSeq
  BY <1>1 DEF Remaining, postponeVars, seqVars
<1>3. QueueTypeOK /\ RestartOK /\ WriteAhead /\ SeenIsHeld /\ PostponedInFlight /\ FreshKeys
  BY Zenon DEF IndInv
<1>4. inFlight = <<>> /\ queue \in Seq(Item) /\ Held = queue
  BY <1>2, <1>3, HeldIsQueue DEF RestartOK, QueueTypeOK, Held
<1>5. InKeyOrder(queue) /\ Apart(queue) /\ Elems(queue) \subseteq Item
  BY <1>4, HeldParts
<1>6. it \in Elems(queue) /\ it \in Item
  BY <1>4, <1>5 DEF Elems
<1>7. remaining # {} => e \in Item /\ remaining \in Batch
  BY <1>6 DEF Item, Batch
<1>8. /\ queue' \in Seq(Item) /\ InKeyOrder(queue') /\ Apart(queue')
      /\ Elems(queue') = IF remaining = {} THEN Elems(queue) \ {it}
                         ELSE (Elems(queue) \ {it}) \cup {e}
  <2>1. CASE remaining = {}
    <3>1. queue' = SubSeq(queue, 1, i - 1) \o SubSeq(queue, i + 1, Len(queue))
      BY <1>2, <2>1, Zenon
    <3> QED BY <1>4, <1>5, <2>1, <3>1, RemoveAt, Zenon
  <2>2. CASE remaining # {}
    <3>1. queue' = [queue EXCEPT ![i] = e]
      BY <1>2, <2>2
    <3>2. e \in Item /\ e.key = queue[i].key /\ e.txs \subseteq queue[i].txs
      BY <1>7, <2>2
    <3> HIDE DEF e
    <3>3. /\ [queue EXCEPT ![i] = e] \in Seq(Item)
          /\ Elems([queue EXCEPT ![i] = e]) = (Elems(queue) \ {queue[i]}) \cup {e}
          /\ InKeyOrder([queue EXCEPT ![i] = e]) /\ Apart([queue EXCEPT ![i] = e])
      BY <1>4, <1>5, <3>2, ReplaceAt
    <3> HIDE DEF remaining
    <3> QED BY <2>2, <3>1, <3>3, Zenon
  <2> QED BY <2>1, <2>2
<1>9. Held' = queue'
  BY <1>2, <1>4, <1>8, HeldIsQueue DEF Held
<1>10. it.key \in DOMAIN wal /\ it.txs \subseteq wal[it.key]
  BY <1>3, <1>4, <1>6 DEF WriteAhead
(* the other entries of the queue have other keys and other transactions *)
<1>11. \A o \in Elems(queue) \ {it} : o.key # it.key /\ o.txs \cap it.txs = {}
  <2> SUFFICES ASSUME NEW j \in 1..Len(queue), queue[j] # it
               PROVE  queue[j].key # it.key /\ queue[j].txs \cap it.txs = {}
    BY DEF Elems
  <2>1. j # i
    OBVIOUS
  <2>2. queue[j].txs \cap it.txs = {}
    BY <1>5, <2>1 DEF Apart
  <2>3. queue[j].key < it.key \/ it.key < queue[j].key
    <3>1. j < i \/ i < j
      BY <2>1
    <3> QED BY <1>5, <3>1 DEF InKeyOrder
  <2>4. queue[j].key \in Int /\ it.key \in Int
    BY <1>4, <1>6, ElemsTyped DEF Elems
  <2>5. queue[j].key # it.key
    BY <2>3, <2>4
  <2> QED BY <2>2, <2>5
<1>12. /\ wal' \in [DOMAIN wal' -> Batch]
       /\ DOMAIN wal' \subseteq DOMAIN wal
       /\ \A k \in DOMAIN wal : k # it.key => k \in DOMAIN wal' /\ wal'[k] = wal[k]
       /\ remaining # {} => it.key \in DOMAIN wal' /\ remaining \subseteq wal'[it.key]
  <2>1. wal \in [DOMAIN wal -> Batch]
    BY <1>3 DEF QueueTypeOK
  <2>2. CASE remaining = {} /\ wal' = Without(wal, it.key)
    BY <2>1, <2>2 DEF Without
  <2>3. CASE remaining = it.txs /\ wal' = wal
    BY <1>10, <2>1, <2>3
  <2>4. CASE remaining # {} /\ wal' = With(wal, it.key, remaining)
    <3>1. remaining \in Batch
      BY <1>7, <2>4
    <3> HIDE DEF remaining, it
    <3> QED BY <1>10, <2>1, <2>4, <3>1 DEF With
  <2>5. wal' = CASE remaining = {}     -> Without(wal, it.key)
                 [] remaining = it.txs -> wal
                 [] OTHER              -> With(wal, it.key, remaining)
    BY <1>2 DEF Rewritten
  <2>6. \/ remaining = {} /\ wal' = Without(wal, it.key)
        \/ remaining = it.txs /\ wal' = wal
        \/ remaining # {} /\ wal' = With(wal, it.key, remaining)
    <3>1. it.txs # {}
      BY <1>6 DEF Item, Batch
    <3> HIDE DEF remaining
    <3> QED BY <2>5, <3>1
  <2> QED BY <2>2, <2>3, <2>4, <2>6
<1>13. WriteAhead'
  <2>1. \A o \in Elems(queue) \ {it} : o.key \in DOMAIN wal' /\ o.txs \subseteq wal'[o.key]
    BY <1>3, <1>4, <1>11, <1>12 DEF WriteAhead
  <2>2. remaining # {} => e.key \in DOMAIN wal' /\ e.txs \subseteq wal'[e.key]
    BY <1>12
  <2> HIDE DEF e, it, remaining
  <2> QED BY <1>8, <1>9, <2>1, <2>2 DEF WriteAhead
<1>14. SeenIsHeld'
  <2> DEFINE rest == Elems(queue) \ {it}
  <2>1. txSeen = TxsOf(rest) \cup it.txs
    <3>1. Elems(queue) = rest \cup {it}
      BY <1>6
    <3>2. TxsOf(rest \cup {it}) = TxsOf(rest) \cup it.txs
      BY TxsOfAdd
    <3> QED BY <1>3, <1>4, <3>1, <3>2, Zenon DEF SeenIsHeld
  <2>2. TxsOf(rest) \cap it.txs = {}
    BY <1>11 DEF TxsOf
  <2>3. txSeen' = TxsOf(rest) \cup remaining
    BY <1>2, <2>1, <2>2, Zenon
  <2>4. CASE remaining = {}
    BY <1>8, <1>9, <2>3, <2>4, Zenon DEF SeenIsHeld
  <2>5. CASE remaining # {}
    <3>1. TxsOf(rest \cup {e}) = TxsOf(rest) \cup e.txs
      BY TxsOfAdd, Zenon
    <3>2. e.txs = remaining
      OBVIOUS
    <3> QED BY <1>8, <1>9, <2>3, <2>5, <3>1, <3>2, Zenon DEF SeenIsHeld
  <2> QED BY <2>4, <2>5
<1>15. HeldOnce' /\ HeldInKeyOrder'
  BY <1>8, <1>9 DEF HeldOnce, HeldInKeyOrder, InKeyOrder, Apart
<1>16. PostponedInFlight'
  <2>1. FlightTxs = {}
    BY <1>4, ElemsEmpty DEF FlightTxs, TxsOf
  <2>2. inFlightPostponed = {}
    BY <1>3, <2>1 DEF PostponedInFlight
  <2>3. postponedItem # NoItem => postponedItem.txs = {} /\ postponedItem \in Item
    BY <1>3, <2>2 DEF PostponedInFlight, QueueTypeOK
  <2>4. postponedItem = NoItem
    BY <2>3 DEF Item, Batch
  <2> QED BY <1>2, <2>2, <2>4 DEF PostponedInFlight
<1>17. QueueTypeOK'
  <2>1. txSeen' \in SUBSET Tx
    BY <1>2, <1>3 DEF QueueTypeOK
  <2>2. DOMAIN wal' \subseteq 1..(MaxKey - 1)
    BY <1>3, <1>12 DEF QueueTypeOK
  <2> QED BY <1>2, <1>3, <1>8, <1>12, <2>1, <2>2, Zenon DEF QueueTypeOK
<1>18. FreshKeys' /\ RestartOK'
  BY <1>2, <1>3, <1>4, <1>12, Zenon DEF FreshKeys, RestartOK
<1> QED BY <1>13, <1>14, <1>15, <1>16, <1>17, <1>18 DEF IndInv

-----------------------------------------------------------------------------
(* Every step of the queue preserves the invariant.                        *)
LEMMA NextInv == IndInv /\ [QueueNext]_queueVars => IndInv'
<1> SUFFICES ASSUME IndInv, [QueueNext]_queueVars PROVE IndInv'
  OBVIOUS
<1>1. ASSUME NEW batch \in Batch, AddBatch(batch) PROVE IndInv'
  BY <1>1, AddBatchInv
<1>2. ASSUME Drain PROVE IndInv'
  BY <1>2, DrainInv
<1>3. ASSUME NEW txs \in SUBSET FlightTxs, SetPostponed(txs) PROVE IndInv'
  BY <1>3, SetPostponedInv
<1>4. ASSUME AckDeleteFails PROVE IndInv'
  BY <1>4, AckDeleteFailsInv
<1>5. ASSUME Ack PROVE IndInv'
  BY <1>5, AckInv
<1>6. ASSUME Crash PROVE IndInv'
  BY <1>6, CrashInv, Zenon
<1>7. ASSUME Restart PROVE IndInv'
  BY <1>7, PassInv, LoadEntryInv, MigrateEntryInv, MigrateCrashInv DEF Restart
<1>8. ASSUME NEW included \in SUBSET Tx, DropIncluded(included) PROVE IndInv'
  BY <1>8, DropIncludedInv
<1>9. ASSUME ReconcileDone PROVE IndInv'
  BY <1>9, PassInv
<1>10. ASSUME UNCHANGED queueVars PROVE IndInv'
  <2> USE DEF queueVars, durableVars, memoryVars, restartVars, seqVars
  <2>1. WriteAhead' /\ SeenIsHeld' /\ HeldOnce' /\ HeldInKeyOrder' /\ PostponedInFlight'
    BY <1>10, SameBatches
  <2>2. QueueTypeOK' /\ FreshKeys' /\ RestartOK'
    BY <1>10 DEF IndInv, QueueTypeOK, FreshKeys, RestartOK, postponeVars
  <2> QED BY <2>1, <2>2 DEF IndInv
<1> QED BY <1>1, <1>2, <1>3, <1>4, <1>5, <1>6, <1>7, <1>8, <1>9, <1>10 DEF QueueNext

(* The inductive invariant holds in every state of the queue, under any    *)
(* caller, any crashes and any failures of the best-effort writes.         *)
THEOREM QueueInductive == QueueSpec => []IndInv
BY InitInv, NextInv, PTL DEF QueueSpec

(* Types: in particular no key in use reaches either end of the key space. *)
THEOREM QueueTypeCorrect == QueueSpec => []QueueTypeOK
<1>1. IndInv => QueueTypeOK
  BY Zenon DEF IndInv
<1> QED BY <1>1, QueueInductive, PTL

(* Write-ahead: no batch in memory, drained or not, is without the entry   *)
(* of the datastore that covers it.                                        *)
THEOREM NothingOnlyInMemory == QueueSpec => []WriteAhead
<1>1. IndInv => WriteAhead
  BY Zenon DEF IndInv
<1> QED BY <1>1, QueueInductive, PTL

(* The dedup set of AddBatch and Load is exact, and so no transaction is   *)
(* in two batches.                                                         *)
THEOREM DedupExact == QueueSpec => [](SeenIsHeld /\ HeldOnce)
<1>1. IndInv => SeenIsHeld /\ HeldOnce
  BY Zenon DEF IndInv
<1> QED BY <1>1, QueueInductive, PTL

(* Order and numbering: batches are held in key order, and the numbers     *)
(* still to be handed out on both sides are unused.                        *)
THEOREM KeysOrderedAndFresh == QueueSpec => [](HeldInKeyOrder /\ FreshKeys)
<1>1. IndInv => HeldInKeyOrder /\ FreshKeys
  BY Zenon DEF IndInv
<1> QED BY <1>1, QueueInductive, PTL

(* A verdict that Ack has persisted is still the verdict on what is in     *)
(* flight, whichever calls came between.                                   *)
THEOREM VerdictStays == QueueSpec => []PostponedInFlight
<1>1. IndInv => PostponedInFlight
  BY Zenon DEF IndInv
<1> QED BY <1>1, QueueInductive, PTL

-----------------------------------------------------------------------------
(* Where clean-up writes do not fail, the datastore holds nothing that     *)
(* memory does not, apart from what a restart has yet to visit: the        *)
(* converse of WriteAhead.                                                 *)
WalTxs == UNION {wal[k] : k \in DOMAIN wal}
LegacyTxs == UNION {legacy[k] : k \in DOMAIN legacy}

(* The transactions of the entries a reload has not read yet.              *)
UnreadTxs == UNION {wal[k] : k \in DOMAIN wal \cap todo}

(* An entry of the WAL is the image of a batch in memory, or of the        *)
(* postponed batch of an Ack that failed half way.                         *)
Covered(k) ==
    \/ \E it \in Elems(Held) : it.key = k /\ it.txs = wal[k]
    \/ postponedItem # NoItem /\ postponedItem.key = k

WalExact ==
    /\ mode = "loading" => \A k \in DOMAIN wal \ todo : Covered(k)
    /\ mode \in {"migrating", "reconciling", "up"} => \A k \in DOMAIN wal : Covered(k)
    /\ mode = "migrating" => DOMAIN legacy \subseteq todo
    /\ mode \in {"reconciling", "up"} => DOMAIN legacy = {}

(* AddBatch writes the entry it queues, under a number of its own.         *)
LEMMA AddBatchExact ==
    ASSUME IndInv, WalExact, NEW batch \in Batch, AddBatch(batch)
    PROVE  WalExact'
<1> DEFINE unique == batch \ txSeen
           e == [key |-> nextAddSeq, txs |-> unique]
<1>1. /\ mode = "up" /\ mode' = mode /\ legacy' = legacy
      /\ wal' = With(wal, nextAddSeq, unique)
      /\ queue' = Append(queue, e) /\ inFlight' = inFlight
      /\ postponedItem' = postponedItem
      /\ unique \in Batch /\ nextAddSeq \in 1..(MaxKey - 1)
  BY KeyAssumption DEF AddBatch, restartVars, postponeVars, IndInv, QueueTypeOK, Batch
<1>2. e \in Item /\ e.key = nextAddSeq /\ e.txs = unique
  BY <1>1, KeyAssumption DEF Item, Key
<1> HIDE DEF unique, e
<1>3. Elems(Held') = Elems(Held) \cup {e}
  <2>1. queue \in Seq(Item) /\ inFlight \in Seq(Item)
    BY Zenon DEF IndInv, QueueTypeOK
  <2>2. queue' \in Seq(Item) /\ Elems(queue') = Elems(queue) \cup {e}
    BY <1>1, <1>2, <2>1, Snoc, Zenon
  <2>3. Elems(Held') = Elems(inFlight) \cup Elems(queue')
    <3>1. Held' = inFlight \o queue'
      BY <1>1, Zenon DEF Held
    <3> QED BY <2>1, <2>2, <3>1, ElemsConcat
  <2> QED BY <2>2, <2>3, HeldParts, Zenon
<1>4. \A k \in DOMAIN wal : k # nextAddSeq
  BY <1>1, KeyAssumption DEF IndInv, FreshKeys, QueueTypeOK
<1>5. /\ DOMAIN wal' = DOMAIN wal \cup {nextAddSeq} /\ wal'[nextAddSeq] = unique
      /\ \A k \in DOMAIN wal : wal'[k] = wal[k]
  BY <1>1, <1>4, Zenon DEF With
<1>6. \A k \in DOMAIN wal : Covered(k)
  BY <1>1, Zenon DEF WalExact
<1>7. \A k \in DOMAIN wal' : Covered(k)'
  BY <1>1, <1>2, <1>3, <1>5, <1>6 DEF Covered
<1> QED BY <1>1, <1>7, Zenon DEF WalExact

(* Drain moves the border between queue and inFlight, and deletes the      *)
(* postponed entry it forgets.                                             *)
LEMMA DrainHeld ==
    ASSUME IndInv, Drain
    PROVE  Held' = Held
<1>1. PICK n \in 0..Len(Held) : /\ inFlight' = SubSeq(Held, 1, n)
                                /\ queue' = SubSeq(Held, n + 1, Len(Held))
  BY Zenon DEF Drain
<1>2. Held \in Seq(Item) /\ Len(Held) \in Nat
  BY HeldParts, LenProperties, Zenon
<1>3. 1 \in 1..Len(Held) + 1 /\ n \in 1 - 1..Len(Held) /\ Len(Held) \in n..Len(Held)
  BY <1>2
<1>4. SubSeq(Held, 1, n) \o SubSeq(Held, n + 1, Len(Held)) = SubSeq(Held, 1, Len(Held))
  BY <1>2, <1>3, ConcatAdjacentSubSeq, Zenon
<1> QED BY <1>1, <1>2, <1>4, SubSeqFull, Zenon DEF Held

LEMMA DrainExact ==
    ASSUME IndInv, WalExact, ~WritesMayFail, Drain
    PROVE  WalExact'
<1>1. /\ mode = "up" /\ mode' = mode /\ legacy' = legacy /\ RollbackPostponed
  BY Zenon DEF Drain, restartVars
<1>2. Held' = Held
  BY DrainHeld, Zenon
<1>3. \A k \in DOMAIN wal : Covered(k)
  BY <1>1, Zenon DEF WalExact
<1>4. \/ wal' = wal /\ postponedItem' = postponedItem
      \/ wal' = wal /\ postponedItem = NoItem
      \/ wal' = Without(wal, postponedItem.key)
  BY <1>1, Zenon DEF RollbackPostponed, BestEffort, postponeVars
<1>5. \A k \in DOMAIN wal' : Covered(k)'
  <2>1. CASE wal' = wal /\ postponedItem' = postponedItem
    BY <1>2, <1>3, <2>1, Zenon DEF Covered
  <2>2. CASE wal' = wal /\ postponedItem = NoItem
    BY <1>2, <1>3, <2>2, Zenon DEF Covered
  <2>3. CASE wal' = Without(wal, postponedItem.key)
    <3>1. \A k \in DOMAIN wal' : k \in DOMAIN wal /\ k # postponedItem.key /\ wal'[k] = wal[k]
      BY <2>3, Zenon DEF Without
    <3> QED BY <1>2, <1>3, <3>1 DEF Covered
  <2> QED BY <1>4, <2>1, <2>2, <2>3, Zenon
<1> QED BY <1>1, <1>5, Zenon DEF WalExact

(* SetPostponed and an Ack that fails half way keep every batch; the       *)
(* latter's new entry is the postponed one.                                *)
LEMMA SetPostponedExact ==
    ASSUME IndInv, WalExact, NEW txs, SetPostponed(txs)
    PROVE  WalExact'
<1>1. /\ wal' = wal /\ legacy' = legacy /\ queue' = queue /\ inFlight' = inFlight
      /\ postponedItem' = postponedItem /\ mode' = mode /\ todo' = todo
  BY Zenon DEF SetPostponed, durableVars, restartVars
<1>2. Held' = Held
  BY <1>1, Zenon DEF Held
<1> QED BY <1>1, <1>2, Zenon DEF WalExact, Covered

LEMMA AckDeleteFailsExact ==
    ASSUME IndInv, WalExact, AckDeleteFails
    PROVE  WalExact'
<1>1. /\ mode = "up" /\ MustPersistPostponed /\ nextPrependSeq > 0
      /\ wal' = With(wal, nextPrependSeq, inFlightPostponed)
      /\ postponedItem' = [key |-> nextPrependSeq, txs |-> inFlightPostponed]
      /\ legacy' = legacy /\ queue' = queue /\ inFlight' = inFlight
      /\ mode' = mode
  BY Zenon DEF AckDeleteFails, restartVars
<1>2. nextPrependSeq \in 1..(MaxKey - 1) /\ \A k \in DOMAIN wal : nextPrependSeq < k /\ k \in Int
  BY <1>1, PostponedFacts, Zenon
<1>3. Held' = Held
  BY <1>1, Zenon DEF Held
<1>4. postponedItem' # NoItem /\ postponedItem'.key = nextPrependSeq
  BY <1>1, <1>2 DEF NoItem
<1>5. \A k \in DOMAIN wal : \E it \in Elems(Held) : it.key = k /\ it.txs = wal[k]
  BY <1>1, Zenon DEF WalExact, Covered, MustPersistPostponed
<1>6. /\ DOMAIN wal' = DOMAIN wal \cup {nextPrependSeq}
      /\ \A k \in DOMAIN wal : k # nextPrependSeq => wal'[k] = wal[k]
  BY <1>1, Zenon DEF With
<1>7. \A k \in DOMAIN wal' : Covered(k)'
  BY <1>3, <1>4, <1>5, <1>6 DEF Covered
<1> QED BY <1>1, <1>7, Zenon DEF WalExact

(* Ack deletes the entries of what was in flight, and the postponed batch  *)
(* joins the queue with the entry it has.                                  *)
LEMMA AckExact ==
    ASSUME IndInv, WalExact, Ack
    PROVE  WalExact'
<1> DEFINE persist == MustPersistPostponed
           item == IF persist THEN [key |-> nextPrependSeq, txs |-> inFlightPostponed]
                   ELSE postponedItem
           withItem == IF persist THEN With(wal, item.key, item.txs) ELSE wal
<1>1. /\ mode = "up" /\ (persist => nextPrependSeq > 0)
      /\ wal' = [k \in DOMAIN withItem \ AckedKeys |-> withItem[k]]
      /\ queue' = IF item = NoItem THEN queue ELSE <<item>> \o queue
      /\ inFlight' = <<>>
      /\ legacy' = legacy /\ mode' = mode
  BY Zenon DEF Ack, restartVars
<1>2. QueueTypeOK /\ PostponedInFlight
  BY Zenon DEF IndInv
<1>3. item # NoItem => item \in Item
  <2>1. CASE persist
    <3>1. item = [key |-> nextPrependSeq, txs |-> inFlightPostponed]
      BY <2>1, Zenon
    <3> QED BY <1>1, <2>1, <3>1, PostponedFacts, Zenon
  <2>2. CASE ~persist
    BY <1>2, <2>2, Zenon DEF QueueTypeOK
  <2> QED BY <2>1, <2>2, Zenon
<1>4. \A k \in DOMAIN wal : k \notin AckedKeys =>
        \/ \E it \in Elems(queue) : it.key = k /\ it.txs = wal[k]
        \/ postponedItem # NoItem /\ postponedItem.key = k /\ postponedItem.txs = wal[k]
  <2>1. \A k \in DOMAIN wal : Covered(k)
    BY <1>1, Zenon DEF WalExact
  <2>2. postponedItem # NoItem => wal[postponedItem.key] = postponedItem.txs
    BY <1>2, Zenon DEF PostponedInFlight
  <2>3. Elems(Held) = Elems(inFlight) \cup Elems(queue)
    BY HeldParts, Zenon
  <2> QED BY <2>1, <2>2, <2>3, Zenon DEF Covered, AckedKeys
<1>5. \A k \in DOMAIN wal' :
        \/ \E it \in Elems(queue) : it.key = k /\ it.txs = wal'[k]
        \/ item # NoItem /\ item.key = k /\ item.txs = wal'[k]
  <2>1. CASE persist
    <3>1. /\ item.key = nextPrependSeq /\ item.txs = inFlightPostponed
          /\ withItem = With(wal, nextPrependSeq, inFlightPostponed)
      BY <2>1, Zenon
    <3>2. postponedItem = NoItem
      BY <2>1, Zenon DEF MustPersistPostponed
    <3>3. item # NoItem
      BY <1>1, <2>1 DEF NoItem
    <3>4. \A k \in DOMAIN wal' : /\ k \notin AckedKeys
                                 /\ k \in DOMAIN wal \/ k = nextPrependSeq
                                 /\ wal'[k] = IF k = nextPrependSeq THEN inFlightPostponed
                                              ELSE wal[k]
      <4> HIDE DEF item, persist, withItem
      <4> QED BY <1>1, <3>1, Zenon DEF With
    <3> QED BY <1>4, <3>1, <3>2, <3>3, <3>4, Zenon
  <2>2. CASE ~persist
    <3>1. item = postponedItem /\ withItem = wal
      BY <2>2, Zenon
    <3>2. \A k \in DOMAIN wal' : k \notin AckedKeys /\ k \in DOMAIN wal /\ wal'[k] = wal[k]
      BY <1>1, <3>1, Zenon
    <3> QED BY <1>4, <3>1, <3>2
  <2> QED BY <2>1, <2>2, Zenon
<1> HIDE DEF item, persist, withItem
<1>6. /\ queue' \in Seq(Item)
      /\ Elems(queue') = IF item = NoItem THEN Elems(queue) ELSE {item} \cup Elems(queue)
  <2>1. queue \in Seq(Item)
    BY <1>2, Zenon DEF QueueTypeOK
  <2>2. CASE item = NoItem
    BY <1>1, <2>1, <2>2, Zenon
  <2>3. CASE item # NoItem
    <3>1. queue' = <<item>> \o queue /\ item \in Item
      BY <1>1, <1>3, <2>3, Zenon
    <3> QED BY <2>1, <2>3, <3>1, Cons, Zenon
  <2> QED BY <2>2, <2>3, Zenon
<1>7. Held' = queue'
  BY <1>1, <1>6, HeldIsQueue, Zenon DEF Held
<1>8. \A k \in DOMAIN wal' : Covered(k)'
  BY <1>5, <1>6, <1>7, Zenon DEF Covered
<1> QED BY <1>1, <1>8, Zenon DEF WalExact

(* An entry read back during a restart is queued as it is left on disk.    *)
LEMMA EnqueueExact ==
    ASSUME IndInv, mode # "up", ~WritesMayFail,
           NEW batch \in Batch, NEW key \in 1..(MaxKey - 1), NEW store,
           key \in DOMAIN store, store[key] = batch,
           DedupAndEnqueue(batch, key, store), inFlight' = inFlight
    PROVE  /\ txSeen' = txSeen \cup batch
           /\ DOMAIN store \ {key} \subseteq DOMAIN wal' /\ DOMAIN wal' \subseteq DOMAIN store
           /\ \A k \in DOMAIN store : k # key => wal'[k] = store[k]
           /\ Elems(Held) \subseteq Elems(Held')
           /\ key \in DOMAIN wal' => \E it \in Elems(Held') : it.key = key /\ it.txs = wal'[key]
<1> DEFINE filtered == batch \ txSeen
           entry == [key |-> key, txs |-> filtered]
<1>1. /\ txSeen' = txSeen \cup filtered
      /\ queue' = IF filtered = {} THEN queue ELSE Append(queue, entry)
      /\ wal' = CASE filtered = {}    -> Without(store, key)
                  [] filtered = batch -> store
                  [] OTHER            -> With(store, key, filtered)
  BY DEF DedupAndEnqueue, Enqueue, BestEffort
<1>2. inFlight = <<>> /\ queue \in Seq(Item) /\ Held = queue /\ txSeen' = txSeen \cup batch
  BY <1>1, HeldIsQueue, Zenon DEF IndInv, RestartOK, QueueTypeOK, Held
<1>3. filtered # {} => entry \in Item /\ entry.key = key /\ entry.txs = filtered
  BY KeyAssumption DEF Item, Key, Batch
<1>4. /\ queue' \in Seq(Item)
      /\ Elems(queue') = IF filtered = {} THEN Elems(queue) ELSE Elems(queue) \cup {entry}
  <2>1. CASE filtered = {}
    BY <1>1, <1>2, <2>1, Zenon
  <2>2. CASE filtered # {}
    <3>1. queue' = Append(queue, entry) /\ entry \in Item
      BY <1>1, <1>3, <2>2, Zenon
    <3> HIDE DEF entry
    <3> QED BY <1>2, <2>2, <3>1, Snoc, Zenon
  <2> QED BY <2>1, <2>2, Zenon
<1>5. Held' = queue'
  BY <1>2, <1>4, HeldIsQueue, Zenon DEF Held
<1> HIDE DEF entry, filtered
<1>6. CASE filtered = {}
  <2>1. wal' = Without(store, key)
    BY <1>1, <1>6, Zenon DEF Batch
  <2> QED BY <1>2, <1>4, <1>5, <1>6, <2>1, Zenon DEF Without
<1>7. CASE filtered # {}
  <2>1. (wal' = store /\ filtered = batch) \/ wal' = With(store, key, filtered)
    BY <1>1, <1>7, Zenon
  <2>2. /\ DOMAIN wal' = DOMAIN store /\ wal'[key] = filtered
        /\ \A k \in DOMAIN store : k # key => wal'[k] = store[k]
    BY <2>1, Zenon DEF With
  <2>3. entry \in Elems(Held') /\ entry.key = key /\ entry.txs = wal'[key]
    BY <1>3, <1>4, <1>5, <1>7, <2>2, Zenon
  <2>4. Elems(Held) \subseteq Elems(Held')
    BY <1>2, <1>4, <1>5, Zenon
  <2> QED BY <1>2, <2>2, <2>3, <2>4, Zenon
<1> QED BY <1>6, <1>7, Zenon

(* What LoadEntry does, where its clean-up writes do not fail.             *)
LEMMA LoadEntryStep ==
    ASSUME IndInv, ~WritesMayFail, LoadEntry
    PROVE  \E k \in todo :
             /\ mode = "loading" /\ mode' = mode /\ legacy' = legacy
             /\ k \in DOMAIN wal /\ todo' = todo \ {k} /\ postponedItem' = postponedItem
             /\ txSeen' = txSeen \cup wal[k]
             /\ DOMAIN wal \ {k} \subseteq DOMAIN wal' /\ DOMAIN wal' \subseteq DOMAIN wal
             /\ \A j \in DOMAIN wal : j # k => wal'[j] = wal[j]
             /\ Elems(Held) \subseteq Elems(Held')
             /\ k \in DOMAIN wal' => \E it \in Elems(Held') : it.key = k /\ it.txs = wal'[k]
<1>1. PICK k \in todo :
        /\ mode = "loading" /\ DedupAndEnqueue(wal[k], k, wal) /\ todo' = todo \ {k}
        /\ inFlight' = inFlight /\ legacy' = legacy /\ mode' = mode
        /\ postponedItem' = postponedItem
  BY Zenon DEF LoadEntry, postponeVars
<1>2. k \in DOMAIN wal /\ k \in 1..(MaxKey - 1) /\ wal[k] \in Batch
  BY <1>1, Zenon DEF IndInv, RestartOK, QueueTypeOK
<1>3. /\ txSeen' = txSeen \cup wal[k]
      /\ DOMAIN wal \ {k} \subseteq DOMAIN wal' /\ DOMAIN wal' \subseteq DOMAIN wal
      /\ \A j \in DOMAIN wal : j # k => wal'[j] = wal[j]
      /\ Elems(Held) \subseteq Elems(Held')
      /\ k \in DOMAIN wal' => \E it \in Elems(Held') : it.key = k /\ it.txs = wal'[k]
  BY <1>1, <1>2, EnqueueExact, Zenon
<1> QED BY <1>1, <1>2, <1>3, Zenon

LEMMA LoadEntryExact ==
    ASSUME IndInv, WalExact, ~WritesMayFail, LoadEntry
    PROVE  WalExact'
<1>1. PICK k \in todo :
             /\ mode = "loading" /\ mode' = mode
             /\ k \in DOMAIN wal /\ todo' = todo \ {k} /\ postponedItem' = postponedItem
             /\ DOMAIN wal' \subseteq DOMAIN wal
             /\ \A j \in DOMAIN wal : j # k => wal'[j] = wal[j]
             /\ Elems(Held) \subseteq Elems(Held')
             /\ k \in DOMAIN wal' => \E it \in Elems(Held') : it.key = k /\ it.txs = wal'[k]
  BY LoadEntryStep, Zenon
<1>2. \A j \in DOMAIN wal \ todo : Covered(j)
  BY <1>1, Zenon DEF WalExact
<1>3. ASSUME NEW j \in DOMAIN wal' \ todo' PROVE Covered(j)'
  <2>1. CASE j = k
    BY <1>1, <1>3, <2>1, Zenon DEF Covered
  <2>2. CASE j # k
    <3>1. j \in DOMAIN wal \ todo /\ wal'[j] = wal[j]
      BY <1>1, <1>3, <2>2, Zenon
    <3> QED BY <1>1, <1>2, <3>1, Zenon DEF Covered
  <2> QED BY <2>1, <2>2, Zenon
<1> QED BY <1>1, <1>3, Zenon DEF WalExact

(* What MigrateEntry does, where its clean-up writes do not fail.          *)
LEMMA MigrateEntryStep ==
    ASSUME IndInv, ~WritesMayFail, MigrateEntry
    PROVE  \E k \in todo :
             /\ mode = "migrating" /\ mode' = mode /\ legacy' = Without(legacy, k)
             /\ k \in DOMAIN legacy /\ todo' = todo \ {k} /\ postponedItem' = postponedItem
             /\ txSeen' = txSeen \cup legacy[k]
             /\ DOMAIN wal' \subseteq DOMAIN wal \cup {nextAddSeq}
             /\ \A j \in DOMAIN wal : j # nextAddSeq /\ j \in DOMAIN wal' /\ wal'[j] = wal[j]
             /\ Elems(Held) \subseteq Elems(Held')
             /\ nextAddSeq \in DOMAIN wal' =>
                  \E it \in Elems(Held') : it.key = nextAddSeq /\ it.txs = wal'[nextAddSeq]
<1>1. PICK k \in todo :
        /\ mode = "migrating" /\ nextAddSeq < MaxKey
        /\ legacy' \in BestEffort(legacy, Without(legacy, k))
        /\ DedupAndEnqueue(legacy[k], nextAddSeq, With(wal, nextAddSeq, legacy[k]))
        /\ todo' = todo \ {k} /\ mode' = mode /\ inFlight' = inFlight
        /\ postponedItem' = postponedItem
  BY Zenon DEF MigrateEntry, postponeVars
<1> DEFINE store == With(wal, nextAddSeq, legacy[k])
<1>2. /\ legacy[k] \in Batch
      /\ nextAddSeq \in 1..(MaxKey - 1)
      /\ DOMAIN store = DOMAIN wal \cup {nextAddSeq}
      /\ store[nextAddSeq] = legacy[k]
      /\ \A j \in DOMAIN wal : j < nextAddSeq /\ store[j] = wal[j]
  BY <1>1, MigratedStore, Zenon
<1>3. legacy' = Without(legacy, k) /\ k \in DOMAIN legacy
  BY <1>1, Zenon DEF BestEffort, IndInv, RestartOK
<1>4. DedupAndEnqueue(legacy[k], nextAddSeq, store)
  BY <1>1, Zenon
<1> HIDE DEF store
<1>5. /\ txSeen' = txSeen \cup legacy[k]
      /\ DOMAIN store \ {nextAddSeq} \subseteq DOMAIN wal' /\ DOMAIN wal' \subseteq DOMAIN store
      /\ \A j \in DOMAIN store : j # nextAddSeq => wal'[j] = store[j]
      /\ Elems(Held) \subseteq Elems(Held')
      /\ nextAddSeq \in DOMAIN wal' =>
           \E it \in Elems(Held') : it.key = nextAddSeq /\ it.txs = wal'[nextAddSeq]
  BY <1>1, <1>2, <1>4, EnqueueExact, Zenon
<1>6. \A j \in DOMAIN wal : j # nextAddSeq
  BY <1>2
<1>7. \A j \in DOMAIN wal : j # nextAddSeq /\ j \in DOMAIN wal' /\ wal'[j] = wal[j]
  BY <1>2, <1>5, <1>6, Zenon
<1> QED BY <1>1, <1>2, <1>3, <1>5, <1>7, Zenon

LEMMA MigrateEntryExact ==
    ASSUME IndInv, WalExact, ~WritesMayFail, MigrateEntry
    PROVE  WalExact'
<1>1. PICK k \in todo :
             /\ mode = "migrating" /\ mode' = mode /\ legacy' = Without(legacy, k)
             /\ todo' = todo \ {k} /\ postponedItem' = postponedItem
             /\ DOMAIN wal' \subseteq DOMAIN wal \cup {nextAddSeq}
             /\ \A j \in DOMAIN wal : wal'[j] = wal[j]
             /\ Elems(Held) \subseteq Elems(Held')
             /\ nextAddSeq \in DOMAIN wal' =>
                  \E it \in Elems(Held') : it.key = nextAddSeq /\ it.txs = wal'[nextAddSeq]
  BY MigrateEntryStep, Zenon
<1>2. (\A j \in DOMAIN wal : Covered(j)) /\ DOMAIN legacy \subseteq todo
  BY <1>1, Zenon DEF WalExact
<1>3. ASSUME NEW j \in DOMAIN wal' PROVE Covered(j)'
  <2>1. CASE j = nextAddSeq
    BY <1>1, <1>3, <2>1, Zenon DEF Covered
  <2>2. CASE j # nextAddSeq
    <3>1. j \in DOMAIN wal /\ wal'[j] = wal[j]
      BY <1>1, <1>3, <2>2, Zenon
    <3> QED BY <1>1, <1>2, <3>1 DEF Covered
  <2> QED BY <2>1, <2>2, Zenon
<1>4. DOMAIN legacy' \subseteq todo'
  BY <1>1, <1>2, Zenon DEF Without
<1> QED BY <1>1, <1>3, <1>4, Zenon DEF WalExact

(* What DropIncluded does to one entry, in memory as on disk.              *)
LEMMA DropIncludedStep ==
    ASSUME IndInv, NEW included, DropIncluded(included)
    PROVE  \E it \in Elems(queue) :
             LET remaining == it.txs \ included
                 e == [key |-> it.key, txs |-> remaining]
             IN  /\ mode = "reconciling" /\ mode' = mode /\ legacy' = legacy
                 /\ todo' = todo \ {it.key} /\ postponedItem' = postponedItem
                 /\ txSeen' = txSeen \ (it.txs \cap included)
                 /\ Held = queue /\ Held' = queue' /\ inFlight' = inFlight
                 /\ \A o \in Elems(queue) \ {it} : o.key # it.key
                 /\ remaining = {} => /\ wal' = Without(wal, it.key)
                                      /\ Elems(queue') = Elems(queue) \ {it}
                 /\ remaining # {} => /\ wal' = IF remaining = it.txs THEN wal
                                                ELSE With(wal, it.key, remaining)
                                      /\ Elems(queue') = (Elems(queue) \ {it}) \cup {e}
<1>1. PICK i \in 1..Len(queue) :
        LET it == queue[i]
            remaining == Remaining(it, included)
        IN  /\ mode = "reconciling"
            /\ txSeen' = txSeen \ (it.txs \ remaining)
            /\ wal' = Rewritten(it, remaining)
            /\ queue' = IF remaining = {}
                        THEN SubSeq(queue, 1, i - 1) \o SubSeq(queue, i + 1, Len(queue))
                        ELSE [queue EXCEPT ![i] = [key |-> it.key, txs |-> remaining]]
            /\ todo' = todo \ {it.key}
            /\ UNCHANGED <<legacy, inFlight, postponeVars, mode>>
  BY Zenon DEF DropIncluded
<1> DEFINE it == queue[i]
           remaining == it.txs \ included
           e == [key |-> it.key, txs |-> remaining]
<1>2. /\ mode = "reconciling" /\ mode' = mode
      /\ txSeen' = txSeen \ (it.txs \ remaining)
      /\ wal' = Rewritten(it, remaining)
      /\ queue' = IF remaining = {}
                  THEN SubSeq(queue, 1, i - 1) \o SubSeq(queue, i + 1, Len(queue))
                  ELSE [queue EXCEPT ![i] = e]
      /\ todo' = todo \ {it.key}
      /\ legacy' = legacy /\ inFlight' = inFlight /\ postponedItem' = postponedItem
  BY <1>1, Zenon DEF Remaining, postponeVars
<1>3. inFlight = <<>> /\ queue \in Seq(Item) /\ Held = queue
  BY <1>2, HeldIsQueue, Zenon DEF IndInv, RestartOK, QueueTypeOK, Held
<1>4. InKeyOrder(queue) /\ Apart(queue) /\ Elems(queue) \subseteq Item
  BY <1>3, HeldParts, Zenon
<1>5. it \in Elems(queue) /\ it \in Item /\ it.txs # {}
  BY <1>3, <1>4 DEF Elems, Item, Batch
<1>6. remaining # {} => e \in Item /\ e.key = queue[i].key /\ e.txs \subseteq queue[i].txs
  BY <1>5, Zenon DEF Item, Batch
<1>7. ASSUME remaining = {}
      PROVE  /\ queue' \in Seq(Item) /\ wal' = Without(wal, it.key)
             /\ Elems(queue') = Elems(queue) \ {it}
  <2>1. queue' = SubSeq(queue, 1, i - 1) \o SubSeq(queue, i + 1, Len(queue))
    BY <1>2, <1>7, Zenon
  <2>2. wal' = Without(wal, it.key)
    BY <1>2, <1>5, <1>7, Zenon DEF Rewritten
  <2> QED BY <1>3, <1>4, <2>1, <2>2, RemoveAt, Zenon
<1>8. ASSUME remaining # {}
      PROVE  /\ queue' \in Seq(Item)
             /\ wal' = IF remaining = it.txs THEN wal ELSE With(wal, it.key, remaining)
             /\ Elems(queue') = (Elems(queue) \ {it}) \cup {e}
  <2>1. queue' = [queue EXCEPT ![i] = e]
    BY <1>2, <1>8, Zenon
  <2>2. wal' = IF remaining = it.txs THEN wal ELSE With(wal, it.key, remaining)
    <3> HIDE DEF remaining
    <3> QED BY <1>2, <1>8, Zenon DEF Rewritten
  <2>3. /\ [queue EXCEPT ![i] = e] \in Seq(Item)
        /\ Elems([queue EXCEPT ![i] = e]) = (Elems(queue) \ {queue[i]}) \cup {e}
    <3>1. e \in Item /\ e.key = queue[i].key /\ e.txs \subseteq queue[i].txs
      BY <1>6, <1>8, Zenon
    <3> HIDE DEF e
    <3> QED BY <1>3, <1>4, <3>1, ReplaceAt
  <2> HIDE DEF e, remaining
  <2> QED BY <2>1, <2>2, <2>3, Zenon
<1>9. Held' = queue'
  <2>1. queue' \in Seq(Item)
    BY <1>7, <1>8, Zenon
  <2> QED BY <1>2, <1>3, <2>1, HeldIsQueue, Zenon DEF Held
<1>10. \A o \in Elems(queue) \ {it} : o.key # it.key
  <2> SUFFICES ASSUME NEW j \in 1..Len(queue), queue[j] # it
               PROVE  queue[j].key # it.key
    BY Zenon DEF Elems
  <2>1. j < i \/ i < j
    OBVIOUS
  <2>2. queue[j].key < it.key \/ it.key < queue[j].key
    BY <1>4, <2>1, Zenon DEF InKeyOrder
  <2>3. queue[j].key \in Int /\ it.key \in Int
    BY <1>3, <1>5, ElemsTyped, Zenon DEF Elems
  <2> QED BY <2>2, <2>3
<1>11. txSeen' = txSeen \ (it.txs \cap included)
  BY <1>2, Zenon
<1> HIDE DEF it
<1> QED BY <1>2, <1>3, <1>5, <1>7, <1>8, <1>9, <1>10, <1>11, Zenon

LEMMA DropIncludedExact ==
    ASSUME IndInv, WalExact, NEW included, DropIncluded(included)
    PROVE  WalExact'
<1>1. PICK it \in Elems(queue) :
             LET remaining == it.txs \ included
                 e == [key |-> it.key, txs |-> remaining]
             IN  /\ mode = "reconciling" /\ mode' = mode /\ legacy' = legacy
                 /\ todo' = todo \ {it.key} /\ postponedItem' = postponedItem
                 /\ txSeen' = txSeen \ (it.txs \cap included)
                 /\ Held = queue /\ Held' = queue' /\ inFlight' = inFlight
                 /\ \A o \in Elems(queue) \ {it} : o.key # it.key
                 /\ remaining = {} => /\ wal' = Without(wal, it.key)
                                      /\ Elems(queue') = Elems(queue) \ {it}
                 /\ remaining # {} => /\ wal' = IF remaining = it.txs THEN wal
                                                ELSE With(wal, it.key, remaining)
                                      /\ Elems(queue') = (Elems(queue) \ {it}) \cup {e}
  BY DropIncludedStep, Zenon
<1> DEFINE remaining == it.txs \ included
           e == [key |-> it.key, txs |-> remaining]
<1>2. \A k \in DOMAIN wal : Covered(k)
  BY <1>1, Zenon DEF WalExact
<1>3. it.key \in DOMAIN wal
  BY <1>1, Zenon DEF IndInv, WriteAhead
<1>4. CASE remaining = {}
  <2>1. \A k \in DOMAIN wal' : k \in DOMAIN wal /\ k # it.key /\ wal'[k] = wal[k]
    BY <1>1, <1>4, Zenon DEF Without
  <2>2. \A o \in Elems(Held) : o.key # it.key => o \in Elems(Held')
    BY <1>1, <1>4, Zenon
  <2>3. \A k \in DOMAIN wal' : Covered(k)'
    BY <1>1, <1>2, <2>1, <2>2 DEF Covered
  <2> QED BY <1>1, <2>3, Zenon DEF WalExact
<1>5. CASE remaining # {}
  <2>1. /\ wal' = IF remaining = it.txs THEN wal ELSE With(wal, it.key, remaining)
        /\ Elems(Held') = (Elems(Held) \ {it}) \cup {e}
    BY <1>1, <1>5, Zenon
  <2>2. e.key = it.key /\ e.txs = remaining
    BY Zenon
  <2> HIDE DEF e, remaining
  <2>3. \A o \in Elems(Held) : o.key # it.key => o \in Elems(Held')
    BY <2>1, Zenon
  <2>4. /\ DOMAIN wal' = DOMAIN wal
        /\ \A k \in DOMAIN wal : k # it.key => wal'[k] = wal[k]
    BY <1>3, <2>1, Zenon DEF With
  <2>5. Covered(it.key)'
    <3>1. CASE remaining # it.txs
      <4>1. wal' = With(wal, it.key, remaining)
        BY <2>1, <3>1, Zenon
      <4>2. wal'[it.key] = remaining
        BY <4>1, Zenon DEF With
      <4> QED BY <2>1, <2>2, <4>2, Zenon DEF Covered
    <3>2. CASE remaining = it.txs
      <4>1. wal' = wal
        BY <2>1, <3>2, Zenon
      <4>2. CASE \E o \in Elems(Held) : o.key = it.key /\ o.txs = wal[it.key]
        <5>1. it.txs = wal[it.key]
          BY <1>1, <4>2, Zenon
        <5> QED BY <2>1, <2>2, <3>2, <4>1, <5>1, Zenon DEF Covered
      <4>3. CASE postponedItem # NoItem /\ postponedItem.key = it.key
        BY <1>1, <4>3, Zenon DEF Covered
      <4> QED BY <1>2, <1>3, <4>2, <4>3, Zenon DEF Covered
    <3> QED BY <3>1, <3>2, Zenon
  <2>6. \A k \in DOMAIN wal : k # it.key => Covered(k)'
    BY <1>1, <1>2, <2>3, <2>4 DEF Covered
  <2>7. \A k \in DOMAIN wal' : Covered(k)'
    BY <2>4, <2>5, <2>6, Zenon
  <2> QED BY <1>1, <2>7, Zenon DEF WalExact
<1> QED BY <1>4, <1>5, Zenon

(* The other steps of a restart, and a crash.                              *)
LEMMA PassExact ==
    ASSUME IndInv, WalExact, ~WritesMayFail,
           \/ Crash \/ Load \/ LoadDone \/ MigrateSkip \/ MigrateCrash \/ MigrateDone
           \/ ReconcileDone
    PROVE  WalExact'
<1>1. CASE Crash \/ MigrateCrash
  BY <1>1, Zenon DEF Crash, MigrateCrash, LoseMemory, WalExact
<1>2. CASE Load
  BY <1>2, Zenon DEF Load, durableVars, WalExact
<1>3. CASE MigrateSkip
  BY <1>3, Zenon DEF MigrateSkip
<1>4. CASE LoadDone \/ MigrateDone \/ ReconcileDone
  <2>1. /\ wal' = wal /\ legacy' = legacy /\ Held' = Held /\ postponedItem' = postponedItem
        /\ todo = {}
    BY <1>4, Zenon DEF LoadDone, MigrateDone, ReconcileDone, durableVars, memoryVars, postponeVars, Held
  <2>2. \A k : Covered(k)' <=> Covered(k)
    BY <2>1, Zenon DEF Covered
  <2>3. /\ mode \in {"loading", "migrating", "reconciling"}
        /\ mode = "loading" => mode' = "migrating" /\ todo' = DOMAIN legacy
        /\ mode = "migrating" => mode' = "reconciling"
        /\ mode = "reconciling" => mode' = "up"
    BY <1>4, Zenon DEF LoadDone, MigrateDone, ReconcileDone
  <2> QED BY <2>1, <2>2, <2>3, Zenon DEF WalExact
<1> QED BY <1>1, <1>2, <1>3, <1>4, Zenon

(* Every step of the queue keeps the datastore exact.                      *)
LEMMA NextExact ==
    ASSUME IndInv, WalExact, ~WritesMayFail, [QueueNext]_queueVars
    PROVE  WalExact'
<1>1. ASSUME NEW batch \in Batch, AddBatch(batch) PROVE WalExact'
  BY <1>1, AddBatchExact, Zenon
<1>2. ASSUME Drain PROVE WalExact'
  BY <1>2, DrainExact, Zenon
<1>3. ASSUME NEW txs \in SUBSET FlightTxs, SetPostponed(txs) PROVE WalExact'
  BY <1>3, SetPostponedExact, Zenon
<1>4. ASSUME AckDeleteFails PROVE WalExact'
  BY <1>4, AckDeleteFailsExact, Zenon
<1>5. ASSUME Ack PROVE WalExact'
  BY <1>5, AckExact, Zenon
<1>6. ASSUME Crash \/ ReconcileDone PROVE WalExact'
  BY <1>6, PassExact, Zenon
<1>7. ASSUME Restart PROVE WalExact'
  BY <1>7, LoadEntryExact, MigrateEntryExact, PassExact, Zenon DEF Restart
<1>8. ASSUME NEW included \in SUBSET Tx, DropIncluded(included) PROVE WalExact'
  BY <1>8, DropIncludedExact, Zenon
<1>9. ASSUME UNCHANGED queueVars PROVE WalExact'
  BY <1>9, Zenon DEF queueVars, durableVars, memoryVars, restartVars, postponeVars, WalExact, Covered,
              Held
<1> QED BY <1>1, <1>2, <1>3, <1>4, <1>5, <1>6, <1>7, <1>8, <1>9, Zenon DEF QueueNext

(* What the datastore holds, in terms of what memory holds and what a      *)
(* restart has yet to read.                                                *)
StoredIsRead ==
    /\ mode = "loading" => Stored = txSeen \cup UnreadTxs \cup LegacyTxs
    /\ mode = "migrating" => Stored = txSeen \cup LegacyTxs
    /\ mode \in {"reconciling", "up"} => Stored = txSeen

LEMMA StoredExact == IndInv /\ WalExact => StoredIsRead
<1> SUFFICES ASSUME IndInv, WalExact PROVE StoredIsRead
  BY Zenon
<1>1. WriteAhead /\ SeenIsHeld /\ PostponedInFlight
  BY Zenon DEF IndInv
<1>2. Stored = WalTxs \cup LegacyTxs
  BY Zenon DEF Stored, WalTxs, LegacyTxs
<1>3. txSeen \subseteq WalTxs
  BY <1>1, Zenon DEF WriteAhead, SeenIsHeld, TxsOf, WalTxs
<1>4. \A k \in DOMAIN wal : Covered(k) => wal[k] \subseteq txSeen
  <2>1. \A it \in Elems(Held) : it.txs \subseteq txSeen
    BY <1>1, Zenon DEF SeenIsHeld, TxsOf
  <2>2. FlightTxs \subseteq txSeen
    BY <2>1, HeldParts, Zenon DEF FlightTxs, TxsOf
  <2>3. postponedItem # NoItem => wal[postponedItem.key] \subseteq txSeen
    BY <1>1, <2>2, Zenon DEF PostponedInFlight
  <2> QED BY <2>1, <2>3, Zenon DEF Covered
<1>5. mode = "loading" => WalTxs = txSeen \cup UnreadTxs
  BY <1>3, <1>4, Zenon DEF WalExact, WalTxs, UnreadTxs
<1>6. mode \in {"migrating", "reconciling", "up"} => WalTxs = txSeen
  BY <1>3, <1>4, Zenon DEF WalExact, WalTxs
<1>7. mode \in {"reconciling", "up"} => LegacyTxs = {}
  BY Zenon DEF WalExact, LegacyTxs
<1> QED BY <1>2, <1>5, <1>6, <1>7, Zenon DEF StoredIsRead

(* The same of the state after a step.                                     *)
LEMMA StoredExactAfter == IndInv' /\ WalExact' => StoredIsRead'
BY StoredExact, PTL

(* Where clean-up writes do not fail, every WAL entry of a running queue   *)
(* is the image of a batch it holds: nothing deleted or deduplicated comes *)
(* back after a crash.                                                     *)
THEOREM NothingStale ==
    ASSUME ~WritesMayFail
    PROVE  QueueSpec => []WalExact
<1>1. QueueInit => WalExact
  BY Zenon DEF QueueInit, WalExact
<1>2. IndInv /\ WalExact /\ [QueueNext]_queueVars => WalExact'
  BY NextExact, Zenon
<1> QED BY <1>1, <1>2, QueueInductive, PTL DEF QueueSpec
=============================================================================
