----------------------------- MODULE ListLemmas -----------------------------
(***************************************************************************)
(* Facts about the list operations of the queues: what they leave at each  *)
(* position of a list, and in its set of elements.                         *)
(***************************************************************************)
EXTENDS Integers, SequencesExt, SequenceTheorems, TLAPS

(* RPUSH, and append of a waiter. *)
LEMMA AppendElements ==
  ASSUME NEW S, NEW q \in Seq(S), NEW e \in S
  PROVE  /\ Append(q, e) \in Seq(S)
         /\ DOMAIN q = 1 .. Len(q)
         /\ DOMAIN Append(q, e) = 1 .. Len(q) + 1
         /\ \A j \in 1 .. Len(q) : Append(q, e)[j] = q[j]
         /\ Append(q, e)[Len(q) + 1] = e
         /\ ToSet(Append(q, e)) = ToSet(q) \cup {e}
  <1> DEFINE r == Append(q, e)
             n == Len(q)
  <1>1. /\ n \in Nat
        /\ DOMAIN q = 1 .. n
        /\ r \in Seq(S)
        /\ DOMAIN r = 1 .. n+1
        /\ \A j \in 1 .. n : r[j] = q[j]
        /\ r[n+1] = e
    OBVIOUS
  <1> HIDE DEF r
  <1>2. ToSet(r) = ToSet(q) \cup {e}
    BY <1>1 DEF ToSet
  <1>3. QED
    BY <1>1, <1>2 DEF r

(* LREM of an entry, and slices.Delete of a waiter, at position i. *)
LEMMA RemoveAtElements ==
  ASSUME NEW S, NEW q \in Seq(S), NEW i \in DOMAIN q
  PROVE  /\ RemoveAt(q, i) \in Seq(S)
         /\ DOMAIN q = 1 .. Len(q)
         /\ DOMAIN RemoveAt(q, i) = 1 .. Len(q) - 1
         /\ \A j \in 1 .. Len(q) - 1 :
              RemoveAt(q, i)[j] = IF j < i THEN q[j] ELSE q[j+1]
         /\ ToSet(q) \ {q[i]} \subseteq ToSet(RemoveAt(q, i))
         /\ ToSet(RemoveAt(q, i)) \subseteq ToSet(q)
  <1> DEFINE r == RemoveAt(q, i)
             n == Len(q)
  <1>1. i \in 1 .. n /\ n \in Nat /\ DOMAIN q = 1 .. n
    OBVIOUS
  <1> DEFINE a == SubSeq(q, 1, i-1)
             b == SubSeq(q, i+1, n)
  <1>2. /\ a \in Seq(S) /\ Len(a) = i - 1
        /\ \A j \in 1 .. i-1 : a[j] = q[j]
    BY <1>1, SubSeqProperties
  <1>3. /\ b \in Seq(S) /\ Len(b) = n - i
        /\ \A j \in 1 .. n-i : b[j] = q[i+j]
    BY <1>1, SubSeqProperties
  <1>4. r = a \o b
    BY DEF RemoveAt
  <1> HIDE DEF a, b, r
  <1>5. /\ r \in Seq(S)
        /\ Len(r) = Len(a) + Len(b)
        /\ \A j \in 1 .. Len(a) + Len(b) :
             r[j] = IF j <= Len(a) THEN a[j] ELSE b[j - Len(a)]
    BY <1>2, <1>3, <1>4, ConcatProperties, Zenon
  <1>6. r \in Seq(S) /\ Len(r) = n - 1 /\ DOMAIN r = 1 .. n-1
    BY <1>1, <1>2, <1>3, <1>5
  <1>7. \A j \in 1 .. n-1 : r[j] = IF j < i THEN q[j] ELSE q[j+1]
    <2> SUFFICES ASSUME NEW j \in 1 .. n-1
                 PROVE  r[j] = IF j < i THEN q[j] ELSE q[j+1]
      OBVIOUS
    <2>1. CASE j < i
      BY <1>1, <1>2, <1>3, <1>5, <2>1
    <2>2. CASE j >= i
      <3>1. r[j] = b[j - (i-1)] /\ j - (i-1) \in 1 .. n-i
        BY <1>1, <1>2, <1>3, <1>5, <2>2
      <3>2. QED
        BY <1>1, <1>3, <2>2, <3>1
    <2>3. QED
      BY <1>1, <2>1, <2>2
  <1>8. ToSet(r) \subseteq ToSet(q)
    BY <1>1, <1>6, <1>7 DEF ToSet
  <1>9. ASSUME NEW e \in ToSet(q), e # q[i]
        PROVE  e \in ToSet(r)
    <2>1. PICK k \in 1 .. n : e = q[k]
      BY <1>1 DEF ToSet
    <2>2. k # i
      BY <1>9, <2>1
    <2>3. CASE k < i
      BY <1>1, <1>6, <1>7, <2>1, <2>3 DEF ToSet
    <2>4. CASE k > i
      <3>1. k - 1 \in 1 .. n - 1 /\ r[k-1] = q[k]
        BY <1>1, <1>7, <2>4
      <3>2. QED
        BY <1>6, <2>1, <3>1 DEF ToSet
    <2>5. QED
      BY <1>1, <2>2, <2>3, <2>4
  <1>10. QED
    BY <1>1, <1>6, <1>7, <1>8, <1>9 DEF r
=============================================================================
