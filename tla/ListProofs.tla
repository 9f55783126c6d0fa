----------------------------- MODULE ListProofs -----------------------------
(***************************************************************************)
(* Induction, and what follows from it for Only.                           *)
(*                                                                         *)
(* The theorems of NaturalsInduction take the predicate as a parameter,    *)
(* which the provers cannot instantiate.  Here the predicate is a set:     *)
(* a set of numbers that has 0 and with each number the next is Nat        *)
(* (Induction); a set of lists that has the empty one and stays closed     *)
(* under Append is Seq (SeqInduction).                                     *)
(***************************************************************************)
EXTENDS Lists, TLAPS, WellFoundedInduction

\* A set of numbers that is not empty has a least one.
LEMMA Least ==
  ASSUME NEW N \in SUBSET Nat, N # {}
  PROVE  \E m \in N : \A k \in N : m <= k
  <1>1. IsWellFoundedOn(OpToRel(<, Nat), Nat)
    BY NatLessThanWellFounded
  <1>2. PICK m \in N : \A k \in N : ~ (<<k, m>> \in OpToRel(<, Nat))
    BY <1>1, WFMin
  <1>3. \A k \in N : ~ (k < m)
    BY <1>2 DEF OpToRel
  <1> QED BY <1>3

\* Induction: a set of numbers with 0 and each successor is Nat.
LEMMA Induction ==
  ASSUME NEW N \in SUBSET Nat, 0 \in N, \A n \in N : n + 1 \in N
  PROVE  N = Nat
  <1> SUFFICES ASSUME Nat \ N # {} PROVE FALSE
    OBVIOUS
  <1>1. PICK m \in Nat \ N : \A k \in Nat \ N : m <= k
    BY Least
  <1>2. m # 0 /\ m - 1 \in Nat /\ m - 1 \in N
    BY <1>1
  <1> QED BY <1>1, <1>2

\* f is Kept(s, S) as far as n.
UpTo(f, s, S, n) ==
  /\ DOMAIN f = 0 .. n
  /\ f[0] = <<>>
  /\ \A k \in 1 .. n : f[k] = IF s[k] \in S THEN Append(f[k - 1], s[k]) ELSE f[k - 1]

\* The function that Kept chooses exists.
LEMMA KeptExists ==
  ASSUME NEW s, NEW S, Len(s) \in Nat
  PROVE  UpTo(Kept(s, S), s, S, Len(s))
  <1> DEFINE N == {n \in Nat : \E f : UpTo(f, s, S, n)}
  <1>1. 0 \in N
    <2>1. UpTo([n \in 0 .. 0 |-> <<>>], s, S, 0)
      BY DEF UpTo
    <2> QED BY <2>1
  <1>2. ASSUME NEW n \in N PROVE n + 1 \in N
    <2>1. PICK f : UpTo(f, s, S, n)
      OBVIOUS
    <2> DEFINE g == [k \in 0 .. n + 1 |->
                       IF k = n + 1
                       THEN IF s[n + 1] \in S THEN Append(f[n], s[n + 1]) ELSE f[n]
                       ELSE f[k]]
    <2>2. DOMAIN g = 0 .. n + 1 /\ g[0] = <<>>
      BY <2>1 DEF UpTo
    <2>3. ASSUME NEW k \in 1 .. n + 1
          PROVE  g[k] = IF s[k] \in S THEN Append(g[k - 1], s[k]) ELSE g[k - 1]
      <3>1. k - 1 \in 0 .. n /\ k \in 0 .. n + 1 /\ g[k - 1] = f[k - 1]
        OBVIOUS
      <3>2. CASE k = n + 1
        BY <3>1, <3>2
      <3>3. CASE k # n + 1
        <4>1. k \in 1 .. n /\ g[k] = f[k]
          BY <3>3, <3>1
        <4> QED BY <4>1, <3>1, <2>1 DEF UpTo
      <3> QED BY <3>2, <3>3
    <2>4. UpTo(g, s, S, n + 1)
      BY <2>2, <2>3 DEF UpTo
    <2> QED BY <2>4
  <1>3. Len(s) \in N
    <2> HIDE DEF N
    <2>1. N \in SUBSET Nat
      BY DEF N
    <2> QED BY <2>1, <1>1, <1>2, Induction
  <1>4. PICK f : UpTo(f, s, S, Len(s))
    BY <1>3
  <1> DEFINE Eq(h) == h = [n \in 0 .. Len(s) |->
               IF n = 0 THEN <<>>
               ELSE IF s[n] \in S THEN Append(h[n - 1], s[n]) ELSE h[n - 1]]
  <1>5. ASSUME NEW h, h = [n \in 0 .. Len(s) |-> h[n]], UpTo(h, s, S, Len(s)) PROVE Eq(h)
    BY <1>5 DEF UpTo
  <1>6. UpTo([n \in 0 .. Len(s) |-> f[n]], s, S, Len(s))
    BY <1>4 DEF UpTo
  <1>7. \E h : Eq(h)
    BY <1>5, <1>6
  <1>8. Kept(s, S) = CHOOSE h : Eq(h)
    BY DEF Kept
  <1>9. Eq(Kept(s, S))
    BY <1>7, <1>8
  <1> HIDE DEF Eq
  <1>10. ASSUME NEW h, Eq(h) PROVE UpTo(h, s, S, Len(s))
    <2>1. DOMAIN h = 0 .. Len(s) /\ h[0] = <<>>
      BY <1>10 DEF Eq
    <2>2. ASSUME NEW k \in 1 .. Len(s)
          PROVE  h[k] = IF s[k] \in S THEN Append(h[k - 1], s[k]) ELSE h[k - 1]
      <3>1. k \in 0 .. Len(s) /\ k # 0
        OBVIOUS
      <3> QED BY <1>10, <3>1 DEF Eq
    <2> QED BY <2>1, <2>2 DEF UpTo
  <1> QED BY <1>9, <1>10

\* Sequences with the same elements are equal.
LEMMA SameSequence ==
  ASSUME NEW T, NEW s \in Seq(T), NEW t \in Seq(T), Len(s) = Len(t),
         \A i \in 1 .. Len(s) : s[i] = t[i]
  PROVE  s = t
  <1>1. DOMAIN s = 1 .. Len(s) /\ DOMAIN t = 1 .. Len(s)
    OBVIOUS
  <1>2. s = [i \in 1 .. Len(s) |-> s[i]] /\ t = [i \in 1 .. Len(s) |-> t[i]]
    BY <1>1
  <1> QED BY <1>2, Zenon

\* Where the elements of the second part of a concatenation are.
LEMMA Concatenated ==
  ASSUME NEW T, NEW front \in Seq(T), NEW back \in Seq(T), NEW i \in 1 .. Len(back)
  PROVE  (front \o back)[Len(front) + i] = back[i]
  <1>1. Len(front) \in Nat /\ Len(back) \in Nat
    OBVIOUS
  <1>2. Len(front) + i \in 1 .. Len(front) + Len(back) /\ ~ (Len(front) + i <= Len(front))
        /\ (Len(front) + i) - Len(front) = i
    BY <1>1
  <1> QED BY <1>2

\* Induction over sequences: a set with <<>> and all that is longer by one.
LEMMA SeqInduction ==
  ASSUME NEW T, NEW Q \in SUBSET Seq(T), <<>> \in Q,
         \A s \in Q : \A e \in T : Append(s, e) \in Q
  PROVE  Q = Seq(T)
  <1> DEFINE N == {n \in Nat : \A s \in Seq(T) : Len(s) = n => s \in Q}
  <1>1. 0 \in N
    BY \A s \in Seq(T) : Len(s) = 0 => s = <<>>
  <1>2. ASSUME NEW n \in N PROVE n + 1 \in N
    <2> SUFFICES ASSUME NEW s \in Seq(T), Len(s) = n + 1 PROVE s \in Q
      OBVIOUS
    <2> DEFINE r == SubSeq(s, 1, n)
    <2>1. r \in Seq(T) /\ Len(r) = n /\ s[n + 1] \in T
      OBVIOUS
    <2>2. s = Append(r, s[n + 1])
      <3>1. Append(r, s[n + 1]) \in Seq(T) /\ Len(Append(r, s[n + 1])) = Len(s)
        BY <2>1
      <3>2. \A i \in 1 .. Len(s) : s[i] = Append(r, s[n + 1])[i]
        OBVIOUS
      <3> QED BY <3>1, <3>2, SameSequence
    <2>3. r \in Q
      BY <2>1
    <2> HIDE DEF r
    <2> QED BY <2>1, <2>2, <2>3
  <1>3. N \in SUBSET Nat
    OBVIOUS
  <1> HIDE DEF N
  <1>4. N = Nat
    BY <1>1, <1>2, <1>3, Induction
  <1>5. \A s \in Seq(T) : Len(s) \in Nat
    OBVIOUS
  <1>6. \A n \in Nat : \A s \in Seq(T) : Len(s) = n => s \in Q
    BY <1>4 DEF N
  <1>7. \A s \in Seq(T) : s \in Q
    BY <1>5, <1>6
  <1> QED BY <1>7

\* Nothing is left of the empty list.
LEMMA OnlyEmpty ==
  ASSUME NEW S
  PROVE  Only(<<>>, S) = <<>>
  BY KeptExists DEF UpTo, Only

\* Only, one element after the other.
LEMMA OnlyAppend ==
  ASSUME NEW T, NEW s \in Seq(T), NEW e \in T, NEW S
  PROVE  Only(Append(s, e), S) = IF e \in S THEN Append(Only(s, S), e) ELSE Only(s, S)
  <1> DEFINE t == Append(s, e)
             f == Kept(s, S)
             g == Kept(t, S)
             N == {n \in Nat : n <= Len(s) => f[n] = g[n]}
  <1>1. t \in Seq(T) /\ Len(t) = Len(s) + 1 /\ t[Len(t)] = e
        /\ \A k \in 1 .. Len(s) : t[k] = s[k]
    OBVIOUS
  <1> HIDE DEF t
  <1>2. UpTo(f, s, S, Len(s)) /\ UpTo(g, t, S, Len(s) + 1)
    BY <1>1, KeptExists
  <1> HIDE DEF f, g
  <1>3. 0 \in N
    BY <1>2 DEF UpTo
  <1>4. ASSUME NEW n \in N PROVE n + 1 \in N
    <2> SUFFICES ASSUME n + 1 <= Len(s) PROVE f[n + 1] = g[n + 1]
      OBVIOUS
    <2>1. f[n] = g[n] /\ n + 1 \in 1 .. Len(s) /\ n + 1 \in 1 .. Len(s) + 1 /\ (n + 1) - 1 = n
      OBVIOUS
    <2>2. f[n + 1] = IF s[n + 1] \in S THEN Append(f[n], s[n + 1]) ELSE f[n]
      BY <1>2, <2>1 DEF UpTo
    <2>3. g[n + 1] = IF t[n + 1] \in S THEN Append(g[n], t[n + 1]) ELSE g[n]
      BY <1>2, <2>1 DEF UpTo
    <2> QED BY <1>1, <2>1, <2>2, <2>3
  <1>5. Len(s) \in N
    <2>1. N \in SUBSET Nat /\ Len(s) \in Nat
      OBVIOUS
    <2> HIDE DEF N
    <2>2. N = Nat
      BY <1>3, <1>4, <2>1, Induction
    <2> QED BY <2>1, <2>2
  <1>6. f[Len(s)] = g[Len(s)]
    BY <1>5
  <1>7. g[Len(t)] = IF e \in S THEN Append(g[Len(s)], e) ELSE g[Len(s)]
    BY <1>1, <1>2 DEF UpTo
  <1> QED BY <1>6, <1>7 DEF Only, f, g, t
\* What Only keeps is of the type of the list, and in the set.
LEMMA OnlyType ==
  ASSUME NEW T, NEW s \in Seq(T), NEW S
  PROVE  Only(s, S) \in Seq(T \intersect S) /\ Only(s, S) \in Seq(T)
  <1> DEFINE Q == {t \in Seq(T) : Only(t, S) \in Seq(T \intersect S)}
  <1>1. <<>> \in Q
    <2>1. <<>> \in Seq(T) /\ <<>> \in Seq(T \intersect S)
      OBVIOUS
    <2> QED BY <2>1, OnlyEmpty, Zenon
  <1>2. ASSUME NEW t \in Q, NEW e \in T PROVE Append(t, e) \in Q
    <2>1. Append(t, e) \in Seq(T) /\ t \in Seq(T) /\ Only(t, S) \in Seq(T \intersect S)
      OBVIOUS
    <2>2. Only(Append(t, e), S) = IF e \in S THEN Append(Only(t, S), e) ELSE Only(t, S)
      BY <2>1, OnlyAppend
    <2>3. e \in S => Append(Only(t, S), e) \in Seq(T \intersect S)
      BY <2>1
    <2>4. Only(Append(t, e), S) \in Seq(T \intersect S)
      BY <2>1, <2>2, <2>3, Zenon
    <2> QED BY <2>1, <2>4
  <1>3. Q \in SUBSET Seq(T)
    OBVIOUS
  <1>4. s \in Q
    <2> HIDE DEF Q
    <2> QED BY <1>1, <1>2, <1>3, SeqInduction
  <1>5. Seq(T \intersect S) \subseteq Seq(T)
    OBVIOUS
  <1> QED BY <1>4, <1>5

\* Only works on two lists in a row as on each.
LEMMA OnlyConcat ==
  ASSUME NEW T, NEW s \in Seq(T), NEW t \in Seq(T), NEW S
  PROVE  Only(s \o t, S) = Only(s, S) \o Only(t, S)
  <1> DEFINE Q == {r \in Seq(T) : Only(s \o r, S) = Only(s, S) \o Only(r, S)}
  <1>0. Only(s, S) \in Seq(T)
    BY OnlyType
  <1>1. <<>> \in Q
    <2>1. s \o <<>> = s /\ Only(s, S) \o <<>> = Only(s, S) /\ <<>> \in Seq(T)
      BY <1>0
    <2> QED BY <2>1, OnlyEmpty
  <1>2. ASSUME NEW r \in Q, NEW e \in T PROVE Append(r, e) \in Q
    <2>0. r \in Seq(T) /\ Only(s \o r, S) = Only(s, S) \o Only(r, S)
      OBVIOUS
    <2> HIDE DEF Q
    <2>1. r \in Seq(T) /\ Append(r, e) \in Seq(T) /\ s \o r \in Seq(T)
          /\ s \o Append(r, e) = Append(s \o r, e)
          /\ Only(s \o r, S) = Only(s, S) \o Only(r, S)
      BY <2>0
    <2>2. Only(r, S) \in Seq(T)
      BY <2>1, OnlyType
    <2>3. Only(s, S) \o Append(Only(r, S), e) = Append(Only(s, S) \o Only(r, S), e)
      BY <1>0, <2>2
    <2>4. Only(Append(r, e), S) = IF e \in S THEN Append(Only(r, S), e) ELSE Only(r, S)
      BY <2>1, OnlyAppend
    <2>6. \A q \in Seq(T) : Only(Append(q, e), S)
                              = IF e \in S THEN Append(Only(q, S), e) ELSE Only(q, S)
      BY OnlyAppend
    <2>5. Only(Append(s \o r, e), S) = IF e \in S THEN Append(Only(s \o r, S), e)
                                       ELSE Only(s \o r, S)
      BY <2>1, <2>6, Zenon
    <2>7. Only(s \o Append(r, e), S) = Only(s, S) \o Only(Append(r, e), S)
      BY <2>1, <2>3, <2>4, <2>5, Zenon
    <2> USE DEF Q
    <2> QED BY <2>1, <2>7
  <1>3. Q \in SUBSET Seq(T)
    OBVIOUS
  <1>4. t \in Q
    <2> HIDE DEF Q
    <2> QED BY <1>1, <1>2, <1>3, SeqInduction
  <1> QED BY <1>4

\* What is left of a list of one element.
LEMMA OnlyOne ==
  ASSUME NEW T, NEW e \in T, NEW S
  PROVE  Only(<<e>>, S) = IF e \in S THEN <<e>> ELSE <<>>
  <1>1. <<>> \in Seq(T) /\ Append(<<>>, e) = <<e>>
    OBVIOUS
  <1>2. Only(Append(<<>>, e), S) = IF e \in S THEN Append(Only(<<>>, S), e) ELSE Only(<<>>, S)
    BY <1>1, OnlyAppend, Zenon
  <1> QED BY <1>1, <1>2, OnlyEmpty, Zenon

\* The elements that are kept.

\* The elements of a list made longer by one.
LEMMA ElementsAppend ==
  ASSUME NEW T, NEW s \in Seq(T), NEW e \in T
  PROVE  ToSet(Append(s, e)) = ToSet(s) \union {e}
  <1>1. DOMAIN Append(s, e) = 1 .. Len(s) + 1 /\ DOMAIN s = 1 .. Len(s)
        /\ Append(s, e)[Len(s) + 1] = e /\ \A i \in 1 .. Len(s) : Append(s, e)[i] = s[i]
    OBVIOUS
  <1>2. Len(s) + 1 \in DOMAIN Append(s, e)
    BY <1>1
  <1>3. \A i \in DOMAIN Append(s, e) : i \in DOMAIN s \/ i = Len(s) + 1
    BY <1>1
  <1>4. \A i \in DOMAIN s : i \in DOMAIN Append(s, e) /\ Append(s, e)[i] = s[i]
    BY <1>1
  <1>5. ASSUME NEW x \in ToSet(Append(s, e)) PROVE x \in ToSet(s) \union {e}
    BY <1>1, <1>3, <1>4 DEF ToSet
  <1>6. ASSUME NEW x \in ToSet(s) \union {e} PROVE x \in ToSet(Append(s, e))
    BY <1>1, <1>2, <1>4 DEF ToSet
  <1> QED BY <1>5, <1>6

\* The elements that are left.
LEMMA OnlyElements ==
  ASSUME NEW T, NEW s \in Seq(T), NEW S
  PROVE  ToSet(Only(s, S)) = ToSet(s) \intersect S
  <1> DEFINE Q == {t \in Seq(T) : ToSet(Only(t, S)) = ToSet(t) \intersect S}
  <1>1. <<>> \in Q
    BY OnlyEmpty DEF ToSet
  <1>2. ASSUME NEW t \in Q, NEW e \in T PROVE Append(t, e) \in Q
    <2>1. Append(t, e) \in Seq(T) /\ t \in Seq(T)
          /\ ToSet(Only(t, S)) = ToSet(t) \intersect S
      OBVIOUS
    <2>2. Only(t, S) \in Seq(T)
      BY <2>1, OnlyType
    <2>3. ToSet(Append(t, e)) = ToSet(t) \union {e}
          /\ ToSet(Append(Only(t, S), e)) = ToSet(Only(t, S)) \union {e}
      BY <2>1, <2>2, ElementsAppend
    <2>4. Only(Append(t, e), S) = IF e \in S THEN Append(Only(t, S), e) ELSE Only(t, S)
      BY <2>1, OnlyAppend
    <2>5. ToSet(Only(Append(t, e), S)) = ToSet(Append(t, e)) \intersect S
      BY <2>1, <2>3, <2>4, Zenon
    <2> QED BY <2>1, <2>5
  <1>3. Q \in SUBSET Seq(T)
    OBVIOUS
  <1>4. s \in Q
    <2> HIDE DEF Q
    <2> QED BY <1>1, <1>2, <1>3, SeqInduction
  <1> QED BY <1>4

\* To keep the elements of one set and then those of another is to keep those of both.
LEMMA OnlyTwice ==
  ASSUME NEW T, NEW s \in Seq(T), NEW S, NEW R
  PROVE  Only(Only(s, S), R) = Only(s, S \intersect R)
  <1> DEFINE Q == {t \in Seq(T) : Only(Only(t, S), R) = Only(t, S \intersect R)}
  <1>1. <<>> \in Q
    BY OnlyEmpty
  <1>2. ASSUME NEW t \in Q, NEW e \in T PROVE Append(t, e) \in Q
    <2>1. Append(t, e) \in Seq(T) /\ t \in Seq(T)
          /\ Only(Only(t, S), R) = Only(t, S \intersect R)
      OBVIOUS
    <2> HIDE DEF Q
    <2>2. Only(t, S) \in Seq(T)
      BY <2>1, OnlyType
    <2>3. Only(Append(Only(t, S), e), R)
            = IF e \in R THEN Append(Only(Only(t, S), R), e) ELSE Only(Only(t, S), R)
      BY <2>2, OnlyAppend
    <2>4. Only(Append(t, e), S) = IF e \in S THEN Append(Only(t, S), e) ELSE Only(t, S)
      BY <2>1, OnlyAppend
    <2>5. Only(Append(t, e), S \intersect R)
            = IF e \in S \intersect R THEN Append(Only(t, S \intersect R), e)
              ELSE Only(t, S \intersect R)
      BY <2>1, OnlyAppend
    <2>6. Only(Only(Append(t, e), S), R) = Only(Append(t, e), S \intersect R)
      <3>1. CASE e \in S /\ e \in R
        BY <2>1, <2>3, <2>4, <2>5, <3>1
      <3>2. CASE e \in S /\ e \notin R
        BY <2>1, <2>3, <2>4, <2>5, <3>2
      <3>3. CASE e \notin S
        BY <2>1, <2>4, <2>5, <3>3
      <3> QED BY <3>1, <3>2, <3>3
    <2> USE DEF Q
    <2> QED BY <2>1, <2>6
  <1>3. Q \in SUBSET Seq(T)
    OBVIOUS
  <1>4. s \in Q
    <2> HIDE DEF Q
    <2> QED BY <1>1, <1>2, <1>3, SeqInduction
  <1> QED BY <1>4

\* Two sets that agree on the elements of the list keep the same.
LEMMA OnlySame ==
  ASSUME NEW T, NEW s \in Seq(T), NEW S, NEW R, S \intersect ToSet(s) = R \intersect ToSet(s)
  PROVE  Only(s, S) = Only(s, R)
  <1> DEFINE Q == {t \in Seq(T) : S \intersect ToSet(t) = R \intersect ToSet(t)
                                  => Only(t, S) = Only(t, R)}
  <1>1. <<>> \in Q
    BY OnlyEmpty
  <1>2. ASSUME NEW t \in Q, NEW e \in T PROVE Append(t, e) \in Q
    <2>0. Append(t, e) \in Seq(T) /\ t \in Seq(T)
      OBVIOUS
    <2> SUFFICES ASSUME S \intersect ToSet(Append(t, e)) = R \intersect ToSet(Append(t, e))
                 PROVE  Only(Append(t, e), S) = Only(Append(t, e), R)
      BY <2>0
    <2>1. (e \in S <=> e \in R) /\ S \intersect ToSet(t) = R \intersect ToSet(t)
      BY <2>0, ElementsAppend
    <2>2. Only(t, S) = Only(t, R)
      BY <2>1
    <2>3. /\ Only(Append(t, e), S) = IF e \in S THEN Append(Only(t, S), e) ELSE Only(t, S)
          /\ Only(Append(t, e), R) = IF e \in R THEN Append(Only(t, R), e) ELSE Only(t, R)
      BY <2>0, OnlyAppend
    <2> QED BY <2>1, <2>2, <2>3
  <1>3. Q \in SUBSET Seq(T)
    OBVIOUS
  <1>4. s \in Q
    <2> HIDE DEF Q
    <2> QED BY <1>1, <1>2, <1>3, SeqInduction
  <1> QED BY <1>4

\* A list all of whose elements are kept stays as it is.
LEMMA OnlyAll ==
  ASSUME NEW T, NEW s \in Seq(T), NEW S, ToSet(s) \subseteq S
  PROVE  Only(s, S) = s
  <1> DEFINE Q == {t \in Seq(T) : ToSet(t) \subseteq S => Only(t, S) = t}
  <1>1. <<>> \in Q
    BY OnlyEmpty
  <1>2. ASSUME NEW t \in Q, NEW e \in T PROVE Append(t, e) \in Q
    <2>0. Append(t, e) \in Seq(T) /\ t \in Seq(T)
      OBVIOUS
    <2> SUFFICES ASSUME ToSet(Append(t, e)) \subseteq S PROVE Only(Append(t, e), S) = Append(t, e)
      BY <2>0
    <2>1. e \in S /\ ToSet(t) \subseteq S
      BY <2>0, ElementsAppend
    <2> QED BY <2>0, <2>1, OnlyAppend
  <1>3. Q \in SUBSET Seq(T)
    OBVIOUS
  <1>4. s \in Q
    <2> HIDE DEF Q
    <2> QED BY <1>1, <1>2, <1>3, SeqInduction
  <1> QED BY <1>4

\* Nothing is left of a list none of whose elements is kept.
LEMMA OnlyNone ==
  ASSUME NEW T, NEW s \in Seq(T), NEW S, ToSet(s) \intersect S = {}
  PROVE  Only(s, S) = <<>>
  <1>1. ToSet(Only(s, S)) = {} /\ Only(s, S) \in Seq(T)
    BY OnlyElements, OnlyType
  <1>2. Len(Only(s, S)) \in Nat /\ DOMAIN Only(s, S) = 1 .. Len(Only(s, S))
    BY <1>1
  <1>3. Len(Only(s, S)) = 0
    <2> SUFFICES ASSUME Len(Only(s, S)) # 0 PROVE FALSE
      OBVIOUS
    <2>1. 1 \in DOMAIN Only(s, S)
      BY <1>2
    <2> QED BY <2>1, <1>1 DEF ToSet
  <1> QED BY <1>1, <1>3

\* No two elements of s are related by R.
Apart(s, R) == \A i, j \in DOMAIN s : <<s[i], s[j]>> \in R => i = j

\* What is taken from a list keeps its elements apart.
LEMMA OnlyApart ==
  ASSUME NEW T, NEW s \in Seq(T), NEW S, NEW R, Apart(s, R)
  PROVE  Apart(Only(s, S), R)
  <1> DEFINE Q == {t \in Seq(T) : Apart(t, R) => Apart(Only(t, S), R)}
  <1>1. <<>> \in Q
    BY OnlyEmpty
  <1>2. ASSUME NEW t \in Q, NEW e \in T PROVE Append(t, e) \in Q
    <2>0. Append(t, e) \in Seq(T) /\ t \in Seq(T)
      OBVIOUS
    <2> SUFFICES ASSUME Apart(Append(t, e), R) PROVE Apart(Only(Append(t, e), S), R)
      BY <2>0
    <2>1. DOMAIN t = 1 .. Len(t) /\ DOMAIN Append(t, e) = 1 .. Len(t) + 1
          /\ Append(t, e)[Len(t) + 1] = e /\ \A i \in 1 .. Len(t) : Append(t, e)[i] = t[i]
      BY <2>0
    <2>2. Apart(t, R)
      <3> SUFFICES ASSUME NEW i \in 1 .. Len(t), NEW j \in 1 .. Len(t), <<t[i], t[j]>> \in R
                   PROVE  i = j
        BY <2>1 DEF Apart
      <3>1. Append(t, e)[i] = t[i] /\ Append(t, e)[j] = t[j]
        BY <2>1
      <3>2. i \in DOMAIN Append(t, e) /\ j \in DOMAIN Append(t, e)
        BY <2>1, <2>0
      <3> QED
        BY <3>1, <3>2 DEF Apart
    <2>3. \A i \in 1 .. Len(t) : <<t[i], e>> \notin R /\ <<e, t[i]>> \notin R
      <3> SUFFICES ASSUME NEW i \in 1 .. Len(t)
                   PROVE  <<t[i], e>> \notin R /\ <<e, t[i]>> \notin R
        OBVIOUS
      <3>1. i \in DOMAIN Append(t, e) /\ Len(t) + 1 \in DOMAIN Append(t, e) /\ i # Len(t) + 1
        BY <2>1, <2>0
      <3>2. Append(t, e)[i] = t[i] /\ Append(t, e)[Len(t) + 1] = e
        BY <2>1
      <3> QED
        BY <3>1, <3>2 DEF Apart
    <2> DEFINE o == Only(t, S)
    <2>4. Apart(o, R) /\ o \in Seq(T)
      BY <2>0, <2>2, OnlyType
    <2>5. \A i \in 1 .. Len(o) : <<o[i], e>> \notin R /\ <<e, o[i]>> \notin R
      <3> SUFFICES ASSUME NEW i \in 1 .. Len(o)
                   PROVE  <<o[i], e>> \notin R /\ <<e, o[i]>> \notin R
        OBVIOUS
      <3>1. o[i] \in ToSet(o)
        BY <2>4 DEF ToSet
      <3>2. o[i] \in ToSet(t)
        BY <3>1, <2>0, OnlyElements
      <3>3. PICK j \in 1 .. Len(t) : t[j] = o[i]
        BY <3>2, <2>1 DEF ToSet
      <3> QED
        BY <3>3, <2>3
    <2>6. Only(Append(t, e), S) = IF e \in S THEN Append(o, e) ELSE o
      BY <2>0, OnlyAppend
    <2> HIDE DEF o
    <2>7. Apart(Append(o, e), R)
      <3>1. DOMAIN o = 1 .. Len(o) /\ DOMAIN Append(o, e) = 1 .. Len(o) + 1
            /\ Append(o, e)[Len(o) + 1] = e /\ \A i \in 1 .. Len(o) : Append(o, e)[i] = o[i]
        BY <2>4
      <3> SUFFICES ASSUME NEW i \in 1 .. Len(o) + 1, NEW j \in 1 .. Len(o) + 1,
                          <<Append(o, e)[i], Append(o, e)[j]>> \in R
                   PROVE  i = j
        BY <3>1 DEF Apart
      <3>3. Len(o) \in Nat
        BY <2>4
      <3>4. CASE i \in 1 .. Len(o) /\ j \in 1 .. Len(o)
        BY <3>4, <3>1, <2>4 DEF Apart
      <3>5. CASE i = Len(o) + 1 /\ j \in 1 .. Len(o)
        BY <3>5, <3>1, <2>5
      <3>6. CASE i \in 1 .. Len(o) /\ j = Len(o) + 1
        BY <3>6, <3>1, <2>5
      <3> QED
        BY <3>3, <3>4, <3>5, <3>6
    <2> QED
      BY <2>4, <2>6, <2>7
  <1>3. Q \in SUBSET Seq(T)
    OBVIOUS
  <1>4. s \in Q
    <2> HIDE DEF Q
    <2> QED BY <1>1, <1>2, <1>3, SeqInduction
  <1> QED BY <1>4

\* A list without its last element.
LEMMA FrontIs ==
  ASSUME NEW T, NEW s \in Seq(T), s # <<>>
  PROVE  /\ Len(s) \in Nat /\ Len(s) >= 1 /\ Len(s) \in DOMAIN s /\ Len(s) \in 1 .. Len(s)
         /\ Last(s) = s[Len(s)] /\ Last(s) \in T
         /\ Front(s) \in Seq(T) /\ Len(Front(s)) = Len(s) - 1
         /\ \A i \in 1 .. Len(s) - 1 : Front(s)[i] = s[i]
  <1>1. Len(s) \in Nat /\ Len(s) # 0
    OBVIOUS
  <1>2. Len(s) >= 1 /\ Len(s) \in 1 .. Len(s)
    BY <1>1
  <1>3. Len(s) \in DOMAIN s /\ s[Len(s)] \in T
    BY <1>2
  <1>4. Last(s) = s[Len(s)]
    BY DEF Last
  <1>5. Front(s) = SubSeq(s, 1, Len(s) - 1)
    BY DEF Front
  <1>6. Front(s) = [i \in 1 .. Len(s) - 1 |-> s[i]]
    BY <1>1, <1>5
  <1> DEFINE m == Len(s) - 1
  <1>7. m \in Nat /\ Front(s) = [i \in 1 .. m |-> s[i]] /\ \A i \in 1 .. m : s[i] \in T
    BY <1>1, <1>2, <1>6
  <1> HIDE DEF m
  <1>8. Front(s) \in Seq(T) /\ Len(Front(s)) = m /\ \A i \in 1 .. m : Front(s)[i] = s[i]
    BY <1>7
  <1> QED
    BY <1>1, <1>2, <1>3, <1>4, <1>8 DEF m

-----------------------------------------------------------------------------
(* Lists of lists                                                          *)

\* f begins with d, and step leads to the value for k from the one before.
IsRecursive(f, D, d, n, step) ==
  f \in [0 .. n -> D] /\ f[0] = d /\ \A k \in 1 .. n : f[k] = step[<<f[k - 1], k>>]

\* A function that is recursive over 0 .. n has values where its step does.
LEMMA Recursion ==
  ASSUME NEW D, NEW d \in D, NEW n \in Nat, NEW step \in [D \X (1 .. n) -> D]
  PROVE  \E f : IsRecursive(f, D, d, n, step)
  <1> DEFINE Is(f, m) == f[0] = d /\ \A k \in 1 .. m : f[k] = step[<<f[k - 1], k>>]
             N == {m \in Nat : m <= n => \E f \in [0 .. m -> D] : Is(f, m)}
  <1>1. 0 \in N
    <2>1. [k \in 0 .. 0 |-> d] \in [0 .. 0 -> D] /\ Is([k \in 0 .. 0 |-> d], 0)
      OBVIOUS
    <2> QED BY <2>1
  <1>2. ASSUME NEW m \in N PROVE m + 1 \in N
    <2> SUFFICES ASSUME m + 1 <= n PROVE \E f \in [0 .. m + 1 -> D] : Is(f, m + 1)
      OBVIOUS
    <2>1. PICK f \in [0 .. m -> D] : Is(f, m)
      OBVIOUS
    <2> DEFINE last == step[<<f[m], m + 1>>]
               g == [k \in 0 .. m + 1 |-> IF k = m + 1 THEN last ELSE f[k]]
    <2>2. last \in D
      BY <2>1
    <2>3. g \in [0 .. m + 1 -> D] /\ g[0] = d /\ \A k \in 0 .. m : g[k] = f[k]
      BY <2>1, <2>2
    <2>4. ASSUME NEW k \in 1 .. m + 1 PROVE g[k] = step[<<g[k - 1], k>>]
      <3>1. k - 1 \in 0 .. m /\ g[k - 1] = f[k - 1]
        BY <2>3
      <3>2. CASE k = m + 1
        <4>1. g[m + 1] = last /\ k - 1 = m
          BY <3>2
        <4>2. last = step[<<f[k - 1], k>>]
          BY <4>1, <3>2
        <4> HIDE DEF g, last
        <4> QED BY <4>1, <4>2, <3>1, <3>2
      <3>3. CASE k # m + 1
        <4>1. k \in 1 .. m /\ g[k] = f[k]
          BY <3>3
        <4> QED BY <4>1, <3>1, <2>1
      <3> QED BY <3>2, <3>3
    <2> HIDE DEF g, last
    <2> QED BY <2>3, <2>4
  <1>3. N = Nat
    <2> HIDE DEF N
    <2>1. N \in SUBSET Nat
      BY DEF N
    <2> QED BY <2>1, <1>1, <1>2, Induction
  <1>4. n \in N
    BY <1>3
  <1>5. PICK f \in [0 .. n -> D] : Is(f, n)
    BY <1>4
  <1>6. IsRecursive(f, D, d, n, step)
    BY <1>5 DEF IsRecursive
  <1> QED BY <1>6

\* The value of FlattenSeq, from the lists up to each one.
LEMMA FlattenIs ==
  ASSUME NEW T, NEW ss \in Seq(Seq(T)), NEW f \in [0 .. Len(ss) -> Seq(T)],
         f[0] = <<>>, \A k \in 1 .. Len(ss) : f[k] = f[k - 1] \o ss[k]
  PROVE  FlattenSeq(ss) = f[Len(ss)]
  <1>1. CASE Len(ss) = 0
    BY <1>1 DEF FlattenSeq
  <1>2. CASE Len(ss) # 0
    <2> DEFINE n == Len(ss)
               Eq(h) == h = [i \in 1 .. n |-> IF i = 1 THEN ss[i] ELSE h[i - 1] \o ss[i]]
               g == [i \in 1 .. n |-> f[i]]
    <2>1. n \in Nat /\ n >= 1
      BY <1>2
    <2>2. f[1] = ss[1]
      <3>1. 1 \in 1 .. n /\ ss[1] \in Seq(T) /\ f[1] = f[0] \o ss[1]
        <4>1. 1 \in 1 .. Len(ss) /\ 1 - 1 = 0
          BY <2>1
        <4>2. ss[1] \in Seq(T)
          BY <4>1
        <4>3. f[1] = f[1 - 1] \o ss[1]
          BY <4>1
        <4> QED BY <4>1, <4>2, <4>3
      <3>2. \A s \in Seq(T) : <<>> \o s = s
        OBVIOUS
      <3> QED BY <3>1, <3>2
    <2>3. Eq(g)
      <3>1. ASSUME NEW i \in 1 .. n PROVE g[i] = IF i = 1 THEN ss[i] ELSE g[i - 1] \o ss[i]
        <4>1. CASE i = 1
          BY <4>1, <2>2
        <4>2. CASE i # 1
          <5>1. i - 1 \in 1 .. n
            BY <4>2
          <5> QED BY <5>1, <4>2
        <4> QED BY <4>1, <4>2
      <3> QED BY <3>1
    <2> DEFINE h == CHOOSE x : Eq(x)
    <2>4. Eq(h)
      <3> HIDE DEF Eq
      <3>1. \E x : Eq(x)
        BY <2>3
      <3> QED BY <3>1
    <2>5. FlattenSeq(ss) = h[n]
      BY <1>2 DEF FlattenSeq
    <2> HIDE DEF h
    <2>6. /\ h[1] = ss[1]
          /\ \A i \in 1 .. n : i # 1 => h[i] = h[i - 1] \o ss[i]
      <3>1. 1 \in 1 .. n
        BY <2>1
      <3> QED BY <3>1, <2>4
    <2> DEFINE N == {m \in Nat : m + 1 <= n => h[m + 1] = f[m + 1]}
    <2>7. 0 \in N
      BY <2>6, <2>2
    <2>8. ASSUME NEW m \in N PROVE m + 1 \in N
      <3> SUFFICES ASSUME (m + 1) + 1 <= n PROVE h[(m + 1) + 1] = f[(m + 1) + 1]
        OBVIOUS
      <3> DEFINE i == (m + 1) + 1
      <3>1. i \in 1 .. n /\ i # 1 /\ i - 1 = m + 1
        OBVIOUS
      <3>2. h[m + 1] = f[m + 1]
        BY <3>1
      <3> HIDE DEF i
      <3>3. h[i] = f[i]
        BY <3>1, <3>2, <2>6
      <3> QED BY <3>3 DEF i
    <2>9. N = Nat
      <3> HIDE DEF N
      <3>1. N \in SUBSET Nat
        BY DEF N
      <3> QED BY <3>1, <2>7, <2>8, Induction
    <2>10. n - 1 \in N
      <3> HIDE DEF N
      <3>1. n - 1 \in Nat
        BY <2>1
      <3> QED BY <3>1, <2>9
    <2>11. h[n] = f[n]
      <3>1. (n - 1) + 1 = n /\ (n - 1) + 1 <= n
        BY <2>1
      <3> QED BY <2>10, <3>1
    <2> QED BY <2>5, <2>11
  <1> QED BY <1>1, <1>2

\* One list more at the end.
LEMMA FlattenAppend ==
  ASSUME NEW T, NEW ss \in Seq(Seq(T)), NEW s \in Seq(T)
  PROVE  /\ FlattenSeq(ss) \in Seq(T)
         /\ FlattenSeq(Append(ss, s)) = FlattenSeq(ss) \o s
  <1> DEFINE n == Len(ss)
             step == [x \in Seq(T) \X (1 .. n) |-> x[1] \o ss[x[2]]]
             more == Append(ss, s)
  <1>1. n \in Nat
    OBVIOUS
  <1>2. step \in [Seq(T) \X (1 .. n) -> Seq(T)]
    <2>1. ASSUME NEW x \in Seq(T) \X (1 .. n) PROVE step[x] \in Seq(T)
      <3>1. x[1] \in Seq(T) /\ x[2] \in 1 .. n /\ ss[x[2]] \in Seq(T)
        OBVIOUS
      <3> QED BY <3>1
    <2> QED BY <2>1
  <1>3. PICK f : IsRecursive(f, Seq(T), <<>>, n, step)
    <2>1. <<>> \in Seq(T)
      OBVIOUS
    <2> HIDE DEF n, step
    <2> QED BY <1>1, <1>2, <2>1, Recursion
  <1>4. /\ f \in [0 .. n -> Seq(T)] /\ f[0] = <<>>
        /\ \A k \in 1 .. n : f[k] = step[<<f[k - 1], k>>]
    BY <1>3 DEF IsRecursive
  <1>5. ASSUME NEW k \in 1 .. n PROVE f[k] = f[k - 1] \o ss[k]
    <2>1. <<f[k - 1], k>> \in Seq(T) \X (1 .. n)
      <3>1. k - 1 \in 0 .. n
        BY <1>1
      <3> QED BY <3>1, <1>4
    <2> QED BY <2>1, <1>4
  <1>6. FlattenSeq(ss) = f[n]
    BY <1>4, <1>5, FlattenIs
  <1>7. f[n] \in Seq(T)
    BY <1>1, <1>4
  <1> DEFINE g == [k \in 0 .. n + 1 |-> IF k = n + 1 THEN f[n] \o s ELSE f[k]]
  <1>8. /\ more \in Seq(Seq(T)) /\ Len(more) = n + 1
        /\ more[n + 1] = s /\ \A k \in 1 .. n : more[k] = ss[k]
    OBVIOUS
  <1> HIDE DEF more, step
  <1>9. g \in [0 .. Len(more) -> Seq(T)] /\ g[0] = <<>>
    BY <1>1, <1>4, <1>7, <1>8
  <1>10. ASSUME NEW k \in 1 .. Len(more) PROVE g[k] = g[k - 1] \o more[k]
    <2>1. k \in 1 .. n + 1 /\ k - 1 \in 0 .. n /\ g[k - 1] = f[k - 1]
      BY <1>1, <1>8
    <2>2. CASE k = n + 1
      <3>1. g[k] = f[n] \o s
        BY <2>2, <1>1
      <3>2. k - 1 = n /\ more[k] = s
        BY <2>2, <1>1, <1>8
      <3> HIDE DEF g
      <3> QED BY <3>1, <3>2, <2>1
    <2>3. CASE k # n + 1
      <3>1. k \in 1 .. n /\ g[k] = f[k]
        BY <2>1, <2>3, <1>1
      <3> QED BY <3>1, <2>1, <1>5, <1>8
    <2> QED BY <2>2, <2>3
  <1>11. g[Len(more)] = f[n] \o s
    BY <1>1, <1>8
  <1> HIDE DEF g
  <1>12. FlattenSeq(more) = g[Len(more)]
    BY <1>8, <1>9, <1>10, FlattenIs
  <1> QED BY <1>6, <1>7, <1>11, <1>12 DEF more

\* No list.
LEMMA FlattenEmpty == FlattenSeq(<<>>) = <<>>
  BY DEF FlattenSeq

\* A concatenation goes on where its first part ends.
LEMMA ConcatAppend ==
  ASSUME NEW T, NEW s \in Seq(T), NEW t \in Seq(T), NEW e \in T
  PROVE  s \o Append(t, e) = Append(s \o t, e)
  <1>1. /\ s \o Append(t, e) \in Seq(T) /\ Append(s \o t, e) \in Seq(T)
        /\ Len(s \o Append(t, e)) = Len(s) + Len(t) + 1
        /\ Len(Append(s \o t, e)) = Len(s) + Len(t) + 1
    OBVIOUS
  <1>2. ASSUME NEW i \in 1 .. Len(s) + Len(t) + 1
        PROVE  (s \o Append(t, e))[i] = Append(s \o t, e)[i]
    OBVIOUS
  <1> QED BY <1>1, <1>2, SameSequence

\* Three lists in a row.
LEMMA ConcatThree ==
  ASSUME NEW T, NEW s \in Seq(T), NEW t \in Seq(T), NEW u \in Seq(T)
  PROVE  (s \o t) \o u = s \o (t \o u)
  <1>1. /\ (s \o t) \o u \in Seq(T) /\ s \o (t \o u) \in Seq(T)
        /\ Len((s \o t) \o u) = Len(s) + Len(t) + Len(u)
        /\ Len(s \o (t \o u)) = Len(s) + Len(t) + Len(u)
    OBVIOUS
  <1>2. ASSUME NEW i \in 1 .. Len(s) + Len(t) + Len(u)
        PROVE  ((s \o t) \o u)[i] = (s \o (t \o u))[i]
    OBVIOUS
  <1> QED BY <1>1, <1>2, SameSequence

\* One list more at the front.
LEMMA FlattenFront ==
  ASSUME NEW T, NEW s \in Seq(T), NEW ss \in Seq(Seq(T))
  PROVE  FlattenSeq(<<s>> \o ss) = s \o FlattenSeq(ss)
  <1> DEFINE Q == {r \in Seq(Seq(T)) : FlattenSeq(<<s>> \o r) = s \o FlattenSeq(r)}
             L == Seq(T)
  <1>1. <<>> \in Q
    <2>1. <<s>> \o <<>> = Append(<<>>, s) /\ <<>> \in Seq(L)
      OBVIOUS
    <2>2. FlattenSeq(Append(<<>>, s)) = <<>> \o s
      <3>1. FlattenSeq(Append(<<>>, s)) = FlattenSeq(<<>>) \o s
        BY <2>1, FlattenAppend DEF L
      <3> QED BY <3>1, FlattenEmpty
    <2>3. <<>> \o s = s \o <<>>
      OBVIOUS
    <2> QED BY <2>1, <2>2, <2>3, FlattenEmpty
  <1>2. ASSUME NEW r \in Q, NEW e \in Seq(T) PROVE Append(r, e) \in Q
    <2>1. <<s>> \in Seq(L) /\ r \in Seq(L) /\ <<s>> \o r \in Seq(L) /\ Append(r, e) \in Seq(L)
      OBVIOUS
    <2>2. <<s>> \o Append(r, e) = Append(<<s>> \o r, e)
      <3> HIDE DEF L
      <3>1. e \in L
        BY DEF L
      <3> QED BY <2>1, <3>1, ConcatAppend
    <2>3. FlattenSeq(Append(<<s>> \o r, e)) = (s \o FlattenSeq(r)) \o e
      BY <2>1, FlattenAppend
    <2>4. FlattenSeq(Append(r, e)) = FlattenSeq(r) \o e /\ FlattenSeq(r) \in Seq(T)
      BY FlattenAppend
    <2>5. (s \o FlattenSeq(r)) \o e = s \o (FlattenSeq(r) \o e)
      <3> DEFINE t == FlattenSeq(r)
      <3>1. t \in Seq(T)
        BY <2>4
      <3> HIDE DEF t
      <3>2. (s \o t) \o e = s \o (t \o e)
        BY <3>1, ConcatThree
      <3> QED BY <3>2 DEF t
    <2> QED BY <2>1, <2>2, <2>3, <2>4, <2>5
  <1>3. Q = Seq(L)
    <2> HIDE DEF Q
    <2>1. Q \in SUBSET Seq(L)
      BY DEF Q
    <2>2. \A r \in Q : \A e \in L : Append(r, e) \in Q
      BY <1>2
    <2> HIDE DEF L
    <2> QED BY <2>1, <2>2, <1>1, SeqInduction
  <1> QED BY <1>3

\* What is left of the lists after the first k of them, one after the other.
Rest(ss, k) == FlattenSeq(SubSeq(ss, k + 1, Len(ss)))

LEMMA RestNone ==
  ASSUME NEW T, NEW ss \in Seq(T)
  PROVE  Rest(ss, Len(ss)) = <<>>
  <1>1. SubSeq(ss, Len(ss) + 1, Len(ss)) = <<>>
    OBVIOUS
  <1> QED BY <1>1, FlattenEmpty DEF Rest

LEMMA RestNext ==
  ASSUME NEW T, NEW ss \in Seq(Seq(T)), NEW k \in 0 .. Len(ss) - 1
  PROVE  /\ ss[k + 1] \in Seq(T) /\ Rest(ss, k + 1) \in Seq(T)
         /\ Rest(ss, k) = ss[k + 1] \o Rest(ss, k + 1)
  <1> DEFINE L == Seq(T)
             this == SubSeq(ss, k + 1, Len(ss))
             next == SubSeq(ss, k + 1 + 1, Len(ss))
  <1>1. ss \in Seq(L) /\ Len(ss) \in Nat /\ ss[k + 1] \in L
    OBVIOUS
  <1> HIDE DEF L
  <1>2. /\ this \in Seq(L) /\ Len(this) = Len(ss) - k
        /\ \A i \in 1 .. Len(ss) - k : this[i] = ss[k + i]
    BY <1>1
  <1>3. /\ next \in Seq(L) /\ Len(next) = Len(ss) - k - 1
        /\ \A i \in 1 .. Len(ss) - k - 1 : next[i] = ss[k + 1 + i]
    BY <1>1
  <1> HIDE DEF this, next
  <1>4. /\ <<ss[k + 1]>> \o next \in Seq(L) /\ Len(<<ss[k + 1]>> \o next) = Len(ss) - k
        /\ (<<ss[k + 1]>> \o next)[1] = ss[k + 1]
        /\ \A i \in 2 .. Len(ss) - k : (<<ss[k + 1]>> \o next)[i] = next[i - 1]
    BY <1>1, <1>3
  <1>5. this = <<ss[k + 1]>> \o next
    <2>1. ASSUME NEW i \in 1 .. Len(this) PROVE this[i] = (<<ss[k + 1]>> \o next)[i]
      <3>1. CASE i = 1
        BY <3>1, <1>1, <1>2, <1>4
      <3>2. CASE i # 1
        <4>1. i \in 2 .. Len(ss) - k /\ i - 1 \in 1 .. Len(ss) - k - 1
          BY <3>2, <1>1, <1>2
        <4>2. this[i] = ss[k + i]
          BY <1>2
        <4>3. next[i - 1] = ss[k + 1 + (i - 1)]
          BY <4>1, <1>3
        <4>4. k + 1 + (i - 1) = k + i /\ i \in Int
          OBVIOUS
        <4> QED BY <4>1, <4>2, <4>3, <4>4, <1>4
      <3> QED BY <3>1, <3>2
    <2> QED BY <2>1, <1>2, <1>4, SameSequence
  <1>6. FlattenSeq(this) = ss[k + 1] \o FlattenSeq(next)
    BY <1>1, <1>3, <1>5, FlattenFront DEF L
  <1>7. FlattenSeq(next) \in Seq(T)
    BY <1>1, <1>3, FlattenAppend DEF L
  <1> QED BY <1>1, <1>6, <1>7 DEF Rest, L, this, next

=============================================================================
