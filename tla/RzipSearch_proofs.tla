-------------------------- MODULE RzipSearch_proofs -------------------------
(***************************************************************************)
(* Proofs about hash_search and runzip_chunk on one chunk that is mapped   *)
(* whole: the tokens undo into the chunk, the tag table stays consistent   *)
(* and its entries can be found, for every chunk, every size of the table, *)
(* every hash_index and every level.                                       *)
(*                                                                         *)
(* The loops of the code are recursive functions of the model.  What they  *)
(* compute is proved by induction over the number of steps, which rests on *)
(* the least element of a set of numbers.                                  *)
(***************************************************************************)
EXTENDS RzipSearch, SequenceTheorems, FiniteSetTheorems, WellFoundedInduction, TLAPS

-----------------------------------------------------------------------------
(* Induction and iteration.                                                *)

\* Every set of numbers that is not empty has a least one.
LEMMA LeastNat ==
  ASSUME NEW S \in SUBSET Nat, S # {}
  PROVE  \E x \in S : \A y \in S : x <= y
<1>1. IsWellFoundedOn(OpToRel(<, Nat), Nat)
  BY NatLessThanWellFounded
<1>2. PICK x \in S : \A y \in S : ~ (<<y, x>> \in OpToRel(<, Nat))
  BY <1>1, WFMin
<1>3. ASSUME NEW y \in S
      PROVE  x <= y
  <2>1. <<y, x>> \notin OpToRel(<, Nat)
    BY <1>2
  <2>2. ~ (y < x)
    BY <2>1 DEF OpToRel
  <2> QED
    BY <2>2
<1> QED
  BY <1>3

\* What holds at 0 and from each step to the next holds up to n.
LEMMA UpTo ==
  ASSUME NEW n \in Nat, NEW S \in SUBSET (0 .. n), 0 \in S,
         \A k \in S : k < n => k + 1 \in S
  PROVE  S = 0 .. n
<1> SUFFICES ASSUME S # 0 .. n
             PROVE  FALSE
  OBVIOUS
<1> DEFINE R == (0 .. n) \ S
<1>1. PICK z \in 0 .. n : z \notin S
  OBVIOUS
<1>0. R \in SUBSET Nat /\ R # {}
  BY <1>1
<1>2. PICK x \in R : \A y \in R : x <= y
  BY <1>0, LeastNat
<1>3. x # 0 /\ x - 1 \in 0 .. n /\ x - 1 < n
  OBVIOUS
<1>4. x - 1 \in S
  BY <1>2, <1>3
<1>5. (x - 1) + 1 \in S
  BY <1>3, <1>4
<1> QED
  BY <1>3, <1>5

\* r is the recursive function on 0 .. n that starts at v and applies F[k] in step k.
Iterates(r, St, v, F, n) ==
  /\ r \in [0 .. n -> St]
  /\ r = [k \in 0 .. n |-> IF k = 0 THEN v ELSE F[k][r[k - 1]]]

\* There is one.
LEMMA Iteration ==
  ASSUME NEW St, NEW v \in St, NEW n \in Nat, NEW F \in [1 .. n -> [St -> St]]
  PROVE  \E r : Iterates(r, St, v, F, n)
<1> DEFINE S == {m \in 0 .. n : \E r : Iterates(r, St, v, F, m)}
<1>1. 0 \in S
  <2>1. Iterates([k \in 0 .. 0 |-> v], St, v, F, 0)
    BY DEF Iterates
  <2> QED
    BY <2>1
<1>2. ASSUME NEW m \in S, m < n
      PROVE  m + 1 \in S
  <2>1. PICK r : Iterates(r, St, v, F, m)
    OBVIOUS
  <2>2. m \in 0 .. n /\ m + 1 \in 1 .. n /\ m + 1 \in 0 .. n
    BY <1>2
  <2>3. r[m] \in St /\ F[m + 1] \in [St -> St]
    BY <2>1, <2>2 DEF Iterates
  <2>4. PICK z \in St : z = F[m + 1][r[m]]
    BY <2>3
  <2> DEFINE q == [k \in 0 .. m + 1 |-> IF k <= m THEN r[k] ELSE z]
  <2>5. ASSUME NEW k \in 0 .. m + 1
        PROVE  q[k] = (IF k = 0 THEN v ELSE F[k][q[k - 1]]) /\ q[k] \in St
    <3>1. CASE k = m + 1
      <4>1. q[k] = z /\ k - 1 = m /\ k # 0 /\ q[m] = r[m]
        BY <2>2, <3>1
      <4> QED
        BY <2>4, <3>1, <4>1
    <3>2. CASE k # m + 1
      <4>1. k \in 0 .. m /\ q[k] = r[k]
        BY <2>2, <3>2
      <4>2. k # 0 => q[k - 1] = r[k - 1]
        BY <2>2, <4>1
      <4>3. r[k] = (IF k = 0 THEN v ELSE F[k][r[k - 1]]) /\ r[k] \in St
        BY <2>1, <4>1 DEF Iterates
      <4> QED
        BY <4>1, <4>2, <4>3
    <3> QED
      BY <3>1, <3>2
  <2>6. q = [k \in 0 .. m + 1 |-> q[k]]
    OBVIOUS
  <2> HIDE DEF q
  <2>7. Iterates(q, St, v, F, m + 1)
    BY <2>5, <2>6 DEF Iterates
  <2> QED
    BY <2>2, <2>7
<1> HIDE DEF S
<1>3. S = 0 .. n
  BY <1>1, <1>2, UpTo DEF S
<1>4. n \in S
  BY <1>3
<1> QED
  BY <1>4 DEF S

LEMMA IterationSteps ==
  ASSUME NEW r, NEW St, NEW v, NEW F, NEW n \in Nat, Iterates(r, St, v, F, n)
  PROVE  /\ r[0] = v
         /\ \A k \in 0 .. n : r[k] \in St
         /\ \A k \in 1 .. n : r[k] = F[k][r[k - 1]]
         /\ \A k \in 0 .. n : k < n => r[k + 1] = F[k + 1][r[k]]
<1>1. r[0] = v /\ \A k \in 1 .. n : r[k] = F[k][r[k - 1]]
  BY DEF Iterates
<1>2. ASSUME NEW k \in 0 .. n, k < n
      PROVE  r[k + 1] = F[k + 1][r[k]]
  <2>1. k + 1 \in 1 .. n /\ k + 1 - 1 = k
    BY <1>2
  <2> QED
    BY <1>1, <2>1
<1> QED
  BY <1>1, <1>2 DEF Iterates

\* Least and greatest elements of sets of numbers, as the model chooses them.
LEMMA MinNat ==
  ASSUME NEW S \in SUBSET Nat, S # {}
  PROVE  Min(S) \in S /\ \A y \in S : Min(S) <= y
BY LeastNat DEF Min

LEMMA MaxNat ==
  ASSUME NEW n \in Nat, NEW S \in SUBSET (0 .. n), S # {}
  PROVE  Max(S) \in S /\ \A y \in S : Max(S) >= y
<1> DEFINE R == {k \in 0 .. n : n - k \in S}
<1>1. R \in SUBSET Nat /\ R # {}
  <2>1. PICK x \in S : TRUE
    OBVIOUS
  <2>2. n - (n - x) = x /\ n - x \in 0 .. n
    OBVIOUS
  <2>3. n - x \in R
    BY <2>2
  <2>4. R \in SUBSET Nat
    OBVIOUS
  <2> HIDE DEF R
  <2> QED
    BY <2>3, <2>4
<1>2. PICK k \in R : \A y \in R : k <= y
  BY <1>1, LeastNat
<1>3. n - k \in S
  OBVIOUS
<1>4. ASSUME NEW y \in S
      PROVE  n - k >= y
  <2>1. n - (n - y) = y /\ n - y \in 0 .. n
    OBVIOUS
  <2>2. n - y \in R
    BY <2>1
  <2> QED
    BY <1>2, <2>2
<1> QED
  BY <1>3, <1>4 DEF Max
-----------------------------------------------------------------------------
(* Streams of tokens.                                                      *)

Token == [head : {0, 1}, len : Nat, ofs : Nat]

\* Token x, read at byte l of the literals by and position a of the chunk d,
\* leads to l2 and a2.
Reads(x, by, d, a, l, a2, l2) ==
  /\ x.len \in 1 .. MaxToken /\ a2 = a + x.len
  /\ \/ /\ x.head = 0 /\ l2 = l + x.len
        /\ \A i \in 1 .. x.len : by[l + i] = d[a + i]
     \/ /\ x.head = 1 /\ l2 = l
        /\ x.ofs \in 1 .. a
        /\ \A i \in 1 .. x.len : d[a + i] = d[a - x.ofs + i]

\* The tokens tk and the literals by describe d from position from to position
\* to: pos and lit say where each token begins.
Describes(tk, by, d, from, to) ==
  /\ tk \in Seq(Token) /\ by \in Seq(Bytes)
  /\ \E pos \in [0 .. Len(tk) -> 0 .. to], lit \in [0 .. Len(tk) -> 0 .. Len(by)] :
        /\ pos[0] = from /\ pos[Len(tk)] = to
        /\ lit[0] = 0 /\ lit[Len(tk)] = Len(by)
        /\ \A k \in 1 .. Len(tk) :
              Reads(tk[k], by, d, pos[k - 1], lit[k - 1], pos[k], lit[k])

\* No token describes nothing.
LEMMA DescribesNothing ==
  ASSUME NEW d, NEW a \in Nat
  PROVE  Describes(<<>>, <<>>, d, a, a)
<1> DEFINE pos == [k \in 0 .. 0 |-> a]
           lit == [k \in 0 .. 0 |-> 0]
<1>1. pos \in [0 .. Len(<<>>) -> 0 .. a] /\ lit \in [0 .. Len(<<>>) -> 0 .. Len(<<>>)]
  OBVIOUS
<1>2. /\ pos[0] = a /\ pos[Len(<<>>)] = a
      /\ lit[0] = 0 /\ lit[Len(<<>>)] = Len(<<>>)
  OBVIOUS
<1>3. \A k \in 1 .. Len(<<>>) : FALSE
  OBVIOUS
<1> HIDE DEF pos, lit
<1> QED
  BY <1>1, <1>2, <1>3 DEF Describes

\* A token reads the same literals when others are written behind or before
\* them.
LEMMA ReadsLeft ==
  ASSUME NEW d, NEW by1 \in Seq(Bytes), NEW by2 \in Seq(Bytes), NEW x, NEW a, NEW a2,
         NEW l \in 0 .. Len(by1), NEW l2 \in 0 .. Len(by1), Reads(x, by1, d, a, l, a2, l2)
  PROVE  Reads(x, by1 \o by2, d, a, l, a2, l2)
<1>1. PICK m : m = x.len
  OBVIOUS
<1>2. m \in Nat
  BY <1>1 DEF Reads
<1>3. ASSUME l2 = l + m, NEW i \in 1 .. m
      PROVE  (by1 \o by2)[l + i] = by1[l + i]
  <2>1. l + i \in 1 .. Len(by1) /\ Len(by2) \in Nat /\ Len(by1) \in Nat
    BY <1>2, <1>3, LenProperties
  <2>2. l + i \in 1 .. Len(by1) + Len(by2) /\ l + i <= Len(by1)
    BY <2>1
  <2> QED
    BY <2>2, ConcatProperties
<1> QED
  BY <1>1, <1>3 DEF Reads

LEMMA ReadsRight ==
  ASSUME NEW d, NEW by1 \in Seq(Bytes), NEW by2 \in Seq(Bytes), NEW x, NEW a, NEW a2,
         NEW l \in 0 .. Len(by2), NEW l2 \in 0 .. Len(by2), Reads(x, by2, d, a, l, a2, l2)
  PROVE  Reads(x, by1 \o by2, d, a, Len(by1) + l, a2, Len(by1) + l2)
<1>1. PICK m : m = x.len
  OBVIOUS
<1>2. m \in Nat /\ Len(by1) \in Nat /\ Len(by2) \in Nat
  BY <1>1, LenProperties DEF Reads
<1>3. ASSUME l2 = l + m, NEW i \in 1 .. m
      PROVE  (by1 \o by2)[Len(by1) + l + i] = by2[l + i]
  <2>1. /\ Len(by1) + l + i \in 1 .. Len(by1) + Len(by2)
        /\ ~(Len(by1) + l + i <= Len(by1))
        /\ Len(by1) + l + i - Len(by1) = l + i
    BY <1>2, <1>3
  <2> QED
    BY <2>1, ConcatProperties
<1>4. l2 = l + m => Len(by1) + l2 = Len(by1) + l + m
  BY <1>2
<1> QED
  BY <1>1, <1>3, <1>4 DEF Reads

\* What is written behind it goes on where the first description ends.
LEMMA DescribesConcat ==
  ASSUME NEW d, NEW a \in Nat, NEW b \in Nat, NEW c \in Nat,
         NEW tk1, NEW by1, Describes(tk1, by1, d, a, b),
         NEW tk2, NEW by2, Describes(tk2, by2, d, b, c)
  PROVE  Describes(tk1 \o tk2, by1 \o by2, d, a, c)
<1> DEFINE n1 == Len(tk1)
           n2 == Len(tk2)
           l1 == Len(by1)
           l2 == Len(by2)
<1>1. PICK pos1 \in [0 .. n1 -> 0 .. b], lit1 \in [0 .. n1 -> 0 .. l1] :
         /\ pos1[0] = a /\ pos1[n1] = b
         /\ lit1[0] = 0 /\ lit1[n1] = l1
         /\ \A k \in 1 .. n1 :
               Reads(tk1[k], by1, d, pos1[k - 1], lit1[k - 1], pos1[k], lit1[k])
  BY DEF Describes
<1>2. PICK pos2 \in [0 .. n2 -> 0 .. c], lit2 \in [0 .. n2 -> 0 .. l2] :
         /\ pos2[0] = b /\ pos2[n2] = c
         /\ lit2[0] = 0 /\ lit2[n2] = l2
         /\ \A k \in 1 .. n2 :
               Reads(tk2[k], by2, d, pos2[k - 1], lit2[k - 1], pos2[k], lit2[k])
  BY DEF Describes
<1>3. /\ tk1 \in Seq(Token) /\ tk2 \in Seq(Token)
      /\ by1 \in Seq(Bytes) /\ by2 \in Seq(Bytes)
  BY DEF Describes
<1>4. n1 \in Nat /\ n2 \in Nat /\ l1 \in Nat /\ l2 \in Nat
  BY <1>3, LenProperties
<1>5. /\ tk1 \o tk2 \in Seq(Token) /\ Len(tk1 \o tk2) = n1 + n2
      /\ \A i \in 1 .. n1 + n2 : (tk1 \o tk2)[i] = IF i <= n1 THEN tk1[i] ELSE tk2[i - n1]
  BY <1>3, ConcatProperties
<1>6. /\ by1 \o by2 \in Seq(Bytes) /\ Len(by1 \o by2) = l1 + l2
      /\ \A i \in 1 .. l1 + l2 :
            (by1 \o by2)[i] = IF i <= l1 THEN by1[i] ELSE by2[i - l1]
  BY <1>3, ConcatProperties
<1> DEFINE pos == [k \in 0 .. n1 + n2 |-> IF k <= n1 THEN pos1[k] ELSE pos2[k - n1]]
           lit == [k \in 0 .. n1 + n2 |-> IF k <= n1 THEN lit1[k] ELSE l1 + lit2[k - n1]]
<1> HIDE DEF n1, n2, l1, l2
<1>10. a <= b /\ b <= c
  <2>1. 0 \in 0 .. n1 /\ 0 \in 0 .. n2
    BY <1>4
  <2>2. pos1[0] \in 0 .. b /\ pos2[0] \in 0 .. c
    BY <2>1
  <2> QED
    BY <1>1, <1>2, <2>2
<1>7. /\ pos \in [0 .. n1 + n2 -> 0 .. c]
      /\ lit \in [0 .. n1 + n2 -> 0 .. l1 + l2]
  <2>1. ASSUME NEW k \in 0 .. n1 + n2
        PROVE  pos[k] \in 0 .. c /\ lit[k] \in 0 .. l1 + l2
    <3>1. CASE k <= n1
      <4>1. k \in 0 .. n1
        BY <1>4, <3>1
      <4>2. PICK x \in 0 .. b, y \in 0 .. l1 : x = pos1[k] /\ y = lit1[k]
        BY <4>1
      <4>3. pos[k] = x /\ lit[k] = y
        BY <3>1, <4>2
      <4>4. x \in 0 .. c /\ y \in 0 .. l1 + l2
        BY <1>4, <1>10
      <4> QED
        BY <4>3, <4>4
    <3>2. CASE ~(k <= n1)
      <4>1. k - n1 \in 0 .. n2
        BY <1>4, <3>2
      <4>2. PICK x \in 0 .. c, y \in 0 .. l2 : x = pos2[k - n1] /\ y = lit2[k - n1]
        BY <4>1
      <4>3. pos[k] = x /\ lit[k] = l1 + y
        BY <3>2, <4>2
      <4>4. l1 + y \in 0 .. l1 + l2
        BY <1>4
      <4> QED
        BY <4>3, <4>4
    <3> QED
      BY <3>1, <3>2
  <2> QED
    BY <2>1
<1>8. /\ pos[0] = a /\ pos[n1 + n2] = c
      /\ lit[0] = 0 /\ lit[n1 + n2] = l1 + l2
  BY <1>1, <1>2, <1>4
<1>9. ASSUME NEW k \in 1 .. n1 + n2
      PROVE  Reads((tk1 \o tk2)[k], by1 \o by2, d, pos[k - 1], lit[k - 1], pos[k], lit[k])
  <2>1. CASE k <= n1
    <3>1. k \in 1 .. n1 /\ k \in 0 .. n1 /\ k - 1 \in 0 .. n1
      BY <1>4, <2>1
    <3>2. Reads(tk1[k], by1, d, pos1[k - 1], lit1[k - 1], pos1[k], lit1[k])
      BY <1>1, <3>1
    <3>3. lit1[k - 1] \in 0 .. l1 /\ lit1[k] \in 0 .. l1
      BY <3>1
    <3>4. Reads(tk1[k], by1 \o by2, d, pos1[k - 1], lit1[k - 1], pos1[k], lit1[k])
      BY <1>3, <3>2, <3>3, ReadsLeft DEF l1
    <3>5. (tk1 \o tk2)[k] = tk1[k]
      BY <1>5, <2>1
    <3>6. pos[k - 1] = pos1[k - 1] /\ pos[k] = pos1[k]
      BY <1>4, <3>1
    <3>7. lit[k - 1] = lit1[k - 1] /\ lit[k] = lit1[k]
      BY <1>4, <3>1
    <3> HIDE DEF pos, lit
    <3> QED
      BY <3>4, <3>5, <3>6, <3>7
  <2>2. CASE ~(k <= n1)
    <3>1. PICK j : j = k - n1
      OBVIOUS
    <3>2. j \in 1 .. n2 /\ j \in 0 .. n2 /\ j - 1 \in 0 .. n2
      BY <1>4, <2>2, <3>1
    <3>3. Reads(tk2[j], by2, d, pos2[j - 1], lit2[j - 1], pos2[j], lit2[j])
      BY <1>2, <3>2
    <3>4. lit2[j - 1] \in 0 .. l2 /\ lit2[j] \in 0 .. l2
      BY <3>2
    <3>5. Reads(tk2[j], by1 \o by2, d, pos2[j - 1], l1 + lit2[j - 1], pos2[j], l1 + lit2[j])
      BY <1>3, <3>3, <3>4, ReadsRight DEF l1, l2
    <3>6. (tk1 \o tk2)[k] = tk2[j]
      BY <1>5, <2>2, <3>1
    <3>7. pos[k] = pos2[j] /\ lit[k] = l1 + lit2[j]
      BY <1>4, <2>2, <3>1
    <3>8. pos[k - 1] = pos2[j - 1] /\ lit[k - 1] = l1 + lit2[j - 1]
      <4>1. CASE k = n1 + 1
        <5>1. k - 1 = n1 /\ j - 1 = 0 /\ n1 \in 0 .. n1 + n2 /\ n1 <= n1
          BY <1>4, <3>1, <4>1
        <5>2. pos[n1] = pos1[n1] /\ lit[n1] = lit1[n1]
          BY <5>1
        <5> QED
          BY <1>1, <1>2, <1>4, <5>1, <5>2
      <4>2. CASE k # n1 + 1
        <5>1. k - 1 \in 0 .. n1 + n2 /\ ~(k - 1 <= n1) /\ k - 1 - n1 = j - 1
          BY <1>4, <2>2, <3>1, <4>2
        <5> QED
          BY <5>1
      <4> QED
        BY <4>1, <4>2
    <3> HIDE DEF pos, lit
    <3> QED
      BY <3>5, <3>6, <3>7, <3>8
  <2> QED
    BY <2>1, <2>2
<1> HIDE DEF pos, lit
<1> QED
  BY <1>5, <1>6, <1>7, <1>8, <1>9 DEF Describes, n1, n2, l1, l2
\* A token that reads at l still does when the first m bytes before are gone.
LEMMA ReadsRest ==
  ASSUME NEW d, NEW by \in Seq(Bytes), NEW x, NEW a, NEW a2, NEW m \in 0 .. Len(by),
         NEW l \in m .. Len(by), NEW l2 \in m .. Len(by), Reads(x, by, d, a, l, a2, l2)
  PROVE  Reads(x, SubSeq(by, m + 1, Len(by)), d, a, l - m, a2, l2 - m)
<1>1. PICK n : n = x.len
  OBVIOUS
<1>2. n \in Nat /\ Len(by) \in Nat
  BY <1>1, LenProperties DEF Reads
<1>3. ASSUME NEW i \in 1 .. Len(by) - m
      PROVE  SubSeq(by, m + 1, Len(by))[i] = by[m + i]
  BY <1>2
<1>4. ASSUME l2 = l + n, NEW i \in 1 .. n
      PROVE  SubSeq(by, m + 1, Len(by))[l - m + i] = by[l + i]
  <2>1. l - m + i \in 1 .. Len(by) - m /\ m + (l - m + i) = l + i
    BY <1>2, <1>4
  <2> QED
    BY <1>3, <2>1
<1>5. l2 = l + n => l2 - m = l - m + n
  BY <1>2
<1> QED
  BY <1>1, <1>4, <1>5 DEF Reads

\* The first token, and what the others describe.
LEMMA DescribesFirst ==
  ASSUME NEW d, NEW a \in Nat, NEW c \in Nat, NEW tk, NEW by,
         Describes(tk, by, d, a, c), tk # <<>>
  PROVE  \E l2 \in 0 .. Len(by) :
            /\ Head(tk) \in Token
            /\ a + Head(tk).len <= c
            /\ Reads(Head(tk), by, d, a, 0, a + Head(tk).len, l2)
            /\ Describes(Tail(tk), SubSeq(by, l2 + 1, Len(by)), d, a + Head(tk).len, c)
<1>1. PICK n, m : n = Len(tk) /\ m = Len(by)
  OBVIOUS
<1>2. tk \in Seq(Token) /\ by \in Seq(Bytes)
  BY DEF Describes
<1>3. n \in Nat \ {0} /\ m \in Nat
  BY <1>1, <1>2, LenProperties, EmptySeq
<1>4. PICK pos \in [0 .. n -> 0 .. c], lit \in [0 .. n -> 0 .. m] :
         /\ pos[0] = a /\ pos[n] = c
         /\ lit[0] = 0 /\ lit[n] = m
         /\ \A k \in 1 .. n : Reads(tk[k], by, d, pos[k - 1], lit[k - 1], pos[k], lit[k])
  BY <1>1 DEF Describes
<1>5. /\ Head(tk) = tk[1] /\ Head(tk) \in Token
      /\ Tail(tk) \in Seq(Token) /\ Len(Tail(tk)) = n - 1
      /\ \A i \in 1 .. n - 1 : Tail(tk)[i] = tk[i + 1]
  BY <1>1, <1>2, HeadTailProperties
<1>6. PICK l2 : l2 = lit[1]
  OBVIOUS
<1>7. Reads(tk[1], by, d, a, 0, pos[1], l2)
  BY <1>3, <1>4, <1>6
<1>8. pos[1] = a + Head(tk).len /\ pos[1] \in 0 .. c /\ l2 \in 0 .. m
  BY <1>3, <1>5, <1>6, <1>7 DEF Reads
<1>9. \A k \in 1 .. n : lit[k] \in l2 .. m
  <2> DEFINE S == {k \in 0 .. n : k = 0 \/ lit[k] \in l2 .. m}
  <2>1. 0 \in S
    BY <1>3
  <2>2. ASSUME NEW k \in S, k < n
        PROVE  k + 1 \in S
    <3>1. k + 1 \in 0 .. n /\ k + 1 \in 1 .. n /\ k + 1 - 1 = k /\ k \in 0 .. n
      BY <1>3, <2>2
    <3>2. lit[k + 1] \in 0 .. m /\ lit[k] \in 0 .. m
      BY <3>1
    <3>3. CASE k = 0
      BY <1>3, <1>6, <3>1, <3>2, <3>3
    <3>4. CASE k # 0
      <4>1. Reads(tk[k + 1], by, d, pos[k], lit[k], pos[k + 1], lit[k + 1])
        BY <1>4, <3>1
      <4>2. lit[k] <= lit[k + 1]
        <5>1. PICK u, w, x : u = lit[k] /\ w = lit[k + 1] /\ x = tk[k + 1]
          OBVIOUS
        <5>2. x.len \in Nat /\ (w = u + x.len \/ w = u)
          BY <4>1, <5>1, SearchAssumption DEF Reads
        <5> QED
          BY <3>2, <5>1, <5>2
      <4>3. lit[k] \in l2 .. m
        BY <3>4
      <4>4. lit[k + 1] \in l2 .. m
        BY <1>8, <3>2, <4>2, <4>3
      <4> QED
        BY <3>1, <4>4
    <3> QED
      BY <3>3, <3>4
  <2> HIDE DEF S
  <2>3. S = 0 .. n
    BY <1>3, <2>1, <2>2, UpTo DEF S
  <2>4. \A k \in 1 .. n : k \in S /\ k # 0
    BY <1>3, <2>3
  <2> QED
    BY <2>4 DEF S
<1> DEFINE rest == SubSeq(by, l2 + 1, m)
           pos2 == [k \in 0 .. n - 1 |-> pos[k + 1]]
           lit2 == [k \in 0 .. n - 1 |-> lit[k + 1] - l2]
<1>10. rest \in Seq(Bytes) /\ Len(rest) = m - l2
  BY <1>1, <1>2, <1>3, <1>8
<1>11. pos2 \in [0 .. n - 1 -> 0 .. c] /\ lit2 \in [0 .. n - 1 -> 0 .. m - l2]
  <2>1. ASSUME NEW k \in 0 .. n - 1
        PROVE  pos[k + 1] \in 0 .. c /\ lit[k + 1] - l2 \in 0 .. m - l2
    <3>1. k + 1 \in 0 .. n /\ k + 1 \in 1 .. n
      BY <1>3
    <3>2. PICK y \in l2 .. m : y = lit[k + 1]
      BY <1>9, <3>1
    <3>3. pos[k + 1] \in 0 .. c
      BY <3>1
    <3>4. y - l2 \in 0 .. m - l2
      BY <1>3, <1>8
    <3> QED
      BY <3>2, <3>3, <3>4
  <2> QED
    BY <2>1
<1>12. /\ pos2[0] = pos[1] /\ pos2[n - 1] = c
       /\ lit2[0] = 0 /\ lit2[n - 1] = m - l2
  BY <1>3, <1>4, <1>6, <1>8
<1>13. ASSUME NEW k \in 1 .. n - 1
       PROVE  Reads(Tail(tk)[k], rest, d, pos2[k - 1], lit2[k - 1], pos2[k], lit2[k])
  <2>1. k + 1 \in 1 .. n /\ k \in 1 .. n /\ k + 1 - 1 = k
    BY <1>3
  <2>2. Reads(tk[k + 1], by, d, pos[k], lit[k], pos[k + 1], lit[k + 1])
    BY <1>4, <2>1
  <2>3. lit[k] \in l2 .. m /\ lit[k + 1] \in l2 .. m
    BY <1>9, <2>1
  <2>4. Reads(tk[k + 1], rest, d, pos[k], lit[k] - l2, pos[k + 1], lit[k + 1] - l2)
    BY <1>1, <1>2, <1>8, <2>2, <2>3, ReadsRest
  <2>5. Tail(tk)[k] = tk[k + 1]
    BY <1>5
  <2>6. /\ pos2[k - 1] = pos[k] /\ pos2[k] = pos[k + 1]
        /\ lit2[k - 1] = lit[k] - l2 /\ lit2[k] = lit[k + 1] - l2
    <3>1. k - 1 \in 0 .. n - 1 /\ k \in 0 .. n - 1 /\ (k - 1) + 1 = k
      BY <1>3
    <3> QED
      BY <3>1
  <2> HIDE DEF pos2, lit2, rest
  <2> QED
    BY <2>4, <2>5, <2>6
<1> HIDE DEF pos2, lit2, rest
<1>14. Describes(Tail(tk), rest, d, pos[1], c)
  BY <1>5, <1>10, <1>11, <1>12, <1>13 DEF Describes
<1> QED
  BY <1>1, <1>5, <1>7, <1>8, <1>14 DEF rest
\* The pieces of a long match or literal add up to it.
LEMMA PiecesAddUp ==
  ASSUME NEW n \in Nat \ {0}
  PROVE  /\ Pieces(n) \in Nat \ {0}
         /\ (Pieces(n) - 1) * MaxToken < n /\ n <= Pieces(n) * MaxToken
<1>1. PICK m \in Nat \ {0} : m = MaxToken
  BY SearchAssumption
<1>2. PICK q : q = (n + m - 1) \div m
  OBVIOUS
<1>3. q \in Nat /\ q * m <= n + m - 1 /\ n + m - 1 < (q + 1) * m
  BY <1>1, <1>2
<1>4. (q + 1) * m = q * m + m /\ (q - 1) * m = q * m - m /\ q * m \in Nat
  BY <1>1, <1>3
<1>5. (q - 1) * m < n /\ n <= q * m
  BY <1>1, <1>3, <1>4
<1>6. q # 0
  BY <1>1, <1>5
<1> QED
  BY <1>1, <1>2, <1>3, <1>5, <1>6 DEF Pieces

\* Where piece k of n bytes begins: behind k - 1 full ones.
LEMMA PiecePositions ==
  ASSUME NEW n \in Nat \ {0}, NEW k \in 1 .. Pieces(n)
  PROVE  /\ Piece(n, k) \in 1 .. MaxToken
         /\ (k - 1) * MaxToken \in 0 .. n - 1
         /\ (k - 1) * MaxToken + Piece(n, k) = IF k = Pieces(n) THEN n ELSE k * MaxToken
         /\ k # Pieces(n) => k * MaxToken < n
<1>1. PICK m \in Nat \ {0} : m = MaxToken
  BY SearchAssumption
<1>2. PICK q : q = Pieces(n)
  OBVIOUS
<1>3. q \in Nat \ {0} /\ (q - 1) * m < n /\ n <= q * m
  BY <1>1, <1>2, PiecesAddUp
<1>4. PICK j \in Nat : j = k - 1
  BY <1>2, <1>3
<1>5. j * m \in Nat /\ k * m = j * m + m
  BY <1>1, <1>4
<1>6. j * m <= (q - 1) * m
  BY <1>1, <1>2, <1>3, <1>4
<1>7. k # q => k * m <= (q - 1) * m
  <2>1. k # q => k <= q - 1
    BY <1>2, <1>3
  <2> QED
    BY <1>1, <1>2, <1>3, <2>1
<1>8. (q - 1) * m \in Int
  BY <1>1, <1>3
<1>9. j * m < n /\ (k # q => k * m < n)
  BY <1>3, <1>5, <1>6, <1>7, <1>8
<1>10. k = q => n <= j * m + m
  BY <1>3, <1>5
<1> QED
  BY <1>1, <1>2, <1>4, <1>5, <1>9, <1>10 DEF Piece, Smallest
\* How much of n bytes the first k pieces hold.
Done(n, k) == IF k = Pieces(n) THEN n ELSE k * MaxToken

LEMMA DonePieces ==
  ASSUME NEW n \in Nat \ {0}
  PROVE  /\ Pieces(n) \in Nat \ {0} /\ Done(n, 0) = 0 /\ Done(n, Pieces(n)) = n
         /\ \A k \in 0 .. Pieces(n) : Done(n, k) \in 0 .. n
         /\ \A k \in 1 .. Pieces(n) : /\ Piece(n, k) \in 1 .. MaxToken
                                      /\ Done(n, k) = Done(n, k - 1) + Piece(n, k)
<1>1. Pieces(n) \in Nat \ {0} /\ MaxToken \in Nat \ {0}
  BY PiecesAddUp, SearchAssumption
<1>2. Done(n, 0) = 0 /\ Done(n, Pieces(n)) = n
  BY <1>1 DEF Done
<1>3. ASSUME NEW k \in 1 .. Pieces(n)
      PROVE  /\ Piece(n, k) \in 1 .. MaxToken
             /\ Done(n, k) = Done(n, k - 1) + Piece(n, k)
             /\ Done(n, k) \in 0 .. n
  <2>1. k - 1 # Pieces(n) /\ k * MaxToken \in Nat
    BY <1>1
  <2> QED
    BY <2>1, PiecePositions DEF Done
<1>4. ASSUME NEW k \in 0 .. Pieces(n)
      PROVE  Done(n, k) \in 0 .. n
  BY <1>1, <1>2, <1>3
<1> QED
  BY <1>1, <1>2, <1>3, <1>4

\* put_literal: the tokens describe the bytes that go to stream 1.
LEMMA PutLiteralDescribes ==
  ASSUME NEW d \in Seq(Bytes), NEW a \in Nat, NEW n \in Nat \ {0}, a + n <= Len(d)
  PROVE  Describes(PutLiteral(n), SubSeq(d, a + 1, a + n), d, a, a + n)
<1>1. PICK q : q = Pieces(n)
  OBVIOUS
<1>2. /\ q \in Nat \ {0} /\ Done(n, 0) = 0 /\ Done(n, q) = n
      /\ \A k \in 0 .. q : Done(n, k) \in 0 .. n
      /\ \A k \in 1 .. q : /\ Piece(n, k) \in 1 .. MaxToken
                           /\ Done(n, k) = Done(n, k - 1) + Piece(n, k)
  BY <1>1, DonePieces
<1> DEFINE tk  == PutLiteral(n)
           by  == SubSeq(d, a + 1, a + n)
           pos == [k \in 0 .. q |-> a + Done(n, k)]
           lit == [k \in 0 .. q |-> Done(n, k)]
<1>3. MaxToken \in Nat
  BY SearchAssumption
<1>4. tk \in Seq(Token) /\ Len(tk) = q
  <2>1. tk = [k \in 1 .. q |-> Literal(Piece(n, k))]
    BY <1>1 DEF PutLiteral
  <2>2. \A k \in 1 .. q : Literal(Piece(n, k)) \in Token
    BY <1>2, <1>3 DEF Literal, Token
  <2> HIDE DEF tk
  <2> QED
    BY <1>2, <2>1, <2>2
<1>5. /\ by \in Seq(Bytes) /\ Len(by) = n
      /\ \A i \in 1 .. n : by[i] = d[a + i]
  <2>1. \A i \in a + 1 .. a + n : d[i] \in Bytes
    BY LenProperties
  <2>2. a + 1 <= a + n /\ a + n - (a + 1) + 1 = n /\ a + n \in Int /\ a + 1 \in Int
    OBVIOUS
  <2>3. by \in Seq(Bytes) /\ Len(by) = n /\ \A i \in 1 .. n : by[i] = d[a + 1 + i - 1]
    BY <2>1, <2>2, SubSeqProperties
  <2> HIDE DEF by
  <2> QED
    BY <2>3
<1>6. pos \in [0 .. q -> 0 .. a + n] /\ lit \in [0 .. q -> 0 .. n]
  <2>1. \A k \in 0 .. q : a + Done(n, k) \in 0 .. a + n /\ Done(n, k) \in 0 .. n
    BY <1>2
  <2> QED
    BY <2>1
<1>7. pos[0] = a /\ pos[q] = a + n /\ lit[0] = 0 /\ lit[q] = n
  BY <1>2
<1>8. ASSUME NEW k \in 1 .. q
      PROVE  Reads(tk[k], by, d, pos[k - 1], lit[k - 1], pos[k], lit[k])
  <2>1. PICK u, v : u = Done(n, k - 1) /\ v = Piece(n, k)
    OBVIOUS
  <2>2. u \in 0 .. n /\ v \in 1 .. MaxToken /\ u + v \in 0 .. n /\ Done(n, k) = u + v
    BY <1>2, <2>1
  <2>3. tk[k].head = 0 /\ tk[k].len = v
    BY <1>1, <2>1 DEF PutLiteral, Literal
  <2>4. pos[k - 1] = a + u /\ lit[k - 1] = u /\ pos[k] = a + (u + v) /\ lit[k] = u + v
    <3>1. k \in 0 .. q /\ k - 1 \in 0 .. q
      BY <1>2
    <3> QED
      BY <2>1, <2>2, <3>1
  <2> HIDE DEF by, tk, pos, lit
  <2>5. ASSUME NEW i \in 1 .. v
        PROVE  by[u + i] = d[a + u + i]
    <3>1. u + i \in 1 .. n /\ a + (u + i) = a + u + i
      BY <1>3, <2>2
    <3> QED
      BY <1>5, <3>1
  <2>6. a + (u + v) = a + u + v
    BY <1>3, <2>2
  <2> QED
    BY <2>2, <2>3, <2>4, <2>5, <2>6 DEF Reads
<1> HIDE DEF by, tk, pos, lit
<1>9. Describes(tk, by, d, a, a + n)
  BY <1>4, <1>5, <1>6, <1>7, <1>8 DEF Describes
<1> QED
  BY <1>9 DEF tk, by

\* put_match: the tokens describe a copy of what lies o bytes before.
LEMMA PutMatchDescribes ==
  ASSUME NEW d \in Seq(Bytes), NEW a \in Nat, NEW n \in Nat \ {0}, NEW o \in 1 .. a,
         \A i \in 1 .. n : d[a + i] = d[a - o + i]
  PROVE  Describes(PutMatch(n, o), <<>>, d, a, a + n)
<1>1. PICK q : q = Pieces(n)
  OBVIOUS
<1>2. /\ q \in Nat \ {0} /\ Done(n, 0) = 0 /\ Done(n, q) = n
      /\ \A k \in 0 .. q : Done(n, k) \in 0 .. n
      /\ \A k \in 1 .. q : /\ Piece(n, k) \in 1 .. MaxToken
                           /\ Done(n, k) = Done(n, k - 1) + Piece(n, k)
  BY <1>1, DonePieces
<1> DEFINE tk  == PutMatch(n, o)
           pos == [k \in 0 .. q |-> a + Done(n, k)]
           lit == [k \in 0 .. q |-> 0]
<1>3. MaxToken \in Nat
  BY SearchAssumption
<1>4. tk \in Seq(Token) /\ Len(tk) = q
  <2>1. tk = [k \in 1 .. q |-> Match(Piece(n, k), o)]
    BY <1>1 DEF PutMatch
  <2>2. \A k \in 1 .. q : Match(Piece(n, k), o) \in Token
    BY <1>2, <1>3 DEF Match, Token
  <2> HIDE DEF tk
  <2> QED
    BY <1>2, <2>1, <2>2
<1>5. <<>> \in Seq(Bytes) /\ Len(<<>>) = 0
  OBVIOUS
<1>6. pos \in [0 .. q -> 0 .. a + n] /\ lit \in [0 .. q -> 0 .. 0]
  BY <1>2
<1>7. pos[0] = a /\ pos[q] = a + n /\ lit[0] = 0 /\ lit[q] = 0
  BY <1>2
<1>8. ASSUME NEW k \in 1 .. q
      PROVE  Reads(tk[k], <<>>, d, pos[k - 1], lit[k - 1], pos[k], lit[k])
  <2>1. PICK u, v : u = Done(n, k - 1) /\ v = Piece(n, k)
    OBVIOUS
  <2>2. u \in 0 .. n /\ v \in 1 .. MaxToken /\ u + v \in 0 .. n /\ Done(n, k) = u + v
    BY <1>2, <2>1
  <2>3. tk[k].head = 1 /\ tk[k].len = v /\ tk[k].ofs = o
    BY <1>1, <2>1 DEF PutMatch, Match
  <2>4. pos[k - 1] = a + u /\ lit[k - 1] = 0 /\ pos[k] = a + (u + v) /\ lit[k] = 0
    <3>1. k \in 0 .. q /\ k - 1 \in 0 .. q
      BY <1>2
    <3> QED
      BY <2>1, <2>2, <3>1
  <2> HIDE DEF tk, pos, lit
  <2>5. ASSUME NEW i \in 1 .. v
        PROVE  d[a + u + i] = d[a + u - o + i]
    <3>1. u + i \in 1 .. n /\ a + (u + i) = a + u + i /\ a - o + (u + i) = a + u - o + i
      BY <1>3, <2>2
    <3> QED
      BY <3>1
  <2>6. a + (u + v) = a + u + v /\ o \in 1 .. a + u
    BY <1>3, <2>2
  <2> QED
    BY <2>2, <2>3, <2>4, <2>5, <2>6 DEF Reads
<1> HIDE DEF tk, pos, lit
<1>9. Describes(tk, <<>>, d, a, a + n)
  BY <1>4, <1>5, <1>6, <1>7, <1>8 DEF Describes
<1> QED
  BY <1>9 DEF tk
-----------------------------------------------------------------------------
(* Matches.                                                                *)

\* The primary slot of a tag is a number; the slots looked at are slots.
LEMMA PrimaryHashNat ==
  ASSUME NEW x
  PROVE  PrimaryHash(x) \in Nat
<1> DEFINE y == x \cap Mask(HashBits)
           Bit(k) == IF HashBits - k \in y THEN 1 ELSE 0
           Eq(r) == r = [k \in 0 .. HashBits |-> IF k = 0 THEN 0 ELSE 2 * r[k - 1] + Bit(k)]
           F == [k \in 1 .. HashBits |-> [v \in Nat |-> 2 * v + Bit(k)]]
<1>1. HashBits \in Nat /\ y \in SUBSET Mask(HashBits)
  BY TableAssumption
<1>2. PICK g : Iterates(g, Nat, 0, F, HashBits)
  <2>1. F \in [1 .. HashBits -> [Nat -> Nat]]
    OBVIOUS
  <2> HIDE DEF F
  <2> QED
    BY <1>1, <2>1, Iteration
<1>3. Eq(g)
  <2>1. ASSUME NEW k \in 0 .. HashBits
        PROVE  g[k] = IF k = 0 THEN 0 ELSE 2 * g[k - 1] + Bit(k)
    <3>1. CASE k = 0
      BY <1>2, <3>1 DEF Iterates
    <3>2. CASE k # 0
      <4>1. k \in 1 .. HashBits /\ k - 1 \in 0 .. HashBits
        BY <1>1, <3>2
      <4>2. g[k] = F[k][g[k - 1]] /\ g[k - 1] \in Nat
        <5> HIDE DEF F
        <5> QED
          BY <1>1, <1>2, <4>1, IterationSteps
      <4>3. F[k][g[k - 1]] = 2 * g[k - 1] + Bit(k)
        BY <4>1, <4>2
      <4> QED
        BY <3>2, <4>2, <4>3
    <3> QED
      BY <3>1, <3>2
  <2>2. g = [k \in 0 .. HashBits |-> g[k]]
    BY <1>2 DEF Iterates
  <2> HIDE DEF Bit
  <2> QED
    BY <2>1, <2>2
<1> DEFINE low == CHOOSE r : Eq(r)
<1>4. Eq(low)
  BY <1>3
<1> HIDE DEF low
<1>5. low[HashBits] \in Nat
  <2> DEFINE S == {k \in 0 .. HashBits : low[k] \in Nat}
  <2>1. 0 \in S
    BY <1>1, <1>4
  <2>2. ASSUME NEW k \in S, k < HashBits
        PROVE  k + 1 \in S
    <3>1. k + 1 \in 0 .. HashBits /\ k + 1 # 0 /\ k + 1 - 1 = k
      BY <1>1, <2>2
    <3>2. low[k + 1] = 2 * low[k] + Bit(k + 1) /\ low[k] \in Nat
      BY <1>4, <3>1
    <3> QED
      BY <3>1, <3>2
  <2> HIDE DEF S
  <2>3. S = 0 .. HashBits
    BY <1>1, <2>1, <2>2, UpTo DEF S
  <2> QED
    BY <1>1, <2>3 DEF S
<1>6. LowBits[y] = low[HashBits]
  BY <1>1 DEF LowBits, low
<1> QED
  BY <1>5, <1>6 DEF PrimaryHash

LEMMA ProbeSlot ==
  ASSUME NEW x, NEW i \in Nat
  PROVE  Probe(x, i) \in Slots
<1>1. PICK h, n : h = PrimaryHash(x) /\ n = 2^HashBits
  OBVIOUS
<1>2. h \in Nat /\ n \in Nat \ {0}
  BY <1>1, PrimaryHashNat, TableAssumption
<1>3. (h + i) % n \in 0 .. n - 1
  BY <1>2
<1> QED
  BY <1>1, <1>3 DEF Probe, Slots
\* single_get_cb on a chunk that is mapped whole: as far as two places agree.
LEMMA PrefixAgrees ==
  ASSUME NEW a, NEW b, NEW n \in Nat
  PROVE  /\ Prefix(a, b, n) \in 0 .. n
         /\ \A i \in 1 .. Prefix(a, b, n) : data[a + i] = data[b + i]
<1> DEFINE S == {k \in 0 .. n : \A i \in 1 .. k : data[a + i] = data[b + i]}
<1>1. S \in SUBSET (0 .. n) /\ 0 \in S
  OBVIOUS
<1>2. Max(S) \in S
  <2> HIDE DEF S
  <2> QED
    BY <1>1, MaxNat
<1>3. Prefix(a, b, n) = Max(S)
  BY DEF Prefix
<1> QED
  BY <1>2, <1>3

LEMMA SuffixAgrees ==
  ASSUME NEW a, NEW b, NEW n \in Nat
  PROVE  /\ Suffix(a, b, n) \in 0 .. n
         /\ \A i \in 0 .. Suffix(a, b, n) - 1 : data[a - i] = data[b - i]
<1> DEFINE S == {k \in 0 .. n : \A i \in 0 .. k - 1 : data[a - i] = data[b - i]}
<1>1. S \in SUBSET (0 .. n) /\ 0 \in S
  OBVIOUS
<1>2. Max(S) \in S
  <2> HIDE DEF S
  <2> QED
    BY <1>1, MaxNat
<1>3. Suffix(a, b, n) = Max(S)
  BY DEF Suffix
<1> QED
  BY <1>2, <1>3

\* n bytes of the chunk at a are a copy of those at an earlier b, and lie in
\* front of the last window.
Copy(a, b, n) ==
  /\ a \in Nat /\ b \in Nat /\ b < a /\ a + n <= End
  /\ \A i \in 1 .. n : data[a + i] = data[b + i]

\* match_len returns nothing or a copy that begins behind the last match.
LEMMA MatchLenCopies ==
  ASSUME ~Sliding, NEW m, NEW q \in Nat, NEW o \in Nat, NEW best,
         lastMatch \in 0 .. q, End \in Int, q <= End
  PROVE  \E n \in Nat, r \in 0 .. q - lastMatch :
            /\ MatchLen(m, q, o, best) = [sb |-> m, len |-> n, rev |-> r]
            /\ n # 0 => r <= o /\ Copy(q - r, o - r, n)
<1>1. CASE o >= q
  BY <1>1 DEF MatchLen, NoMatch
<1>2. CASE ~(o >= q)
  <2>1. PICK f : f = Prefix(q, o, End - q)
    OBVIOUS
  <2>2. f \in 0 .. End - q /\ \A i \in 1 .. f : data[q + i] = data[o + i]
    BY <2>1, PrefixAgrees
  <2>3. PICK g : g = MaxReverse(q, o)
    OBVIOUS
  <2>4. g \in 0 .. q - lastMatch /\ g <= o
    BY <2>3 DEF MaxReverse, Smallest
  <2>5. PICK r : r = Suffix(q, o, g)
    OBVIOUS
  <2>6. r \in 0 .. g /\ \A i \in 0 .. r - 1 : data[q - i] = data[o - i]
    BY <2>4, <2>5, SuffixAgrees
  <2>7. MatchLen(m, q, o, best) \in
           {[sb |-> m, len |-> 0, rev |-> 0], [sb |-> m, len |-> f + r, rev |-> r]}
    BY <1>2, <2>1, <2>3, <2>5
       DEF MatchLen, Extend, Forward, Reverse, Judge, NoMatch
  <2>8. Copy(q - r, o - r, f + r)
    <3>1. ASSUME NEW i \in 1 .. f + r
          PROVE  data[q - r + i] = data[o - r + i]
      <4>1. CASE i <= r
        <5>1. r - i \in 0 .. r - 1 /\ q - (r - i) = q - r + i /\ o - (r - i) = o - r + i
          BY <2>2, <2>4, <2>6, <4>1
        <5> QED
          BY <2>6, <5>1
      <4>2. CASE ~(i <= r)
        <5>1. i - r \in 1 .. f /\ q + (i - r) = q - r + i /\ o + (i - r) = o - r + i
          BY <2>2, <2>4, <2>6, <4>2
        <5> QED
          BY <2>2, <5>1
      <4> QED
        BY <4>1, <4>2
    <3>2. q - r \in Nat /\ o - r \in Nat /\ o - r < q - r /\ (q - r) + (f + r) <= End
      BY <1>2, <2>2, <2>4, <2>6
    <3> QED
      BY <3>1, <3>2 DEF Copy
  <2>9. r \in 0 .. q - lastMatch /\ r <= o /\ f + r \in Nat
    BY <2>2, <2>4, <2>6
  <2>10. 0 \in 0 .. q - lastMatch
    OBVIOUS
  <2> QED
    BY <2>7, <2>8, <2>9, <2>10
<1> QED
  BY <1>1, <1>2

\* The best match of find_best_match is none, or such a copy.
BestAt(m, q) ==
  {b \in [sb : {m}, len : Nat, ofs : Nat, rev : Nat] :
      b.len # 0 => b.rev \in 0 .. q - lastMatch /\ Copy(q - b.rev, b.ofs, b.len)}

LEMMA ProbeStepBest ==
  ASSUME ~Sliding, NEW m, NEW q \in Nat, NEW tag,
         lastMatch \in 0 .. q, End \in Int, q <= End,
         \A s \in Slots : ht.slot[s].off \in Nat,
         NEW w \in [i : Nat, hits : Nat, best : BestAt(m, q)]
  PROVE  ProbeStep(tag, q, w) \in [i : Nat, hits : Nat, best : BestAt(m, q)]
<1>1. PICK e : e = ht.slot[Probe(tag, w.i)]
  OBVIOUS
<1>2. e.off \in Nat
  BY <1>1, ProbeSlot
<1>3. w.best \in BestAt(m, q) /\ w.best.sb = m
  BY DEF BestAt
<1>4. PICK n \in Nat, r \in 0 .. q - lastMatch :
         /\ MatchLen(w.best.sb, q, e.off, w.best.len) = [sb |-> m, len |-> n, rev |-> r]
         /\ n # 0 => r <= e.off /\ Copy(q - r, e.off - r, n)
  BY <1>2, <1>3, MatchLenCopies
<1>5. Better(w.best, MatchLen(w.best.sb, q, e.off, w.best.len), e.off) \in BestAt(m, q)
  <2>1. CASE n = 0
    BY <1>3, <1>4, <2>1 DEF Better, BestAt
  <2>2. CASE n # 0
    <3>1. e.off - r \in Nat /\ r \in Nat
      BY <1>2, <1>4, <2>2
    <3>2. Better(w.best, MatchLen(w.best.sb, q, e.off, w.best.len), e.off)
             = [sb |-> m, len |-> n, ofs |-> e.off - r, rev |-> r]
      BY <1>4, <2>2 DEF Better, MatchStart
    <3> QED
      BY <1>4, <2>2, <3>1, <3>2 DEF BestAt
  <2> QED
    BY <2>1, <2>2
<1>6. \/ ProbeStep(tag, q, w) = w
      \/ ProbeStep(tag, q, w) = [w EXCEPT !.i = @ + 1]
      \/ ProbeStep(tag, q, w) =
            [i |-> w.i + 1, hits |-> w.hits + 1,
             best |-> Better(w.best, MatchLen(w.best.sb, q, e.off, w.best.len), e.off)]
  BY <1>1 DEF ProbeStep
<1> QED
  BY <1>5, <1>6

LEMMA FindBestMatchBest ==
  ASSUME ~Sliding, NEW m, NEW q \in Nat, NEW tag,
         lastMatch \in 0 .. q, End \in Int, q <= End,
         \A s \in Slots : ht.slot[s].off \in Nat
  PROVE  FindBestMatch(tag, q, m) \in BestAt(m, q)
<1> DEFINE St == [i : Nat, hits : Nat, best : BestAt(m, q)]
           v == [i |-> 0, hits |-> 0, best |-> [sb |-> m, len |-> 0, ofs |-> 0, rev |-> 0]]
           F == [k \in 1 .. MaxProbes |-> [w \in St |-> ProbeStep(tag, q, w)]]
           Eq(r) == r = [k \in 0 .. MaxProbes |-> IF k = 0 THEN v ELSE ProbeStep(tag, q, r[k - 1])]
<1>1. MaxProbes \in Nat
  BY TableAssumption DEF MaxProbes, HashLimit
<1>2. v \in St
  BY DEF BestAt
<1>3. \A w \in St : ProbeStep(tag, q, w) \in St
  BY ProbeStepBest
<1> HIDE DEF St, v
<1>4. PICK g : Iterates(g, St, v, F, MaxProbes)
  <2>1. F \in [1 .. MaxProbes -> [St -> St]]
    BY <1>3
  <2> HIDE DEF F
  <2> QED
    BY <1>1, <1>2, <2>1, Iteration
<1>5. Eq(g)
  <2>1. ASSUME NEW k \in 0 .. MaxProbes
        PROVE  g[k] = IF k = 0 THEN v ELSE ProbeStep(tag, q, g[k - 1])
    <3>1. CASE k = 0
      BY <1>4, <3>1 DEF Iterates
    <3>2. CASE k # 0
      <4>1. k \in 1 .. MaxProbes /\ k - 1 \in 0 .. MaxProbes
        BY <1>1, <3>2
      <4>2. g[k] = F[k][g[k - 1]] /\ g[k - 1] \in St
        <5> HIDE DEF F
        <5> QED
          BY <1>1, <1>4, <4>1, IterationSteps
      <4> QED
        BY <3>2, <4>1, <4>2
    <3> QED
      BY <3>1, <3>2
  <2>2. g = [k \in 0 .. MaxProbes |-> g[k]]
    BY <1>4 DEF Iterates
  <2> QED
    BY <2>1, <2>2
<1> DEFINE walk == CHOOSE r : Eq(r)
<1>6. Eq(walk)
  BY <1>5
<1> HIDE DEF walk
<1>7. walk[MaxProbes] \in St
  <2> DEFINE S == {k \in 0 .. MaxProbes : walk[k] \in St}
  <2>1. 0 \in S
    BY <1>1, <1>2, <1>6
  <2>2. ASSUME NEW k \in S, k < MaxProbes
        PROVE  k + 1 \in S
    <3>1. k + 1 \in 0 .. MaxProbes /\ k + 1 # 0 /\ k + 1 - 1 = k
      BY <1>1, <2>2
    <3>2. walk[k + 1] = ProbeStep(tag, q, walk[k]) /\ walk[k] \in St
      BY <1>6, <3>1
    <3> QED
      BY <1>3, <3>1, <3>2
  <2> HIDE DEF S
  <2>3. S = 0 .. MaxProbes
    BY <1>1, <2>1, <2>2, UpTo DEF S
  <2> QED
    BY <1>1, <2>3 DEF S
<1>8. FindBestMatch(tag, q, m) = walk[MaxProbes].best
  BY DEF FindBestMatch, walk, v
<1> QED
  BY <1>7, <1>8 DEF St
-----------------------------------------------------------------------------
(* Remainders.                                                             *)

\* The remainder is the only one: x = m * q + r determines it.
LEMMA Remainder ==
  ASSUME NEW m \in Nat \ {0}, NEW q \in Int, NEW r \in 0 .. m - 1
  PROVE  (m * q + r) % m = r
<1>1. PICK x \in Int : x = m * q + r
  OBVIOUS
<1>2. PICK e \in Int, s \in 0 .. m - 1 : e = x \div m /\ s = x % m /\ x = m * e + s
  OBVIOUS
<1>3. m * q + r = m * e + s
  BY <1>1, <1>2
<1>4. ~(q >= e + 1)
  <2> SUFFICES ASSUME q >= e + 1
               PROVE  FALSE
    OBVIOUS
  <2>1. m * q >= m * (e + 1) /\ m * (e + 1) = m * e + m
    OBVIOUS
  <2> QED
    BY <1>3, <2>1
<1>5. ~(e >= q + 1)
  <2> SUFFICES ASSUME e >= q + 1
               PROVE  FALSE
    OBVIOUS
  <2>1. m * e >= m * (q + 1) /\ m * (q + 1) = m * q + m
    OBVIOUS
  <2> QED
    BY <1>3, <2>1
<1>6. q = e
  BY <1>4, <1>5
<1>7. r = s
  BY <1>3, <1>6
<1> QED
  BY <1>1, <1>2, <1>7

LEMMA RemainderLess ==
  ASSUME NEW m \in Nat \ {0}, NEW k \in Nat, k >= m
  PROVE  k % m = (k - m) % m
<1>1. PICK q \in Int, r \in 0 .. m - 1 : q = k \div m /\ r = k % m /\ k = m * q + r
  OBVIOUS
<1>2. k - m = m * (q - 1) + r
  BY <1>1
<1>3. (m * (q - 1) + r) % m = r
  BY Remainder
<1> QED
  BY <1>1, <1>2, <1>3

\* match_expand: what is n bytes long and equal to what lies o bytes before is
\* the o bytes before it, as often as they fit.
Echo(d, a, n, o) == \A i \in 1 .. n : d[a + i] = d[a - o + i]
Repeat(d, a, n, o) == \A i \in 1 .. n : d[a + i] = d[a - o + 1 + ((i - 1) % o)]

LEMMA EchoRepeats ==
  ASSUME NEW d, NEW a \in Nat, NEW n \in Nat, NEW o \in 1 .. a, Echo(d, a, n, o)
  PROVE  Repeat(d, a, n, o)
<1> USE DEF Echo, Repeat
<1> DEFINE S == {i \in 1 .. n : d[a + i] # d[a - o + 1 + ((i - 1) % o)]}
<1> SUFFICES ASSUME S # {}
             PROVE  FALSE
  OBVIOUS
<1>1. S \in SUBSET Nat
  OBVIOUS
<1>2. PICK x \in S : \A y \in S : x <= y
  BY <1>1, LeastNat
<1>3. x \in 1 .. n /\ d[a + x] # d[a - o + 1 + ((x - 1) % o)]
  OBVIOUS
<1>4. CASE x <= o
  <2>1. (x - 1) % o = x - 1
    BY <1>3, <1>4
  <2>2. a - o + 1 + (x - 1) = a - o + x
    BY <1>3
  <2> QED
    BY <1>3, <2>1, <2>2
<1>5. CASE ~(x <= o)
  <2>1. x - o \in 1 .. n /\ x - o < x /\ a + (x - o) = a - o + x
    BY <1>3, <1>5
  <2>2. x - o \notin S
    <3> HIDE DEF S
    <3> QED
      BY <1>2, <1>3, <2>1
  <2>3. d[a + (x - o)] = d[a - o + 1 + ((x - o - 1) % o)]
    BY <2>1, <2>2
  <2>4. (x - 1) % o = (x - o - 1) % o
    <3>1. x - 1 \in Nat /\ x - 1 >= o /\ x - 1 - o = x - o - 1 /\ o \in Nat \ {0}
      BY <1>3, <1>5
    <3> QED
      BY <3>1, RemainderLess
  <2> QED
    BY <1>3, <2>1, <2>3, <2>4
<1> QED
  BY <1>4, <1>5
-----------------------------------------------------------------------------
(* The positions of the search and the streams.                            *)

\* Every chunk is mapped whole: the search reads it without sliding.  What
\* sliding adds is not correct (see the run RzipSlide).
Whole == \A c \in Chunks : Len(c) <= MmapSize

DataInv ==
  /\ data \in Seq(Bytes) /\ ~Sliding /\ stray \in Bytes
  /\ sb = [low |-> 0, lsz |-> Chunk, high |-> 0, hsz |-> PageSize]

\* The pending match is none, or a copy, and begins between the last match and p.
PlaceInv ==
  /\ p \in 0 .. Chunk /\ lastMatch \in 0 .. p
  /\ current \in [p : lastMatch .. p, len : Nat, ofs : Nat]
  /\ current.len # 0 => Copy(current.p, current.ofs, current.len)

\* The tokens written so far describe the chunk up to the last match, those not
\* yet read describe the rest of it, up to the end of stream marker.
StreamInv ==
  /\ pc \in {"search", "unzip", "done"}
  /\ pc = "search" => out = <<>> /\ Describes(s0, s1, data, 0, lastMatch)
  /\ pc = "unzip" =>
        /\ Len(out) <= Chunk /\ out = SubSeq(data, 1, Len(out))
        /\ \E body \in Seq(Token) :
              s0 = body \o <<Literal(0)>> /\ Describes(body, s1, data, Len(out), Chunk)
  /\ pc = "done" => out = data /\ s0 = <<>> /\ s1 = <<>>

LEMMA Ends ==
  ASSUME data \in Seq(Bytes)
  PROVE  Chunk \in Nat /\ End \in Int /\ End = Chunk - MinimumMatch /\ End < Chunk
<1>1. Chunk \in Nat
  BY LenProperties DEF Chunk
<1> QED
  BY <1>1, SearchAssumption DEF End

\* next_tag on a chunk that is mapped whole.
LEMMA NextTagIs ==
  ASSUME DataInv, NEW q \in 1 .. End
  PROVE  NextTag(RemapLow(sb, Chunk, q), q) =
            [sb |-> sb,
             t  |-> Xor(Xor(t, HashIndex[data[q]]), HashIndex[data[q + MinimumMatch]])]
<1>1. /\ Chunk \in Nat /\ End = Chunk - MinimumMatch /\ MinimumMatch \in Nat
      /\ data \in Seq(Bytes) /\ Chunk = Len(data)
  BY Ends, SearchAssumption DEF DataInv, Chunk
<1>2. RemapLow(sb, Chunk, q) = sb
  BY <1>1 DEF RemapLow, DataInv
<1>3. ASSUME NEW k \in 1 .. Chunk
      PROVE  SubSeq(data, k, k)[1] = data[k]
  BY <1>1, <1>3
<1>4. q \in 1 .. Chunk /\ q + MinimumMatch \in 1 .. Chunk
  BY <1>1
<1>5. q - 1 + 1 = q /\ q + MinimumMatch - 1 + 1 = q + MinimumMatch
  BY <1>1
<1>6. CopyBytes(sb, q - 1, 1) = [sb |-> sb, bytes |-> SubSeq(data, q, q)]
  BY <1>5 DEF CopyBytes, DataInv
<1>7. CopyBytes(sb, q + MinimumMatch - 1, 1)
         = [sb |-> sb, bytes |-> SubSeq(data, q + MinimumMatch, q + MinimumMatch)]
  BY <1>5 DEF CopyBytes, DataInv
<1>8. SubSeq(data, q, q)[1] = data[q]
  BY <1>3, <1>4
<1>9. SubSeq(data, q + MinimumMatch, q + MinimumMatch)[1] = data[q + MinimumMatch]
  BY <1>3, <1>4
<1>10. PICK u, v : u = SubSeq(data, q, q) /\ v = SubSeq(data, q + MinimumMatch, q + MinimumMatch)
  OBVIOUS
<1>11. NextTag(sb, q) = [sb |-> sb, t |-> Xor(Xor(t, HashIndex[u[1]]), HashIndex[v[1]])]
  <2>1. PICK gone, come : /\ gone = CopyBytes(sb, q - 1, 1)
                          /\ come = CopyBytes(sb, q + MinimumMatch - 1, 1)
    OBVIOUS
  <2>2. gone.sb = sb /\ gone.bytes = u /\ come.sb = sb /\ come.bytes = v
    BY <1>6, <1>7, <1>10, <2>1
  <2>3. NextTag(sb, q) =
           [sb |-> come.sb, t |-> Xor(Xor(t, HashIndex[gone.bytes[1]]), HashIndex[come.bytes[1]])]
    BY <2>1, <2>2, Zenon DEF NextTag
  <2> QED
    BY <2>2, <2>3
<1> QED
  BY <1>2, <1>8, <1>9, <1>10, <1>11

\* What one iteration of hash_search does with the match it found.
LEMMA SearchMoves ==
  ASSUME DataInv, PlaceInv, \A s \in Slots : ht.slot[s].off \in Nat, SearchPosition
  PROVE  \E c \in [p : lastMatch .. p + 1, len : Nat, ofs : Nat] :
            /\ c.len # 0 => Copy(c.p, c.ofs, c.len)
            /\ \/ Ripe(c, p + 1) /\ WriteMatch(c, sb)
               \/ /\ p' = p + 1 /\ sb' = sb /\ current' = c
                  /\ t' = Xor(Xor(t, HashIndex[data[p + 1]]), HashIndex[data[p + 1 + MinimumMatch]])
                  /\ UNCHANGED <<s0, s1, lastMatch>>
<1>1. PICK q : q = p + 1
  OBVIOUS
<1>2. Chunk \in Nat /\ End \in Int /\ p \in Nat /\ p < End
  BY Ends DEF DataInv, PlaceInv, SearchPosition
<1>3. q \in 1 .. End /\ lastMatch \in 0 .. q /\ lastMatch \in Nat
  BY <1>1, <1>2 DEF PlaceInv
<1>4. PICK n : n = Xor(Xor(t, HashIndex[data[q]]), HashIndex[data[q + MinimumMatch]])
  OBVIOUS
<1>5. NextTag(RemapLow(sb, Chunk, q), q) = [sb |-> sb, t |-> n]
  BY <1>3, <1>4, NextTagIs
<1>6. PICK found : found = FindBestMatch(n, q, sb)
  OBVIOUS
<1>7. found \in BestAt(sb, q)
  BY <1>2, <1>3, <1>6, FindBestMatchBest DEF DataInv
<1>8. PICK c : c = NewCurrent(found, q)
  OBVIOUS
<1>9. IF Ripe(c, q)
      THEN WriteMatch(c, found.sb)
      ELSE /\ p' = q /\ t' = n /\ sb' = found.sb /\ current' = c
           /\ UNCHANGED <<s0, s1, lastMatch>>
  BY <1>1, <1>5, <1>6, <1>8 DEF SearchPosition
<1>10. found.sb = sb
  BY <1>7 DEF BestAt
<1>11. c \in [p : lastMatch .. q, len : Nat, ofs : Nat] /\ (c.len # 0 => Copy(c.p, c.ofs, c.len))
  <2>1. CASE found.len > current.len
    <3>1. found.len \in Nat /\ found.len # 0 /\ found.ofs \in Nat
      BY <1>7, <2>1 DEF BestAt, PlaceInv
    <3>2. found.rev \in 0 .. q - lastMatch /\ Copy(q - found.rev, found.ofs, found.len)
      BY <1>7, <3>1 DEF BestAt
    <3>3. c = [p |-> q - found.rev, len |-> found.len, ofs |-> found.ofs]
      BY <1>8, <2>1 DEF NewCurrent
    <3>4. q - found.rev \in lastMatch .. q
      BY <1>3, <3>2
    <3> QED
      BY <3>1, <3>2, <3>3, <3>4
  <2>2. CASE ~(found.len > current.len)
    <3>1. c = current
      BY <1>8, <2>2 DEF NewCurrent
    <3>2. lastMatch .. p \subseteq lastMatch .. q
      BY <1>1, <1>2
    <3> QED
      BY <3>1, <3>2 DEF PlaceInv
  <2> QED
    BY <2>1, <2>2
<1> QED
  BY <1>1, <1>4, <1>9, <1>10, <1>11

\* What writing a match changes.
LEMMA MatchWritten ==
  ASSUME DataInv, PlaceInv, NEW c \in [p : lastMatch .. p + 1, len : Nat, ofs : Nat],
         c.len # 0 => Copy(c.p, c.ofs, c.len), Ripe(c, p + 1), WriteMatch(c, sb)
  PROVE  /\ c.len \in Nat \ {0} /\ Copy(c.p, c.ofs, c.len)
         /\ s0' = s0 \o (IF lastMatch < c.p THEN PutLiteral(c.p - lastMatch) ELSE <<>>)
                     \o PutMatch(c.len, c.p - c.ofs)
         /\ s1' = s1 \o SubSeq(data, lastMatch + 1, c.p)
         /\ lastMatch' = c.p + c.len /\ p' = c.p + c.len /\ sb' = sb
         /\ c.p + c.len \in 1 .. End
         /\ current' = [p |-> c.p + c.len, len |-> 0, ofs |-> c.ofs]
         /\ t' = TagOfBytes(SubSeq(data, c.p + c.len + 1, c.p + c.len + MinimumMatch))
<1>1. c.len \in Nat \ {0} /\ c.p \in Nat /\ lastMatch \in Nat
  BY SearchAssumption DEF Ripe, PlaceInv
<1>2. Copy(c.p, c.ofs, c.len) /\ c.p + c.len \in 1 .. End
  BY <1>1 DEF Copy
<1>3. CopyBytes(sb, lastMatch, c.p - lastMatch) = [sb |-> sb, bytes |-> SubSeq(data, lastMatch + 1, c.p)]
  <2>1. lastMatch + (c.p - lastMatch) = c.p
    BY <1>1
  <2> QED
    BY <2>1 DEF CopyBytes, DataInv
<1>4. FullTag(sb, c.p + c.len)
         = [sb |-> sb, t |-> TagOfBytes(SubSeq(data, c.p + c.len + 1, c.p + c.len + MinimumMatch))]
  BY DEF FullTag, CopyBytes, DataInv
<1>5. /\ s0' = s0 \o (IF lastMatch < c.p THEN PutLiteral(c.p - lastMatch) ELSE <<>>)
                  \o PutMatch(c.len, c.p - c.ofs)
      /\ s1' = s1 \o SubSeq(data, lastMatch + 1, c.p)
      /\ lastMatch' = c.p + c.len /\ p' = c.p + c.len /\ sb' = sb
      /\ current' = [p |-> c.p + c.len, len |-> 0, ofs |-> c.ofs]
      /\ t' = TagOfBytes(SubSeq(data, c.p + c.len + 1, c.p + c.len + MinimumMatch))
  <2>1. PICK lit, full : /\ lit = CopyBytes(sb, lastMatch, c.p - lastMatch)
                         /\ full = FullTag(sb, c.p + c.len)
    OBVIOUS
  <2>2. lit.sb = sb /\ lit.bytes = SubSeq(data, lastMatch + 1, c.p) /\ full.sb = sb
        /\ full.t = TagOfBytes(SubSeq(data, c.p + c.len + 1, c.p + c.len + MinimumMatch))
    BY <1>3, <1>4, <2>1
  <2>3. /\ s0' = s0 \o (IF lastMatch < c.p THEN PutLiteral(c.p - lastMatch) ELSE <<>>)
                    \o PutMatch(c.len, c.p - c.ofs)
        /\ s1' = s1 \o lit.bytes
        /\ lastMatch' = c.p + c.len /\ p' = c.p + c.len /\ sb' = full.sb
        /\ current' = [p |-> c.p + c.len, len |-> 0, ofs |-> c.ofs]
        /\ t' = full.t
    BY <2>1, <2>2, Zenon DEF WriteMatch
  <2> QED
    BY <2>2, <2>3
<1> QED
  BY <1>1, <1>2, <1>5
LEMMA InitStreams ==
  ASSUME Whole, Init
  PROVE  DataInv /\ PlaceInv /\ StreamInv
<1>1. data \in Seq(Bytes) /\ Chunk \in Nat /\ Chunk = Len(data) /\ Len(data) <= MmapSize
  BY SearchAssumption, LenProperties DEF Init, Whole, Chunk
<1>2. ~Sliding
  BY <1>1, SearchAssumption DEF Sliding
<1>3. stray \in Bytes
  <2>1. \E b \in Bytes : TRUE
    BY SearchAssumption
  <2> QED
    BY <1>2, <2>1 DEF Init
<1>4. Smallest(MmapSize, Len(data)) = Len(data)
  BY <1>1, SearchAssumption DEF Smallest
<1>5. DataInv
  BY <1>1, <1>2, <1>3, <1>4 DEF Init, DataInv, InitSlidingMmap
<1>6. PlaceInv
  BY <1>1 DEF Init, PlaceInv
<1>7. StreamInv
  BY DescribesNothing DEF Init, StreamInv
<1> QED
  BY <1>5, <1>6, <1>7

LEMMA SkipStreams ==
  ASSUME DataInv, PlaceInv, StreamInv, SkipPosition
  PROVE  DataInv' /\ PlaceInv' /\ StreamInv'
<1>1. Chunk \in Nat /\ End \in Int /\ End < Chunk /\ p \in Nat /\ p < End
  BY Ends DEF DataInv, PlaceInv, SkipPosition
<1>2. p + 1 \in 1 .. End /\ p + 1 \in 0 .. Chunk
  BY <1>1
<1>3. sb' = sb
  BY <1>2, NextTagIs DEF SkipPosition
<1>4. DataInv'
  BY <1>3 DEF DataInv, SkipPosition, Sliding, Chunk
<1>5. PlaceInv'
  <2>1. lastMatch .. p \subseteq lastMatch .. p + 1 /\ 0 .. p \subseteq 0 .. p + 1
    BY <1>1
  <2>2. lastMatch' \in 0 .. p' /\ p' \in 0 .. Chunk'
    BY <1>2, <2>1 DEF PlaceInv, SkipPosition, Chunk
  <2>3. current' \in [p : lastMatch' .. p', len : Nat, ofs : Nat]
    BY <2>1 DEF PlaceInv, SkipPosition
  <2>4. current'.len # 0 => Copy(current.p, current.ofs, current.len)'
    BY DEF PlaceInv, SkipPosition, Copy, End, Chunk
  <2> QED
    BY <2>2, <2>3, <2>4 DEF PlaceInv
<1>6. StreamInv'
  BY DEF StreamInv, SkipPosition
<1> QED
  BY <1>4, <1>5, <1>6

\* A literal up to the match, then the match.
LEMMA MatchDescribes ==
  ASSUME DataInv, PlaceInv, Describes(s0, s1, data, 0, lastMatch),
         NEW a \in Nat, NEW b \in Nat, NEW n \in Nat \ {0}, lastMatch <= a, Copy(a, b, n)
  PROVE  Describes(s0 \o (IF lastMatch < a THEN PutLiteral(a - lastMatch) ELSE <<>>)
                      \o PutMatch(n, a - b),
                   s1 \o SubSeq(data, lastMatch + 1, a), data, 0, a + n)
<1> DEFINE lits == IF lastMatch < a THEN PutLiteral(a - lastMatch) ELSE <<>>
           skip == SubSeq(data, lastMatch + 1, a)
<1>1. /\ data \in Seq(Bytes) /\ Chunk \in Nat /\ End \in Int /\ End < Chunk /\ Len(data) = Chunk
      /\ lastMatch \in Nat
  BY Ends DEF DataInv, PlaceInv, Chunk
<1>2. a + n <= End /\ b < a /\ \A i \in 1 .. n : data[a + i] = data[b + i]
  BY DEF Copy
<1>3. Describes(lits, skip, data, lastMatch, a)
  <2>1. CASE lastMatch < a
    <3>1. a - lastMatch \in Nat \ {0} /\ lastMatch + (a - lastMatch) = a /\ a <= Len(data)
      BY <1>1, <1>2, <2>1
    <3>2. Describes(PutLiteral(a - lastMatch), SubSeq(data, lastMatch + 1, lastMatch + (a - lastMatch)),
                    data, lastMatch, lastMatch + (a - lastMatch))
      BY <1>1, <3>1, PutLiteralDescribes
    <3> QED
      BY <2>1, <3>1, <3>2
  <2>2. CASE ~(lastMatch < a)
    <3>1. lastMatch = a
      BY <1>1, <2>2
    <3>2. skip = <<>> /\ lits = <<>>
      BY <1>1, <2>2, <3>1, SubSeqEmpty
    <3> QED
      BY <3>1, <3>2, DescribesNothing
  <2> QED
    BY <2>1, <2>2
<1>4. Describes(PutMatch(n, a - b), <<>>, data, a, a + n)
  <2>1. a - b \in 1 .. a /\ a - (a - b) = b
    BY <1>2
  <2> QED
    BY <1>1, <1>2, <2>1, PutMatchDescribes
<1> HIDE DEF lits, skip
<1>5. Describes(s0 \o lits, s1 \o skip, data, 0, a)
  BY <1>1, <1>3, DescribesConcat
<1>6. Describes((s0 \o lits) \o PutMatch(n, a - b), (s1 \o skip) \o <<>>, data, 0, a + n)
  <2>1. a + n \in Nat /\ 0 \in Nat
    OBVIOUS
  <2> QED
    BY <1>4, <1>5, <2>1, DescribesConcat
<1>7. (s1 \o skip) \o <<>> = s1 \o skip
  BY <1>5, ConcatEmptySeq DEF Describes
<1> QED
  BY <1>6, <1>7 DEF lits, skip

LEMMA SearchStreams ==
  ASSUME DataInv, PlaceInv, StreamInv, \A s \in Slots : ht.slot[s].off \in Nat, SearchPosition
  PROVE  DataInv' /\ PlaceInv' /\ StreamInv'
<1>1. PICK c \in [p : lastMatch .. p + 1, len : Nat, ofs : Nat] :
         /\ c.len # 0 => Copy(c.p, c.ofs, c.len)
         /\ \/ Ripe(c, p + 1) /\ WriteMatch(c, sb)
            \/ /\ p' = p + 1 /\ sb' = sb /\ current' = c
               /\ t' = Xor(Xor(t, HashIndex[data[p + 1]]), HashIndex[data[p + 1 + MinimumMatch]])
               /\ UNCHANGED <<s0, s1, lastMatch>>
  BY SearchMoves
<1>2. /\ Chunk \in Nat /\ End \in Int /\ End < Chunk /\ p \in Nat /\ p < End /\ pc = "search"
      /\ lastMatch \in Nat
      /\ UNCHANGED <<data, stray, out, pc>>
  BY Ends DEF DataInv, PlaceInv, SearchPosition
<1>3. Chunk' = Chunk /\ End' = End
  BY <1>2 DEF Chunk, End
<1>4. CASE Ripe(c, p + 1) /\ WriteMatch(c, sb)
  <2>1. /\ c.len \in Nat \ {0} /\ Copy(c.p, c.ofs, c.len)
        /\ s0' = s0 \o (IF lastMatch < c.p THEN PutLiteral(c.p - lastMatch) ELSE <<>>)
                    \o PutMatch(c.len, c.p - c.ofs)
        /\ s1' = s1 \o SubSeq(data, lastMatch + 1, c.p)
        /\ lastMatch' = c.p + c.len /\ p' = c.p + c.len /\ sb' = sb
        /\ c.p + c.len \in 1 .. End
        /\ current' = [p |-> c.p + c.len, len |-> 0, ofs |-> c.ofs]
    BY <1>1, <1>4, MatchWritten
  <2>2. DataInv'
    BY <1>2, <1>3, <2>1 DEF DataInv, Sliding
  <2>3. PlaceInv'
    <3>1. PICK q : q = c.p + c.len
      OBVIOUS
    <3>2. q \in 0 .. Chunk /\ q \in 0 .. q /\ q \in q .. q /\ c.ofs \in Nat
      BY <1>2, <2>1, <3>1
    <3>3. p' = q /\ lastMatch' = q /\ current' = [p |-> q, len |-> 0, ofs |-> c.ofs]
      BY <2>1, <3>1
    <3> QED
      BY <1>3, <3>2, <3>3 DEF PlaceInv
  <2>4. Describes(s0', s1', data, 0, c.p + c.len)
    <3>1. c.p \in Nat /\ c.ofs \in Nat /\ lastMatch <= c.p
      BY <1>2
    <3> QED
      BY <1>2, <2>1, <3>1, MatchDescribes DEF StreamInv
  <2>5. StreamInv'
    BY <1>2, <2>1, <2>4 DEF StreamInv
  <2> QED
    BY <2>2, <2>3, <2>5
<1>5. CASE /\ p' = p + 1 /\ sb' = sb /\ current' = c
           /\ UNCHANGED <<s0, s1, lastMatch>>
  <2>1. DataInv'
    BY <1>2, <1>3, <1>5 DEF DataInv, Sliding
  <2>2. PlaceInv'
    <3>1. p' \in 0 .. Chunk /\ lastMatch' \in 0 .. p'
      BY <1>2, <1>5 DEF PlaceInv
    <3>2. current' \in [p : lastMatch' .. p', len : Nat, ofs : Nat]
      BY <1>5
    <3>3. current'.len # 0 => Copy(current.p, current.ofs, current.len)'
      BY <1>1, <1>2, <1>3, <1>5 DEF Copy
    <3> QED
      BY <1>3, <3>1, <3>2, <3>3 DEF PlaceInv
  <2>3. StreamInv'
    BY <1>2, <1>5 DEF StreamInv
  <2> QED
    BY <2>1, <2>2, <2>3
<1> QED
  BY <1>1, <1>4, <1>5
LEMMA FinishStreams ==
  ASSUME DataInv, PlaceInv, StreamInv, FinishSearch
  PROVE  DataInv' /\ PlaceInv' /\ StreamInv'
<1>1. /\ data \in Seq(Bytes) /\ Chunk \in Nat /\ Len(data) = Chunk /\ lastMatch \in 0 .. Chunk
      /\ UNCHANGED <<data, stray, p, lastMatch, current, out>> /\ pc = "search" /\ pc' = "unzip"
      /\ out = <<>> /\ Describes(s0, s1, data, 0, lastMatch)
  BY Ends DEF DataInv, PlaceInv, StreamInv, FinishSearch, Chunk
<1> DEFINE lits == IF lastMatch < Chunk THEN PutLiteral(Chunk - lastMatch) ELSE <<>>
           rest == SubSeq(data, lastMatch + 1, Chunk)
<1>2. CopyBytes(sb, lastMatch, Chunk - lastMatch) = [sb |-> sb, bytes |-> rest]
  <2>1. lastMatch + (Chunk - lastMatch) = Chunk
    BY <1>1
  <2> QED
    BY <2>1 DEF CopyBytes, DataInv
<1>3. s0' = s0 \o lits \o <<Literal(0)>> /\ s1' = s1 \o rest /\ sb' = sb
  <2>1. PICK tail : tail = CopyBytes(sb, lastMatch, Chunk - lastMatch)
    OBVIOUS
  <2>2. tail.sb = sb /\ tail.bytes = rest
    BY <1>2, <2>1
  <2>3. s0' = s0 \o lits \o <<Literal(0)>> /\ s1' = s1 \o tail.bytes /\ sb' = tail.sb
    BY <2>1, Zenon DEF FinishSearch
  <2> QED
    BY <2>2, <2>3
<1>4. Describes(lits, rest, data, lastMatch, Chunk)
  <2>1. CASE lastMatch < Chunk
    <3>1. Chunk - lastMatch \in Nat \ {0} /\ lastMatch + (Chunk - lastMatch) = Chunk
      BY <1>1, <2>1
    <3>2. Describes(PutLiteral(Chunk - lastMatch),
                    SubSeq(data, lastMatch + 1, lastMatch + (Chunk - lastMatch)),
                    data, lastMatch, lastMatch + (Chunk - lastMatch))
      BY <1>1, <3>1, PutLiteralDescribes
    <3> QED
      BY <2>1, <3>1, <3>2
  <2>2. CASE ~(lastMatch < Chunk)
    <3>1. lastMatch = Chunk
      BY <1>1, <2>2
    <3>2. rest = <<>> /\ lits = <<>>
      BY <1>1, <2>2, <3>1, SubSeqEmpty
    <3> QED
      BY <1>1, <3>1, <3>2, DescribesNothing
  <2> QED
    BY <2>1, <2>2
<1> HIDE DEF lits, rest
<1>5. Describes(s0 \o lits, s1 \o rest, data, 0, Chunk)
  BY <1>1, <1>4, DescribesConcat
<1>6. DataInv'
  BY <1>1, <1>3 DEF DataInv, Chunk, Sliding
<1>7. PlaceInv'
  BY <1>1 DEF PlaceInv, Copy, End, Chunk
<1>8. StreamInv'
  <2>1. Len(<<>>) = 0 /\ <<>> = SubSeq(data, 1, 0)
    BY SubSeqEmpty
  <2>2. s0 \o lits \in Seq(Token)
    BY <1>5 DEF Describes
  <2>3. Chunk' = Chunk
    BY <1>1 DEF Chunk
  <2>4. \E body \in Seq(Token) : s0' = body \o <<Literal(0)>> /\ Describes(body, s1', data, 0, Chunk)
    BY <1>3, <1>5, <2>2
  <2>5. pc' = "unzip" /\ Len(out') = 0 /\ out' = SubSeq(data', 1, Len(out')) /\ data' = data
    BY <1>1, <2>1
  <2>6. Len(out') <= Chunk'
    BY <1>1, <2>3, <2>5
  <2> QED
    BY <2>3, <2>4, <2>5, <2>6 DEF StreamInv
<1> QED
  BY <1>6, <1>7, <1>8

\* The streams of the unzip phase, from the front.
LEMMA UnzipFront ==
  ASSUME DataInv, StreamInv, pc = "unzip"
  PROVE  /\ Len(out) \in 0 .. Chunk /\ out \in Seq(Bytes)
         /\ \A i \in 1 .. Len(out) : out[i] = data[i]
         /\ \/ /\ Head(s0) = Literal(0) /\ Tail(s0) = <<>>
               /\ out = data /\ s1 = <<>>
            \/ \E body \in Seq(Token), l2 \in 0 .. Len(s1) :
                  /\ Head(s0) \in Token
                  /\ Tail(s0) = body \o <<Literal(0)>>
                  /\ Len(out) + Head(s0).len <= Chunk
                  /\ Reads(Head(s0), s1, data, Len(out), 0, Len(out) + Head(s0).len, l2)
                  /\ Describes(body, SubSeq(s1, l2 + 1, Len(s1)), data, Len(out) + Head(s0).len, Chunk)
<1>1. data \in Seq(Bytes) /\ Chunk \in Nat /\ Len(data) = Chunk
  BY Ends DEF DataInv, Chunk
<1>2. PICK body \in Seq(Token) :
         s0 = body \o <<Literal(0)>> /\ Describes(body, s1, data, Len(out), Chunk)
  BY DEF StreamInv
<1>3. Len(out) <= Chunk /\ out = SubSeq(data, 1, Len(out))
  BY DEF StreamInv
<1>4. Len(out) \in Nat
  <2>1. PICK pos \in [0 .. Len(body) -> 0 .. Chunk] : pos[0] = Len(out)
    BY <1>2 DEF Describes
  <2>2. Len(body) \in Nat
    BY LenProperties
  <2> QED
    BY <2>1, <2>2
<1>5. /\ out \in Seq(Bytes)
      /\ \A i \in 1 .. Len(out) : out[i] = data[i]
  <2>1. PICK n : n = Len(out)
    OBVIOUS
  <2>2. n \in Nat /\ n <= Chunk /\ out = SubSeq(data, 1, n)
    BY <1>3, <1>4, <2>1
  <2>3. \A i \in 1 .. n : data[i] \in Bytes
    BY <1>1, <2>2
  <2>4. out \in Seq(Bytes) /\ \A i \in 1 .. n - 1 + 1 : out[i] = data[1 + i - 1]
    BY <2>2, <2>3, SubSeqProperties
  <2> QED
    BY <2>1, <2>2, <2>4
<1>6. CASE body = <<>>
  <2>1. Literal(0) \in Token
    BY DEF Literal, Token
  <2>2. s0 = <<Literal(0)>>
    BY <1>2, <1>6, <2>1
  <2>3. Len(out) = Chunk /\ Len(s1) = 0 /\ s1 \in Seq(Bytes)
    BY <1>2, <1>6 DEF Describes
  <2>4. s1 = <<>>
    BY <2>3
  <2>5. out = data
    BY <1>1, <1>3, <2>3, SubSeqFull
  <2> QED
    BY <1>3, <1>4, <1>5, <2>2, <2>4, <2>5
<1>7. CASE body # <<>>
  <2>1. PICK l2 \in 0 .. Len(s1) :
            /\ Head(body) \in Token
            /\ Len(out) + Head(body).len <= Chunk
            /\ Reads(Head(body), s1, data, Len(out), 0, Len(out) + Head(body).len, l2)
            /\ Describes(Tail(body), SubSeq(s1, l2 + 1, Len(s1)), data, Len(out) + Head(body).len, Chunk)
    BY <1>1, <1>2, <1>4, <1>7, DescribesFirst
  <2>2. Literal(0) \in Token /\ s0 = Append(body, Literal(0))
    <3>1. Literal(0) \in Token
      BY DEF Literal, Token
    <3> QED
      BY <1>2, <3>1, AppendIsConcat
  <2>3. Head(s0) = Head(body) /\ Tail(s0) = Append(Tail(body), Literal(0))
    BY <1>7, <2>2, HeadTailAppend
  <2>4. Tail(body) \in Seq(Token)
    BY <1>7, HeadTailProperties
  <2>5. Tail(s0) = Tail(body) \o <<Literal(0)>>
    BY <2>2, <2>3, <2>4, AppendIsConcat
  <2>6. /\ Head(s0) \in Token
        /\ Tail(s0) = Tail(body) \o <<Literal(0)>>
        /\ Len(out) + Head(s0).len <= Chunk
        /\ Reads(Head(s0), s1, data, Len(out), 0, Len(out) + Head(s0).len, l2)
        /\ Describes(Tail(body), SubSeq(s1, l2 + 1, Len(s1)), data, Len(out) + Head(s0).len, Chunk)
    BY <2>1, <2>3, <2>5
  <2>7. Len(out) \in 0 .. Chunk
    BY <1>1, <1>3, <1>4
  <2> QED
    BY <1>5, <2>4, <2>6, <2>7, Zenon
<1> QED
  BY <1>6, <1>7
\* What the unzip phase leaves alone.
LEMMA UnzipPlaces ==
  ASSUME DataInv, PlaceInv, UNCHANGED <<data, searchVars>>
  PROVE  DataInv' /\ PlaceInv'
BY DEF DataInv, PlaceInv, searchVars, Sliding, Chunk, Copy, End

\* The output grows by the next n bytes of the chunk.
LEMMA OutputGrows ==
  ASSUME DataInv, Len(out) \in 0 .. Chunk, out \in Seq(Bytes),
         \A i \in 1 .. Len(out) : out[i] = data[i],
         NEW n \in Nat, NEW new \in Seq(Bytes), Len(new) = n, Len(out) + n <= Chunk,
         \A i \in 1 .. n : new[i] = data[Len(out) + i]
  PROVE  Len(out \o new) = Len(out) + n /\ out \o new = SubSeq(data, 1, Len(out) + n)
<1>1. PICK a \in Nat : a = Len(out)
  BY LenProperties
<1>2. data \in Seq(Bytes) /\ Chunk \in Nat /\ Len(data) = Chunk
  BY Ends DEF DataInv, Chunk
<1>3. /\ out \o new \in Seq(Bytes) /\ Len(out \o new) = a + n
      /\ \A i \in 1 .. a + n : (out \o new)[i] = IF i <= a THEN out[i] ELSE new[i - a]
  BY <1>1, ConcatProperties
<1>4. ASSUME NEW i \in 1 .. a + n
      PROVE  (out \o new)[i] = data[i]
  <2>1. CASE i <= a
    BY <1>1, <1>3, <2>1
  <2>2. CASE ~(i <= a)
    <3>1. i - a \in 1 .. n /\ a + (i - a) = i
      BY <2>2
    <3> QED
      BY <1>1, <1>3, <2>2, <3>1
  <2> QED
    BY <2>1, <2>2
<1>5. /\ SubSeq(data, 1, a + n) \in Seq(Bytes) /\ Len(SubSeq(data, 1, a + n)) = a + n
      /\ \A i \in 1 .. a + n : SubSeq(data, 1, a + n)[i] = data[i]
  <2>1. \A i \in 1 .. a + n : data[i] \in Bytes
    BY <1>1, <1>2
  <2>2. /\ SubSeq(data, 1, a + n) \in Seq(Bytes)
        /\ Len(SubSeq(data, 1, a + n)) = IF 1 <= a + n THEN a + n - 1 + 1 ELSE 0
        /\ \A i \in 1 .. a + n - 1 + 1 : SubSeq(data, 1, a + n)[i] = data[1 + i - 1]
    BY <2>1, SubSeqProperties
  <2> QED
    BY <2>2
<1>6. out \o new = SubSeq(data, 1, a + n)
  BY <1>3, <1>4, <1>5, SeqEqual
<1> QED
  BY <1>1, <1>3, <1>6

LEMMA EndStreams ==
  ASSUME DataInv, PlaceInv, StreamInv, UnzipEnd
  PROVE  DataInv' /\ PlaceInv' /\ StreamInv'
<1>1. DataInv' /\ PlaceInv'
  BY UnzipPlaces DEF UnzipEnd
<1>2. Tail(s0) = <<>> /\ out = data /\ s1 = <<>>
  <2>1. Head(s0).len = 0
    BY DEF UnzipEnd, Literal
  <2> QED
    BY <2>1, UnzipFront DEF UnzipEnd, Reads
<1> QED
  BY <1>1, <1>2 DEF UnzipEnd, StreamInv

LEMMA LiteralStreams ==
  ASSUME DataInv, PlaceInv, StreamInv, UnzipLiteral
  PROVE  DataInv' /\ PlaceInv' /\ StreamInv'
<1>1. DataInv' /\ PlaceInv'
  BY UnzipPlaces DEF UnzipLiteral
<1>2. PICK x, a, n : x = Head(s0) /\ a = Len(out) /\ n = x.len
  OBVIOUS
<1>3. pc = "unzip" /\ x.head = 0 /\ n > 0 /\ Chunk \in Nat /\ x # Literal(0)
  BY <1>2, Ends DEF UnzipLiteral, DataInv, Literal
<1>4. PICK body \in Seq(Token), l2 \in 0 .. Len(s1) :
         /\ Tail(s0) = body \o <<Literal(0)>>
         /\ a + n <= Chunk
         /\ Reads(x, s1, data, a, 0, a + n, l2)
         /\ Describes(body, SubSeq(s1, l2 + 1, Len(s1)), data, a + n, Chunk)
  BY <1>2, <1>3, UnzipFront
<1>5. /\ a \in 0 .. Chunk /\ out \in Seq(Bytes) /\ s1 \in Seq(Bytes)
      /\ \A i \in 1 .. a : out[i] = data[i]
  <2>1. s1 \in Seq(Bytes)
    BY <1>3 DEF StreamInv, Describes
  <2> QED
    BY <1>2, <1>3, <2>1, UnzipFront
<1>6. /\ n \in 1 .. MaxToken /\ l2 = n /\ n <= Len(s1) /\ Len(s1) \in Nat
      /\ \A i \in 1 .. n : s1[i] = data[a + i]
  <2>1. MaxToken \in Nat /\ Len(s1) \in Nat
    BY <1>5, SearchAssumption, LenProperties
  <2>2. n \in 1 .. MaxToken /\ l2 = 0 + n /\ \A i \in 1 .. n : s1[0 + i] = data[a + i]
    <3>1. Reads(x, s1, data, a, 0, a + n, l2) /\ x.head # 1
      BY <1>3, <1>4
    <3>2. x.len \in 1 .. MaxToken /\ l2 = 0 + x.len /\ \A i \in 1 .. x.len : s1[0 + i] = data[a + i]
      BY <3>1, Zenon DEF Reads
    <3> QED
      BY <1>2, <3>2
  <2>3. \A i \in 1 .. n : 0 + i = i
    BY <2>1, <2>2
  <2> QED
    BY <1>4, <2>1, <2>2, <2>3
<1>7. ~(n > MaxToken \/ n > Len(s1))
  BY <1>6, SearchAssumption
<1>8. /\ out' = out \o SubSeq(s1, 1, n) /\ s1' = SubSeq(s1, n + 1, Len(s1))
      /\ s0' = Tail(s0) /\ pc' = pc /\ data' = data
  BY <1>2, <1>7 DEF UnzipLiteral
<1>9. /\ SubSeq(s1, 1, n) \in Seq(Bytes) /\ Len(SubSeq(s1, 1, n)) = n
      /\ \A i \in 1 .. n : SubSeq(s1, 1, n)[i] = s1[i]
  <2>1. \A i \in 1 .. n : s1[i] \in Bytes
    BY <1>5, <1>6
  <2>2. /\ SubSeq(s1, 1, n) \in Seq(Bytes) /\ Len(SubSeq(s1, 1, n)) = IF 1 <= n THEN n - 1 + 1 ELSE 0
        /\ \A i \in 1 .. n - 1 + 1 : SubSeq(s1, 1, n)[i] = s1[1 + i - 1]
    BY <1>6, <2>1, SubSeqProperties
  <2> QED
    BY <1>6, <2>2
<1>10. Len(out') = a + n /\ out' = SubSeq(data, 1, a + n)
  <2>1. PICK new : new = SubSeq(s1, 1, n)
    OBVIOUS
  <2>2. /\ new \in Seq(Bytes) /\ Len(new) = n /\ n \in Nat
        /\ \A i \in 1 .. n : new[i] = data[a + i]
    BY <1>6, <1>9, <2>1
  <2> QED
    BY <1>2, <1>4, <1>5, <1>8, <2>1, <2>2, OutputGrows
<1>11. Chunk' = Chunk
  BY <1>8 DEF Chunk
<1>12. Describes(body, s1', data, Len(out'), Chunk) /\ s0' = body \o <<Literal(0)>>
  BY <1>4, <1>6, <1>8, <1>10
<1> QED
  BY <1>1, <1>3, <1>4, <1>8, <1>10, <1>11, <1>12 DEF StreamInv

LEMMA MatchStreams ==
  ASSUME DataInv, PlaceInv, StreamInv, UnzipMatch
  PROVE  DataInv' /\ PlaceInv' /\ StreamInv'
<1>1. DataInv' /\ PlaceInv'
  BY UnzipPlaces DEF UnzipMatch
<1>2. PICK x, a, n, o : x = Head(s0) /\ a = Len(out) /\ n = x.len /\ o = x.ofs
  OBVIOUS
<1>3. pc = "unzip" /\ x.head = 1 /\ Chunk \in Nat /\ x # Literal(0)
  BY <1>2, Ends DEF UnzipMatch, DataInv, Literal
<1>4. PICK body \in Seq(Token), l2 \in 0 .. Len(s1) :
         /\ Tail(s0) = body \o <<Literal(0)>>
         /\ a + n <= Chunk
         /\ Reads(x, s1, data, a, 0, a + n, l2)
         /\ Describes(body, SubSeq(s1, l2 + 1, Len(s1)), data, a + n, Chunk)
  BY <1>2, <1>3, UnzipFront
<1>5. /\ a \in 0 .. Chunk /\ out \in Seq(Bytes) /\ s1 \in Seq(Bytes)
      /\ \A i \in 1 .. a : out[i] = data[i]
  <2>1. s1 \in Seq(Bytes)
    BY <1>3 DEF StreamInv, Describes
  <2> QED
    BY <1>2, <1>3, <2>1, UnzipFront
<1>6. /\ n \in 1 .. MaxToken /\ MaxToken \in Nat /\ l2 = 0 /\ o \in 1 .. a
      /\ \A i \in 1 .. n : data[a + i] = data[a - o + i]
  <2>1. Reads(x, s1, data, a, 0, a + n, l2) /\ x.head # 0
    BY <1>3, <1>4
  <2>2. /\ x.len \in 1 .. MaxToken /\ l2 = 0 /\ x.ofs \in 1 .. a
        /\ \A i \in 1 .. x.len : data[a + i] = data[a - x.ofs + i]
    BY <2>1, Zenon DEF Reads
  <2> QED
    BY <1>2, <2>2, SearchAssumption
<1>7. SubSeq(s1, l2 + 1, Len(s1)) = s1
  BY <1>5, <1>6, SubSeqFull
<1>8. ~(n > MaxToken \/ o < 1 \/ o > a)
  BY <1>5, <1>6
<1>9. /\ out' = out \o MatchExpand(o, n)
      /\ s1' = s1 /\ s0' = Tail(s0) /\ pc' = pc /\ data' = data
  BY <1>2, <1>8 DEF UnzipMatch
<1> DEFINE new == MatchExpand(o, n)
<1>10. new = [i \in 1 .. n |-> out[a - o + 1 + ((i - 1) % o)]]
  BY <1>2 DEF MatchExpand
<1>11. ASSUME NEW i \in 1 .. n
       PROVE  /\ out[a - o + 1 + ((i - 1) % o)] = data[a + i]
              /\ out[a - o + 1 + ((i - 1) % o)] \in Bytes
  <2>1. (i - 1) % o \in 0 .. o - 1
    BY <1>5, <1>6
  <2>2. PICK j : j = a - o + 1 + ((i - 1) % o)
    OBVIOUS
  <2>3. j \in 1 .. a
    BY <1>5, <1>6, <2>1, <2>2
  <2>4. out[j] = data[j] /\ out[j] \in Bytes
    BY <1>2, <1>5, <2>3, ElementOfSeq
  <2>5. data[a + i] = data[j]
    <3>1. a \in Nat /\ n \in Nat
      BY <1>3, <1>5, <1>6
    <3>2. Echo(data, a, n, o)
      BY <1>6 DEF Echo
    <3>3. Repeat(data, a, n, o)
      BY <1>6, <3>1, <3>2, EchoRepeats
    <3> QED
      BY <2>2, <3>3 DEF Repeat
  <2> QED
    BY <2>2, <2>4, <2>5
<1> HIDE DEF new
<1>12. new \in Seq(Bytes) /\ Len(new) = n /\ n \in Nat
  <2>1. n \in Nat
    BY <1>6
  <2>2. PICK f : f = [i \in 1 .. n |-> out[a - o + 1 + ((i - 1) % o)]]
    OBVIOUS
  <2>3. f \in [1 .. n -> Bytes]
    BY <1>11, <2>2
  <2>4. f \in Seq(Bytes) /\ Len(f) = n
    BY <2>1, <2>3
  <2> QED
    BY <1>10, <2>1, <2>2, <2>4
<1>13. Len(out') = a + n /\ out' = SubSeq(data, 1, a + n)
  <2>1. \A i \in 1 .. n : new[i] = data[a + i]
    BY <1>10, <1>11
  <2> QED
    BY <1>2, <1>4, <1>5, <1>9, <1>12, <2>1, OutputGrows DEF new
<1>14. Chunk' = Chunk
  BY <1>9 DEF Chunk
<1>15. Describes(body, s1', data, Len(out'), Chunk) /\ s0' = body \o <<Literal(0)>>
  BY <1>4, <1>7, <1>9, <1>13
<1> QED
  BY <1>1, <1>3, <1>4, <1>9, <1>13, <1>14, <1>15 DEF StreamInv
-----------------------------------------------------------------------------
(* The tag table: probe sequences.                                         *)

LEMMA TableSize ==
  /\ 2^HashBits \in Nat \ {0} /\ Slots \in SUBSET Nat
  /\ HashLimit \in Nat /\ HashLimit < 2^HashBits
  /\ MaxChainLen \in Nat \ {0} /\ TagBits \in Nat \ {0}
<1>1. PICK n \in Nat \ {0} : n = 2^HashBits
  BY TableAssumption
<1>2. (n \div 3) * 2 \in Nat /\ (n \div 3) * 2 < n
  BY <1>1
<1> QED
  BY <1>1, <1>2, TableAssumption DEF Slots, HashLimit

\* Every slot is looked at,
LEMMA ProbeReaches ==
  ASSUME NEW x, NEW s \in Slots
  PROVE  \E i \in Slots : Probe(x, i) = s
<1>1. PICK n \in Nat \ {0}, h \in Nat : n = 2^HashBits /\ h = PrimaryHash(x)
  BY TableSize, PrimaryHashNat
<1>2. s \in 0 .. n - 1
  BY <1>1 DEF Slots
<1>3. PICK y \in Int : y = s - h
  BY <1>2
<1>4. PICK q \in Int, i \in 0 .. n - 1 : q = y \div n /\ i = y % n /\ y = n * q + i
  OBVIOUS
<1>5. h + i = n * (-q) + s
  BY <1>2, <1>3, <1>4
<1>6. (n * (-q) + s) % n = s
  BY <1>2, Remainder
<1> QED
  BY <1>1, <1>4, <1>5, <1>6 DEF Probe, Slots

\* and only once.
LEMMA ProbeOnce ==
  ASSUME NEW x, NEW i \in Slots, NEW j \in Slots, Probe(x, i) = Probe(x, j)
  PROVE  i = j
<1>1. PICK n \in Nat \ {0}, h \in Nat : n = 2^HashBits /\ h = PrimaryHash(x)
  BY TableSize, PrimaryHashNat
<1>2. i \in 0 .. n - 1 /\ j \in 0 .. n - 1
  BY <1>1 DEF Slots
<1>3. PICK y \in Int, z \in Int : y = h + i /\ z = h + j
  BY <1>2
<1>4. PICK q \in Int, r \in 0 .. n - 1 : q = y \div n /\ r = y % n /\ y = n * q + r
  OBVIOUS
<1>5. PICK e \in Int, s \in 0 .. n - 1 : e = z \div n /\ s = z % n /\ z = n * e + s
  OBVIOUS
<1>6. r = s
  BY <1>1, <1>3, <1>4, <1>5 DEF Probe
<1>7. i - j = n * q - n * e
  BY <1>2, <1>3, <1>4, <1>5, <1>6
<1>8. ~(q >= e + 1)
  <2> SUFFICES ASSUME q >= e + 1
               PROVE  FALSE
    OBVIOUS
  <2>1. n * q >= n * (e + 1) /\ n * (e + 1) = n * e + n
    OBVIOUS
  <2> QED
    BY <1>2, <1>7, <2>1
<1>9. ~(e >= q + 1)
  <2> SUFFICES ASSUME e >= q + 1
               PROVE  FALSE
    OBVIOUS
  <2>1. n * e >= n * (q + 1) /\ n * (q + 1) = n * q + n
    OBVIOUS
  <2> QED
    BY <1>2, <1>7, <2>1
<1>10. q = e
  BY <1>8, <1>9
<1> QED
  BY <1>2, <1>7, <1>10

\* lesser_bitness compares the lowest bits that are 0.
LEMMA LowZeroBounds ==
  ASSUME NEW x \in SUBSET Bits
  PROVE  /\ LowZero(x) \in 0 .. TagBits
         /\ x # Bits => LowZero(x) > 0
<1>1. CASE x = Bits
  BY <1>1, TableSize DEF LowZero
<1>2. CASE x # Bits
  <2>1. Bits \ x \in SUBSET Nat /\ Bits \ x # {}
    <3>1. PICK b \in Bits : b \notin x
      BY <1>2
    <3> QED
      BY <3>1, TableSize DEF Bits
  <2>2. Min(Bits \ x) \in Bits
    BY <2>1, MinNat
  <2> QED
    BY <1>2, <2>2, TableSize DEF LowZero, Bits
<1> QED
  BY <1>1, <1>2

\* A tag is due for cleaning when its lowest 0 is among the bits of the better
\* mask.
LEMMA BitnessIsLowZero ==
  ASSUME NEW x \in SUBSET Bits, NEW k \in 0 .. TagBits
  PROVE  /\ Mask(k) \subseteq x /\ x # Bits => LowZero(x) > k
         /\ ~(Mask(k) \subseteq x) => LowZero(x) <= k /\ x # Bits
<1>1. TagBits \in Nat /\ k \in Nat /\ Bits = 0 .. TagBits - 1 /\ Mask(k) = 0 .. k - 1
  BY TableSize DEF Bits, Mask
<1>2. ASSUME x # Bits
      PROVE  /\ LowZero(x) = 1 + Min(Bits \ x) /\ Min(Bits \ x) \in Bits \ x
             /\ \A y \in Bits \ x : Min(Bits \ x) <= y
  <2>1. Bits \ x \in SUBSET Nat /\ Bits \ x # {}
    <3>1. PICK b \in Bits : b \notin x
      BY <1>2
    <3> QED
      BY <1>1, <3>1
  <2> QED
    BY <1>2, <2>1, MinNat DEF LowZero
<1>3. ASSUME Mask(k) \subseteq x, x # Bits
      PROVE  LowZero(x) > k
  <2>1. PICK m \in Bits \ x : LowZero(x) = 1 + m
    BY <1>2, <1>3
  <2>2. ~(m < k)
    BY <1>1, <1>3, <2>1
  <2> QED
    BY <1>1, <2>1, <2>2
<1>4. ASSUME ~(Mask(k) \subseteq x)
      PROVE  LowZero(x) <= k /\ x # Bits
  <2>1. PICK y \in 0 .. k - 1 : y \notin x
    BY <1>1, <1>4
  <2>2. y \in Bits \ x
    BY <1>1, <2>1
  <2>3. x # Bits
    BY <2>2
  <2>4. PICK m \in Bits \ x : LowZero(x) = 1 + m /\ m <= y
    BY <1>2, <2>2, <2>3
  <2> QED
    BY <1>1, <2>1, <2>3, <2>4
<1> QED
  BY <1>3, <1>4

LEMMA IncreaseMaskType ==
  ASSUME NEW k \in 0 .. TagBits
  PROVE  IncreaseMask(k) \in k .. TagBits /\ IncreaseMask(k) \in 0 .. TagBits
BY TableSize DEF IncreaseMask
-----------------------------------------------------------------------------
(* insert_hash.                                                            *)

Entry == [t : SUBSET Bits, off : Nat]
Table == [slot : [Slots -> Entry], count : Int, min : 0 .. TagBits, ptr : Slots,
          victim : 0 .. MaxChainLen - 1]
HasRoom(h) == \E s \in Slots : h.slot[s] = Empty

\* The walk of insert_hash comes to an end, at the first slot that stops it.
LEMMA LastStops ==
  ASSUME NEW h, NEW x, HasRoom(h)
  PROVE  /\ Last(h, x) \in Slots /\ Stops(h, x, Last(h, x))
         /\ \A i \in 0 .. Last(h, x) - 1 : i \in Slots /\ ~Stops(h, x, i)
<1> DEFINE S == {i \in Slots : Stops(h, x, i)}
<1>1. PICK s \in Slots : h.slot[s] = Empty
  BY DEF HasRoom
<1>2. PICK i \in Slots : Probe(x, i) = s
  BY ProbeReaches
<1>3. i \in S
  BY <1>1, <1>2 DEF Stops, At
<1>4. S \in SUBSET Nat /\ S # {}
  BY <1>3, TableSize
<1>5. Last(h, x) = Min(S)
  BY DEF Last
<1>6. Min(S) \in S /\ \A y \in S : Min(S) <= y
  <2> HIDE DEF S
  <2> QED
    BY <1>4, MinNat
<1>7. PICK m : m = Min(S)
  OBVIOUS
<1>8. m \in Slots /\ Stops(h, x, m) /\ \A y \in Slots : Stops(h, x, y) => m <= y
  BY <1>6, <1>7
<1>9. ASSUME NEW j \in 0 .. m - 1
      PROVE  j \in Slots /\ ~Stops(h, x, j)
  <2>1. j \in Slots /\ ~(m <= j)
    BY <1>8, TableSize DEF Slots
  <2> QED
    BY <1>8, <2>1
<1> QED
  BY <1>5, <1>7, <1>8, <1>9

\* The slots of one tag on the way, counted.
LEMMA SameCounts ==
  ASSUME NEW h, NEW x, NEW i \in Nat
  PROVE  /\ IsFiniteSet(Same(h, x, i)) /\ Cardinality(Same(h, x, i)) \in Nat
         /\ Cardinality(Same(h, x, 0)) <= 1
         /\ Cardinality(Same(h, x, i + 1)) =
               Cardinality(Same(h, x, i)) + (IF i + 1 \in Same(h, x, i + 1) THEN 1 ELSE 0)
<1>1. ASSUME NEW k \in Nat
      PROVE  IsFiniteSet(Same(h, x, k)) /\ Cardinality(Same(h, x, k)) \in Nat
  <2>1. IsFiniteSet(0 .. k) /\ Same(h, x, k) \in SUBSET (0 .. k)
    BY FS_Interval DEF Same
  <2> QED
    BY <2>1, FS_Subset, FS_CardinalityType
<1>2. Cardinality(Same(h, x, 0)) <= 1
  <2>1. Same(h, x, 0) \in SUBSET {0}
    BY DEF Same
  <2>2. IsFiniteSet({0}) /\ Cardinality({0}) = 1
    BY FS_Singleton
  <2> QED
    BY <2>1, <2>2, FS_Subset
<1>3. i + 1 \notin Same(h, x, i)
  BY DEF Same
<1>4. CASE i + 1 \in Same(h, x, i + 1)
  <2>1. Same(h, x, i + 1) = Same(h, x, i) \cup {i + 1}
    BY <1>4 DEF Same
  <2> QED
    BY <1>1, <1>2, <1>3, <1>4, <2>1, FS_AddElement
<1>5. CASE i + 1 \notin Same(h, x, i + 1)
  <2>1. Same(h, x, i + 1) = Same(h, x, i)
    BY <1>5 DEF Same
  <2> QED
    BY <1>1, <1>2, <1>3, <1>5, <2>1
<1> QED
  BY <1>4, <1>5
\* A full chain has a victim: the slot that is number victim_round + 1 in it.
LEMMA VictimExists ==
  ASSUME NEW h \in Table, NEW x, NEW n \in Nat, Cardinality(Same(h, x, n)) = MaxChainLen
  PROVE  \E j \in Same(h, x, n) : Cardinality(Same(h, x, j)) = h.victim + 1
<1>1. PICK v \in Nat : v = h.victim /\ v + 1 <= MaxChainLen
  BY TableSize DEF Table
<1> DEFINE S == {j \in 0 .. n : Cardinality(Same(h, x, j)) >= v + 1}
<1>2. n \in S /\ S \in SUBSET Nat
  BY <1>1, TableSize
<1>3. PICK j \in S : \A y \in S : j <= y
  <2> HIDE DEF S
  <2> QED
    BY <1>2, LeastNat
<1>4. j \in 0 .. n /\ Cardinality(Same(h, x, j)) >= v + 1 /\ Cardinality(Same(h, x, j)) \in Nat
  BY SameCounts
<1>5. j \in Same(h, x, j) /\ Cardinality(Same(h, x, j)) = v + 1
  <2>1. CASE j = 0
    <3>1. Cardinality(Same(h, x, 0)) <= 1
      BY SameCounts
    <3>2. Same(h, x, 0) # {}
      BY <1>1, <1>4, <2>1, FS_EmptySet
    <3>3. 0 \in Same(h, x, 0)
      BY <3>2 DEF Same
    <3> QED
      BY <1>1, <1>4, <2>1, <3>1, <3>3
  <2>2. CASE j # 0
    <3>1. PICK i \in Nat : i = j - 1 /\ j = i + 1 /\ i \in 0 .. n /\ i < j
      BY <1>4, <2>2
    <3>2. i \notin S
      <4> HIDE DEF S
      <4> QED
        BY <1>3, <1>4, <3>1
    <3>3. Cardinality(Same(h, x, i)) \in Nat /\ ~(Cardinality(Same(h, x, i)) >= v + 1)
      BY <3>1, <3>2, SameCounts
    <3>4. Cardinality(Same(h, x, i + 1)) =
             Cardinality(Same(h, x, i)) + (IF i + 1 \in Same(h, x, i + 1) THEN 1 ELSE 0)
      BY SameCounts
    <3> QED
      BY <1>1, <1>4, <3>1, <3>3, <3>4
  <2> QED
    BY <2>1, <2>2
<1>6. Same(h, x, j) \subseteq Same(h, x, n)
  BY <1>4 DEF Same
<1> QED
  BY <1>1, <1>5, <1>6

\* The slot a tag takes lies on its way, at the end of it or in its own chain.
LEMMA TargetOnWay ==
  ASSUME NEW h \in Table, NEW x, HasRoom(h)
  PROVE  \E i \in 0 .. Last(h, x) :
            /\ i \in Slots /\ Target(h, x) = Probe(x, i) /\ Target(h, x) \in Slots
            /\ \/ /\ i = Last(h, x) /\ ~Chained(h, x, At(h, x, Last(h, x)))
               \/ /\ Chained(h, x, At(h, x, Last(h, x)))
                  /\ At(h, x, i) # Empty /\ At(h, x, i).t = x
<1>1. PICK n : n = Last(h, x)
  OBVIOUS
<1>2. n \in Slots /\ n \in Nat /\ Stops(h, x, n) /\ \A i \in 0 .. n - 1 : i \in Slots
  BY <1>1, LastStops, TableSize
<1>3. CASE ~Chained(h, x, At(h, x, n))
  <2>1. Target(h, x) = Probe(x, n)
    BY <1>1, <1>3 DEF Target
  <2>2. n \in 0 .. n
    BY <1>2
  <2>3. Probe(x, n) \in Slots
    BY <1>2, ProbeSlot
  <2> QED
    BY <1>1, <1>2, <1>3, <2>1, <2>2, <2>3
<1>4. CASE Chained(h, x, At(h, x, n))
  <2>1. Full(h, x, n)
    BY <1>2, <1>4 DEF Stops, Chained
  <2> DEFINE v == CHOOSE j \in Same(h, x, n) : Cardinality(Same(h, x, j)) = h.victim + 1
  <2>2. v \in Same(h, x, n)
    BY <1>2, <2>1, VictimExists DEF Full
  <2>3. Target(h, x) = Probe(x, v)
    BY <1>1, <1>4 DEF Target
  <2> HIDE DEF v
  <2>4. v \in 0 .. n /\ At(h, x, v) # Empty /\ At(h, x, v).t = x
    BY <2>2 DEF Same
  <2>5. v \in Slots /\ v \in Nat
    BY <1>2, <2>4
  <2>6. Probe(x, v) \in Slots
    BY <2>5, ProbeSlot
  <2> QED
    BY <1>1, <1>4, <2>3, <2>4, <2>5, <2>6
<1> QED
  BY <1>3, <1>4

\* b is what a pushes out, and must be inserted again.
Link(h, a, b) == b = At(h, a.t, Last(h, a.t)) /\ Rehashed(h, a.t, b)

\* The entries an insertion of e moves.
ChainOf(h, e) ==
  {es \in Seq(Entry) :
      /\ Len(es) >= 1 /\ es[1] = e
      /\ \A k \in 1 .. Len(es) : LowZero(es[k].t) + k <= TagBits + 1
      /\ \A k \in 1 .. Len(es) - 1 : Link(h, es[k], es[k + 1])}
Ended(h, es) ==
  ~Rehashed(h, es[Len(es)].t, At(h, es[Len(es)].t, Last(h, es[Len(es)].t)))

LEMMA PushedOn ==
  ASSUME NEW h \in Table, HasRoom(h), NEW e \in Entry,
         NEW w \in [es : ChainOf(h, e), on : BOOLEAN], ~w.on => Ended(h, w.es)
  PROVE  /\ Pushed(h, w) \in [es : ChainOf(h, e), on : BOOLEAN]
         /\ ~Pushed(h, w).on => Ended(h, Pushed(h, w).es)
         /\ Pushed(h, w).on => w.on /\ Len(Pushed(h, w).es) = Len(w.es) + 1
<1>1. PICK es, n, a : es = w.es /\ n = Len(es) /\ a = es[n]
  OBVIOUS
<1>2. /\ es \in Seq(Entry) /\ n \in Nat /\ n >= 1 /\ es[1] = e /\ a \in Entry
      /\ es \in ChainOf(h, e)
      /\ \A k \in 1 .. n : LowZero(es[k].t) + k <= TagBits + 1
      /\ \A k \in 1 .. n - 1 : Link(h, es[k], es[k + 1])
  BY <1>1, LenProperties, ElementOfSeq DEF ChainOf
<1>3. PICK old : old = At(h, a.t, Last(h, a.t))
  OBVIOUS
<1>4. old \in Entry
  <2>1. Probe(a.t, Last(h, a.t)) \in Slots
    BY LastStops, ProbeSlot, TableSize
  <2> QED
    BY <1>3, <2>1 DEF At, Table
<1>5. CASE ~w.on
  <2>1. Pushed(h, w) = w
    BY <1>5 DEF Pushed
  <2> QED
    BY <1>5, <2>1
<1>6. CASE w.on /\ ~Rehashed(h, a.t, old)
  <2>1. Pushed(h, w) = [w EXCEPT !.on = FALSE]
    BY <1>1, <1>3, <1>6 DEF Pushed
  <2>2. [w EXCEPT !.on = FALSE].es = es /\ [w EXCEPT !.on = FALSE].on = FALSE
        /\ [w EXCEPT !.on = FALSE] \in [es : ChainOf(h, e), on : BOOLEAN]
    BY <1>1
  <2>3. Ended(h, es)
    BY <1>1, <1>3, <1>6 DEF Ended
  <2> QED
    BY <2>1, <2>2, <2>3
<1>7. CASE w.on /\ Rehashed(h, a.t, old)
  <2>1. Pushed(h, w) = [w EXCEPT !.es = Append(@, old)]
    BY <1>1, <1>3, <1>7 DEF Pushed
  <2>2. PICK f : f = Append(es, old)
    OBVIOUS
  <2>3. /\ f \in Seq(Entry) /\ Len(f) = n + 1 /\ f[n + 1] = old
        /\ \A k \in 1 .. n : f[k] = es[k]
    BY <1>1, <1>2, <1>4, <2>2, AppendProperties
  <2>4. f \in ChainOf(h, e)
    <3>1. Len(f) >= 1 /\ f[1] = e
      BY <1>2, <2>3
    <3>2. ASSUME NEW k \in 1 .. n + 1
          PROVE  LowZero(f[k].t) + k <= TagBits + 1
      <4>1. CASE k \in 1 .. n
        BY <1>2, <2>3, <4>1
      <4>2. CASE k = n + 1
        <5>1. LowZero(old.t) < LowZero(a.t)
          BY <1>7 DEF Rehashed, LesserBitness
        <5>2. LowZero(a.t) + n <= TagBits + 1
          BY <1>1, <1>2
        <5>3. LowZero(old.t) \in Nat /\ LowZero(a.t) \in Nat /\ TagBits \in Nat
          BY <1>2, <1>4, LowZeroBounds, TableSize DEF Entry
        <5> QED
          BY <1>2, <2>3, <4>2, <5>1, <5>2, <5>3
      <4> QED
        BY <1>2, <4>1, <4>2
    <3>3. ASSUME NEW k \in 1 .. n
          PROVE  Link(h, f[k], f[k + 1])
      <4>1. CASE k = n
        <5>1. f[k] = a /\ f[k + 1] = old
          BY <1>1, <1>2, <2>3, <4>1
        <5> QED
          BY <1>3, <1>7, <5>1 DEF Link
      <4>2. CASE k # n
        <5>1. k \in 1 .. n - 1 /\ k + 1 \in 1 .. n
          BY <1>2, <4>2
        <5> QED
          BY <1>2, <2>3, <5>1
      <4> QED
        BY <4>1, <4>2
    <3>4. Len(f) = n + 1 /\ Len(f) - 1 = n
      BY <1>2, <2>3
    <3>5. \A k \in 1 .. Len(f) : LowZero(f[k].t) + k <= TagBits + 1
      BY <3>2, <3>4
    <3>6. \A k \in 1 .. Len(f) - 1 : Link(h, f[k], f[k + 1])
      BY <3>3, <3>4
    <3>7. f \in Seq(Entry)
      BY <2>3
    <3> QED
      BY <3>1, <3>5, <3>6, <3>7, Zenon DEF ChainOf
  <2>5. /\ [w EXCEPT !.es = Append(@, old)].es = f
        /\ [w EXCEPT !.es = Append(@, old)].on = TRUE
        /\ [w EXCEPT !.es = Append(@, old)] \in [es : ChainOf(h, e), on : BOOLEAN]
    BY <1>1, <1>7, <2>2, <2>4
  <2> QED
    BY <1>1, <1>7, <2>1, <2>3, <2>5
<1> QED
  BY <1>5, <1>6, <1>7
\* The pushing ends: every entry has fewer low bits set than the one before.
LEMMA DisplacedEnds ==
  ASSUME NEW h \in Table, HasRoom(h), NEW e \in Entry
  PROVE  Displaced(h, e) \in ChainOf(h, e) /\ Ended(h, Displaced(h, e))
<1> DEFINE St == {w \in [es : ChainOf(h, e), on : BOOLEAN] : ~w.on => Ended(h, w.es)}
           v == [es |-> <<e>>, on |-> TRUE]
           F == [k \in 1 .. TagBits |-> [w \in St |-> Pushed(h, w)]]
           Eq(r) == r = [k \in 0 .. TagBits |-> IF k = 0 THEN v ELSE Pushed(h, r[k - 1])]
<1>1. TagBits \in Nat
  BY TableSize
<1>2. v \in St /\ v.on /\ Len(v.es) = 1
  <2>1. <<e>> \in Seq(Entry) /\ Len(<<e>>) = 1 /\ <<e>>[1] = e
    OBVIOUS
  <2>2. LowZero(e.t) \in 0 .. TagBits
    BY LowZeroBounds DEF Entry
  <2>3. \A k \in 1 .. Len(<<e>>) : LowZero(<<e>>[k].t) + k <= TagBits + 1
    BY <1>1, <2>1, <2>2
  <2>4. \A k \in 1 .. Len(<<e>>) - 1 : FALSE
    BY <2>1
  <2>5. <<e>> \in ChainOf(h, e)
    BY <2>1, <2>3, <2>4 DEF ChainOf
  <2> QED
    BY <2>1, <2>5
<1>3. \A w \in St : Pushed(h, w) \in St /\ (Pushed(h, w).on => w.on /\ Len(Pushed(h, w).es) = Len(w.es) + 1)
  BY PushedOn
<1> HIDE DEF St, v
<1>4. PICK g : Iterates(g, St, v, F, TagBits)
  <2>1. F \in [1 .. TagBits -> [St -> St]]
    BY <1>3
  <2> HIDE DEF F
  <2> QED
    BY <1>1, <1>2, <2>1, Iteration
<1>5. Eq(g)
  <2>1. ASSUME NEW k \in 0 .. TagBits
        PROVE  g[k] = IF k = 0 THEN v ELSE Pushed(h, g[k - 1])
    <3>1. CASE k = 0
      BY <1>4, <3>1 DEF Iterates
    <3>2. CASE k # 0
      <4>1. k \in 1 .. TagBits /\ k - 1 \in 0 .. TagBits
        BY <1>1, <3>2
      <4>2. g[k] = F[k][g[k - 1]] /\ g[k - 1] \in St
        <5> HIDE DEF F
        <5> QED
          BY <1>1, <1>4, <4>1, IterationSteps
      <4> QED
        BY <3>2, <4>1, <4>2
    <3> QED
      BY <3>1, <3>2
  <2>2. g = [k \in 0 .. TagBits |-> g[k]]
    BY <1>4 DEF Iterates
  <2> QED
    BY <2>1, <2>2
<1> DEFINE push == CHOOSE r : Eq(r)
<1>6. Eq(push)
  BY <1>5
<1> HIDE DEF push
<1>7. push[TagBits] \in St /\ (push[TagBits].on => Len(push[TagBits].es) = TagBits + 1)
  <2> DEFINE S == {k \in 0 .. TagBits : push[k] \in St /\ (push[k].on => Len(push[k].es) = k + 1)}
  <2>1. 0 \in S
    BY <1>1, <1>2, <1>6
  <2>2. ASSUME NEW k \in S, k < TagBits
        PROVE  k + 1 \in S
    <3>1. k + 1 \in 0 .. TagBits /\ k + 1 # 0 /\ k + 1 - 1 = k
      BY <1>1, <2>2
    <3>2. push[k + 1] = Pushed(h, push[k]) /\ push[k] \in St
      BY <1>6, <3>1
    <3>3. push[k + 1] \in St /\ (push[k + 1].on => push[k].on /\ Len(push[k + 1].es) = Len(push[k].es) + 1)
      BY <1>3, <3>2
    <3>4. push[k + 1].on => Len(push[k + 1].es) = k + 1 + 1
      BY <3>3
    <3> QED
      BY <3>1, <3>3, <3>4
  <2> HIDE DEF S
  <2>3. S = 0 .. TagBits
    BY <1>1, <2>1, <2>2, UpTo DEF S
  <2>4. TagBits \in S
    BY <1>1, <2>3
  <2> QED
    BY <2>4 DEF S
<1>8. PICK w : w = push[TagBits]
  OBVIOUS
<1>9. w.es \in ChainOf(h, e) /\ (~w.on => Ended(h, w.es)) /\ (w.on => Len(w.es) = TagBits + 1)
  BY <1>7, <1>8 DEF St
<1>10. w.on => Ended(h, w.es)
  <2> SUFFICES ASSUME w.on
               PROVE  Ended(h, w.es)
    OBVIOUS
  <2>1. PICK a : a = w.es[Len(w.es)]
    OBVIOUS
  <2>2. w.es \in Seq(Entry) /\ Len(w.es) = TagBits + 1 /\ TagBits + 1 \in 1 .. Len(w.es)
    BY <1>1, <1>9 DEF ChainOf
  <2>3. a \in Entry /\ LowZero(a.t) + (TagBits + 1) <= TagBits + 1
    BY <1>9, <2>1, <2>2, ElementOfSeq DEF ChainOf
  <2>4. LowZero(a.t) \in Nat
    BY <2>3, LowZeroBounds DEF Entry
  <2>5. LowZero(a.t) = 0
    BY <1>1, <2>3, <2>4
  <2>6. At(h, a.t, Last(h, a.t)) \in Entry
    <3>1. Probe(a.t, Last(h, a.t)) \in Slots
      BY LastStops, ProbeSlot, TableSize
    <3> QED
      BY <3>1 DEF At, Table
  <2>7. LowZero(At(h, a.t, Last(h, a.t)).t) \in Nat
    BY <2>6, LowZeroBounds DEF Entry
  <2>8. ~Rehashed(h, a.t, At(h, a.t, Last(h, a.t)))
    BY <2>5, <2>7 DEF Rehashed, LesserBitness
  <2> QED
    BY <2>1, <2>8 DEF Ended
<1>11. Displaced(h, e) = push[TagBits].es
  BY DEF Displaced, push, v
<1> QED
  BY <1>8, <1>9, <1>10, <1>11
\* hash_count goes down where an entry is lost.
LEMMA SettledIs ==
  ASSUME NEW h \in Table, NEW x
  PROVE  /\ Settled(h, x) \in Table
         /\ Settled(h, x).slot = h.slot /\ Settled(h, x).min = h.min /\ Settled(h, x).ptr = h.ptr
         /\ Settled(h, x).count = h.count - (IF At(h, x, Last(h, x)) = Empty THEN 0 ELSE 1)
<1>1. PICK old : old = At(h, x, Last(h, x))
  OBVIOUS
<1>2. PICK d : d = DropOne(h)
  OBVIOUS
<1>3. /\ d \in Table /\ d.slot = h.slot /\ d.min = h.min /\ d.ptr = h.ptr
      /\ d.count = h.count - 1 /\ d.victim = h.victim
  BY <1>2 DEF DropOne, Table
<1>4. CASE old = Empty
  <2>1. Settled(h, x) = h
    BY <1>1, <1>4 DEF Settled
  <2> QED
    BY <1>1, <1>4, <2>1 DEF Table
<1>5. CASE old # Empty /\ Chained(h, x, old)
  <2>1. Settled(h, x) = [d EXCEPT !.victim = NextVictim(@)]
    BY <1>1, <1>2, <1>5 DEF Settled
  <2>2. NextVictim(d.victim) \in 0 .. MaxChainLen - 1
    <3>1. PICK m \in Nat \ {0} : m = MaxChainLen
      BY TableSize
    <3>2. d.victim + 1 \in Nat
      BY <1>3, <3>1 DEF Table
    <3>3. (d.victim + 1) % m \in 0 .. m - 1
      BY <3>1, <3>2
    <3> QED
      BY <3>1, <3>3 DEF NextVictim
  <2>3. PICK v \in 0 .. MaxChainLen - 1 : v = NextVictim(d.victim)
    BY <2>2
  <2>4. Settled(h, x) = [d EXCEPT !.victim = v]
    BY <2>1, <2>3
  <2>5. /\ [d EXCEPT !.victim = v] \in Table
        /\ [d EXCEPT !.victim = v].slot = d.slot
        /\ [d EXCEPT !.victim = v].min = d.min /\ [d EXCEPT !.victim = v].ptr = d.ptr
        /\ [d EXCEPT !.victim = v].count = d.count
    BY <1>3 DEF Table
  <2> QED
    BY <1>1, <1>3, <1>5, <2>4, <2>5
<1>6. CASE old # Empty /\ ~Chained(h, x, old)
  <2>1. Settled(h, x) = d
    BY <1>1, <1>2, <1>6 DEF Settled
  <2> QED
    BY <1>1, <1>3, <1>6, <2>1
<1> QED
  BY <1>4, <1>5, <1>6

\* Every slot that some entry takes gets one that takes it, the others stay.
LEMMA PlacedSlots ==
  ASSUME NEW h \in Table, HasRoom(h), NEW es \in Seq(Entry), Len(es) >= 1
  PROVE  LET g == Placed(h, es)
         IN  /\ g \in Table /\ g.min = h.min /\ g.ptr = h.ptr
             /\ g.count = Settled(h, es[Len(es)].t).count
             /\ \A s \in Slots :
                   \/ /\ \A k \in 1 .. Len(es) : Target(h, es[k].t) # s
                      /\ g.slot[s] = h.slot[s]
                   \/ \E k \in 1 .. Len(es) : Target(h, es[k].t) = s /\ g.slot[s] = es[k]
<1> DEFINE n == Len(es)
           z == Settled(h, es[n].t)
           For(s) == {k \in 1 .. n : Target(h, es[k].t) = s}
           f == [s \in Slots |-> IF For(s) = {} THEN h.slot[s] ELSE es[Min(For(s))]]
<1>1. n \in Nat /\ DOMAIN es = 1 .. n
  BY LenProperties
<1>2. Placed(h, es) = [z EXCEPT !.slot = f]
  <2>1. ASSUME NEW s
        PROVE  {k \in DOMAIN es : [j \in DOMAIN es |-> Target(h, es[j].t)][k] = s} = For(s)
    BY <1>1
  <2>2. Placed(h, es) =
           [z EXCEPT !.slot = [s \in Slots |->
              IF {k \in DOMAIN es : [j \in DOMAIN es |-> Target(h, es[j].t)][k] = s} = {}
              THEN h.slot[s]
              ELSE es[Min({k \in DOMAIN es : [j \in DOMAIN es |-> Target(h, es[j].t)][k] = s})]]]
    BY DEF Placed
  <2> HIDE DEF For
  <2> QED
    BY <2>1, <2>2
<1>3. ASSUME NEW s \in Slots
      PROVE  /\ f[s] \in Entry
             /\ \/ /\ \A k \in 1 .. n : Target(h, es[k].t) # s
                   /\ f[s] = h.slot[s]
                \/ \E k \in 1 .. n : Target(h, es[k].t) = s /\ f[s] = es[k]
  <2>1. CASE For(s) = {}
    <3>1. f[s] = h.slot[s] /\ h.slot[s] \in Entry
      BY <2>1 DEF Table
    <3>2. \A k \in 1 .. n : Target(h, es[k].t) # s
      BY <2>1
    <3> QED
      BY <3>1, <3>2
  <2>2. CASE For(s) # {}
    <3>1. For(s) \in SUBSET Nat
      BY <1>1
    <3>2. Min(For(s)) \in For(s)
      <4> HIDE DEF For
      <4> QED
        BY <2>2, <3>1, MinNat
    <3>3. PICK k \in 1 .. n : k = Min(For(s)) /\ Target(h, es[k].t) = s
      BY <3>2
    <3>4. f[s] = es[k] /\ es[k] \in Entry
      BY <2>2, <3>3, ElementOfSeq
    <3> QED
      BY <3>3, <3>4
  <2> QED
    BY <2>1, <2>2
<1>4. f \in [Slots -> Entry]
  <2>1. f = [s \in Slots |-> f[s]]
    OBVIOUS
  <2> HIDE DEF f
  <2> QED
    BY <1>3, <2>1
<1>5. z \in Table /\ z.min = h.min /\ z.ptr = h.ptr
  BY SettledIs
<1> HIDE DEF f, z
<1>6. /\ [z EXCEPT !.slot = f] \in Table /\ [z EXCEPT !.slot = f].slot = f
      /\ [z EXCEPT !.slot = f].min = z.min /\ [z EXCEPT !.slot = f].ptr = z.ptr
      /\ [z EXCEPT !.slot = f].count = z.count
  BY <1>4, <1>5 DEF Table
<1> QED
  BY <1>2, <1>3, <1>5, <1>6 DEF z
\* The entries of a chain, and what the slots they take held.
LEMMA ChainEntries ==
  ASSUME NEW h \in Table, HasRoom(h), NEW e \in Entry, e # Empty,
         NEW es \in ChainOf(h, e), NEW k \in 1 .. Len(es)
  PROVE  /\ es[k] \in Entry /\ es[k] # Empty
         /\ k = 1 => es[k] = e
         /\ k # 1 => ~MinimumBitness(h, es[k].t) /\ \E s \in Slots : es[k] = h.slot[s]
<1>1. es \in Seq(Entry) /\ Len(es) \in Nat /\ es[1] = e
  BY LenProperties DEF ChainOf
<1>2. es[k] \in Entry
  BY <1>1, ElementOfSeq
<1>3. CASE k = 1
  BY <1>1, <1>2, <1>3
<1>4. CASE k # 1
  <2>1. PICK j : j = k - 1 /\ j \in 1 .. Len(es) - 1 /\ j + 1 = k
    BY <1>1, <1>4
  <2>2. Link(h, es[j], es[k])
    BY <2>1 DEF ChainOf
  <2>3. es[k] # Empty /\ ~MinimumBitness(h, es[k].t) /\ es[k] = At(h, es[j].t, Last(h, es[j].t))
    BY <2>2 DEF Link, Rehashed
  <2>4. Probe(es[j].t, Last(h, es[j].t)) \in Slots
    BY LastStops, ProbeSlot, TableSize
  <2> QED
    BY <1>2, <1>4, <2>3, <2>4 DEF At
<1> QED
  BY <1>3, <1>4

LEMMA ChainTakes ==
  ASSUME NEW h \in Table, HasRoom(h), NEW e \in Entry,
         NEW es \in ChainOf(h, e), Ended(h, es), NEW k \in 1 .. Len(es)
  PROVE  LET x == es[k].t
             u == Target(h, x)
         IN  /\ u \in Slots
             /\ k # Len(es) => h.slot[u] # Empty
             /\ k = Len(es) => (h.slot[u] = Empty <=> At(h, x, Last(h, x)) = Empty)
             /\ \/ h.slot[u] = Empty
                \/ MinimumBitness(h, h.slot[u].t)
                \/ LowZero(h.slot[u].t) <= LowZero(x)
<1>1. PICK x, n, u : x = es[k].t /\ n = Last(h, x) /\ u = Target(h, x)
  OBVIOUS
<1>2. PICK i \in 0 .. n :
         /\ i \in Slots /\ u = Probe(x, i) /\ u \in Slots
         /\ \/ i = n /\ ~Chained(h, x, At(h, x, n))
            \/ /\ Chained(h, x, At(h, x, n))
               /\ At(h, x, i) # Empty /\ At(h, x, i).t = x
  BY <1>1, TargetOnWay
<1>3. h.slot[u] = At(h, x, i)
  BY <1>2 DEF At
<1>4. es \in Seq(Entry) /\ Len(es) \in Nat
  BY LenProperties DEF ChainOf
<1>5. es[k] \in Entry /\ x \in SUBSET Bits /\ h.slot[u] \in Entry
  <2>1. es[k] \in Entry
    BY <1>4, ElementOfSeq
  <2>2. h.slot[u] \in Entry
    BY <1>2 DEF Table
  <2> QED
    BY <1>1, <2>1, <2>2 DEF Entry
<1>6. LowZero(x) \in Nat /\ LowZero(h.slot[u].t) \in Nat
  BY <1>5, LowZeroBounds DEF Entry
<1>7. CASE Chained(h, x, At(h, x, n))
  <2>1. h.slot[u] # Empty /\ h.slot[u].t = x /\ At(h, x, n) # Empty
    BY <1>2, <1>3, <1>7 DEF Chained
  <2> QED
    BY <1>1, <1>2, <1>6, <2>1
<1>8. CASE ~Chained(h, x, At(h, x, n))
  <2>1. h.slot[u] = At(h, x, n)
    BY <1>2, <1>3, <1>8
  <2>2. CASE k # Len(es)
    <3>1. k \in 1 .. Len(es) - 1
      BY <1>4, <2>2
    <3>2. Link(h, es[k], es[k + 1])
      BY <3>1 DEF ChainOf
    <3>3. h.slot[u] # Empty /\ LowZero(h.slot[u].t) < LowZero(x)
      BY <1>1, <2>1, <3>2 DEF Link, Rehashed, LesserBitness
    <3> QED
      BY <1>1, <1>2, <1>6, <2>2, <3>3
  <2>3. CASE k = Len(es)
    <3>1. ~Rehashed(h, x, At(h, x, n))
      BY <1>1, <2>3 DEF Ended
    <3>2. h.slot[u] = Empty \/ MinimumBitness(h, h.slot[u].t)
      BY <1>8, <2>1, <3>1 DEF Rehashed, Chained
    <3> QED
      BY <1>1, <1>2, <2>1, <2>3, <3>2
  <2> QED
    BY <2>2, <2>3
<1> QED
  BY <1>7, <1>8

\* insert_hash: one slot more may be occupied, and the count says so.
Inserted(g, h, e) ==
  /\ g \in Table /\ g.min = h.min /\ g.ptr = h.ptr
  /\ \A s \in Slots :
        \/ g.slot[s] = h.slot[s] \/ g.slot[s] = e
        \/ /\ ~MinimumBitness(h, g.slot[s].t)
           /\ \E s2 \in Slots : g.slot[s] = h.slot[s2] /\ h.slot[s2] # Empty
  /\ \E u \in Slots : /\ Occupied(g) = Occupied(h) \cup {u}
                      /\ g.count = h.count - (IF u \in Occupied(h) THEN 1 ELSE 0)

LEMMA InsertCounts ==
  ASSUME NEW h \in Table, HasRoom(h), NEW x \in SUBSET Bits, NEW o \in Nat \ {0}
  PROVE  Inserted(InsertHash(h, x, o), h, [t |-> x, off |-> o])
<1>1. PICK e : e = [t |-> x, off |-> o]
  OBVIOUS
<1>2. e \in Entry /\ e # Empty
  <2>1. e.off = o /\ Empty.off = 0
    BY <1>1 DEF Empty
  <2> QED
    BY <1>1, <2>1 DEF Entry
<1>3. PICK es : es = Displaced(h, e)
  OBVIOUS
<1>4. es \in ChainOf(h, e) /\ Ended(h, es)
  BY <1>2, <1>3, DisplacedEnds
<1>5. PICK g, n : g = Placed(h, es) /\ n = Len(es)
  OBVIOUS
<1>6. es \in Seq(Entry) /\ n \in Nat /\ n >= 1
  BY <1>4, <1>5, LenProperties DEF ChainOf
<1>7. InsertHash(h, x, o) = g
  BY <1>1, <1>3, <1>5 DEF InsertHash
<1>8. /\ g \in Table /\ g.min = h.min /\ g.ptr = h.ptr
      /\ g.count = Settled(h, es[n].t).count
      /\ \A s \in Slots :
            \/ /\ \A k \in 1 .. n : Target(h, es[k].t) # s
               /\ g.slot[s] = h.slot[s]
            \/ \E k \in 1 .. n : Target(h, es[k].t) = s /\ g.slot[s] = es[k]
  BY <1>5, <1>6, PlacedSlots
<1>9. ASSUME NEW s \in Slots
      PROVE  \/ g.slot[s] = h.slot[s] \/ g.slot[s] = e
             \/ /\ ~MinimumBitness(h, g.slot[s].t)
                /\ \E s2 \in Slots : g.slot[s] = h.slot[s2] /\ h.slot[s2] # Empty
  <2>1. CASE g.slot[s] = h.slot[s]
    BY <2>1
  <2>2. CASE \E k \in 1 .. n : g.slot[s] = es[k]
    <3>1. PICK k \in 1 .. n : g.slot[s] = es[k]
      BY <2>2
    <3>2. /\ es[k] # Empty /\ (k = 1 => es[k] = e)
          /\ k # 1 => ~MinimumBitness(h, es[k].t) /\ \E s2 \in Slots : es[k] = h.slot[s2]
      BY <1>2, <1>4, <1>5, ChainEntries
    <3> QED
      BY <3>1, <3>2
  <2> QED
    BY <1>8, <2>1, <2>2
<1>10. PICK u, y : y = es[n].t /\ u = Target(h, y)
  OBVIOUS
<1>11. n \in 1 .. n
  BY <1>6
<1>12. u \in Slots /\ (h.slot[u] = Empty <=> At(h, y, Last(h, y)) = Empty)
  BY <1>2, <1>4, <1>5, <1>10, <1>11, ChainTakes
<1>13. Occupied(g) = Occupied(h) \cup {u}
  <2>1. ASSUME NEW s \in Slots
        PROVE  g.slot[s] # Empty <=> h.slot[s] # Empty \/ s = u
    <3>1. CASE /\ \A k \in 1 .. n : Target(h, es[k].t) # s
               /\ g.slot[s] = h.slot[s]
      <4>1. s # u
        BY <1>10, <1>11, <3>1
      <4> QED
        BY <3>1, <4>1
    <3>2. CASE \E k \in 1 .. n : Target(h, es[k].t) = s /\ g.slot[s] = es[k]
      <4>1. PICK k \in 1 .. n : Target(h, es[k].t) = s /\ g.slot[s] = es[k]
        BY <3>2
      <4>2. es[k] # Empty
        BY <1>2, <1>4, <1>5, ChainEntries
      <4>3. k # n => h.slot[s] # Empty
        BY <1>2, <1>4, <1>5, <4>1, ChainTakes
      <4>4. k = n => s = u
        BY <1>10, <4>1
      <4> QED
        BY <4>1, <4>2, <4>3, <4>4
    <3> QED
      BY <1>8, <3>1, <3>2
  <2> QED
    BY <1>12, <2>1 DEF Occupied
<1>14. g.count = h.count - (IF u \in Occupied(h) THEN 1 ELSE 0)
  BY <1>8, <1>10, <1>12, SettledIs DEF Occupied
<1> QED
  BY <1>1, <1>7, <1>8, <1>9, <1>12, <1>13, <1>14 DEF Inserted

\* Nothing on the way from its primary slot to an entry that is not due for
\* cleaning is empty or to be cleaned before it.
Reached(h, s, i) ==
  LET x == h.slot[s].t
  IN  \A j \in 0 .. i : /\ h.slot[Probe(x, j)] # Empty
                        /\ LowZero(h.slot[Probe(x, j)].t) >= LowZero(x)
PathInv(h) ==
  \A s \in Slots, i \in Slots :
     /\ h.slot[s] # Empty /\ ~MinimumBitness(h, h.slot[s].t) /\ h.slot[s].t # Bits
     /\ Probe(h.slot[s].t, i) = s
     => Reached(h, s, i)

\* No slot that matters gets an entry that is to be cleaned before the old one.
LEMMA InsertUpgrades ==
  ASSUME NEW h \in Table, HasRoom(h), NEW e \in Entry, e # Empty,
         NEW es \in ChainOf(h, e), Ended(h, es), NEW u \in Slots,
         h.slot[u] # Empty, ~MinimumBitness(h, h.slot[u].t)
  PROVE  /\ Placed(h, es).slot[u] # Empty
         /\ LowZero(Placed(h, es).slot[u].t) >= LowZero(h.slot[u].t)
<1>1. PICK g : g = Placed(h, es)
  OBVIOUS
<1>2. es \in Seq(Entry) /\ Len(es) >= 1
  BY DEF ChainOf
<1>3. /\ g \in Table
      /\ \/ g.slot[u] = h.slot[u]
         \/ \E k \in 1 .. Len(es) : Target(h, es[k].t) = u /\ g.slot[u] = es[k]
  BY <1>1, <1>2, PlacedSlots
<1>4. LowZero(g.slot[u].t) \in Nat /\ LowZero(h.slot[u].t) \in Nat
  <2>1. g.slot[u] \in Entry /\ h.slot[u] \in Entry
    BY <1>3 DEF Table
  <2> QED
    BY <2>1, LowZeroBounds DEF Entry
<1>5. CASE g.slot[u] = h.slot[u]
  BY <1>1, <1>4, <1>5
<1>6. CASE \E k \in 1 .. Len(es) : Target(h, es[k].t) = u /\ g.slot[u] = es[k]
  <2>1. PICK k \in 1 .. Len(es) : Target(h, es[k].t) = u /\ g.slot[u] = es[k]
    BY <1>6
  <2>2. LowZero(h.slot[u].t) <= LowZero(es[k].t)
    BY <2>1, ChainTakes
  <2>3. es[k] # Empty
    BY ChainEntries
  <2> QED
    BY <1>1, <1>4, <2>1, <2>2, <2>3
<1> QED
  BY <1>3, <1>5, <1>6

LEMMA InsertKeepsPath ==
  ASSUME NEW h \in Table, HasRoom(h), NEW x \in SUBSET Bits, NEW o \in Nat \ {0}, PathInv(h)
  PROVE  PathInv(InsertHash(h, x, o))
<1>1. PICK e : e = [t |-> x, off |-> o]
  OBVIOUS
<1>2. e \in Entry /\ e # Empty
  <2>1. e.off = o /\ Empty.off = 0
    BY <1>1 DEF Empty
  <2> QED
    BY <1>1, <2>1 DEF Entry
<1>3. PICK es : es = Displaced(h, e)
  OBVIOUS
<1>4. es \in ChainOf(h, e) /\ Ended(h, es)
  BY <1>2, <1>3, DisplacedEnds
<1>5. PICK g, n : g = Placed(h, es) /\ n = Len(es)
  OBVIOUS
<1>6. es \in Seq(Entry) /\ n \in Nat /\ n >= 1
  BY <1>4, <1>5, LenProperties DEF ChainOf
<1>7. InsertHash(h, x, o) = g
  BY <1>1, <1>3, <1>5 DEF InsertHash
<1>8. /\ g \in Table /\ g.min = h.min
      /\ \A s \in Slots :
            \/ g.slot[s] = h.slot[s]
            \/ \E k \in 1 .. n : Target(h, es[k].t) = s /\ g.slot[s] = es[k]
  BY <1>5, <1>6, PlacedSlots
<1>9. ASSUME NEW u \in Slots, h.slot[u] # Empty, ~MinimumBitness(h, h.slot[u].t)
      PROVE  g.slot[u] # Empty /\ LowZero(g.slot[u].t) >= LowZero(h.slot[u].t)
  BY <1>2, <1>4, <1>5, <1>9, InsertUpgrades
<1>10. ASSUME NEW s \in Slots, NEW i \in Slots, NEW y, y = g.slot[s].t,
              g.slot[s] # Empty, ~MinimumBitness(g, y), y # Bits, Probe(y, i) = s,
              NEW j \in 0 .. i
       PROVE  g.slot[Probe(y, j)] # Empty /\ LowZero(g.slot[Probe(y, j)].t) >= LowZero(y)
  <2>1. y \in SUBSET Bits /\ h.min \in 0 .. TagBits
    BY <1>8, <1>10 DEF Table, Entry
  <2>2. PICK c : c = IncreaseMask(h.min)
    OBVIOUS
  <2>3. c \in 0 .. TagBits /\ LowZero(y) > c /\ LowZero(y) \in Nat /\ ~MinimumBitness(h, y)
    <3>1. c \in 0 .. TagBits
      BY <2>1, <2>2, IncreaseMaskType
    <3>2. Mask(c) \subseteq y /\ ~MinimumBitness(h, y)
      BY <1>8, <1>10, <2>2 DEF MinimumBitness
    <3> QED
      BY <1>10, <2>1, <3>1, <3>2, BitnessIsLowZero, LowZeroBounds
  <2>4. j \in Nat /\ i \in Nat /\ j \in Slots /\ Probe(y, j) \in Slots
    BY ProbeSlot, TableSize DEF Slots
  <2>5. ASSUME NEW u \in Slots, h.slot[u] # Empty, LowZero(h.slot[u].t) >= LowZero(y)
        PROVE  g.slot[u] # Empty /\ LowZero(g.slot[u].t) >= LowZero(y)
    <3>1. h.slot[u].t \in SUBSET Bits /\ g.slot[u].t \in SUBSET Bits
      BY <1>8 DEF Table, Entry
    <3>2. LowZero(h.slot[u].t) \in Nat /\ LowZero(g.slot[u].t) \in Nat
      BY <3>1, LowZeroBounds
    <3>3. ~(LowZero(h.slot[u].t) <= c)
      BY <2>3, <2>5, <3>2
    <3>4. ~MinimumBitness(h, h.slot[u].t)
      BY <2>2, <2>3, <3>1, <3>3, BitnessIsLowZero DEF MinimumBitness
    <3>5. g.slot[u] # Empty /\ LowZero(g.slot[u].t) >= LowZero(h.slot[u].t)
      BY <1>9, <2>5, <3>4
    <3> QED
      BY <2>3, <2>5, <3>2, <3>5
  <2>6. CASE g.slot[s] = h.slot[s]
    <3>1. Reached(h, s, i)
      BY <1>10, <2>3, <2>6 DEF PathInv
    <3>2. h.slot[Probe(y, j)] # Empty /\ LowZero(h.slot[Probe(y, j)].t) >= LowZero(y)
      BY <1>10, <2>6, <3>1 DEF Reached
    <3> QED
      BY <2>4, <2>5, <3>2
  <2>7. CASE \E k \in 1 .. n : Target(h, es[k].t) = s /\ g.slot[s] = es[k]
    <3>1. PICK k \in 1 .. n : Target(h, es[k].t) = s /\ g.slot[s] = es[k]
      BY <2>7
    <3>2. PICK i0 \in 0 .. Last(h, y) : i0 \in Slots /\ Target(h, y) = Probe(y, i0)
      BY <1>10, <3>1, TargetOnWay
    <3>3. i0 = i
      BY <1>10, <3>1, <3>2, ProbeOnce
    <3>4. /\ Last(h, y) \in Slots /\ Last(h, y) \in Nat
          /\ \A m \in 0 .. Last(h, y) - 1 : m \in Slots /\ ~Stops(h, y, m)
      BY LastStops, TableSize
    <3>5. CASE j = i
      BY <1>10, <2>3, <3>5
    <3>6. CASE j # i
      <4>1. j \in 0 .. Last(h, y) - 1
        BY <2>4, <3>2, <3>3, <3>4, <3>6
      <4>2. ~Stops(h, y, j)
        BY <3>4, <4>1
      <4>3. h.slot[Probe(y, j)] # Empty /\ ~(LowZero(h.slot[Probe(y, j)].t) < LowZero(y))
        BY <4>2 DEF Stops, At, LesserBitness
      <4>4. LowZero(h.slot[Probe(y, j)].t) \in Nat
        <5>1. h.slot[Probe(y, j)] \in Entry
          BY <2>4 DEF Table
        <5> QED
          BY <5>1, LowZeroBounds DEF Entry
      <4>5. LowZero(h.slot[Probe(y, j)].t) >= LowZero(y)
        BY <2>3, <4>3, <4>4
      <4> QED
        BY <2>4, <2>5, <4>3, <4>5
    <3> QED
      BY <3>5, <3>6
  <2> QED
    BY <1>8, <2>6, <2>7
<1>11. PathInv(g)
  BY <1>10 DEF PathInv, Reached
<1> QED
  BY <1>7, <1>11
-----------------------------------------------------------------------------
(* clean_one_from_hash.                                                    *)

SweptInv(h) ==
  \A s \in Slots : h.slot[s] # Empty =>
     /\ Mask(h.min) \subseteq h.slot[s].t
     /\ s < h.ptr => Mask(IncreaseMask(h.min)) \subseteq h.slot[s].t

\* What is due at a minimum of k low bits.
LEMMA DueIs ==
  ASSUME NEW h \in Table, NEW k \in 0 .. TagBits, NEW a \in Slots
  PROVE  /\ Due(h, k, a) \in SUBSET Slots
         /\ \A s \in Slots :
               s \in Due(h, k, a) <=>
                  s >= a /\ h.slot[s] # Empty /\ ~(Mask(IncreaseMask(k)) \subseteq h.slot[s].t)
<1>1. PICK n \in Nat : n = 2^HashBits /\ Slots = 0 .. n - 1
  BY TableSize DEF Slots
<1>2. [h EXCEPT !.min = k].min = k
  BY DEF Table
<1>3. \A s : MinimumBitness([h EXCEPT !.min = k], h.slot[s].t)
               <=> ~(Mask(IncreaseMask(k)) \subseteq h.slot[s].t)
  BY <1>2 DEF MinimumBitness
<1> QED
  BY <1>1, <1>3 DEF Due

\* The sweep finds an entry that is due, behind which everything has the better
\* mask.
LEMMA CleanFinds ==
  ASSUME NEW h \in Table, Sweepable(h), SweptInv(h)
  PROVE  \E k \in h.min .. TagBits, u \in Slots :
            /\ CleanOne(h) = Cleared(h, k, u)
            /\ h.slot[u] # Empty /\ ~(Mask(IncreaseMask(k)) \subseteq h.slot[u].t)
            /\ \A s \in Slots : h.slot[s] # Empty =>
                  /\ Mask(k) \subseteq h.slot[s].t
                  /\ s < u => Mask(IncreaseMask(k)) \subseteq h.slot[s].t
<1>1. /\ h.min \in 0 .. TagBits /\ h.ptr \in Slots /\ TagBits \in Nat /\ Slots \in SUBSET Nat
      /\ 0 \in Slots
  BY TableSize DEF Table, Slots
<1>2. CASE Due(h, h.min, h.ptr) # {}
  <2>1. PICK u : u = Min(Due(h, h.min, h.ptr))
    OBVIOUS
  <2>2. Due(h, h.min, h.ptr) \in SUBSET Nat
    BY <1>1, DueIs
  <2>3. u \in Due(h, h.min, h.ptr) /\ \A s \in Due(h, h.min, h.ptr) : u <= s
    BY <1>2, <2>1, <2>2, MinNat
  <2>4. u \in Slots /\ h.slot[u] # Empty /\ ~(Mask(IncreaseMask(h.min)) \subseteq h.slot[u].t)
    BY <1>1, <2>3, DueIs
  <2>5. ASSUME NEW s \in Slots, h.slot[s] # Empty
        PROVE  /\ Mask(h.min) \subseteq h.slot[s].t
               /\ s < u => Mask(IncreaseMask(h.min)) \subseteq h.slot[s].t
    <3>1. CASE s < h.ptr
      BY <2>5, <3>1 DEF SweptInv
    <3>2. CASE ~(s < h.ptr)
      <4>0. s \in Nat /\ h.ptr \in Nat
        BY <1>1
      <4>1. s >= h.ptr
        BY <3>2, <4>0
      <4>2. s < u => s \notin Due(h, h.min, h.ptr)
        BY <1>1, <2>3, <2>4
      <4> QED
        BY <1>1, <2>5, <4>1, <4>2, DueIs DEF SweptInv
    <3> QED
      BY <3>1, <3>2
  <2>6. CleanOne(h) = Cleared(h, h.min, u)
    BY <1>2, <2>1 DEF CleanOne
  <2>7. h.min \in h.min .. TagBits
    BY <1>1
  <2> QED
    BY <2>4, <2>5, <2>6, <2>7
<1>3. CASE Due(h, h.min, h.ptr) = {}
  <2>1. PICK k : k = Min(Raised(h))
    OBVIOUS
  <2>2. IncreaseMask(h.min) \in h.min .. TagBits
    BY <1>1, IncreaseMaskType
  <2>3. Raised(h) # {} /\ Raised(h) \in SUBSET Nat
    BY <1>1, <1>3, <2>2 DEF Sweepable, Raised
  <2>4. k \in Raised(h) /\ \A j \in Raised(h) : k <= j
    BY <2>1, <2>3, MinNat
  <2>5. k \in IncreaseMask(h.min) .. TagBits /\ k \in h.min .. TagBits /\ k \in 0 .. TagBits
    BY <1>1, <2>2, <2>4 DEF Raised
  <2>6. PICK u : u = Min(Due(h, k, 0))
    OBVIOUS
  <2>7. Due(h, k, 0) \in SUBSET Nat /\ Due(h, k, 0) # {}
    BY <1>1, <2>4, <2>5, DueIs DEF Raised
  <2>8. u \in Due(h, k, 0) /\ \A s \in Due(h, k, 0) : u <= s
    BY <2>6, <2>7, MinNat
  <2>9. u \in Slots /\ h.slot[u] # Empty /\ ~(Mask(IncreaseMask(k)) \subseteq h.slot[u].t)
    BY <1>1, <2>5, <2>8, DueIs
  <2>10. ASSUME NEW s \in Slots, h.slot[s] # Empty
         PROVE  Mask(IncreaseMask(h.min)) \subseteq h.slot[s].t
    <3>1. CASE s < h.ptr
      BY <2>10, <3>1 DEF SweptInv
    <3>2. CASE ~(s < h.ptr)
      <4>0. s \in Nat /\ h.ptr \in Nat
        BY <1>1
      <4>1. s >= h.ptr /\ s \notin Due(h, h.min, h.ptr)
        BY <1>3, <3>2, <4>0
      <4> QED
        BY <1>1, <2>10, <4>1, DueIs
    <3> QED
      BY <3>1, <3>2
  <2>11. ASSUME NEW s \in Slots, h.slot[s] # Empty
         PROVE  /\ Mask(k) \subseteq h.slot[s].t
                /\ s < u => Mask(IncreaseMask(k)) \subseteq h.slot[s].t
    <3>1. Mask(k) \subseteq h.slot[s].t
      <4>1. CASE k = IncreaseMask(h.min)
        BY <2>10, <2>11, <4>1
      <4>2. CASE k # IncreaseMask(h.min)
        <5>1. PICK j : j = k - 1
          OBVIOUS
        <5>2. j \in IncreaseMask(h.min) .. TagBits /\ j \in 0 .. TagBits /\ j < TagBits /\ ~(k <= j)
              /\ j + 1 = k
          BY <1>1, <2>2, <2>5, <4>2, <5>1
        <5>3. j \notin Raised(h)
          BY <2>4, <5>2
        <5>4. s \notin Due(h, j, 0)
          BY <5>2, <5>3 DEF Raised
        <5>5. Mask(IncreaseMask(j)) \subseteq h.slot[s].t
          BY <1>1, <2>11, <5>2, <5>4, DueIs
        <5>6. IncreaseMask(j) = k
          BY <5>2 DEF IncreaseMask
        <5> QED
          BY <5>5, <5>6
      <4> QED
        BY <4>1, <4>2
    <3>2. s < u => s \notin Due(h, k, 0)
      BY <1>1, <2>8, <2>9
    <3>3. s >= 0
      BY <1>1
    <3> QED
      BY <1>1, <2>5, <2>11, <3>1, <3>2, <3>3, DueIs
  <2>12. CleanOne(h) = Cleared(h, k, u)
    BY <1>3, <2>1, <2>6 DEF CleanOne
  <2> QED
    BY <2>5, <2>9, <2>11, <2>12
<1> QED
  BY <1>2, <1>3

\* Clearing it keeps the sweep in order and every way to another entry.
LEMMA CleanKeeps ==
  ASSUME NEW h \in Table, Sweepable(h), SweptInv(h), PathInv(h)
  PROVE  LET g == CleanOne(h)
         IN  /\ g \in Table /\ g.min \in h.min .. TagBits /\ g.count = h.count - 1
             /\ SweptInv(g) /\ PathInv(g)
             /\ \A s \in Slots : g.slot[s] = h.slot[s] \/ g.slot[s] = Empty
             /\ \E u \in Occupied(h) : Occupied(g) = Occupied(h) \ {u}
<1>1. PICK k \in h.min .. TagBits, u \in Slots :
            /\ CleanOne(h) = Cleared(h, k, u)
            /\ h.slot[u] # Empty /\ ~(Mask(IncreaseMask(k)) \subseteq h.slot[u].t)
            /\ \A s \in Slots : h.slot[s] # Empty =>
                  /\ Mask(k) \subseteq h.slot[s].t
                  /\ s < u => Mask(IncreaseMask(k)) \subseteq h.slot[s].t
  BY CleanFinds
<1>2. PICK g : g = CleanOne(h)
  OBVIOUS
<1>3. h.min \in 0 .. TagBits /\ k \in 0 .. TagBits /\ h.count \in Int /\ TagBits \in Nat
      /\ h.slot \in [Slots -> Entry]
  BY TableSize DEF Table
<1>4. Empty \in Entry
  BY DEF Empty, Entry
<1>5. /\ g.slot = [h.slot EXCEPT ![u] = Empty] /\ g.count = h.count - 1 /\ g.min = k
      /\ g.ptr = u /\ g \in Table
  <2>1. g = [slot |-> [h.slot EXCEPT ![u] = Empty], count |-> h.count - 1,
             min |-> k, ptr |-> u, victim |-> h.victim]
    BY <1>1, <1>2 DEF Cleared
  <2>2. [h.slot EXCEPT ![u] = Empty] \in [Slots -> Entry]
    BY <1>3, <1>4
  <2>3. h.victim \in 0 .. MaxChainLen - 1
    BY DEF Table
  <2> QED
    BY <1>3, <2>1, <2>2, <2>3 DEF Table
<1>6. \A s \in Slots : g.slot[s] = IF s = u THEN Empty ELSE h.slot[s]
  BY <1>3, <1>5
<1>7. SweptInv(g)
  BY <1>1, <1>5, <1>6 DEF SweptInv
<1>8. PathInv(g)
  <2>1. ASSUME NEW s \in Slots, NEW i \in Slots, NEW y, y = g.slot[s].t,
               g.slot[s] # Empty, ~MinimumBitness(g, y), y # Bits, Probe(y, i) = s,
               NEW j \in 0 .. i
        PROVE  g.slot[Probe(y, j)] # Empty /\ LowZero(g.slot[Probe(y, j)].t) >= LowZero(y)
    <3>1. s # u /\ g.slot[s] = h.slot[s] /\ h.slot[s] \in Entry /\ y \in SUBSET Bits
      BY <1>3, <1>6, <2>1 DEF Entry
    <3>2. PICK c \in 0 .. TagBits : c = IncreaseMask(k)
      BY <1>3, IncreaseMaskType
    <3>3. Mask(c) \subseteq y
      BY <1>5, <2>1, <3>2 DEF MinimumBitness
    <3>4. LowZero(y) > c /\ LowZero(y) \in Nat
      BY <2>1, <3>1, <3>2, <3>3, BitnessIsLowZero, LowZeroBounds
    <3>5. ~MinimumBitness(h, y)
      <4>1. IncreaseMask(h.min) \in 0 .. TagBits /\ IncreaseMask(h.min) <= c
        BY <1>3, <3>2, IncreaseMaskType DEF IncreaseMask
      <4>2. Mask(IncreaseMask(h.min)) \subseteq Mask(c)
        BY <1>3, <3>2, <4>1 DEF Mask
      <4> QED
        BY <3>3, <4>2 DEF MinimumBitness
    <3>6. Reached(h, s, i)
      BY <2>1, <3>1, <3>5 DEF PathInv
    <3>7. h.slot[Probe(y, j)] # Empty /\ LowZero(h.slot[Probe(y, j)].t) >= LowZero(y)
      BY <2>1, <3>1, <3>6 DEF Reached
    <3>8. Probe(y, j) \in Slots
      BY ProbeSlot, TableSize DEF Slots
    <3>9. Probe(y, j) # u
      <4>1. h.slot[u].t \in SUBSET Bits
        BY <1>3 DEF Entry
      <4>2. LowZero(h.slot[u].t) <= c /\ LowZero(h.slot[u].t) \in Nat
        BY <1>1, <3>2, <4>1, BitnessIsLowZero, LowZeroBounds
      <4> QED
        BY <1>3, <3>4, <3>7, <4>2
    <3> QED
      BY <1>6, <3>7, <3>8, <3>9
  <2> QED
    BY <2>1 DEF PathInv, Reached
<1>9. u \in Occupied(h) /\ Occupied(g) = Occupied(h) \ {u}
  BY <1>1, <1>6 DEF Occupied
<1>10. \A s \in Slots : g.slot[s] = h.slot[s] \/ g.slot[s] = Empty
  BY <1>6
<1> QED
  BY <1>2, <1>5, <1>7, <1>8, <1>9, <1>10
-----------------------------------------------------------------------------
(* Tags.                                                                   *)

\* x[k] is the tag of the first k bytes of b.
TagsOf(x, b) ==
  /\ x[0] = {}
  /\ \A k \in 0 .. MinimumMatch : x[k] \in SUBSET Bits
  /\ \A k \in 0 .. MinimumMatch : k < MinimumMatch => x[k + 1] = Xor(x[k], HashIndex[b[k + 1]])

LEMMA XorBits ==
  ASSUME NEW x \in SUBSET Bits, NEW y \in SUBSET Bits
  PROVE  Xor(x, y) \in SUBSET Bits
BY DEF Xor

LEMMA TagSteps ==
  ASSUME NEW b, \A k \in 1 .. MinimumMatch : b[k] \in Bytes
  PROVE  \E x : TagsOf(x, b) /\ TagOfBytes(b) = x[MinimumMatch]
<1> DEFINE St == SUBSET Bits
           Step(k, v) == Xor(v, HashIndex[b[k]])
           F == [k \in 1 .. MinimumMatch |-> [v \in St |-> Step(k, v)]]
           Eq(r) == r = [k \in 0 .. MinimumMatch |-> IF k = 0 THEN {} ELSE Step(k, r[k - 1])]
<1>1. MinimumMatch \in Nat
  BY SearchAssumption
<1>2. \A k \in 1 .. MinimumMatch : \A v \in St : Step(k, v) \in St
  BY SearchAssumption, XorBits
<1>3. {} \in St
  OBVIOUS
<1> HIDE DEF St, Step
<1>4. PICK g : Iterates(g, St, {}, F, MinimumMatch)
  <2>1. F \in [1 .. MinimumMatch -> [St -> St]]
    BY <1>2
  <2> HIDE DEF F
  <2> QED
    BY <1>1, <1>3, <2>1, Iteration
<1>5. Eq(g)
  <2>1. ASSUME NEW k \in 0 .. MinimumMatch
        PROVE  g[k] = IF k = 0 THEN {} ELSE Step(k, g[k - 1])
    <3>1. CASE k = 0
      BY <1>4, <3>1 DEF Iterates
    <3>2. CASE k # 0
      <4>1. k \in 1 .. MinimumMatch /\ k - 1 \in 0 .. MinimumMatch
        BY <1>1, <3>2
      <4>2. g[k] = F[k][g[k - 1]] /\ g[k - 1] \in St
        <5> HIDE DEF F
        <5> QED
          BY <1>1, <1>4, <4>1, IterationSteps
      <4> QED
        BY <3>2, <4>1, <4>2
    <3> QED
      BY <3>1, <3>2
  <2>2. g = [k \in 0 .. MinimumMatch |-> g[k]]
    BY <1>4 DEF Iterates
  <2> QED
    BY <2>1, <2>2
<1> DEFINE x == CHOOSE r : Eq(r)
<1>6. Eq(x)
  BY <1>5
<1> HIDE DEF x
<1>7. x[0] = {} /\ \A k \in 0 .. MinimumMatch : k < MinimumMatch => x[k + 1] = Step(k + 1, x[k])
  <2>1. x[0] = {}
    BY <1>1, <1>6
  <2>2. ASSUME NEW k \in 0 .. MinimumMatch, k < MinimumMatch
        PROVE  x[k + 1] = Step(k + 1, x[k])
    <3>1. PICK j : j = k + 1
      OBVIOUS
    <3>2. j \in 0 .. MinimumMatch /\ j # 0 /\ j - 1 = k
      BY <1>1, <2>2, <3>1
    <3>3. x[j] = Step(j, x[k])
      BY <1>6, <3>2
    <3> QED
      BY <3>1, <3>3
  <2> QED
    BY <2>1, <2>2
<1>8. \A k \in 0 .. MinimumMatch : x[k] \in St
  <2> DEFINE S == {k \in 0 .. MinimumMatch : x[k] \in St}
  <2>1. 0 \in S
    BY <1>1, <1>3, <1>7
  <2>2. ASSUME NEW k \in S, k < MinimumMatch
        PROVE  k + 1 \in S
    <3>1. k + 1 \in 0 .. MinimumMatch /\ k + 1 \in 1 .. MinimumMatch
      BY <1>1, <2>2
    <3> QED
      BY <1>2, <1>7, <2>2, <3>1
  <2> HIDE DEF S
  <2>3. S = 0 .. MinimumMatch
    BY <1>1, <2>1, <2>2, UpTo DEF S
  <2> QED
    BY <2>3 DEF S
<1>9. TagOfBytes(b) = x[MinimumMatch]
  BY DEF TagOfBytes, x, Step
<1> QED
  BY <1>7, <1>8, <1>9 DEF TagsOf, Step, St

LEMMA TagType ==
  ASSUME NEW b, \A k \in 1 .. MinimumMatch : b[k] \in Bytes
  PROVE  TagOfBytes(b) \in SUBSET Bits
<1>1. PICK x : TagsOf(x, b) /\ TagOfBytes(b) = x[MinimumMatch]
  BY TagSteps
<1>2. MinimumMatch \in 0 .. MinimumMatch
  BY SearchAssumption
<1> QED
  BY <1>1, <1>2 DEF TagsOf

\* The tag is that of the first bytes, wherever they are kept.
LEMMA TagSame ==
  ASSUME NEW b, NEW c, \A k \in 1 .. MinimumMatch : b[k] \in Bytes /\ c[k] = b[k]
  PROVE  TagOfBytes(b) = TagOfBytes(c)
<1>1. PICK x : TagsOf(x, b) /\ TagOfBytes(b) = x[MinimumMatch]
  BY TagSteps
<1>2. PICK y : TagsOf(y, c) /\ TagOfBytes(c) = y[MinimumMatch]
  BY TagSteps
<1>3. MinimumMatch \in Nat
  BY SearchAssumption
<1> DEFINE S == {k \in 0 .. MinimumMatch : x[k] = y[k]}
<1>4. 0 \in S
  BY <1>1, <1>2, <1>3 DEF TagsOf
<1>5. ASSUME NEW k \in S, k < MinimumMatch
      PROVE  k + 1 \in S
  <2>1. k + 1 \in 0 .. MinimumMatch /\ k + 1 \in 1 .. MinimumMatch
    BY <1>3, <1>5
  <2>2. x[k + 1] = Xor(x[k], HashIndex[b[k + 1]]) /\ y[k + 1] = Xor(y[k], HashIndex[c[k + 1]])
    BY <1>1, <1>2, <1>5 DEF TagsOf
  <2>3. b[k + 1] = c[k + 1]
    BY <2>1
  <2> QED
    BY <2>1, <2>2, <2>3
<1> HIDE DEF S
<1>6. S = 0 .. MinimumMatch
  BY <1>3, <1>4, <1>5, UpTo DEF S
<1> QED
  BY <1>1, <1>2, <1>3, <1>6 DEF S

\* next_tag: c is b moved on by one byte, old the byte that left.
LEMMA TagShift ==
  ASSUME NEW b, NEW c, NEW old \in Bytes,
         \A k \in 1 .. MinimumMatch : b[k] \in Bytes /\ c[k] \in Bytes,
         b[1] = old, \A k \in 1 .. MinimumMatch : k < MinimumMatch => b[k + 1] = c[k]
  PROVE  TagOfBytes(c) = Xor(Xor(TagOfBytes(b), HashIndex[old]), HashIndex[c[MinimumMatch]])
<1>1. PICK x : TagsOf(x, b) /\ TagOfBytes(b) = x[MinimumMatch]
  BY TagSteps
<1>2. PICK y : TagsOf(y, c) /\ TagOfBytes(c) = y[MinimumMatch]
  BY TagSteps
<1>3. MinimumMatch \in Nat \ {0}
  BY SearchAssumption
<1>4. PICK o : o = HashIndex[old]
  OBVIOUS
<1>5. o \in SUBSET Bits
  BY <1>4, SearchAssumption
\* The tag of the first k bytes of c, without the last, is that of k bytes of b
\* without the first.
<1> DEFINE Good(k) == k < MinimumMatch => y[k] = Xor(x[k + 1], o)
           S == {k \in 0 .. MinimumMatch : Good(k)}
<1>6. 0 \in S
  <2>1. 0 \in 0 .. MinimumMatch /\ 0 < MinimumMatch /\ 0 + 1 = 1
    BY <1>3
  <2>2. y[0] = {} /\ x[0] = {} /\ x[0 + 1] = Xor(x[0], HashIndex[b[0 + 1]])
    BY <1>1, <1>2, <2>1 DEF TagsOf
  <2>3. x[1] = Xor({}, o)
    BY <1>4, <2>1, <2>2
  <2>4. Xor(Xor({}, o), o) = {}
    BY DEF Xor
  <2> QED
    BY <2>1, <2>2, <2>3, <2>4
<1>7. ASSUME NEW k \in S, k < MinimumMatch
      PROVE  k + 1 \in S
  <2>1. k + 1 \in 0 .. MinimumMatch /\ k \in Nat /\ k \in 0 .. MinimumMatch
    BY <1>3, <1>7
  <2>2. SUFFICES ASSUME k + 1 < MinimumMatch
                 PROVE  y[k + 1] = Xor(x[k + 1 + 1], o)
    BY <2>1
  <2>3. k + 1 \in 1 .. MinimumMatch
    BY <1>3, <2>1
  <2>4. y[k + 1] = Xor(y[k], HashIndex[c[k + 1]])
    BY <1>2, <1>7, <2>1 DEF TagsOf
  <2>5. x[k + 1 + 1] = Xor(x[k + 1], HashIndex[b[k + 1 + 1]])
    BY <1>1, <2>1, <2>2 DEF TagsOf
  <2>6. b[k + 1 + 1] = c[k + 1]
    BY <2>2, <2>3
  <2>7. y[k] = Xor(x[k + 1], o)
    BY <1>7
  <2>8. PICK u, h : u = x[k + 1] /\ h = HashIndex[c[k + 1]]
    OBVIOUS
  <2>9. Xor(Xor(u, o), h) = Xor(Xor(u, h), o)
    BY Zenon DEF Xor
  <2> QED
    BY <2>4, <2>5, <2>6, <2>7, <2>8, <2>9
<1> HIDE DEF S
<1>8. S = 0 .. MinimumMatch
  BY <1>3, <1>6, <1>7, UpTo DEF S
<1>9. PICK m : m = MinimumMatch - 1
  OBVIOUS
<1>10. m \in 0 .. MinimumMatch /\ m < MinimumMatch /\ m + 1 = MinimumMatch
  BY <1>3, <1>9
<1>11. y[m] = Xor(x[MinimumMatch], o)
  BY <1>8, <1>10 DEF S
<1>12. y[MinimumMatch] = Xor(y[m], HashIndex[c[MinimumMatch]])
  BY <1>2, <1>10 DEF TagsOf
<1> QED
  BY <1>1, <1>2, <1>4, <1>11, <1>12
\* The bytes of the window at q.
Window(q) == [i \in 1 .. MinimumMatch |-> data[q + i]]

LEMMA WindowBytes ==
  ASSUME DataInv, NEW q \in 0 .. End
  PROVE  /\ \A k \in 1 .. MinimumMatch : Window(q)[k] = data[q + k] /\ data[q + k] \in Bytes
         /\ TagOf(q) = TagOfBytes(Window(q))
<1>1. /\ Chunk \in Nat /\ End = Chunk - MinimumMatch /\ MinimumMatch \in Nat
      /\ data \in Seq(Bytes) /\ Chunk = Len(data)
  BY Ends, SearchAssumption DEF DataInv, Chunk
<1>2. ASSUME NEW k \in 1 .. MinimumMatch
      PROVE  Window(q)[k] = data[q + k] /\ data[q + k] \in Bytes
  <2>1. q + k \in 1 .. Len(data)
    BY <1>1
  <2> QED
    BY <1>1, <2>1, ElementOfSeq DEF Window
<1> QED
  BY <1>2 DEF TagOf, Window

\* next_tag, full_tag and the tag the search begins with are tags of windows.
LEMMA TagMoves ==
  ASSUME DataInv, NEW q \in 1 .. End
  PROVE  TagOf(q) = Xor(Xor(TagOf(q - 1), HashIndex[data[q]]), HashIndex[data[q + MinimumMatch]])
<1>1. MinimumMatch \in Nat \ {0} /\ End \in Int
  BY Ends, SearchAssumption DEF DataInv
<1>2. PICK b, c : b = Window(q - 1) /\ c = Window(q)
  OBVIOUS
<1>3. q - 1 \in 0 .. End /\ q \in 0 .. End
  BY <1>1
<1>4. /\ \A k \in 1 .. MinimumMatch : b[k] = data[q - 1 + k] /\ data[q - 1 + k] \in Bytes
      /\ \A k \in 1 .. MinimumMatch : c[k] = data[q + k] /\ data[q + k] \in Bytes
      /\ TagOf(q - 1) = TagOfBytes(b) /\ TagOf(q) = TagOfBytes(c)
  BY <1>2, <1>3, WindowBytes
<1>5. 1 \in 1 .. MinimumMatch /\ MinimumMatch \in 1 .. MinimumMatch /\ q - 1 + 1 = q
  BY <1>1
<1>6. b[1] = data[q] /\ data[q] \in Bytes /\ c[MinimumMatch] = data[q + MinimumMatch]
  BY <1>4, <1>5
<1>7. ASSUME NEW k \in 1 .. MinimumMatch, k < MinimumMatch
      PROVE  b[k + 1] = c[k]
  <2>1. k + 1 \in 1 .. MinimumMatch /\ q - 1 + (k + 1) = q + k
    BY <1>1, <1>7
  <2> QED
    BY <1>4, <2>1
<1>8. TagOfBytes(c) = Xor(Xor(TagOfBytes(b), HashIndex[data[q]]), HashIndex[c[MinimumMatch]])
  BY <1>4, <1>6, <1>7, TagShift
<1> QED
  BY <1>4, <1>6, <1>8

LEMMA TagFull ==
  ASSUME DataInv, NEW q \in 0 .. End
  PROVE  TagOfBytes(SubSeq(data, q + 1, q + MinimumMatch)) = TagOf(q)
<1>1. /\ Chunk \in Nat /\ End = Chunk - MinimumMatch /\ MinimumMatch \in Nat
      /\ data \in Seq(Bytes) /\ Chunk = Len(data)
  BY Ends, SearchAssumption DEF DataInv, Chunk
<1>2. PICK b, c : b = Window(q) /\ c = SubSeq(data, q + 1, q + MinimumMatch)
  OBVIOUS
<1>3. \A k \in 1 .. MinimumMatch : b[k] = data[q + k] /\ b[k] \in Bytes
  BY <1>2, WindowBytes
<1>4. ASSUME NEW k \in 1 .. MinimumMatch
      PROVE  c[k] = data[q + k]
  BY <1>1, <1>2
<1>5. TagOfBytes(b) = TagOfBytes(c)
  BY <1>3, <1>4, TagSame
<1> QED
  BY <1>2, <1>5, WindowBytes

LEMMA TagFirst ==
  ASSUME DataInv, End >= 0
  PROVE  TagOfBytes(data) = TagOf(0)
<1>1. 0 \in 0 .. End
  BY Ends DEF DataInv
<1>2. \A k \in 1 .. MinimumMatch : Window(0)[k] = data[0 + k] /\ data[0 + k] \in Bytes
  BY <1>1, WindowBytes
<1>3. \A k \in 1 .. MinimumMatch : data[k] \in Bytes /\ Window(0)[k] = data[k]
  <2> SUFFICES ASSUME NEW k \in 1 .. MinimumMatch
               PROVE  data[k] \in Bytes /\ Window(0)[k] = data[k]
    OBVIOUS
  <2>1. 0 + k = k
    BY SearchAssumption
  <2> QED
    BY <1>2, <2>1
<1>4. TagOfBytes(data) = TagOfBytes(Window(0))
  BY <1>3, TagSame
<1> QED
  BY <1>1, <1>4, WindowBytes

LEMMA TagOfType ==
  ASSUME DataInv, NEW q \in 0 .. End
  PROVE  TagOf(q) \in SUBSET Bits
<1>1. \A k \in 1 .. MinimumMatch : Window(q)[k] \in Bytes
  BY WindowBytes
<1> QED
  BY <1>1, TagType, WindowBytes
-----------------------------------------------------------------------------
(* The table over one position of the search.                              *)

\* The count is exact and below the limit, the sweep is in order, what is not due
\* can be found.
TableOf(h, limit) ==
  /\ h \in Table /\ h.count = Cardinality(Occupied(h)) /\ h.count <= limit
  /\ SweptInv(h) /\ PathInv(h)

\* New entries have the better mask as soon as the sweep is under way.
MaskOf(h, k) == k \in h.min .. TagBits /\ (h.ptr > 0 => k >= IncreaseMask(h.min))

LEMMA OccupiedFinite ==
  ASSUME NEW h
  PROVE  /\ IsFiniteSet(Occupied(h)) /\ Cardinality(Occupied(h)) \in Nat
         /\ Cardinality(Occupied(h)) <= HashLimit => HasRoom(h)
<1>1. PICK n \in Nat \ {0} : n = 2^HashBits /\ Slots = 0 .. n - 1
  BY TableSize DEF Slots
<1>2. IsFiniteSet(Slots) /\ Cardinality(Slots) = n
  BY <1>1, FS_Interval
<1>3. Occupied(h) \in SUBSET Slots
  BY DEF Occupied
<1>4. IsFiniteSet(Occupied(h)) /\ Cardinality(Occupied(h)) \in Nat
  BY <1>2, <1>3, FS_Subset, FS_CardinalityType
<1>5. ASSUME Cardinality(Occupied(h)) <= HashLimit
      PROVE  HasRoom(h)
  <2>1. Cardinality(Occupied(h)) # n
    BY <1>1, <1>4, <1>5, TableSize
  <2>2. Occupied(h) # Slots
    BY <1>2, <2>1
  <2> QED
    BY <2>2 DEF Occupied, HasRoom
<1> QED
  BY <1>4, <1>5

LEMMA MaskGrows ==
  ASSUME NEW j \in Nat, NEW k \in Nat, j <= k, NEW x, Mask(k) \subseteq x
  PROVE  Mask(j) \subseteq x
BY DEF Mask

LEMMA InsertSound ==
  ASSUME NEW h, TableOf(h, HashLimit), NEW k, MaskOf(h, k),
         NEW x \in SUBSET Bits, Mask(k) \subseteq x, NEW o \in Nat \ {0}
  PROVE  LET g == InsertHash([h EXCEPT !.count = @ + 1], x, o)
         IN  /\ TableOf(g, HashLimit + 1) /\ g.min = h.min /\ g.ptr = h.ptr
             /\ \A s \in Slots : \/ g.slot[s] = [t |-> x, off |-> o]
                                 \/ \E s2 \in Slots : g.slot[s] = h.slot[s2]
<1>1. PICK f, g, e : f = [h EXCEPT !.count = @ + 1] /\ g = InsertHash(f, x, o)
                     /\ e = [t |-> x, off |-> o]
  OBVIOUS
<1>2. /\ f \in Table /\ f.slot = h.slot /\ f.min = h.min /\ f.ptr = h.ptr
      /\ f.count = h.count + 1 /\ h \in Table /\ h.count \in Int
  BY <1>1 DEF TableOf, Table
<1>3. HasRoom(f) /\ Occupied(f) = Occupied(h) /\ h.count = Cardinality(Occupied(h))
      /\ IsFiniteSet(Occupied(h)) /\ h.count <= HashLimit
  BY <1>2, OccupiedFinite DEF TableOf, HasRoom, Occupied
<1>4. PathInv(f)
  BY <1>2 DEF TableOf, PathInv, Reached, MinimumBitness
<1>5. PathInv(g)
  BY <1>1, <1>2, <1>3, <1>4, InsertKeepsPath
<1>6. /\ g \in Table /\ g.min = f.min /\ g.ptr = f.ptr
      /\ \A s \in Slots :
            \/ g.slot[s] = f.slot[s] \/ g.slot[s] = e
            \/ /\ ~MinimumBitness(f, g.slot[s].t)
               /\ \E s2 \in Slots : g.slot[s] = f.slot[s2] /\ f.slot[s2] # Empty
      /\ \E u \in Slots : /\ Occupied(g) = Occupied(f) \cup {u}
                          /\ g.count = f.count - (IF u \in Occupied(f) THEN 1 ELSE 0)
  <2>1. Inserted(g, f, e)
    BY <1>1, <1>2, <1>3, InsertCounts
  <2> QED
    BY <2>1 DEF Inserted
<1>7. g.count = Cardinality(Occupied(g)) /\ g.count <= HashLimit + 1
  <2>1. PICK u \in Slots : /\ Occupied(g) = Occupied(f) \cup {u}
                           /\ g.count = f.count - (IF u \in Occupied(f) THEN 1 ELSE 0)
    BY <1>6
  <2>2. Cardinality(Occupied(g)) = IF u \in Occupied(h) THEN h.count ELSE h.count + 1
    <3>1. PICK S : S = Occupied(h) /\ IsFiniteSet(S) /\ h.count = Cardinality(S)
                   /\ Occupied(g) = S \cup {u}
      BY <1>3, <2>1
    <3> QED
      BY <3>1, FS_AddElement
  <2> QED
    BY <1>2, <1>3, <2>1, <2>2, TableSize
<1>8. SweptInv(g)
  <2>1. PICK m \in 0 .. TagBits : m = IncreaseMask(h.min) /\ m >= h.min
    BY <1>2, IncreaseMaskType DEF Table
  <2>2. h.min \in Nat /\ k \in Nat /\ h.min <= k /\ m \in Nat /\ h.ptr \in Nat
    <3>1. h.min \in 0 .. TagBits /\ h.ptr \in Slots
      BY <1>2 DEF Table
    <3>2. h.ptr \in Nat /\ TagBits \in Nat
      BY <3>1, TableSize
    <3> QED
      BY <2>1, <3>1, <3>2 DEF MaskOf
  <2>3. ASSUME NEW s \in Slots, g.slot[s] # Empty
        PROVE  /\ Mask(h.min) \subseteq g.slot[s].t
               /\ s < h.ptr => Mask(m) \subseteq g.slot[s].t
    <3>1. CASE g.slot[s] = f.slot[s]
      BY <1>2, <2>1, <2>3, <3>1 DEF TableOf, SweptInv
    <3>2. CASE g.slot[s] = e
      <4>1. g.slot[s].t = x
        BY <1>1, <3>2
      <4>2. s < h.ptr => m <= k
        <5>1. s \in Nat
          BY TableSize
        <5> QED
          BY <2>1, <2>2, <5>1 DEF MaskOf
      <4> QED
        BY <2>2, <4>1, <4>2, MaskGrows
    <3>3. CASE ~MinimumBitness(f, g.slot[s].t)
      <4>1. Mask(m) \subseteq g.slot[s].t
        BY <1>2, <2>1, <3>3 DEF MinimumBitness
      <4> QED
        BY <2>1, <2>2, <4>1, MaskGrows
    <3> QED
      BY <1>6, <3>1, <3>2, <3>3
  <2> QED
    BY <1>2, <1>6, <2>1, <2>3 DEF SweptInv
<1>9. \A s \in Slots : g.slot[s] = e \/ \E s2 \in Slots : g.slot[s] = h.slot[s2]
  BY <1>2, <1>6
<1>10. TableOf(g, HashLimit + 1)
  BY <1>5, <1>6, <1>7, <1>8 DEF TableOf
<1> QED
  BY <1>1, <1>2, <1>6, <1>9, <1>10

LEMMA CleanSound ==
  ASSUME NEW h, TableOf(h, HashLimit + 1), Sweepable(h)
  PROVE  LET g == CleanOne(h)
         IN  /\ TableOf(g, HashLimit) /\ MaskOf(g, IncreaseMask(g.min))
             /\ \A s \in Slots : g.slot[s] = h.slot[s] \/ g.slot[s] = Empty
<1>1. PICK g : g = CleanOne(h)
  OBVIOUS
<1>2. h \in Table /\ SweptInv(h) /\ PathInv(h)
  BY DEF TableOf
<1>3. /\ g \in Table /\ g.min \in h.min .. TagBits /\ g.count = h.count - 1
      /\ SweptInv(g) /\ PathInv(g)
      /\ \A s \in Slots : g.slot[s] = h.slot[s] \/ g.slot[s] = Empty
      /\ \E u \in Occupied(h) : Occupied(g) = Occupied(h) \ {u}
  BY <1>1, <1>2, CleanKeeps
<1>4. g.count = Cardinality(Occupied(g)) /\ g.count <= HashLimit
  <2>1. PICK u \in Occupied(h) : Occupied(g) = Occupied(h) \ {u}
    BY <1>3
  <2>2. Cardinality(Occupied(g)) = Cardinality(Occupied(h)) - 1
    BY <2>1, OccupiedFinite, FS_RemoveElement
  <2>3. h.count = Cardinality(Occupied(h)) /\ h.count <= HashLimit + 1 /\ h.count \in Nat
    BY OccupiedFinite DEF TableOf
  <2> QED
    BY <1>3, <2>2, <2>3, TableSize
<1>5. MaskOf(g, IncreaseMask(g.min))
  <2>1. g.min \in 0 .. TagBits
    BY <1>3 DEF Table
  <2>2. IncreaseMask(g.min) \in g.min .. TagBits
    BY <2>1, IncreaseMaskType
  <2> QED
    BY <2>1, <2>2, TableSize DEF MaskOf
<1>6. TableOf(g, HashLimit)
  BY <1>3, <1>4 DEF TableOf
<1> QED
  BY <1>1, <1>3, <1>5, <1>6
\* Every entry holds the tag of the window at its offset.
Tagged(e) == e # Empty => e.off \in 1 .. End /\ e.t = TagOf(e.off)

TableInv ==
  /\ TableOf(ht, HashLimit) /\ MaskOf(ht, tagMask)
  /\ \A s \in Slots : Tagged(ht.slot[s])
  /\ t \in SUBSET Bits
  /\ pc = "search" /\ End > 0 => t = TagOf(p)

LEMMA EntryOffsets ==
  ASSUME TableInv
  PROVE  \A s \in Slots : ht.slot[s].off \in Nat
BY DEF TableInv, TableOf, Table, Entry

\* TagOf and the chunk stay as they are.
LEMMA SameWindows ==
  ASSUME data' = data
  PROVE  /\ Chunk' = Chunk /\ End' = End
         /\ \A q : TagOf(q)' = TagOf(q)
         /\ \A e : Tagged(e)' <=> Tagged(e)
BY DEF Chunk, End, TagOf, TagOfBytes, Tagged

LEMMA InitTable ==
  ASSUME Init, DataInv
  PROVE  TableInv
<1>1. PICK v \in 0 .. MaxChainLen - 1 : ht = EmptyTable(v)
  BY DEF Init
<1>2. /\ ht.slot = [s \in Slots |-> Empty] /\ ht.count = 0 /\ ht.min = InitialFreq
      /\ ht.ptr = 0 /\ ht.victim = v
  BY <1>1 DEF EmptyTable
<1>3. \A s \in Slots : ht.slot[s] = Empty
  BY <1>2
<1>4. Occupied(ht) = {}
  BY <1>3 DEF Occupied
<1>5. ht \in Table
  <2>1. [s \in Slots |-> Empty] \in [Slots -> Entry]
    BY DEF Empty, Entry
  <2>2. InitialFreq \in 0 .. TagBits /\ 0 \in Slots
    BY TableAssumption, TableSize DEF Slots
  <2> QED
    BY <1>1, <2>1, <2>2 DEF EmptyTable, Table
<1>6. TableOf(ht, HashLimit)
  BY <1>2, <1>3, <1>4, <1>5, FS_EmptySet, TableSize DEF TableOf, SweptInv, PathInv
<1>7. MaskOf(ht, tagMask)
  BY <1>2, TableAssumption DEF MaskOf, Init
<1>8. t \in SUBSET Bits /\ (End > 0 => t = TagOf(p))
  <2>1. CASE End > 0
    <3>1. End \in Int
      BY Ends DEF DataInv
    <3>2. t = TagOf(0) /\ p = 0
      BY <2>1, <3>1, TagFirst DEF Init
    <3>3. 0 \in 0 .. End
      BY <2>1, <3>1
    <3> QED
      BY <3>2, <3>3, TagOfType
  <2>2. CASE ~(End > 0)
    BY <2>2 DEF Init
  <2> QED
    BY <2>1, <2>2
<1> QED
  BY <1>3, <1>6, <1>7, <1>8 DEF TableInv, Tagged

\* The next tag is the tag of the next window.
LEMMA NextWindow ==
  ASSUME DataInv, PlaceInv, TableInv, pc = "search", p < End
  PROVE  /\ NextTag(RemapLow(sb, Chunk, p + 1), p + 1) = [sb |-> sb, t |-> TagOf(p + 1)]
         /\ p + 1 \in 1 .. End /\ TagOf(p + 1) \in SUBSET Bits
         /\ TagOf(p + 1) = Xor(Xor(t, HashIndex[data[p + 1]]), HashIndex[data[p + 1 + MinimumMatch]])
<1>1. p \in Nat /\ End \in Int
  BY Ends DEF DataInv, PlaceInv
<1>2. p + 1 \in 1 .. End /\ p + 1 \in 0 .. End /\ p + 1 - 1 = p /\ End > 0
  BY <1>1
<1>3. t = TagOf(p)
  BY <1>2 DEF TableInv
<1>4. TagOf(p + 1) = Xor(Xor(t, HashIndex[data[p + 1]]), HashIndex[data[p + 1 + MinimumMatch]])
  <2>0. PICK q : q = p + 1
    OBVIOUS
  <2>1. q = p + 1 /\ q \in 1 .. End /\ q - 1 = p
    BY <1>1, <1>2, <2>0
  <2>2. TagOf(q) = Xor(Xor(TagOf(p), HashIndex[data[q]]), HashIndex[data[q + MinimumMatch]])
    BY <2>1, TagMoves
  <2> QED
    BY <1>3, <2>1, <2>2
<1> QED
  BY <1>2, <1>4, NextTagIs, TagOfType

LEMMA SkipTable ==
  ASSUME DataInv, PlaceInv, TableInv, SkipPosition
  PROVE  TableInv'
<1>1. t' = TagOf(p + 1) /\ TagOf(p + 1) \in SUBSET Bits /\ p' = p + 1
  BY NextWindow DEF SkipPosition
<1>2. UNCHANGED <<data, ht, tagMask>>
  BY DEF SkipPosition
<1> QED
  BY <1>1, <1>2, SameWindows DEF TableInv

\* The table after the insertion and the cleaning of one position.
LEMMA TableStep ==
  ASSUME DataInv, PlaceInv, TableInv, SearchPosition
  PROVE  /\ TableOf(ht', HashLimit) /\ MaskOf(ht', tagMask')
         /\ \A s \in Slots : Tagged(ht'.slot[s])
<1>1. PICK x, q : x = TagOf(q) /\ q = p + 1
  OBVIOUS
<1>2. NextTag(RemapLow(sb, Chunk, q), q) = [sb |-> sb, t |-> x] /\ q \in 1 .. End /\ x \in SUBSET Bits
  BY <1>1, NextWindow DEF SearchPosition
<1>3. PICK h : h = InsertTag(x, q)
  OBVIOUS
<1>4. IF Overfull(h, x)
      THEN Sweepable(h) /\ ht' = CleanOne(h) /\ tagMask' = IncreaseMask(CleanOne(h).min)
      ELSE ht' = h /\ tagMask' = tagMask
  BY <1>1, <1>2, <1>3 DEF SearchPosition
<1>5. CASE ~(Mask(tagMask) \subseteq x)
  BY <1>3, <1>4, <1>5 DEF InsertTag, Overfull, TableInv
<1>6. CASE Mask(tagMask) \subseteq x
  <2>1. h = InsertHash([ht EXCEPT !.count = @ + 1], x, q)
    BY <1>3, <1>6 DEF InsertTag
  <2>2. q \in Nat \ {0}
    BY <1>2, Ends DEF DataInv
  <2>3. /\ TableOf(h, HashLimit + 1) /\ h.min = ht.min /\ h.ptr = ht.ptr
        /\ \A s \in Slots : \/ h.slot[s] = [t |-> x, off |-> q]
                            \/ \E s2 \in Slots : h.slot[s] = ht.slot[s2]
    <3>1. TableOf(ht, HashLimit) /\ MaskOf(ht, tagMask)
      BY DEF TableInv
    <3> QED
      BY <1>2, <1>6, <2>1, <2>2, <3>1, InsertSound
  <2>4. \A s \in Slots : Tagged(h.slot[s])
    <3>1. Tagged([t |-> x, off |-> q])
      BY <1>1, <1>2 DEF Tagged
    <3> QED
      BY <2>3, <3>1 DEF TableInv
  <2>5. CASE Overfull(h, x)
    <3>1. PICK g : g = CleanOne(h)
      OBVIOUS
    <3>2. /\ TableOf(g, HashLimit) /\ MaskOf(g, IncreaseMask(g.min))
          /\ \A s \in Slots : g.slot[s] = h.slot[s] \/ g.slot[s] = Empty
      BY <1>4, <2>3, <2>5, <3>1, CleanSound
    <3>3. Tagged(Empty)
      BY DEF Tagged
    <3>4. \A s \in Slots : Tagged(g.slot[s])
      BY <2>4, <3>2, <3>3
    <3> QED
      BY <1>4, <2>5, <3>1, <3>2, <3>4
  <2>6. CASE ~Overfull(h, x)
    <3>1. h.count <= HashLimit
      BY <1>6, <2>3, <2>6, TableSize DEF Overfull, TableOf, Table
    <3>2. TableOf(h, HashLimit) /\ MaskOf(h, tagMask)
      BY <2>3, <3>1 DEF TableOf, MaskOf, TableInv
    <3> QED
      BY <1>4, <2>4, <2>6, <3>2
  <2> QED
    BY <2>5, <2>6
<1> QED
  BY <1>5, <1>6

LEMMA SearchTable ==
  ASSUME DataInv, PlaceInv, TableInv, SearchPosition
  PROVE  TableInv'
<1>1. TableOf(ht', HashLimit) /\ MaskOf(ht', tagMask') /\ \A s \in Slots : Tagged(ht'.slot[s])
  BY TableStep
<1>2. data' = data /\ pc = "search" /\ p < End /\ pc' = "search"
  BY DEF SearchPosition
<1>3. t' \in SUBSET Bits /\ t' = TagOf(p')
  <2>1. PICK c \in [p : lastMatch .. p + 1, len : Nat, ofs : Nat] :
           /\ c.len # 0 => Copy(c.p, c.ofs, c.len)
           /\ \/ Ripe(c, p + 1) /\ WriteMatch(c, sb)
              \/ /\ p' = p + 1 /\ sb' = sb /\ current' = c
                 /\ t' = Xor(Xor(t, HashIndex[data[p + 1]]), HashIndex[data[p + 1 + MinimumMatch]])
                 /\ UNCHANGED <<s0, s1, lastMatch>>
    BY EntryOffsets, SearchMoves
  <2>2. CASE Ripe(c, p + 1) /\ WriteMatch(c, sb)
    <3>1. PICK q : q = c.p + c.len
      OBVIOUS
    <3>2. /\ p' = q /\ q \in 1 .. End
          /\ t' = TagOfBytes(SubSeq(data, q + 1, q + MinimumMatch))
      BY <2>1, <2>2, <3>1, MatchWritten
    <3>3. q \in 0 .. End
      BY <3>2
    <3> QED
      BY <3>2, <3>3, TagFull, TagOfType
  <2>3. CASE /\ p' = p + 1
             /\ t' = Xor(Xor(t, HashIndex[data[p + 1]]), HashIndex[data[p + 1 + MinimumMatch]])
    BY <1>2, <2>3, NextWindow
  <2> QED
    BY <2>1, <2>2, <2>3
<1> QED
  BY <1>1, <1>2, <1>3, SameWindows DEF TableInv

\* What the other steps leave alone.
LEMMA TableStays ==
  ASSUME TableInv, UNCHANGED <<data, ht, tagMask, p, t>>, pc' = "search" => pc = "search"
  PROVE  TableInv'
BY SameWindows DEF TableInv
-----------------------------------------------------------------------------
(* The specification.                                                      *)

SearchInv == DataInv /\ PlaceInv /\ StreamInv /\ TableInv

LEMMA InitInv ==
  ASSUME Whole, Init
  PROVE  SearchInv
BY InitStreams, InitTable DEF SearchInv

LEMMA NextInv ==
  ASSUME SearchInv, [Next]_vars
  PROVE  SearchInv'
<1> USE DEF SearchInv
<1>1. CASE SkipPosition
  BY <1>1, SkipStreams, SkipTable
<1>2. CASE SearchPosition
  BY <1>2, EntryOffsets, SearchStreams, SearchTable
<1>3. CASE FinishSearch
  <2>1. TableInv'
    BY <1>3, TableStays DEF FinishSearch
  <2> QED
    BY <1>3, <2>1, FinishStreams
<1>4. CASE UnzipEnd
  <2>1. TableInv'
    BY <1>4, TableStays DEF UnzipEnd, searchVars
  <2> QED
    BY <1>4, <2>1, EndStreams
<1>5. CASE UnzipLiteral
  <2>1. TableInv'
    BY <1>5, TableStays DEF UnzipLiteral, searchVars
  <2> QED
    BY <1>5, <2>1, LiteralStreams
<1>6. CASE UnzipMatch
  <2>1. TableInv'
    BY <1>6, TableStays DEF UnzipMatch, searchVars
  <2> QED
    BY <1>6, <2>1, MatchStreams
<1>7. CASE UNCHANGED vars
  <2>1. TableInv'
    BY <1>7, TableStays DEF vars
  <2>2. DataInv' /\ PlaceInv' /\ StreamInv'
    BY <1>7 DEF vars, DataInv, PlaceInv, StreamInv, Copy, Sliding, End, Chunk
  <2> QED
    BY <2>1, <2>2
<1>8. CASE Finished
  BY <1>7, <1>8 DEF Finished
<1> QED
  BY <1>1, <1>2, <1>3, <1>4, <1>5, <1>6, <1>7, <1>8 DEF Next
LEMMA InvTypes ==
  ASSUME SearchInv
  PROVE  TypeOK
<1>1. Chunk \in Nat /\ End \in Int /\ End < Chunk /\ data \in Seq(Bytes) /\ Chunk = Len(data)
  BY Ends DEF SearchInv, DataInv, Chunk
<1>2. out \in Seq(Bytes) /\ s1 \in Seq(Bytes)
  <2>1. pc \in {"search", "unzip", "done"}
    BY DEF SearchInv, StreamInv
  <2>2. CASE pc = "search"
    BY <2>2 DEF SearchInv, StreamInv, Describes
  <2>3. CASE pc = "unzip"
    <3>1. s1 \in Seq(Bytes) /\ Len(out) <= Len(data) /\ out = SubSeq(data, 1, Len(out))
      BY <1>1, <2>3 DEF SearchInv, StreamInv, Describes
    <3>2. PICK n : n = Len(out)
      OBVIOUS
    <3>3. ASSUME NEW i \in 1 .. n
          PROVE  i \in 1 .. Len(data)
      BY <1>1, <3>1, <3>2
    <3> QED
      BY <1>1, <3>1, <3>2, <3>3, SubSeqProperties
  <2>4. CASE pc = "done"
    BY <1>1, <2>4 DEF SearchInv, StreamInv
  <2> QED
    BY <2>1, <2>2, <2>3, <2>4
<1>3. stray \in Bytes /\ sb.low \in 0 .. Chunk /\ sb.high \in 0 .. Chunk
  BY <1>1 DEF SearchInv, DataInv
<1>4. /\ ht \in Table /\ tagMask \in ht.min .. TagBits /\ t \subseteq Bits
      /\ \A s \in Slots : Tagged(ht.slot[s])
  BY DEF SearchInv, TableInv, TableOf, MaskOf
<1>5. ht.slot \in [Slots -> [t : SUBSET Bits, off : 0 .. Chunk]]
  <2>1. ht.slot \in [Slots -> Entry]
    BY <1>4 DEF Table
  <2>2. ASSUME NEW s \in Slots
        PROVE  ht.slot[s] \in [t : SUBSET Bits, off : 0 .. Chunk]
    <3>1. ht.slot[s] \in [t : SUBSET Bits, off : Nat]
      BY <2>1 DEF Entry
    <3>2. ht.slot[s].off \in 0 .. Chunk
      BY <1>1, <1>4 DEF Tagged, Empty
    <3> QED
      BY <3>1, <3>2
  <2> QED
    BY <2>1, <2>2
<1>6. ht.min \in 0 .. TagBits /\ ht.ptr \in Slots /\ ht.victim \in 0 .. MaxChainLen - 1
  BY <1>4 DEF Table
<1>7. /\ p \in 0 .. Chunk /\ lastMatch \in 0 .. p
      /\ current.p \in lastMatch .. Chunk /\ current.p + current.len <= Chunk
  <2>1. /\ p \in 0 .. Chunk /\ lastMatch \in 0 .. p
        /\ current.p \in lastMatch .. p /\ current.len \in Nat
        /\ current.len # 0 => current.p + current.len <= End
    BY DEF SearchInv, PlaceInv, Copy
  <2> QED
    BY <1>1, <2>1
<1>8. pc \in {"search", "unzip", "done", "failed"}
  BY DEF SearchInv, StreamInv
<1> QED
  BY <1>1, <1>2, <1>3, <1>4, <1>5, <1>6, <1>7, <1>8 DEF TypeOK

\* hash_search keeps the tag table consistent: the type invariant, the exact count
\* below the limit, the sweep in order, every entry under the tag of its window.
LEMMA InvTable ==
  ASSUME SearchInv
  PROVE  TableSound
<1>1. CountExact /\ Swept /\ RollingTag
  BY DEF SearchInv, TableInv, TableOf, CountExact, Swept, SweptInv, RollingTag, Tagged, Occupied
<1> QED
  BY <1>1, InvTypes DEF TableSound

LEMMA InvRound ==
  ASSUME SearchInv
  PROVE  RoundTrip
<1>1. /\ data \in Seq(Bytes) /\ SubSeq(data, 1, Len(data)) = data
      /\ SubSeq(data, 1, 0) = <<>> /\ Len(<<>>) = 0
  BY SubSeqFull, SubSeqEmpty, EmptySeq DEF SearchInv, DataInv
<1> QED
  BY <1>1 DEF SearchInv, StreamInv, RoundTrip

LEMMA InvFind ==
  ASSUME SearchInv
  PROVE  Findable
<1> SUFFICES ASSUME NEW s \in Occupied(ht), NEW e, e = ht.slot[s],
                    NEW d, d = (CHOOSE i \in Slots : Probe(e.t, i) = s),
                    ~MinimumBitness(ht, e.t), e.t # Bits, NEW i \in 0 .. d
             PROVE  ht.slot[Probe(e.t, i)] # Empty
  BY DEF Findable
<1>1. s \in Slots /\ ht.slot[s] # Empty
  BY DEF Occupied
<1>2. d \in Slots /\ Probe(e.t, d) = s
  BY <1>1, ProbeReaches
<1>3. Reached(ht, s, d)
  BY <1>1, <1>2 DEF SearchInv, TableInv, TableOf, PathInv
<1> QED
  BY <1>3 DEF Reached

\* The inductive invariant of hash_search and runzip_chunk.
LEMMA Invariance == Whole => (Spec => []SearchInv)
<1> SUFFICES ASSUME Whole
             PROVE  Spec => []SearchInv
  OBVIOUS
<1>1. Init => SearchInv
  BY InitInv
<1>2. SearchInv /\ [Next]_vars => SearchInv'
  BY NextInv
<1> QED
  BY <1>1, <1>2, PTL DEF Spec

\* What runzip_chunk makes of the tokens and literals of hash_search is the
\* chunk, for every chunk that is mapped whole, every hash_index, every size of
\* the table and every limit of a level: no token is refused, the output is a
\* prefix of the chunk at every token, and the whole chunk at the end of stream
\* marker.
THEOREM SearchRoundTrips == Whole => (Spec => []RoundTrip)
BY Invariance, InvRound, PTL

\* hash_count is the number of occupied slots and stays under the limit, the sweep
\* of clean_one_from_hash leaves nothing behind that its mask forbids, and every
\* entry, like the tag rolled along with p, is the tag of its window.
THEOREM TableStaysSound == Whole => (Spec => []TableSound)
BY Invariance, InvTable, PTL

\* An entry that is not due for cleaning can be found from its primary slot,
\* whatever insert_hash has replaced and moved and clean_one_from_hash has
\* cleared since.
THEOREM EntriesFindable == Whole => (Spec => []Findable)
BY Invariance, InvFind, PTL
=============================================================================
