------------------------- MODULE WorkflowStreamLemmas -------------------------
(***************************************************************************)
(* What the operators WorkflowStream builds its sequences with return: for  *)
(* any sequences, Joined lays them out one after the other and Without      *)
(* keeps what it should, once each.  And what the methods of ManagedRun do  *)
(* with the outstanding activation of any run.                              *)
(***************************************************************************)
EXTENDS WorkflowStream, Integers, WellFoundedInduction, TLAPS

IsSeq(q) == \E S : q \in Seq(S)

\* No value occurs twice.
Distinct(q) == \A i, j \in DOMAIN q : q[i] = q[j] => i = j

-----------------------------------------------------------------------------
(* Induction over the natural numbers, for a set instead of a predicate *)

\* Every set of natural numbers has a least member.
LEMMA Least ==
    ASSUME NEW T \in SUBSET Nat, T # {}
    PROVE  \E x \in T : \A y \in T : ~(y < x)
<1> DEFINE R == OpToRel(<, Nat)
<1>1. IsWellFoundedOn(R, Nat)
    BY NatLessThanWellFounded, Zenon
<1>2. \A x, y \in Nat : y < x => <<y, x>> \in R
    BY DEF OpToRel
<1> HIDE DEF R
<1>3. \E x \in T : \A y \in T : ~(<<y, x>> \in R)
    BY <1>1, WFMin, Zenon
<1> QED
    BY <1>2, <1>3, Zenon

\* A set that has 0 and is closed under successor has every natural number.
LEMMA SetInduction ==
    ASSUME NEW S, 0 \in S, \A n \in Nat : n \in S => n + 1 \in S
    PROVE  Nat \subseteq S
<1> DEFINE T == Nat \ S
<1> SUFFICES ASSUME T # {} PROVE FALSE
    OBVIOUS
<1>1. PICK x \in T : \A y \in T : ~(y < x)
    BY Least, Zenon
<1>2. x # 0 /\ x - 1 \in Nat /\ x - 1 < x
    BY <1>1
<1>3. x - 1 \in S
    BY <1>1, <1>2
<1>4. (x - 1) + 1 \in S
    BY <1>2, <1>3
<1> QED
    BY <1>1, <1>4

-----------------------------------------------------------------------------
(* Sequences *)

\* The empty sequence, and a sequence of one value.
LEMMA SmallSeqs ==
    ASSUME NEW a
    PROVE  IsSeq(<<>>) /\ IsSeq(<<a>>)
<1>1. <<>> \in Seq({a}) /\ <<a>> \in Seq({a})
    OBVIOUS
<1> QED
    BY <1>1, Zenon DEF IsSeq

\* What a sequence is.
LEMMA SeqFacts ==
    ASSUME NEW q, IsSeq(q)
    PROVE  Len(q) \in Nat /\ DOMAIN q = 1 .. Len(q)
BY DEF IsSeq

\* A function on 1 .. n is a sequence.
LEMMA FunctionSeq ==
    ASSUME NEW n \in Nat, NEW q, q = [i \in 1 .. n |-> q[i]]
    PROVE  IsSeq(q) /\ Len(q) = n
<1> DEFINE S == {q[i] : i \in 1 .. n}
<1>1. \A i \in 1 .. n : q[i] \in S
    OBVIOUS
<1> HIDE DEF S
<1>2. q \in [1 .. n -> S]
    BY <1>1
<1>3. q \in Seq(S)
    BY <1>2
<1>4. DOMAIN q = 1 .. n /\ DOMAIN q = 1 .. Len(q) /\ Len(q) \in Nat
    BY <1>2, <1>3
<1>5. Len(q) = n
    BY <1>4
<1> QED
    BY <1>3, <1>5 DEF IsSeq

\* One sequence after the other.
LEMMA ConcatFacts ==
    ASSUME NEW p, IsSeq(p), NEW q, IsSeq(q)
    PROVE  /\ IsSeq(p \o q) /\ Len(p \o q) = Len(p) + Len(q)
           /\ \A i \in 1 .. Len(p) : (p \o q)[i] = p[i]
           /\ \A i \in 1 .. Len(q) : (p \o q)[Len(p) + i] = q[i]
<1>1. PICK S : p \in Seq(S)
    BY DEF IsSeq
<1>2. PICK T : q \in Seq(T)
    BY DEF IsSeq
<1>3. p \in Seq(S \cup T) /\ q \in Seq(S \cup T)
    BY <1>1, <1>2
<1>4. p \o q \in Seq(S \cup T)
    BY <1>3
<1> QED
    BY <1>3, <1>4 DEF IsSeq

\* A value added at the end.
LEMMA AppendFacts ==
    ASSUME NEW p, IsSeq(p), NEW a
    PROVE  /\ IsSeq(Append(p, a)) /\ Len(Append(p, a)) = Len(p) + 1
           /\ \A i \in 1 .. Len(p) : Append(p, a)[i] = p[i]
           /\ Append(p, a)[Len(p) + 1] = a
<1>1. PICK S : p \in Seq(S)
    BY DEF IsSeq
<1>2. p \in Seq(S \cup {a}) /\ Append(p, a) \in Seq(S \cup {a})
    BY <1>1
<1> QED
    BY <1>2 DEF IsSeq

\* A sequence without its first value.
LEMMA TailFacts ==
    ASSUME NEW p, IsSeq(p), p # <<>>
    PROVE  /\ IsSeq(Tail(p)) /\ Len(Tail(p)) = Len(p) - 1 /\ Len(p) > 0
           /\ Head(p) = p[1]
           /\ \A i \in 1 .. Len(p) - 1 : Tail(p)[i] = p[i + 1]
<1>1. PICK S : p \in Seq(S)
    BY DEF IsSeq
<1>2. Tail(p) \in Seq(S)
    BY <1>1
<1> QED
    BY <1>1, <1>2 DEF IsSeq

-----------------------------------------------------------------------------
(* Joined *)

\* g gives the first i sequences of qs one after the other, for every i up to k.
Upto(qs, k, g) == g = [i \in 0 .. k |-> IF i = 0 THEN <<>> ELSE g[i - 1] \o qs[i]]

\* Such a function exists for every k.
LEMMA UptoExists ==
    ASSUME NEW qs
    PROVE  \A k \in Nat : \E g : Upto(qs, k, g)
<1> DEFINE S == {k \in Nat : \E g : Upto(qs, k, g)}
<1>1. 0 \in S
    <2> DEFINE g == [i \in 0 .. 0 |-> <<>>]
    <2>1. Upto(qs, 0, g)
        BY DEF Upto
    <2> HIDE DEF g
    <2> QED
        BY <2>1
<1>2. ASSUME NEW k \in Nat, k \in S
      PROVE  k + 1 \in S
    <2>1. PICK g : Upto(qs, k, g)
        BY <1>2, SMTT(30)
    <2> DEFINE h == [i \in 0 .. k + 1 |-> IF i = k + 1 THEN g[k] \o qs[k + 1] ELSE g[i]]
               f == [i \in 0 .. k + 1 |-> IF i = 0 THEN <<>> ELSE h[i - 1] \o qs[i]]
    <2>2. g[0] = <<>> /\ \A i \in 1 .. k : g[i] = g[i - 1] \o qs[i]
        BY <2>1 DEF Upto
    <2>3. ASSUME NEW i \in 0 .. k + 1
          PROVE  h[i] = f[i]
        <3>1. CASE i = 0
            BY <2>2, <3>1
        <3>2. CASE i \in 1 .. k
            <4>1. h[i] = g[i] /\ h[i - 1] = g[i - 1]
                BY <3>2
            <4> QED
                BY <2>2, <3>2, <4>1
        <3>3. CASE i = k + 1
            <4>1. h[k + 1] = g[k] \o qs[k + 1] /\ h[k] = g[k]
                BY <1>2
            <4>2. k + 1 \in 0 .. k + 1 /\ k + 1 # 0 /\ (k + 1) - 1 = k
                BY <1>2
            <4>3. f[k + 1] = h[(k + 1) - 1] \o qs[k + 1]
                BY <4>2, Zenon
            <4> QED
                BY <3>3, <4>1, <4>2, <4>3, ZenonT(30)
        <3> QED
            BY <3>1, <3>2, <3>3
    <2>4. h = f
        BY <2>3, Zenon
    <2>5. Upto(qs, k + 1, h)
        BY <2>4, Zenon DEF Upto
    <2> HIDE DEF h
    <2> QED
        BY <2>5
<1> HIDE DEF S
<1>3. Nat \subseteq S
    BY <1>1, <1>2, SetInduction
<1> QED
    BY <1>3 DEF S

\* Joined is the value of one at the end.
LEMMA JoinedUpto ==
    ASSUME NEW qs, Len(qs) \in Nat
    PROVE  \E g : Upto(qs, Len(qs), g) /\ Joined(qs) = g[Len(qs)]
<1>1. \E g : Upto(qs, Len(qs), g)
    BY UptoExists
<1> DEFINE f == CHOOSE g : Upto(qs, Len(qs), g)
<1>2. Upto(qs, Len(qs), f)
    BY <1>1
<1>3. Joined(qs) = f[Len(qs)]
    BY DEF Joined, Upto
<1> QED
    BY <1>2, <1>3, Zenon

\* C has the values of the first k sequences of qs, each from its own place: the
\* value at j comes from the column col[j] of row row[j].
LaidBy(qs, k, C, row, col) ==
    /\ \A j \in DOMAIN C : /\ row[j] \in 1 .. k /\ col[j] \in DOMAIN qs[row[j]]
                           /\ C[j] = qs[row[j]][col[j]]
    /\ \A i \in 1 .. k : \A l \in DOMAIN qs[i] : \E j \in DOMAIN C : row[j] = i /\ col[j] = l
    /\ \A j, m \in DOMAIN C : row[j] = row[m] /\ col[j] = col[m] => j = m
Laid(qs, k, C) == IsSeq(C) /\ \E row, col : LaidBy(qs, k, C, row, col)

\* One more sequence.
LEMMA LaidNext ==
    ASSUME NEW qs, NEW k \in Nat, IsSeq(qs[k + 1]), NEW C, Laid(qs, k, C)
    PROVE  Laid(qs, k + 1, C \o qs[k + 1])
<1> DEFINE q == qs[k + 1]
           D == C \o q
           n == Len(C)
<1>0. PICK row, col : LaidBy(qs, k, C, row, col)
    BY DEF Laid
<1>1. /\ \A j \in DOMAIN C : /\ row[j] \in 1 .. k /\ col[j] \in DOMAIN qs[row[j]]
                             /\ C[j] = qs[row[j]][col[j]]
      /\ \A i \in 1 .. k : \A l \in DOMAIN qs[i] : \E j \in DOMAIN C : row[j] = i /\ col[j] = l
      /\ \A j, m \in DOMAIN C : row[j] = row[m] /\ col[j] = col[m] => j = m
    BY <1>0 DEF LaidBy
<1>2. IsSeq(C) /\ n \in Nat /\ DOMAIN C = 1 .. n /\ Len(q) \in Nat /\ DOMAIN q = 1 .. Len(q)
    BY SeqFacts DEF Laid
<1>3. /\ IsSeq(D) /\ DOMAIN D = 1 .. n + Len(q)
      /\ \A j \in 1 .. n : D[j] = C[j]
      /\ \A j \in 1 .. Len(q) : D[n + j] = q[j]
    <2>1. IsSeq(q)
        OBVIOUS
    <2> HIDE DEF q
    <2>2. /\ IsSeq(D) /\ Len(D) = n + Len(q)
          /\ \A j \in 1 .. n : D[j] = C[j]
          /\ \A j \in 1 .. Len(q) : D[n + j] = q[j]
        BY <1>2, <2>1, ConcatFacts
    <2>3. DOMAIN D = 1 .. Len(D)
        BY <2>2, SeqFacts
    <2> QED
        BY <2>2, <2>3
<1> DEFINE R == [j \in 1 .. n + Len(q) |-> IF j <= n THEN row[j] ELSE k + 1]
           K == [j \in 1 .. n + Len(q) |-> IF j <= n THEN col[j] ELSE j - n]
<1>4. /\ \A j \in 1 .. n : R[j] = row[j] /\ K[j] = col[j]
      /\ \A j \in 1 .. Len(q) : R[n + j] = k + 1 /\ K[n + j] = j
    BY <1>2
<1>5. \A j \in 1 .. n + Len(q) : j \in 1 .. n \/ \E l \in 1 .. Len(q) : j = n + l
    <2> TAKE j \in 1 .. n + Len(q)
    <2>1. CASE j > n
        <3>1. j - n \in 1 .. Len(q) /\ j = n + (j - n)
            BY <1>2, <2>1
        <3> QED
            BY <3>1, SMTT(30)
    <2> QED
        BY <1>2, <2>1
<1> HIDE DEF R, K, D, q, n
<1>6. \A j \in DOMAIN D : /\ R[j] \in 1 .. k + 1 /\ K[j] \in DOMAIN qs[R[j]]
                          /\ D[j] = qs[R[j]][K[j]]
    <2> TAKE j \in DOMAIN D
    <2>1. CASE j \in 1 .. n
        <3>1. R[j] = row[j] /\ K[j] = col[j] /\ D[j] = C[j] /\ j \in DOMAIN C
            BY <1>2, <1>3, <1>4, <2>1, SMTT(30)
        <3>2. row[j] \in 1 .. k /\ col[j] \in DOMAIN qs[row[j]] /\ C[j] = qs[row[j]][col[j]]
            BY <1>1, <3>1
        <3>3. row[j] \in 1 .. k + 1
            BY <3>2
        <3> QED
            BY <3>1, <3>2, <3>3, SMTT(30)
    <2>2. ASSUME NEW l \in 1 .. Len(q), j = n + l
          PROVE  R[j] \in 1 .. k + 1 /\ K[j] \in DOMAIN qs[R[j]] /\ D[j] = qs[R[j]][K[j]]
        BY <1>2, <1>3, <1>4, <2>2, SMTT(30) DEF q
    <2> QED
        BY <1>3, <1>5, <2>1, <2>2, SMTT(30)
<1>7. ASSUME NEW i \in 1 .. k + 1, NEW l \in DOMAIN qs[i]
      PROVE  \E j \in DOMAIN D : R[j] = i /\ K[j] = l
    <2>1. CASE i \in 1 .. k
        <3>1. PICK j \in DOMAIN C : row[j] = i /\ col[j] = l
            BY <1>1, <2>1
        <3>2. j \in DOMAIN D /\ R[j] = i /\ K[j] = l
            BY <1>2, <1>3, <1>4, <3>1
        <3> QED
            BY <3>2
    <2>2. CASE i = k + 1
        <3>1. l \in 1 .. Len(q)
            BY <1>2, <2>2 DEF q
        <3>2. n + l \in DOMAIN D /\ R[n + l] = i /\ K[n + l] = l
            BY <1>2, <1>3, <1>4, <2>2, <3>1
        <3> QED
            BY <3>2
    <2> QED
        BY <2>1, <2>2
<1>8. ASSUME NEW j \in DOMAIN D, NEW m \in DOMAIN D, R[j] = R[m], K[j] = K[m]
      PROVE  j = m
    <2>1. CASE j \in 1 .. n /\ m \in 1 .. n
        BY <1>1, <1>2, <1>4, <1>8, <2>1
    <2>2. ASSUME NEW l \in 1 .. Len(q), j = n + l \/ m = n + l
          PROVE  j = m
        <3>1. R[j] = k + 1 /\ R[m] = k + 1
            BY <1>4, <1>8, <2>2
        <3>2. \A i \in 1 .. n : R[i] # k + 1
            <4> TAKE i \in 1 .. n
            <4>1. R[i] = row[i] /\ row[i] \in 1 .. k
                BY <1>1, <1>2, <1>4, Zenon
            <4> QED
                BY <4>1
        <3>3. \A i \in DOMAIN D : R[i] = k + 1 => i = n + K[i]
            BY <1>3, <1>4, <1>5, <3>2, SMTT(30)
        <3> QED
            BY <1>8, <3>1, <3>3
    <2> QED
        BY <1>3, <1>5, <2>1, <2>2
<1>9. LaidBy(qs, k + 1, D, R, K)
    BY <1>6, <1>7, <1>8 DEF LaidBy
<1>10. Laid(qs, k + 1, D)
    BY <1>3, <1>9 DEF Laid
<1> QED
    BY <1>10 DEF D, q

\* Joined lays out all of its sequences.
LEMMA JoinedLaid ==
    ASSUME NEW qs, Len(qs) \in Nat, \A i \in 1 .. Len(qs) : IsSeq(qs[i])
    PROVE  Laid(qs, Len(qs), Joined(qs))
<1>1. PICK g : Upto(qs, Len(qs), g) /\ Joined(qs) = g[Len(qs)]
    BY JoinedUpto, SMTT(30)
<1> DEFINE n == Len(qs)
           S == {k \in Nat : k <= n => Laid(qs, k, g[k])}
<1>2. g[0] = <<>> /\ \A i \in 1 .. n : g[i] = g[i - 1] \o qs[i]
    BY <1>1 DEF Upto
<1>3. 0 \in S
    <2>1. LaidBy(qs, 0, <<>>, <<>>, <<>>)
        BY DEF LaidBy
    <2>2. Laid(qs, 0, <<>>)
        BY <2>1, SmallSeqs, Zenon DEF Laid
    <2> QED
        BY <1>2, <2>2
<1>4. ASSUME NEW k \in Nat, k \in S
      PROVE  k + 1 \in S
    <2> SUFFICES ASSUME k + 1 <= n PROVE Laid(qs, k + 1, g[k + 1])
        OBVIOUS
    <2>1. k + 1 \in 1 .. n /\ k <= n
        OBVIOUS
    <2>2. Laid(qs, k, g[k]) /\ IsSeq(qs[k + 1])
        BY <1>4, <2>1
    <2>3. g[k + 1] = g[(k + 1) - 1] \o qs[k + 1]
        BY <1>2, <2>1, Zenon
    <2>4. (k + 1) - 1 = k
        OBVIOUS
    <2> QED
        BY <2>2, <2>3, <2>4, LaidNext
<1> HIDE DEF S
<1>5. Nat \subseteq S
    BY <1>3, <1>4, SetInduction
<1>6. Laid(qs, n, g[n])
    BY <1>5 DEF S
<1> QED
    BY <1>1, <1>6

\* Without(q, S) keeps the values of q that are not in S, none of them twice if q
\* has none twice.
LEMMA WithoutFacts ==
    ASSUME NEW q, IsSeq(q), NEW S
    PROVE  /\ IsSeq(Without(q, S))
           /\ Range(Without(q, S)) = Range(q) \ S
           /\ Distinct(q) => Distinct(Without(q, S))
<1> DEFINE qs == [i \in DOMAIN q |-> IF q[i] \in S THEN <<>> ELSE <<q[i]>>]
           C == Without(q, S)
           n == Len(q)
<1>1. n \in Nat /\ DOMAIN q = 1 .. n
    BY SeqFacts
<1>2. Len(qs) = n
    BY <1>1, FunctionSeq
<1>3. \A i \in 1 .. n : IsSeq(qs[i])
    BY <1>1, SmallSeqs
<1>4. \A i \in 1 .. n : \A l \in DOMAIN qs[i] : l = 1 /\ q[i] \notin S /\ qs[i][l] = q[i]
    BY <1>1
<1>5. \A i \in 1 .. n : q[i] \notin S => 1 \in DOMAIN qs[i]
    BY <1>1
<1>6. C = Joined(qs)
    BY DEF Without
<1> HIDE DEF qs, C, n
<1>7. Laid(qs, n, C)
    BY <1>1, <1>2, <1>3, <1>6, JoinedLaid
<1>8. PICK row, col : LaidBy(qs, n, C, row, col)
    BY <1>7 DEF Laid
<1>9. \A j \in DOMAIN C : /\ row[j] \in 1 .. n /\ col[j] = 1
                          /\ C[j] = q[row[j]] /\ q[row[j]] \notin S
    BY <1>4, <1>8 DEF LaidBy
<1>10. \A i \in 1 .. n : q[i] \notin S => \E j \in DOMAIN C : row[j] = i
    BY <1>5, <1>8 DEF LaidBy
<1>11. \A j, m \in DOMAIN C : row[j] = row[m] => j = m
    BY <1>8, <1>9 DEF LaidBy
<1>12. Range(C) = Range(q) \ S
    BY <1>1, <1>9, <1>10 DEF Range
<1>13. ASSUME Distinct(q)
       PROVE  Distinct(C)
    BY <1>1, <1>9, <1>11, <1>13 DEF Distinct
<1>14. IsSeq(C)
    BY <1>7 DEF Laid
<1> QED
    BY <1>12, <1>13, <1>14 DEF C

-----------------------------------------------------------------------------
(* Activations of one run on their way: none, or one, in each place *)

ForRun(act, x) == act.run = x /\ act.a \in ForLang
NoneQueued(x, qs) == \A i \in DOMAIN qs : ~ForRun(qs[i], x)
OneQueued(x, qs, a) ==
    \E i \in DOMAIN qs : /\ ForRun(qs[i], x) /\ qs[i].a = a
                         /\ \A j \in DOMAIN qs : ForRun(qs[j], x) => j = i

CallFor(c, x) == c.run = x /\ ~c.auto
NoCall(x, cs) == \A i \in CallIds : ~CallFor(cs[i], x)
OneCall(x, cs) ==
    \E i \in CallIds : CallFor(cs[i], x) /\ \A j \in CallIds : CallFor(cs[j], x) => j = i

PostFor(msg, x) == msg.k = "post" /\ msg.run = x /\ ~msg.auto
NonePosted(x, loc) == \A i \in DOMAIN loc : ~PostFor(loc[i], x)
OnePosted(x, loc) ==
    \E i \in DOMAIN loc : PostFor(loc[i], x) /\ \A j \in DOMAIN loc : PostFor(loc[j], x) => j = i

\* Actions added at the end.
LEMMA QueuedConcat ==
    ASSUME NEW qs, IsSeq(qs), NEW more, IsSeq(more), NEW x
    PROVE  /\ NoneQueued(x, qs) /\ NoneQueued(x, more) => NoneQueued(x, qs \o more)
           /\ \A a : NoneQueued(x, qs) /\ OneQueued(x, more, a) => OneQueued(x, qs \o more, a)
           /\ \A a : OneQueued(x, qs, a) /\ NoneQueued(x, more) => OneQueued(x, qs \o more, a)
<1> DEFINE cs == qs \o more
           n == Len(qs)
           m == Len(more)
<1>1. n \in Nat /\ m \in Nat /\ DOMAIN qs = 1 .. n /\ DOMAIN more = 1 .. m
    BY SeqFacts
<1>2. /\ Len(cs) = n + m
      /\ \A i \in 1 .. n : cs[i] = qs[i]
      /\ \A i \in 1 .. m : cs[n + i] = more[i]
    <2>1. Len(cs) = n + m
        BY ConcatFacts, Zenon
    <2>2. \A i \in 1 .. n : cs[i] = qs[i]
        BY ConcatFacts, Zenon
    <2>3. \A i \in 1 .. m : cs[n + i] = more[i]
        BY <1>1, <2>1, ConcatFacts
    <2> QED
        BY <2>1, <2>2, <2>3, Zenon
<1>3. DOMAIN cs = 1 .. n + m
    BY <1>2, ConcatFacts, SeqFacts
<1> HIDE DEF cs, n, m
<1>4. \A i \in DOMAIN cs : i \in 1 .. n \/ \E j \in 1 .. m : i = n + j
    <2> TAKE i \in DOMAIN cs
    <2>1. CASE i > n
        <3>1. i - n \in 1 .. m /\ i = n + (i - n)
            BY <1>1, <1>3, <2>1
        <3> QED
            BY <3>1
    <2> QED
        BY <1>1, <1>3, <2>1
<1>5. \A i \in 1 .. n : i \in DOMAIN cs
    BY <1>1, <1>3
<1>6. \A j \in 1 .. m : n + j \in DOMAIN cs
    BY <1>1, <1>3
<1>7. ASSUME NoneQueued(x, qs), NoneQueued(x, more)
      PROVE  NoneQueued(x, cs)
    BY <1>1, <1>2, <1>4, <1>7, ZenonT(30) DEF NoneQueued
<1>8. ASSUME NEW a, NoneQueued(x, qs), OneQueued(x, more, a)
      PROVE  OneQueued(x, cs, a)
    <2>1. PICK i \in 1 .. m : /\ ForRun(more[i], x) /\ more[i].a = a
                              /\ \A j \in 1 .. m : ForRun(more[j], x) => j = i
        BY <1>1, <1>8 DEF OneQueued
    <2>2. n + i \in DOMAIN cs /\ ForRun(cs[n + i], x) /\ cs[n + i].a = a
        BY <1>2, <1>6, <2>1
    <2>3. \A j \in DOMAIN cs : ForRun(cs[j], x) => j = n + i
        BY <1>1, <1>2, <1>4, <1>8, <2>1, ZenonT(30) DEF NoneQueued
    <2> QED
        BY <2>2, <2>3 DEF OneQueued
<1>9. ASSUME NEW a, OneQueued(x, qs, a), NoneQueued(x, more)
      PROVE  OneQueued(x, cs, a)
    <2>1. PICK i \in 1 .. n : /\ ForRun(qs[i], x) /\ qs[i].a = a
                              /\ \A j \in 1 .. n : ForRun(qs[j], x) => j = i
        BY <1>1, <1>9 DEF OneQueued
    <2>2. i \in DOMAIN cs /\ ForRun(cs[i], x) /\ cs[i].a = a
        BY <1>2, <1>5, <2>1
    <2>3. \A j \in DOMAIN cs : ForRun(cs[j], x) => j = i
        BY <1>1, <1>2, <1>4, <1>9, <2>1, ZenonT(30) DEF NoneQueued
    <2> QED
        BY <2>2, <2>3 DEF OneQueued
<1> QED
    BY <1>7, <1>8, <1>9 DEF cs

\* The first action taken off.
LEMMA QueuedTail ==
    ASSUME NEW qs, IsSeq(qs), qs # <<>>, NEW x
    PROVE  /\ NoneQueued(x, qs) => NoneQueued(x, Tail(qs)) /\ ~ForRun(Head(qs), x)
           /\ \A a : OneQueued(x, qs, a) =>
                 IF ForRun(Head(qs), x) THEN Head(qs).a = a /\ NoneQueued(x, Tail(qs))
                 ELSE OneQueued(x, Tail(qs), a)
<1> DEFINE ts == Tail(qs)
           n == Len(qs)
<1>1. n \in Nat /\ n > 0 /\ DOMAIN qs = 1 .. n
    BY SeqFacts, TailFacts
<1>2. Head(qs) = qs[1] /\ \A i \in 1 .. n - 1 : ts[i] = qs[i + 1]
    BY TailFacts
<1>3. DOMAIN ts = 1 .. n - 1
    BY TailFacts, SeqFacts
<1> HIDE DEF ts, n
<1>4. \A i \in DOMAIN ts : i + 1 \in DOMAIN qs /\ ts[i] = qs[i + 1] /\ i + 1 # 1
    <2> TAKE i \in DOMAIN ts
    <2>1. i + 1 \in DOMAIN qs /\ i + 1 # 1
        BY <1>1, <1>3
    <2>2. ts[i] = qs[i + 1]
        BY <1>2, <1>3, Zenon
    <2> QED
        BY <2>1, <2>2
<1>5. \A i \in DOMAIN qs : i = 1 \/ (i - 1 \in DOMAIN ts /\ ts[i - 1] = qs[i])
    <2> TAKE i \in DOMAIN qs
    <2>1. CASE i # 1
        <3>1. i - 1 \in 1 .. n - 1 /\ (i - 1) + 1 = i
            BY <1>1, <2>1
        <3> QED
            BY <1>2, <1>3, <3>1
    <2> QED
        BY <2>1
<1>6. 1 \in DOMAIN qs
    BY <1>1
<1>7. ASSUME NoneQueued(x, qs)
      PROVE  NoneQueued(x, ts) /\ ~ForRun(Head(qs), x)
    BY <1>2, <1>4, <1>6, <1>7, SMTT(30) DEF NoneQueued
<1>8. ASSUME NEW a, OneQueued(x, qs, a), ForRun(Head(qs), x)
      PROVE  Head(qs).a = a /\ NoneQueued(x, ts)
    BY <1>2, <1>4, <1>6, <1>8, SMTT(30) DEF NoneQueued, OneQueued
<1>9. ASSUME NEW a, OneQueued(x, qs, a), ~ForRun(Head(qs), x)
      PROVE  OneQueued(x, ts, a)
    <2>1. PICK i \in DOMAIN qs : /\ ForRun(qs[i], x) /\ qs[i].a = a
                                 /\ \A j \in DOMAIN qs : ForRun(qs[j], x) => j = i
        BY <1>9 DEF OneQueued
    <2>2. i - 1 \in DOMAIN ts /\ ForRun(ts[i - 1], x) /\ ts[i - 1].a = a
        BY <1>2, <1>5, <1>9, <2>1, SMTT(30)
    <2>3. \A j \in DOMAIN ts : ForRun(ts[j], x) => j + 1 = i
        BY <1>4, <2>1
    <2>4. \A j \in DOMAIN ts : ForRun(ts[j], x) => j = i - 1
        BY <1>1, <1>3, <2>3, SMTT(30)
    <2> QED
        BY <2>2, <2>4, SMTT(30) DEF OneQueued
<1> QED
    BY <1>7, <1>8, <1>9 DEF ts

\* The activations one run emits.
LEMMA QueuedActivations ==
    ASSUME NEW x, NEW acts, IsSeq(acts)
    PROVE  LET qs == Activations(x, acts)
           IN  /\ IsSeq(qs)
               /\ \A z : z # x => NoneQueued(z, qs)
               /\ (\A i \in DOMAIN acts : acts[i] \notin ForLang) => NoneQueued(x, qs)
               /\ \A i \in DOMAIN acts :
                     /\ acts[i] \in ForLang
                     /\ \A j \in DOMAIN acts : acts[j] \in ForLang => j = i
                     => OneQueued(x, qs, acts[i])
<1> DEFINE qs == Activations(x, acts)
<1>1. Len(acts) \in Nat /\ DOMAIN acts = 1 .. Len(acts)
    BY SeqFacts
<1>2. DOMAIN qs = DOMAIN acts /\ \A i \in DOMAIN acts : qs[i].run = x /\ qs[i].a = acts[i]
    BY DEF Activations
<1>3. qs = [i \in 1 .. Len(acts) |-> qs[i]]
    BY <1>1 DEF Activations
<1> HIDE DEF qs
<1>4. IsSeq(qs)
    BY <1>1, <1>3, FunctionSeq, SMTT(30)
<1>5. \A i \in DOMAIN qs : \A z : ForRun(qs[i], z) <=> (z = x /\ acts[i] \in ForLang)
    BY <1>2, SMTT(30) DEF ForRun
<1> QED
    BY <1>2, <1>4, <1>5, SMTT(30) DEF NoneQueued, OneQueued, qs

\* The activations of the runs in these, each of which emits at most one for lang.
LEMMA QueuedEvictions ==
    ASSUME NEW these, IsSeq(these), Distinct(these), NEW asked,
           \A i \in DOMAIN these : IsSeq(asked[these[i]].acts),
           \A i \in DOMAIN these : \A l, m \in DOMAIN asked[these[i]].acts :
               asked[these[i]].acts[l] \in ForLang /\ asked[these[i]].acts[m] \in ForLang => l = m
    PROVE  LET E == EvictionActivations(these, asked)
           IN  /\ IsSeq(E)
               /\ \A z : z \notin Range(these) => NoneQueued(z, E)
               /\ \A i \in DOMAIN these :
                     (\A l \in DOMAIN asked[these[i]].acts : asked[these[i]].acts[l] \notin ForLang)
                     => NoneQueued(these[i], E)
               /\ \A i \in DOMAIN these : \A l \in DOMAIN asked[these[i]].acts :
                     asked[these[i]].acts[l] \in ForLang
                     => OneQueued(these[i], E, asked[these[i]].acts[l])
<1> DEFINE E == EvictionActivations(these, asked)
           qs == [i \in DOMAIN these |-> Activations(these[i], asked[these[i]].acts)]
           n == Len(these)
           acts(i) == asked[these[i]].acts
<1>1. n \in Nat /\ DOMAIN these = 1 .. n
    BY SeqFacts
<1>2. Len(qs) = n
    BY <1>1, FunctionSeq, SMTT(30)
<1>3. \A i \in 1 .. n : /\ IsSeq(qs[i]) /\ DOMAIN qs[i] = DOMAIN acts(i)
                        /\ \A l \in DOMAIN acts(i) : qs[i][l].run = these[i] /\ qs[i][l].a = acts(i)[l]
    <2> SUFFICES ASSUME NEW i \in 1 .. n
                 PROVE  /\ IsSeq(qs[i]) /\ DOMAIN qs[i] = DOMAIN acts(i)
                        /\ \A l \in DOMAIN acts(i) : qs[i][l].run = these[i] /\ qs[i][l].a = acts(i)[l]
        BY ZenonT(30)
    <2>1. qs[i] = Activations(these[i], acts(i)) /\ IsSeq(acts(i))
        BY <1>1
    <2> HIDE DEF qs, acts
    <2>2. IsSeq(qs[i])
        BY <2>1, QueuedActivations
    <2> QED
        BY <2>1, <2>2, SMTT(30) DEF Activations
<1>4. E = Joined(qs)
    BY DEF EvictionActivations
<1> HIDE DEF E, qs, n
<1>5. Laid(qs, n, E)
    BY <1>1, <1>2, <1>3, <1>4, JoinedLaid, SMTT(30)
<1>6. PICK row, col : LaidBy(qs, n, E, row, col)
    BY <1>5, SMTT(30) DEF Laid
<1>7. \A j \in DOMAIN E : /\ row[j] \in DOMAIN these /\ col[j] \in DOMAIN acts(row[j])
                          /\ E[j].run = these[row[j]] /\ E[j].a = acts(row[j])[col[j]]
    BY <1>1, <1>3, <1>6, SMTT(30) DEF LaidBy
<1>8. ASSUME NEW i \in DOMAIN these, NEW l \in DOMAIN acts(i)
      PROVE  \E j \in DOMAIN E : row[j] = i /\ col[j] = l
    BY <1>1, <1>3, <1>6, SMTT(30) DEF LaidBy
<1>9. \A j, m \in DOMAIN E : row[j] = row[m] /\ col[j] = col[m] => j = m
    BY <1>6, SMTT(30) DEF LaidBy
<1>10. \A j \in DOMAIN E : E[j].run \in Range(these)
    BY <1>7, SMTT(30) DEF Range
<1>11. \A i \in DOMAIN these : \A j \in DOMAIN E : E[j].run = these[i] => row[j] = i
    BY <1>7 DEF Distinct
<1>12. ASSUME NEW z, z \notin Range(these)
       PROVE  NoneQueued(z, E)
    BY <1>10, <1>12, SMTT(30) DEF NoneQueued, ForRun
<1>13. ASSUME NEW i \in DOMAIN these, \A l \in DOMAIN acts(i) : acts(i)[l] \notin ForLang
       PROVE  NoneQueued(these[i], E)
    BY <1>7, <1>11, <1>13, SMTT(30) DEF NoneQueued, ForRun
<1>14. ASSUME NEW i \in DOMAIN these, NEW l \in DOMAIN acts(i), acts(i)[l] \in ForLang
       PROVE  OneQueued(these[i], E, acts(i)[l])
    <2>1. PICK j \in DOMAIN E : row[j] = i /\ col[j] = l
        BY <1>8, SMTT(30)
    <2>2. ForRun(E[j], these[i]) /\ E[j].a = acts(i)[l]
        BY <1>7, <1>14, <2>1, SMTT(30) DEF ForRun
    <2>3. ASSUME NEW m \in DOMAIN E, ForRun(E[m], these[i])
          PROVE  m = j
        <3>1. row[m] = i /\ col[m] \in DOMAIN acts(i) /\ acts(i)[col[m]] \in ForLang
            BY <1>7, <1>11, <2>3, SMTT(30) DEF ForRun
        <3>2. col[m] = l
            BY <1>14, <3>1, SMTT(30)
        <3> QED
            BY <1>9, <2>1, <3>1, <3>2, SMTT(30)
    <2> QED
        BY <2>2, <2>3, SMTT(30) DEF OneQueued
<1>15. IsSeq(E)
    BY <1>5, SMTT(30) DEF Laid
<1> QED
    BY <1>12, <1>13, <1>14, <1>15, SMTT(30) DEF E

\* A local input added at the end.
LEMMA PostedAppend ==
    ASSUME NEW loc, IsSeq(loc), NEW msg, NEW x
    PROVE  /\ ~PostFor(msg, x) /\ NonePosted(x, loc) => NonePosted(x, Append(loc, msg))
           /\ ~PostFor(msg, x) /\ OnePosted(x, loc) => OnePosted(x, Append(loc, msg))
           /\ PostFor(msg, x) /\ NonePosted(x, loc) => OnePosted(x, Append(loc, msg))
<1> DEFINE new == Append(loc, msg)
           n == Len(loc)
<1>1. n \in Nat /\ DOMAIN loc = 1 .. n
    BY SeqFacts
<1>2. IsSeq(new) /\ Len(new) = n + 1 /\ new[n + 1] = msg /\ \A i \in 1 .. n : new[i] = loc[i]
    BY AppendFacts
<1>3. DOMAIN new = 1 .. n + 1
    BY <1>2, SeqFacts
<1> HIDE DEF new, n
<1>4. /\ \A i \in DOMAIN loc : i \in DOMAIN new /\ new[i] = loc[i]
      /\ \A i \in DOMAIN new : i \in DOMAIN loc \/ i = n + 1
      /\ n + 1 \in DOMAIN new /\ n + 1 \notin DOMAIN loc
    BY <1>1, <1>2, <1>3
<1> QED
    BY <1>2, <1>4 DEF NonePosted, OnePosted, new

\* The first local input taken off; the others may change, but not into a report
\* or out of one.
LEMMA PostedTail ==
    ASSUME NEW loc, IsSeq(loc), loc # <<>>, NEW x, NEW new,
           DOMAIN new = 1 .. Len(loc) - 1,
           \A i \in DOMAIN new : PostFor(new[i], x) <=> PostFor(loc[i + 1], x)
    PROVE  /\ NonePosted(x, loc) => NonePosted(x, new) /\ ~PostFor(Head(loc), x)
           /\ OnePosted(x, loc) =>
                 IF PostFor(Head(loc), x) THEN NonePosted(x, new) ELSE OnePosted(x, new)
<1> DEFINE n == Len(loc)
<1>1. n \in Nat /\ n > 0 /\ DOMAIN loc = 1 .. n /\ DOMAIN new = 1 .. n - 1
    BY SeqFacts, TailFacts
<1>2. Head(loc) = loc[1]
    BY TailFacts
<1> HIDE DEF n
<1>3. \A i \in DOMAIN new : i + 1 \in DOMAIN loc /\ i + 1 # 1
    BY <1>1
<1>4. \A i \in DOMAIN loc : i = 1 \/ (i - 1 \in DOMAIN new /\ (i - 1) + 1 = i)
    BY <1>1
<1>5. 1 \in DOMAIN loc
    BY <1>1
<1>6. ASSUME NonePosted(x, loc)
      PROVE  NonePosted(x, new) /\ ~PostFor(Head(loc), x)
    BY <1>2, <1>3, <1>5, <1>6 DEF NonePosted
<1>7. ASSUME OnePosted(x, loc), PostFor(Head(loc), x)
      PROVE  NonePosted(x, new)
    BY <1>2, <1>3, <1>5, <1>7 DEF NonePosted, OnePosted
<1>8. ASSUME OnePosted(x, loc), ~PostFor(Head(loc), x)
      PROVE  OnePosted(x, new)
    <2>1. PICK i \in DOMAIN loc : /\ PostFor(loc[i], x)
                                  /\ \A j \in DOMAIN loc : PostFor(loc[j], x) => j = i
        BY <1>8 DEF OnePosted
    <2>2. i - 1 \in DOMAIN new /\ PostFor(new[i - 1], x)
        BY <1>2, <1>4, <1>8, <2>1, SMTT(30)
    <2>3. \A j \in DOMAIN new : PostFor(new[j], x) => j + 1 = i
        BY <1>3, <2>1
    <2>4. \A j \in DOMAIN new : PostFor(new[j], x) => j = i - 1
        BY <1>1, <2>3, SMTT(30)
    <2> QED
        BY <2>2, <2>4 DEF OnePosted
<1> QED
    BY <1>6, <1>7, <1>8

\* Calls that keep whose they are.
LEMMA CallsKept ==
    ASSUME NEW cs, NEW new, NEW x, \A i \in CallIds : CallFor(new[i], x) <=> CallFor(cs[i], x)
    PROVE  /\ NoCall(x, cs) => NoCall(x, new)
           /\ OneCall(x, cs) => OneCall(x, new)
BY DEF NoCall, OneCall

\* One call that changes.
LEMMA CallsChange ==
    ASSUME NEW cs, DOMAIN cs = CallIds, NEW i, NEW c, NEW x
    PROVE  LET new == [cs EXCEPT ![i] = c]
           IN  /\ NoCall(x, cs) /\ ~CallFor(c, x) => NoCall(x, new)
               /\ NoCall(x, cs) /\ CallFor(c, x) /\ i \in CallIds => OneCall(x, new)
               /\ OneCall(x, cs) /\ ~CallFor(c, x) =>
                     IF i \in CallIds /\ CallFor(cs[i], x) THEN NoCall(x, new)
                     ELSE OneCall(x, new)
<1> DEFINE new == [cs EXCEPT ![i] = c]
<1>1. /\ \A j \in CallIds : j # i => new[j] = cs[j]
      /\ i \in CallIds => new[i] = c
    OBVIOUS
<1> HIDE DEF new
<1>2. ASSUME NoCall(x, cs), ~CallFor(c, x)
      PROVE  NoCall(x, new)
    BY <1>1, <1>2 DEF NoCall
<1>3. ASSUME NoCall(x, cs), CallFor(c, x), i \in CallIds
      PROVE  OneCall(x, new)
    BY <1>1, <1>3 DEF NoCall, OneCall
<1>4. ASSUME OneCall(x, cs), ~CallFor(c, x), i \in CallIds, CallFor(cs[i], x)
      PROVE  NoCall(x, new)
    BY <1>1, <1>4, SMTT(30) DEF NoCall, OneCall
<1>5. ASSUME OneCall(x, cs), ~CallFor(c, x), ~(i \in CallIds /\ CallFor(cs[i], x))
      PROVE  OneCall(x, new)
    BY <1>1, <1>5, SMTT(30) DEF OneCall
<1> QED
    BY <1>2, <1>3, <1>4, <1>5 DEF new

-----------------------------------------------------------------------------
(* The activation of one run that lang has to complete *)

\* What a run has recorded of an activation, and of one whose kind is not known any more.
Records(rs, x, a) == x \in DOMAIN rs /\ rs[x].act = OutstandingActivation(a)
LangHolds(rs, x) == x \in DOMAIN rs /\ rs[x].act \in {"normal", "legacy", "evict"}

\* Run x has no activation that lang has to complete, or one: it waits to be polled,
\* is in lang's hands, is being completed, or has its report on the way; and the run
\* has recorded it.
Held(x, rs, qs, o, cs, loc) ==
    \/ NoneQueued(x, qs) /\ o[x] = <<>> /\ NoCall(x, cs) /\ NonePosted(x, loc)
    \/ \E a \in ForLang : /\ OneQueued(x, qs, a) /\ o[x] = <<>> /\ NoCall(x, cs) /\ NonePosted(x, loc)
                          /\ Records(rs, x, a)
    \/ \E a \in ForLang : /\ NoneQueued(x, qs) /\ o[x] = <<a>> /\ NoCall(x, cs) /\ NonePosted(x, loc)
                          /\ Records(rs, x, a)
    \/ NoneQueued(x, qs) /\ o[x] = <<>> /\ OneCall(x, cs) /\ NonePosted(x, loc) /\ LangHolds(rs, x)
    \/ NoneQueued(x, qs) /\ o[x] = <<>> /\ NoCall(x, cs) /\ OnePosted(x, loc) /\ LangHolds(rs, x)

\* A run that has nothing recorded for lang has nothing on the way.
LEMMA HeldNothing ==
    ASSUME NEW x, NEW rs, NEW qs, NEW o, NEW cs, NEW loc, Held(x, rs, qs, o, cs, loc),
           ~LangHolds(rs, x)
    PROVE  NoneQueued(x, qs) /\ o[x] = <<>> /\ NoCall(x, cs) /\ NonePosted(x, loc)
<1>1. \A a \in ForLang : Records(rs, x, a) => LangHolds(rs, x)
    BY DEF ForLang, Records, LangHolds, OutstandingActivation
<1> QED
    BY <1>1, ZenonT(30) DEF Held

\* Only what the run has recorded matters of it.
LEMMA HeldSame ==
    ASSUME NEW x, NEW rs, NEW qs, NEW o, NEW cs, NEW loc, Held(x, rs, qs, o, cs, loc), NEW new,
           x \in DOMAIN rs => x \in DOMAIN new /\ new[x].act = rs[x].act
    PROVE  Held(x, new, qs, o, cs, loc)
<1>1. LangHolds(rs, x) => LangHolds(new, x)
    BY DEF LangHolds
<1>2. \A a \in ForLang : Records(rs, x, a) => Records(new, x, a)
    BY DEF Records
<1> QED
    BY <1>1, <1>2, ZenonT(30) DEF Held

-----------------------------------------------------------------------------
(* What every method of ManagedRun guarantees for any run, task, completion and outcome  *)
(* of the machines: it never puts a second activation or a second task into the run, and *)
(* it emits an activation for lang only if none was outstanding, at most one, and the    *)
(* one the run then records.  The facts go up the call graph, from                       *)
(* insert_outstanding_activation to the methods the stream calls.                        *)

IsRun(r) == DOMAIN r = DOMAIN NewRun
IsStep(s) == DOMAIN s = DOMAIN Step(NewRun)

Collisions == {"second_activation", "task_overwritten"}
Emittable == ForLang \cup {"auto", "autofail", "autofailNde"}

\* The activations acts, emitted while the outstanding one goes from before to after.
Emission(before, acts, after) ==
    /\ acts \in Seq(Emittable)
    /\ before # "none" => after = before
    /\ \A i \in DOMAIN acts : acts[i] \in ForLang =>
          /\ before = "none" /\ after = OutstandingActivation(acts[i])
          /\ \A j \in DOMAIN acts : acts[j] \in ForLang => i = j

\* A step that trips neither assertion, ends in a run, and emits what it may.
Clean(before, s) ==
    /\ IsStep(s) /\ IsRun(s.r)
    /\ s.tripped \cap Collisions = {}
    /\ Emission(before, s.acts, s.r.act)

\* A run with the activation it settles on: there is one only if none is outstanding.
Chosen(before, next) ==
    /\ IsRun(next.r) /\ next.r.act = before
    /\ next.a \in Emittable \cup {"none"}
    /\ next.a # "none" => before = "none"

\* A change of the run that leaves its outstanding activation alone.
Keeps(r, run) == IsRun(run) /\ run.act = r.act

-----------------------------------------------------------------------------
(* Emissions *)

\* Nothing is emitted, and the outstanding activation stays.
LEMMA EmissionNone ==
    ASSUME NEW before
    PROVE  Emission(before, <<>>, before)
BY DEF Emission

\* Dropping what was emitted.
LEMMA EmissionDropped ==
    ASSUME NEW before, NEW acts, NEW after, Emission(before, acts, after)
    PROVE  Emission(before, <<>>, after)
BY DEF Emission

\* An activation the worker deals with itself, emitted instead.
LEMMA EmissionAuto ==
    ASSUME NEW before, NEW acts, NEW after, Emission(before, acts, after),
           NEW a \in {"autofail", "autofailNde"}
    PROVE  Emission(before, <<a>>, after)
BY DEF Emission, Emittable, ForLang

\* Any activation that lang gets is recorded.
LEMMA Recorded ==
    ASSUME NEW a \in ForLang
    PROVE  OutstandingActivation(a) \in {"normal", "legacy", "evict"}
BY DEF ForLang, OutstandingActivation

\* One emission after another.
LEMMA EmissionThen ==
    ASSUME NEW b, NEW p, NEW c, NEW q, NEW d, Emission(b, p, c), Emission(c, q, d)
    PROVE  Emission(b, p \o q, d)
<1>1. /\ p \in Seq(Emittable) /\ q \in Seq(Emittable) /\ p \o q \in Seq(Emittable)
      /\ DOMAIN (p \o q) = 1 .. Len(p) + Len(q)
    BY DEF Emission
<1>2. b # "none" => d = b
    BY DEF Emission
<1>3. \A i \in DOMAIN (p \o q) : \/ i \in DOMAIN p /\ (p \o q)[i] = p[i]
                                 \/ i - Len(p) \in DOMAIN q /\ (p \o q)[i] = q[i - Len(p)]
    BY <1>1
<1>4. CASE \A i \in DOMAIN p : p[i] \notin ForLang
    BY <1>1, <1>2, <1>3, <1>4, SMTT(30) DEF Emission
<1>5. CASE \E i \in DOMAIN p : p[i] \in ForLang
    <2>1. c # "none" /\ b = "none"
        BY <1>5, Recorded, SMTT(30) DEF Emission
    <2>2. d = c /\ \A i \in DOMAIN q : q[i] \notin ForLang
        BY <2>1 DEF Emission
    <2> QED
        BY <1>1, <1>3, <2>1, <2>2, SMTT(30) DEF Emission
<1> QED
    BY <1>4, <1>5

\* insert_outstanding_activation, if no activation is outstanding.
LEMMA EmissionInsert ==
    ASSUME NEW before, NEW acts, Emission(before, acts, "none"), NEW a \in Emittable
    PROVE  Emission(before, Append(acts, a), OutstandingActivation(a))
<1>1. before = "none" /\ \A i \in DOMAIN acts : acts[i] \notin ForLang
    BY Recorded DEF Emission
<1>2. acts \in Seq(Emittable)
    BY SMTT(30) DEF Emission
<1> QED
    BY <1>1, <1>2, SMTT(30) DEF Emission

-----------------------------------------------------------------------------
(* Steps *)

\* A step that changes nothing else is clean.
LEMMA StepClean ==
    ASSUME NEW r, IsRun(r)
    PROVE  Clean(r.act, Step(r)) /\ Step(r).r = r
<1>1. Emission(r.act, <<>>, r.act)
    BY EmissionNone, SMTT(30)
<1> QED
    BY <1>1, ZenonT(30) DEF Clean, IsStep, IsRun, Step, Collisions, NewRun

\* Two clean steps, one after the other.
LEMMA ThenClean ==
    ASSUME NEW before, NEW s, NEW t, Clean(before, s), Clean(s.r.act, t)
    PROVE  Clean(before, Then(s, t))
<1>1. Emission(before, s.acts \o t.acts, t.r.act)
    BY EmissionThen DEF Clean
<1> QED
    BY <1>1, ZenonT(30) DEF Clean, IsStep, IsRun, Step, Then, NewRun

\* A reply to a waiting completion call.
LEMMA ReplyClean ==
    ASSUME NEW before, NEW s, Clean(before, s), NEW id, NEW answer
    PROVE  Clean(before, Reply(s, id, answer)) /\ Reply(s, id, answer).r = s.r
BY DEF Clean, IsStep, IsRun, Step, Reply, NewRun

\* Replacing the run of a step by one with the same activation.
LEMMA ExceptRunClean ==
    ASSUME NEW before, NEW s, Clean(before, s), NEW r, IsRun(r), r.act = s.r.act
    PROVE  Clean(before, [s EXCEPT !.r = r]) /\ [s EXCEPT !.r = r].r = r
BY DEF Clean, IsStep, IsRun, Step, NewRun

\* Dropping the activations a step emits.
LEMMA ExceptActsClean ==
    ASSUME NEW before, NEW s, Clean(before, s)
    PROVE  Clean(before, [s EXCEPT !.acts = <<>>]) /\ [s EXCEPT !.acts = <<>>].r = s.r
<1>1. Emission(before, <<>>, s.r.act)
    BY EmissionDropped DEF Clean
<1> QED
    BY <1>1 DEF Clean, IsStep, IsRun, Step, NewRun

\* A run that breaks emits an activation that fails its task.
LEMMA BrokenClean ==
    ASSUME NEW before, NEW s, Clean(before, s), NEW a \in {"autofail", "autofailNde"}
    PROVE  Clean(before, [s EXCEPT !.r.broken = TRUE, !.acts = <<a>>])
<1>1. Emission(before, <<a>>, s.r.act)
    BY EmissionAuto DEF Clean
<1> QED
    BY <1>1 DEF Clean, IsStep, IsRun, Step, NewRun

\* Any other assertion leaves a step clean.
LEMMA TripClean ==
    ASSUME NEW before, NEW s, Clean(before, s), NEW what, what \notin Collisions, NEW cond
    PROVE  Clean(before, Trip(s, what)) /\ Clean(before, TripIf(s, cond, what))
BY DEF Clean, IsStep, IsRun, Step, Trip, TripIf, NewRun

\* insert_outstanding_activation, if no activation is outstanding.
LEMMA InsertClean ==
    ASSUME NEW before, NEW s, Clean(before, s), NEW a \in Emittable, s.r.act = "none"
    PROVE  Clean(before, InsertOutstandingActivation(s, a))
<1>1. Emission(before, Append(s.acts, a), OutstandingActivation(a))
    BY EmissionInsert DEF Clean
<1> HIDE DEF OutstandingActivation
<1> QED
    BY <1>1, SMTT(30) DEF Clean, IsStep, IsRun, Step, InsertOutstandingActivation, TripIf, NewRun

-----------------------------------------------------------------------------
(* A new workflow task *)

\* A task leaves the activation of the run that takes it alone.
LEMMA HoldingRun ==
    ASSUME NEW r, IsRun(r), NEW task
    PROVE  IsRun(Holding(r, task)) /\ Holding(r, task).act = r.act
BY DEF IsRun, Holding, NewRun

\* What follows from the machines' answer to a task.
LEMMA IncomingClean ==
    ASSUME NEW s, Clean("none", s), s.r.act = "none", NEW new
    PROVE  Clean("none", Incoming(s, new))
<1> DEFINE t == [s EXCEPT !.r.m = new.m]
           e == IF new.err = "nde" THEN "autofailNde" ELSE "autofail"
<1>1. Clean("none", t) /\ t.r.act = "none"
    BY DEF Clean, IsStep, IsRun, Step, NewRun
<1> HIDE DEF t
<1>2. Clean("none", [t EXCEPT !.r.broken = TRUE, !.acts = <<e>>])
    BY <1>1, BrokenClean, ZenonT(30)
<1>3. Clean("none", [t EXCEPT !.r.waiting = "armed"])
    BY <1>1 DEF Clean, IsStep, IsRun, Step, NewRun
<1>4. /\ Clean("none", InsertOutstandingActivation(t, "lang"))
      /\ Clean("none", InsertOutstandingActivation(t, "auto"))
    BY <1>1, InsertClean, SMTT(30) DEF Emittable, ForLang
<1> QED
    BY <1>2, <1>3, <1>4, SMTT(30) DEF Incoming, t

\* _incoming_wft, for a run that has neither an activation nor a task.
LEMMA IncomingWftClean ==
    ASSUME NEW r, IsRun(r), r.act = "none", ~HasWft(r), NEW task, NEW n
    PROVE  Clean("none", IncomingWft(r, task, n))
<1> DEFINE s == Step(Holding(r, task))
<1>1. Clean("none", s) /\ s.r.act = "none"
    BY HoldingRun, StepClean
<1>2. TripIf(s, HasWft(r), "task_overwritten") = s
    BY DEF TripIf
<1> HIDE DEF s
<1>3. Clean("none", InsertOutstandingActivation(s, "autofail"))
    BY <1>1, InsertClean, SMTT(30) DEF Emittable
<1>4. Clean("none", Incoming(s, NewWorkFromServer(s.r.m, task, n)))
    BY <1>1, IncomingClean
<1> QED
    BY <1>2, <1>3, <1>4, SMTT(30) DEF IncomingWft, s

-----------------------------------------------------------------------------
(* update_to_acts *)

\* _check_more_activations finds nothing while an activation is outstanding.
LEMMA CheckMoreChosen ==
    ASSUME NEW r, IsRun(r)
    PROVE  Chosen(r.act, CheckMore(r))
<1>0. {"none", "lang", "auto", "queries"} \subseteq Emittable \cup {"none"}
    BY DEF Emittable, ForLang
<1>1. CASE r.act # "none" \/ ~HasWft(r)
    BY <1>0, <1>1 DEF CheckMore, Chosen
<1>2. CASE ~(r.act # "none" \/ ~HasWft(r))
    <2>1. ASSUME NEW m
          PROVE  IsRun([r EXCEPT !.m = m]) /\ [r EXCEPT !.m = m].act = "none"
        BY <1>2 DEF IsRun, NewRun
    <2>2. IsRun([r EXCEPT !.waiting = "no"]) /\ [r EXCEPT !.waiting = "no"].act = "none"
        BY <1>2 DEF IsRun, NewRun
    <2>3. r.act = "none"
        BY <1>2
    <2> QED
        BY <1>0, <1>2, <2>1, <2>2, <2>3, SMTT(30) DEF CheckMore, Chosen
<1> QED
    BY <1>1, <1>2

\* put_queries_in_act
LEMMA PutQueriesChosen ==
    ASSUME NEW r, IsRun(r), r.act = "none"
    PROVE  Chosen("none", PutQueries(r))
BY DEF PutQueries, Chosen, IsRun, NewRun, Emittable, ForLang

\* The eviction at the end of update_to_acts waits for the outstanding activation.
LEMMA EvictIfIdleChosen ==
    ASSUME NEW r, IsRun(r)
    PROVE  Chosen(r.act, EvictIfIdle(r))
<1> DEFINE c == [r EXCEPT !.waiting = "no", !.las = CancelAllInRun(@)]
<1>1. IsRun(c) /\ c.act = r.act
    BY DEF IsRun, NewRun
<1> HIDE DEF c
<1> QED
    BY <1>1 DEF EvictIfIdle, Chosen, c, Emittable, ForLang

\* What update_to_acts settles on.
LEMMA SettledChosen ==
    ASSUME NEW before, NEW more, Chosen(before, more)
    PROVE  Chosen(before, Settled(more))
<1>1. CASE more.a = "queries"
    BY <1>1, PutQueriesChosen DEF Settled, Chosen
<1>2. CASE more.a = "none"
    BY <1>2, EvictIfIdleChosen, SMTT(30) DEF Settled, Chosen
<1>3. CASE more.a \notin {"queries", "none"}
    BY <1>3 DEF Settled
<1> QED
    BY <1>1, <1>2, <1>3

\* A run goes on to a buffered task only if it has no task and no activation.
LEMMA EmittedClean ==
    ASSUME NEW before, NEW s, Clean(before, s), NEW a \in Emittable \cup {"none"},
           a # "none" => s.r.act = "none", NEW n
    PROVE  Clean(before, Emitted(s, a, n))
<1> DEFINE r == [s.r EXCEPT !.buf = WithoutNext(@)]
<1>1. CASE a \in {"none", "auto"} /\ ~HasAnyPendingWork(s.r, FALSE, TRUE)
    <2>1. IsRun(s.r) /\ s.r.act = "none" /\ s.r.wft.tok = 0
        BY <1>1 DEF Clean, HasAnyPendingWork, HasWft
    <2>2. IsRun(r) /\ r.act = "none" /\ ~HasWft(r)
        BY <2>1, SMTT(30) DEF IsRun, HasWft, NewRun
    <2> HIDE DEF r
    <2>3. Clean("none", IncomingWft(r, NextTask(s.r.buf), n))
        BY <2>2, IncomingWftClean, SMTT(30)
    <2>4. Clean(before, Then(s, IncomingWft(r, NextTask(s.r.buf), n)))
        BY <2>1, <2>3, ThenClean
    <2> QED
        BY <1>1, <2>4, SMTT(30) DEF Emitted, r
<1>2. CASE ~(a \in {"none", "auto"} /\ ~HasAnyPendingWork(s.r, FALSE, TRUE))
    BY <1>2, InsertClean, ZenonT(30) DEF Emitted
<1> QED
    BY <1>1, <1>2, ZenonT(30)

\* update_to_acts, given an activation only if none is outstanding.
LEMMA UpdateToActsClean ==
    ASSUME NEW before, NEW s, Clean(before, s), NEW a \in Emittable \cup {"none"},
           a # "none" => s.r.act = "none", NEW n
    PROVE  Clean(before, UpdateToActs(s, a, n))
<1> DEFINE more == IF MorePendingWork(s.r) /\ a = "none" THEN CheckMore(s.r)
                   ELSE [r |-> s.r, a |-> a]
           next == Settled(more)
           t == [s EXCEPT !.r = next.r]
<1>1. Chosen(s.r.act, [r |-> s.r, a |-> a])
    BY SMTT(30) DEF Clean, Chosen
<1>2. Chosen(s.r.act, more)
    BY <1>1, CheckMoreChosen, SMTT(30) DEF Clean
<1> HIDE DEF more
<1>3. Chosen(s.r.act, next)
    BY <1>2, SettledChosen
<1> HIDE DEF next
<1>4. Clean(before, t) /\ t.r = next.r
    BY <1>3, ExceptRunClean, SMTT(30) DEF Chosen
<1> HIDE DEF t
<1>5. Clean(before, Emitted(t, next.a, n))
    BY <1>3, <1>4, EmittedClean, SMTT(30) DEF Chosen
<1> QED
    BY <1>5, SMTT(30) DEF UpdateToActs, EmitSettled, t, next, more

\* check_more_activations
LEMMA CheckMoreActivationsClean ==
    ASSUME NEW r, IsRun(r), NEW n
    PROVE  Clean(r.act, CheckMoreActivations(r, n))
<1> DEFINE more == CheckMore(r)
<1>1. Chosen(r.act, more)
    BY CheckMoreChosen, SMTT(30)
<1> HIDE DEF more
<1>2. Clean(r.act, Step(more.r)) /\ Step(more.r).r = more.r
    BY <1>1, StepClean, SMTT(30) DEF Chosen
<1>3. Clean(r.act, UpdateToActs(Step(more.r), more.a, n))
    BY <1>1, <1>2, UpdateToActsClean DEF Chosen
<1> QED
    BY <1>3 DEF CheckMoreActivations, more

\* request_eviction
LEMMA RequestEvictionOnlyClean ==
    ASSUME NEW r, IsRun(r), NEW reason, NEW reply, NEW n
    PROVE  Clean(r.act, RequestEvictionOnly(r, reason, reply, n))
<1> DEFINE why == [reason |-> reason, reply |-> reply]
           clear == ~KeepsQueries(reason) /\ ~PendingWorkIsLegacyQuery(r)
           asked == [r EXCEPT !.evict = why, !.wft.queries = IF clear THEN "none" ELSE @]
<1>1. Keeps(r, [r EXCEPT !.evict = why])
    BY DEF Keeps, IsRun, NewRun
<1>2. Keeps(r, asked)
    BY DEF Keeps, IsRun, NewRun
<1> HIDE DEF asked
<1>3. Clean(r.act, CheckMoreActivations(asked, n)) /\ Clean(r.act, Step([r EXCEPT !.evict = why]))
    BY <1>1, <1>2, CheckMoreActivationsClean, StepClean, ZenonT(30) DEF Keeps
<1> QED
    BY <1>3 DEF RequestEvictionOnly, asked

-----------------------------------------------------------------------------
(* Completions *)

\* Two changes that keep the outstanding activation, and none at all.
LEMMA KeepsThen ==
    ASSUME NEW r, NEW q, Keeps(r, q)
    PROVE  /\ IsRun(r) => Keeps(r, r)
           /\ IsRun(q)
           /\ \A p : Keeps(q, p) => Keeps(r, p)
BY DEF Keeps

\* prepare_complete_resp
LEMMA PrepareCompleteRespRun ==
    ASSUME NEW r, IsRun(r), NEW c, NEW due
    PROVE  Keeps(r, PrepareCompleteResp(r, c, due).r)
<1>1. ASSUME NEW m PROVE Keeps(r, [r EXCEPT !.m = m])
    BY DEF Keeps, IsRun, NewRun
<1> QED
    BY <1>1 DEF PrepareCompleteResp, Keeps

\* sink_la_requests
LEMMA SinkLaRequestsRun ==
    ASSUME NEW r, IsRun(r), NEW m
    PROVE  Keeps(r, SinkLaRequests(r, m))
<1>1. Keeps(r, [r EXCEPT !.m = m, !.las = CancelAllInRun(@)])
    BY DEF Keeps, IsRun, NewRun
<1>2. Keeps(r, [r EXCEPT !.m = DrainLocalActivities(m), !.las.pending = @ + m.requested])
    BY DEF Keeps, IsRun, NewRun
<1> QED
    BY <1>1, <1>2 DEF SinkLaRequests

\* The end of _process_completion.
LEMMA RespondOrWaitRun ==
    ASSUME NEW r, IsRun(r), NEW c, NEW auto
    PROVE  Keeps(r, RespondOrWait(r, c, auto).r)
<1>1. ASSUME NEW w, NEW due
      PROVE  /\ Keeps(r, [r EXCEPT !.waiting = w])
             /\ Keeps(r, PrepareCompleteResp([r EXCEPT !.waiting = w], c, due).r)
    <2> DEFINE now == [r EXCEPT !.waiting = w]
    <2>1. Keeps(r, now)
        BY SMTT(30) DEF Keeps, IsRun, NewRun
    <2> HIDE DEF now
    <2>2. Keeps(r, PrepareCompleteResp(now, c, due).r)
        BY <2>1, PrepareCompleteRespRun, KeepsThen, SMTT(30)
    <2> QED
        BY <2>1, <2>2 DEF now
<1> QED
    BY <1>1 DEF RespondOrWait

\* _process_completion
LEMMA ProcessCompletionRun ==
    ASSUME NEW r, IsRun(r), NEW c, NEW fed, NEW o
    PROVE  Keeps(r, ProcessCompletion(r, c, fed, o).r)
<1>1. ASSUME NEW done
      PROVE  Keeps(r, Processed(r, c, done).r)
    <2>1. Keeps(r, [r EXCEPT !.m = done.m])
        BY DEF Keeps, IsRun, NewRun
    <2>2. Keeps(r, SinkLaRequests(r, done.m))
        BY SinkLaRequestsRun, SMTT(30)
    <2>3. Keeps(r, RespondOrWait(SinkLaRequests(r, done.m), c, r.act = "auto" /\ r.waiting # "no").r)
        BY <2>2, RespondOrWaitRun DEF Keeps
    <2> QED
        BY <2>1, <2>3 DEF Processed
<1>2. Keeps(r, PrepareCompleteResp(r, c, FALSE).r)
    BY PrepareCompleteRespRun, ZenonT(30)
<1> QED
    BY <1>1, <1>2, Zenon DEF ProcessCompletion

\* The run replies, then looks for its next activation.
LEMMA RepliesClean ==
    ASSUME NEW r, IsRun(r), NEW id, NEW answer, NEW n
    PROVE  Clean(r.act, UpdateToActs(Reply(Step(r), id, answer), "none", n))
<1> DEFINE s == Reply(Step(r), id, answer)
<1>1. Clean(r.act, s)
    BY StepClean, ReplyClean
<1> HIDE DEF s
<1> QED
    BY <1>1, UpdateToActsClean, ZenonT(30) DEF s

\* Failing the workflow instead of the task.
LEMMA FailWorkflowInsteadClean ==
    ASSUME NEW r, IsRun(r), NEW id, NEW n
    PROVE  Clean(r.act, FailWorkflowInstead(r, id, n))
<1>1. ASSUME NEW p, Keeps(r, p.r)
      PROVE  Clean(r.act, FailedInstead(r, id, p, n))
    <2>1. Keeps(r, [p.r EXCEPT !.broken = TRUE, !.evict.reason = "Fatal"])
        BY <1>1 DEF Keeps, IsRun, NewRun
    <2>2. Clean(r.act, Reply(Step([p.r EXCEPT !.broken = TRUE, !.evict.reason = "Fatal"]), id,
                      Report("fail", r.wft)))
        BY <2>1, StepClean, ReplyClean, ZenonT(30) DEF Keeps
    <2>3. Clean(r.act, UpdateToActs(Reply(Step(p.r), id, p.out), "none", n))
        BY <1>1, RepliesClean DEF Keeps
    <2> QED
        BY <2>2, <2>3 DEF FailedInstead
<1>2. ASSUME NEW p, Keeps(r, p.r), NEW c
      PROVE  Keeps(r, OnceMore(p, c, n).r)
    <2> DEFINE q == [p.r EXCEPT !.broken = TRUE, !.evict.reason = "Nondeterminism"]
    <2>1. Keeps(r, q)
        BY <1>2 DEF Keeps, IsRun, NewRun
    <2> HIDE DEF q
    <2>2. Keeps(r, ProcessCompletion(q, c, FALSE, n).r)
        BY <2>1, ProcessCompletionRun, KeepsThen, ZenonT(30)
    <2> QED
        BY <1>2, <2>2, Zenon DEF OnceMore, q
<1>3. ASSUME NEW c
      PROVE  Clean(r.act, FailedInstead(r, id, OnceMore(ProcessCompletion(r, c, FALSE, n), c, n), n))
    BY <1>1, <1>2, ProcessCompletionRun, ZenonT(30)
<1>4. ASSUME NEW c
      PROVE  Clean(r.act, Step([r EXCEPT !.onPage = c, !.paginator = FALSE]))
    <2>1. Keeps(r, [r EXCEPT !.onPage = c, !.paginator = FALSE])
        BY DEF Keeps, IsRun, NewRun
    <2> QED
        BY <2>1, StepClean, Zenon DEF Keeps
<1>5. {"page_request_when_failing", "eviction_reply_with_commands"} \cap Collisions = {}
    BY DEF Collisions
<1> DEFINE cmd == [FailWorkflow(id) EXCEPT !.commands = ~(r.act = "evict"),
                                           !.terminal = ~(r.act = "evict")]
           c == RunActivationCompletion(r, cmd, TRUE)
<1>6. /\ Clean(r.act, Trip(Step([r EXCEPT !.onPage = c, !.paginator = FALSE]), "page_request_when_failing"))
      /\ Clean(r.act, TripIf(FailedInstead(r, id, OnceMore(ProcessCompletion(r, c, FALSE, n), c, n), n),
                      r.act = "evict", "eviction_reply_with_commands"))
    <2> HIDE DEF c
    <2> QED
        BY <1>3, <1>4, <1>5, TripClean, ZenonT(30)
<1> QED
    BY <1>6, Zenon DEF FailWorkflowInstead

\* failed_completion
LEMMA FailedCompletionClean ==
    ASSUME NEW r, IsRun(r), NEW cause, NEW reason, NEW auto, NEW id, NEW n
    PROVE  Clean(r.act, FailedCompletion(r, cause, reason, auto, id, n))
<1>1. ASSUME NEW s, Clean(r.act, s), NEW unreported
      PROVE  Clean(r.act, FailedAfter(s, r.wft, cause, unreported, id, n))
    <2>1. /\ Clean(r.act, [s EXCEPT !.acts = <<>>])
          /\ [s EXCEPT !.acts = <<>>].r = s.r
          /\ Clean(s.r.act, FailWorkflowInstead(s.r, id, n))
        BY <1>1, ExceptActsClean, FailWorkflowInsteadClean, SMTT(30) DEF Clean
    <2>2. Clean(r.act, Then([s EXCEPT !.acts = <<>>], FailWorkflowInstead(s.r, id, n)))
        BY <2>1, ThenClean, Zenon
    <2> QED
        BY <1>1, <2>2, ReplyClean, SMTT(30) DEF FailedAfter
<1>2. Clean(r.act, Step(r)) /\ Clean(r.act, RequestEvictionOnly(r, reason, NoReply, n))
    BY StepClean, RequestEvictionOnlyClean
<1>3. Clean(r.act, Trip(Reply(Step(r), id, Nothing), "failing_without_a_task"))
    BY <1>2, ReplyClean, TripClean DEF Collisions
<1> QED
    BY <1>1, <1>2, <1>3, ZenonT(30) DEF FailedCompletion

\* update_to_acts for what _process_completion returned.
LEMMA FinishCompletionClean ==
    ASSUME NEW p, IsRun(p.r), NEW id, NEW n
    PROVE  Clean(p.r.act, FinishCompletion(p, id, n))
<1>1. IsRun([p.r EXCEPT !.broken = TRUE]) /\ [p.r EXCEPT !.broken = TRUE].act = p.r.act
    BY DEF IsRun, NewRun
<1> QED
    BY <1>1, RepliesClean, FailedCompletionClean, ZenonT(30) DEF FinishCompletion

\* successful_completion
LEMMA SuccessfulCompletionClean ==
    ASSUME NEW r, IsRun(r), NEW c, NEW o, NEW n
    PROVE  Clean(r.act, SuccessfulCompletion(r, c, o, n))
<1> DEFINE rac == RunActivationCompletion(r, c, FALSE)
           answer == IF r.evict.reply = NoReply THEN Nothing ELSE Report("fail", r.evict.reply)
           replied == [r EXCEPT !.evict.reply = NoReply]
           parked == [r EXCEPT !.onPage = rac, !.paginator = FALSE]
           p == IF ReadyToApplyNextWft(r.m) THEN ProcessCompletion(r, rac, FALSE, o)
                ELSE [r |-> r, err |-> "fatal", out |-> Nothing]
<1>1. Keeps(r, replied) /\ Keeps(r, parked)
    BY DEF Keeps, IsRun, NewRun
<1>2. Clean(r.act, TripIf(Reply(Step(replied), c.id, answer), ~(r.act = "evict"),
                          "completion_without_a_task"))
    <2> HIDE DEF replied, answer
    <2> QED
        BY <1>1, StepClean, ReplyClean, TripClean, ZenonT(30) DEF Collisions, Keeps
<1>3. Clean(r.act, Reply(Step(r), c.id, Report("query", r.wft)))
    BY StepClean, ReplyClean
<1>4. Clean(r.act, [Step(parked) EXCEPT !.fetch = TRUE])
    <2> HIDE DEF parked
    <2> QED
        BY <1>1, StepClean DEF Keeps, Clean, IsStep, IsRun, Step, NewRun
<1>5. Keeps(r, p.r)
    <2>1. Keeps(r, ProcessCompletion(r, rac, FALSE, o).r)
        BY ProcessCompletionRun, Zenon
    <2>2. Keeps(r, r)
        BY DEF Keeps
    <2> QED
        BY <2>1, <2>2, Zenon
<1>6. Clean(r.act, FinishCompletion(p, c.id, n))
    <2> HIDE DEF p
    <2> QED
        BY <1>5, FinishCompletionClean DEF Keeps
<1> QED
    BY <1>2, <1>3, <1>4, <1>6, ZenonT(30) DEF SuccessfulCompletion

\* fetched_page_completion
LEMMA FetchedPageCompletionClean ==
    ASSUME NEW r, IsRun(r), NEW o, NEW n
    PROVE  Clean(r.act, FetchedPageCompletion(r, o, n))
<1> DEFINE run == [r EXCEPT !.paginator = TRUE, !.onPage = NoCompletion]
<1>1. Keeps(r, run)
    BY DEF Keeps, IsRun, NewRun
<1> HIDE DEF run
<1>2. Clean(r.act, FinishCompletion(ProcessCompletion(run, r.onPage, TRUE, o), r.onPage.id, n))
    <2>1. Keeps(r, ProcessCompletion(run, r.onPage, TRUE, o).r)
        BY <1>1, ProcessCompletionRun, KeepsThen, ZenonT(30)
    <2> QED
        BY <2>1, FinishCompletionClean, Zenon DEF Keeps
<1>3. Clean(r.act, [Step(run) EXCEPT !.r.broken = TRUE, !.acts = <<"autofail">>])
    BY <1>1, StepClean, BrokenClean, ZenonT(30) DEF Keeps
<1>4. Clean(r.act, Trip([Step(run) EXCEPT !.r.broken = TRUE, !.acts = <<"autofail">>],
                 "page_for_no_completion"))
    BY <1>3, TripClean, SMTT(30) DEF Collisions
<1> QED
    BY <1>2, <1>4, Zenon DEF FetchedPageCompletion, run

\* request_eviction, of a run that may have a completion waiting on a page.
LEMMA RequestEvictionClean ==
    ASSUME NEW r, IsRun(r), NEW reason, NEW reply, NEW n
    PROVE  Clean(r.act, RequestEviction(r, reason, reply, n))
<1>1. Keeps(r, [r EXCEPT !.onPage = NoCompletion])
    BY DEF Keeps, IsRun, NewRun
<1> QED
    BY <1>1, FailedCompletionClean, RequestEvictionOnlyClean, ZenonT(30) DEF RequestEviction, Keeps

-----------------------------------------------------------------------------
(* Local activities *)

\* local_resolution
LEMMA ResolveLocallyClean ==
    ASSUME NEW r, IsRun(r), NEW n
    PROVE  Clean(r.act, ResolveLocally(r, n))
<1>1. ASSUME NEW m
      PROVE  /\ Clean(r.act, [Step([r EXCEPT !.m = m]) EXCEPT !.r.broken = TRUE, !.acts = <<"autofailNde">>])
             /\ Clean(r.act, CheckMoreActivations([r EXCEPT !.m = m], n))
    <2> DEFINE run == [r EXCEPT !.m = m]
    <2>1. Keeps(r, run)
        BY DEF Keeps, IsRun, NewRun
    <2> HIDE DEF run
    <2>2. Clean(r.act, [Step(run) EXCEPT !.r.broken = TRUE, !.acts = <<"autofailNde">>])
        BY <2>1, StepClean, BrokenClean, ZenonT(30) DEF Keeps
    <2>3. Clean(r.act, CheckMoreActivations(run, n))
        BY <2>1, CheckMoreActivationsClean DEF Keeps
    <2> QED
        BY <2>2, <2>3, SMTT(30) DEF run
<1> QED
    BY <1>1, Zenon DEF ResolveLocally

\* heartbeat_timeout emits an autocomplete only if no activation is outstanding.
LEMMA HeartbeatTimeoutClean ==
    ASSUME NEW r, IsRun(r), NEW n
    PROVE  Clean(r.act, HeartbeatTimeout(r, n))
<1> DEFINE waits == r.waiting # "no"
           due == IF waits THEN [r EXCEPT !.waiting = "due"] ELSE r
           a == IF waits /\ r.act = "none" THEN "auto" ELSE "none"
<1>1. IsRun(due) /\ due.act = r.act
    BY DEF IsRun, NewRun
<1>2. a \in Emittable \cup {"none"} /\ (a # "none" => r.act = "none")
    BY DEF Emittable
<1> HIDE DEF due, a
<1>3. Clean(r.act, Step(due)) /\ Step(due).r = due
    BY <1>1, StepClean, SMTT(30)
<1>4. Clean(r.act, UpdateToActs(Step(due), a, n))
    BY <1>1, <1>2, <1>3, UpdateToActsClean
<1> QED
    BY <1>4 DEF HeartbeatTimeout, due, a
=============================================================================
