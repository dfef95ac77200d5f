---------------------------- MODULE SequenceLemmas --------------------------
(***************************************************************************)
(* Induction on the natural numbers, and what a function defined by        *)
(* recursion on them is, upwards or downwards; from these how FlattenSeq   *)
(* grows with its sequence and where in it each of its parts lies; and     *)
(* what RemoveFirst leaves.                                                *)
(* The step of a recursion is given as a function and the induction        *)
(* hypothesis as a set, so that no lemma has an operator for a parameter.  *)
(***************************************************************************)
EXTENDS Integers, Sequences, SequencesExt, SequenceTheorems, WellFoundedInduction, TLAPS

(* A set of natural numbers that is not empty has a least element.         *)
LEMMA LeastNat ==
  ASSUME NEW T, T \subseteq Nat, T # {}
  PROVE  \E m \in T : \A k \in T : m <= k
<1> DEFINE R == OpToRel(<, Nat)
<1>1. IsWellFoundedOn(R, Nat)
  BY NatLessThanWellFounded, Zenon
<1>2. \A j, k \in Nat : j < k => <<j, k>> \in R
  BY DEF OpToRel
<1> HIDE DEF R
<1>3. PICK m \in T : \A k \in T : ~<<k, m>> \in R
  BY <1>1, WFMin
<1>4. ASSUME NEW k \in T PROVE m <= k
  <2>1. m \in Nat /\ k \in Nat /\ ~(k < m)
    BY <1>2, <1>3
  <2> QED
    BY <2>1
<1> QED
  BY <1>4, Zenon

(* Induction, the hypothesis being membership of a set.                    *)
LEMMA NatInduct ==
  ASSUME NEW S, 0 \in S, \A n \in Nat : n \in S => n + 1 \in S
  PROVE  Nat \subseteq S
<1> SUFFICES ASSUME Nat \ S # {} PROVE FALSE
  OBVIOUS
<1>1. PICK m \in Nat \ S : \A k \in Nat \ S : m <= k
  BY LeastNat
<1>2. m # 0 /\ m - 1 \in Nat /\ m - 1 \notin Nat \ S
  BY <1>1
<1> QED
  BY <1>1, <1>2

(* The function that a recursion from first, by step[i] at i, defines on   *)
(* 0..n is there.                                                          *)
Follows(f, n, first, step) == f[0] = first /\ \A i \in 1..n : f[i] = step[i][f[i - 1]]

(* By induction on n.                                                      *)
LEMMA RecursionExists ==
  ASSUME NEW V, NEW first \in V, NEW step \in [Nat -> [V -> V]], NEW n \in Nat
  PROVE  \E f \in [0..n -> V] : Follows(f, n, first, step)
<1> DEFINE S == {m \in Nat : \E f \in [0..m -> V] : Follows(f, m, first, step)}
<1>1. 0 \in S
  <2>1. [i \in 0..0 |-> first] \in [0..0 -> V]
    OBVIOUS
  <2>2. Follows([i \in 0..0 |-> first], 0, first, step)
    BY DEF Follows
  <2> QED
    BY <2>1, <2>2
<1>2. ASSUME NEW m \in Nat, m \in S PROVE m + 1 \in S
  <2>1. PICK f \in [0..m -> V] : Follows(f, m, first, step)
    BY <1>2
  <2> DEFINE g == [i \in 0..m + 1 |-> IF i = m + 1 THEN step[m + 1][f[m]] ELSE f[i]]
  <2>2. g \in [0..m + 1 -> V]
    OBVIOUS
  <2>3. \A i \in 1..m : g[i] = f[i] /\ g[i - 1] = f[i - 1]
    OBVIOUS
  <2>4. g[0] = f[0] /\ g[m + 1] = step[m + 1][g[m]]
    OBVIOUS
  <2> HIDE DEF g
  <2>5. Follows(g, m + 1, first, step)
    <3>1. \A i \in 1..m + 1 : i \in 1..m \/ (i = m + 1 /\ i - 1 = m)
      OBVIOUS
    <3> QED
      BY <2>1, <2>3, <2>4, <3>1 DEF Follows
  <2> QED
    BY <2>2, <2>5
<1> HIDE DEF S
<1>3. n \in S
  BY <1>1, <1>2, NatInduct
<1> QED
  BY <1>3 DEF S

(* Two functions that start alike and go on alike are alike.               *)
LEMMA Alike ==
  ASSUME NEW f, NEW g, NEW n \in Nat, f[0] = g[0],
         \A i \in 1..n : f[i - 1] = g[i - 1] => f[i] = g[i]
  PROVE  \A i \in 0..n : f[i] = g[i]
<1> DEFINE S == {i \in Nat : i <= n => f[i] = g[i]}
<1>1. 0 \in S
  OBVIOUS
<1>2. ASSUME NEW i \in Nat, i \in S PROVE i + 1 \in S
  BY <1>2
<1> HIDE DEF S
<1>3. Nat \subseteq S
  BY <1>1, <1>2, NatInduct
<1> QED
  BY <1>3 DEF S

-----------------------------------------------------------------------------
(* FlattenSeq, by a function.                                              *)
Flattens(f, n, seqs) == f[0] = <<>> /\ \A i \in 1..n : f[i] = f[i - 1] \o seqs[i]

SameUpTo(n, s, t) == \A i \in 1..n : s[i] = t[i]
AreSeqs(V, n, seqs) == /\ n = Len(seqs) /\ (n = 0 => seqs = <<>>)
                       /\ \A i \in 1..n : seqs[i] \in Seq(V)

(* It depends on the sequences flattened only.                             *)
LEMMA FlattensAlike ==
  ASSUME NEW f, NEW g, NEW n \in Nat, NEW s, NEW t, SameUpTo(n, s, t),
         Flattens(f, n, s), Flattens(g, n, t)
  PROVE  f[n] = g[n]
<1>1. f[0] = g[0]
  BY DEF Flattens
<1>2. ASSUME NEW i \in 1..n, f[i - 1] = g[i - 1] PROVE f[i] = g[i]
  <2>1. f[i] = f[i - 1] \o s[i] /\ g[i] = g[i - 1] \o t[i] /\ s[i] = t[i]
    BY Zenon DEF Flattens, SameUpTo
  <2> QED
    BY <1>2, <2>1, Zenon
<1>3. \A i \in 0..n : f[i] = g[i]
  BY <1>1, <1>2, Alike
<1> QED
  BY <1>3

(* There is such a function.                                               *)
LEMMA FlattensExists ==
  ASSUME NEW V, NEW n \in Nat, NEW seqs, AreSeqs(V, n, seqs)
  PROVE  \E f \in [0..n -> Seq(V)] : Flattens(f, n, seqs)
<1> DEFINE step == [i \in Nat |-> [v \in Seq(V) |-> IF i \in 1..n THEN v \o seqs[i] ELSE v]]
<1>1. step \in [Nat -> [Seq(V) -> Seq(V)]]
  BY DEF AreSeqs
<1>2. ASSUME NEW i \in 1..n, NEW v \in Seq(V) PROVE step[i][v] = v \o seqs[i]
  <2>1. step[i] = [w \in Seq(V) |-> IF i \in 1..n THEN w \o seqs[i] ELSE w]
    OBVIOUS
  <2> HIDE DEF step
  <2> QED
    BY <2>1, Zenon
<1> HIDE DEF step
<1>3. <<>> \in Seq(V)
  OBVIOUS
<1>4. PICK f \in [0..n -> Seq(V)] : Follows(f, n, <<>>, step)
  BY <1>1, <1>3, RecursionExists
<1>5. ASSUME NEW i \in 1..n PROVE f[i] = f[i - 1] \o seqs[i]
  <2>1. i - 1 \in 0..n
    OBVIOUS
  <2>2. f[i - 1] \in Seq(V)
    BY <1>4, <2>1, Zenon
  <2>3. f[i] = step[i][f[i - 1]]
    BY <1>4, Zenon DEF Follows
  <2> QED
    BY <1>2, <2>2, <2>3, Zenon
<1>6. f[0] = <<>>
  BY <1>4, Zenon DEF Follows
<1>7. Flattens(f, n, seqs)
  BY <1>5, <1>6, Zenon DEF Flattens
<1> QED
  BY <1>4, <1>7, Zenon

(* What FlattenSeq chooses is that function.                               *)
LEMMA FlattenIs ==
  ASSUME NEW V, NEW seqs, NEW n \in Nat, n # 0, AreSeqs(V, n, seqs)
  PROVE  \E f \in [0..n -> Seq(V)] : Flattens(f, n, seqs) /\ FlattenSeq(seqs) = f[n]
<1>1. PICK f \in [0..n -> Seq(V)] : Flattens(f, n, seqs)
  BY FlattensExists
<1> DEFINE B(F) == [i \in 1..n |-> IF i = 1 THEN seqs[i] ELSE F[i - 1] \o seqs[i]]
           G == CHOOSE F : F = B(F)
           h == [i \in 1..n |-> f[i]]
<1>2. FlattenSeq(seqs) = G[n]
  BY DEF FlattenSeq, AreSeqs
<1>3. \A s \in Seq(V) : <<>> \o s = s
  OBVIOUS
<1>4. ASSUME NEW i \in 1..n PROVE h[i] = IF i = 1 THEN seqs[i] ELSE h[i - 1] \o seqs[i]
  <2>1. f[i] = f[i - 1] \o seqs[i]
    BY <1>1, Zenon DEF Flattens
  <2>2. CASE i = 1
    <3>1. f[0] = <<>> /\ f[i - 1] = f[0]
      BY <1>1, <2>2 DEF Flattens
    <3>2. f[i] = seqs[i]
      BY <1>3, <2>1, <3>1, Zenon DEF AreSeqs
    <3> QED
      BY <2>2, <3>2
  <2>3. CASE i # 1
    <3>1. i - 1 \in 1..n
      BY <2>3
    <3>2. h[i - 1] = f[i - 1] /\ h[i] = f[i]
      BY <3>1
    <3> QED
      BY <2>1, <2>3, <3>2
  <2> QED
    BY <2>2, <2>3
<1>5. h = B(h)
  BY <1>4
<1>6. G = B(G)
  <2> HIDE DEF h
  <2>1. \E F : F = B(F)
    BY <1>5, Zenon
  <2> HIDE DEF B
  <2> QED
    BY <2>1, Zenon
<1> HIDE DEF G, h
<1>7. \A i \in 1..n : G[i] = IF i = 1 THEN seqs[i] ELSE G[i - 1] \o seqs[i]
  BY <1>6
<1> DEFINE g == [i \in 0..n |-> IF i = 0 THEN <<>> ELSE G[i]]
<1>8. g[0] = <<>> /\ g[n] = G[n]
  OBVIOUS
<1>9. ASSUME NEW i \in 1..n PROVE g[i] = g[i - 1] \o seqs[i]
  <2>1. g[i] = G[i]
    OBVIOUS
  <2>2. CASE i = 1
    <3>1. g[i - 1] = <<>>
      BY <2>2
    <3> HIDE DEF g
    <3>2. g[i] = seqs[i]
      BY <1>7, <2>1, <2>2, Zenon
    <3> QED
      BY <1>3, <3>1, <3>2, Zenon DEF AreSeqs
  <2>3. CASE i # 1
    <3>1. g[i - 1] = G[i - 1]
      BY <2>3
    <3> HIDE DEF g
    <3> QED
      BY <1>7, <2>1, <2>3, <3>1, Zenon
  <2> QED
    BY <2>2, <2>3
<1> HIDE DEF g
<1>10. Flattens(g, n, seqs)
  BY <1>8, <1>9, Zenon DEF Flattens
<1>11. f[n] = g[n]
  BY <1>1, <1>10, FlattensAlike DEF SameUpTo
<1> QED
  BY <1>1, <1>2, <1>8, <1>11

(* Nothing flattened is nothing.                                           *)
LEMMA FlattenNone == FlattenSeq(<<>>) = <<>>
BY DEF FlattenSeq

(* A longer sequence of sequences has what is at its end at the end.       *)
LEMMA FlattenLonger ==
  ASSUME NEW V, NEW seqs, NEW longer, NEW n \in Nat, AreSeqs(V, n, seqs),
         AreSeqs(V, n + 1, longer), SameUpTo(n, seqs, longer)
  PROVE  FlattenSeq(seqs) \in Seq(V) /\ FlattenSeq(longer) = FlattenSeq(seqs) \o longer[n + 1]
<1>1. PICK g \in [0..n + 1 -> Seq(V)] :
        Flattens(g, n + 1, longer) /\ FlattenSeq(longer) = g[n + 1]
  <2>1. n + 1 \in Nat /\ n + 1 # 0
    OBVIOUS
  <2> QED
    BY <2>1, FlattenIs
<1>2. g[n + 1] = g[n] \o longer[n + 1] /\ g[0] = <<>> /\ g[n] \in Seq(V)
  <2>1. n + 1 \in 1..n + 1 /\ (n + 1) - 1 = n /\ n \in 0..n + 1
    OBVIOUS
  <2> QED
    BY <1>1, <2>1 DEF Flattens
<1>3. FlattenSeq(seqs) = g[n]
  <2>1. CASE n = 0
    BY <1>2, <2>1, FlattenNone DEF AreSeqs
  <2>2. CASE n # 0
    <3>1. PICK f \in [0..n -> Seq(V)] : Flattens(f, n, seqs) /\ FlattenSeq(seqs) = f[n]
      BY <2>2, FlattenIs
    <3>2. Flattens(g, n, longer)
      <4>1. \A i \in 1..n : i \in 1..n + 1
        OBVIOUS
      <4> QED
        BY <1>1, <4>1, Zenon DEF Flattens
    <3>3. f[n] = g[n]
      BY <3>1, <3>2, FlattensAlike
    <3> QED
      BY <3>1, <3>3
  <2> QED
    BY <2>1, <2>2
<1> QED
  BY <1>1, <1>2, <1>3

(* One sequence more is appended.                                          *)
LEMMA FlattenAppend ==
  ASSUME NEW V, NEW seqs \in Seq(Seq(V)), NEW s \in Seq(V)
  PROVE  /\ FlattenSeq(seqs) \in Seq(V)
         /\ FlattenSeq(Append(seqs, s)) = FlattenSeq(seqs) \o s
<1> DEFINE n == Len(seqs)  longer == Append(seqs, s)
<1>1. n \in Nat /\ longer[n + 1] = s
  OBVIOUS
<1>2. SameUpTo(n, seqs, longer)
  BY DEF SameUpTo
<1>3. AreSeqs(V, n + 1, longer)
  BY DEF AreSeqs
<1>4. AreSeqs(V, n, seqs)
  BY DEF AreSeqs
<1> HIDE DEF longer, n
<1>5. FlattenSeq(seqs) \in Seq(V) /\ FlattenSeq(longer) = FlattenSeq(seqs) \o longer[n + 1]
  BY <1>1, <1>2, <1>3, <1>4, FlattenLonger, SMTT(20)
<1> QED
  BY <1>1, <1>5 DEF longer

-----------------------------------------------------------------------------
(* Small facts about concatenation.                                        *)
LEMMA ConcatAppend ==
  ASSUME NEW V, NEW a \in Seq(V), NEW b \in Seq(V), NEW x \in V
  PROVE  a \o Append(b, x) = Append(a \o b, x)
<1> DEFINE l == a \o Append(b, x)  r == Append(a \o b, x)
<1>1. l \in Seq(V) /\ r \in Seq(V) /\ Len(l) = Len(a) + Len(b) + 1 /\ Len(r) = Len(l)
  OBVIOUS
<1>2. ASSUME NEW i \in 1..Len(l) PROVE l[i] = r[i]
  OBVIOUS
<1> HIDE DEF l, r
<1>3. l = [i \in 1..Len(l) |-> l[i]] /\ r = [i \in 1..Len(l) |-> r[i]]
  BY <1>1
<1>4. [i \in 1..Len(l) |-> l[i]] = [i \in 1..Len(l) |-> r[i]]
  BY <1>2
<1>5. l = r
  BY <1>3, <1>4, Zenon
<1> QED
  BY <1>5 DEF l, r

(* ... with nothing.                                                       *)
LEMMA ConcatNone == ASSUME NEW V, NEW a \in Seq(V) PROVE a \o <<>> = a /\ <<>> \o a = a
OBVIOUS

-----------------------------------------------------------------------------
(* What is where in a concatenation.                                       *)
LEMMA ConcatAt ==
  ASSUME NEW V, NEW a \in Seq(V), NEW b \in Seq(V)
  PROVE  /\ a \o b \in Seq(V) /\ Len(a) \in Nat /\ Len(b) \in Nat /\ Len(a \o b) = Len(a) + Len(b)
         /\ \A k \in 1..Len(a) : (a \o b)[k] = a[k]
         /\ \A k \in 1..Len(b) : (a \o b)[Len(a) + k] = b[k]
OBVIOUS

(* The places between the sequences of seqs in their concatenation s.      *)
CutBy(off, s, seqs) ==
  /\ off \in [0..Len(seqs) -> Nat] /\ off[0] = 0 /\ Len(s) = off[Len(seqs)]
  /\ \A i \in 1..Len(seqs) : off[i] = off[i - 1] + Len(seqs[i])
  /\ \A i \in 1..Len(seqs) : \A k \in 1..Len(seqs[i]) : s[off[i - 1] + k] = seqs[i][k]

(* A function that never falls from one place to the next never falls.     *)
LEMMA NeverFalls ==
  ASSUME NEW n \in Nat, NEW f \in [0..n -> Nat], \A i \in 1..n : f[i - 1] <= f[i]
  PROVE  \A i \in 0..n : \A j \in i..n : f[i] <= f[j]
<1> TAKE i \in 0..n
<1> DEFINE S == {d \in Nat : i + d <= n => f[i] <= f[i + d]}
<1>1. 0 \in S
  OBVIOUS
<1>2. ASSUME NEW d \in Nat, d \in S PROVE d + 1 \in S
  <2> SUFFICES ASSUME i + d + 1 <= n PROVE f[i] <= f[i + d + 1]
    OBVIOUS
  <2>1. i + d + 1 \in 1..n /\ (i + d + 1) - 1 = i + d /\ i + d \in 0..n
    OBVIOUS
  <2>2. f[i + d] <= f[i + d + 1]
    BY <2>1
  <2>3. f[i] <= f[i + d]
    BY <1>2
  <2> QED
    BY <2>1, <2>2, <2>3
<1> HIDE DEF S
<1>3. Nat \subseteq S
  BY <1>1, <1>2, NatInduct
<1>4. ASSUME NEW j \in i..n PROVE f[i] <= f[j]
  <2>1. j - i \in S /\ i + (j - i) = j
    BY <1>3
  <2> QED
    BY <2>1 DEF S
<1> QED
  BY <1>4

(* FlattenSeq puts the sequences one behind the other.                     *)
LEMMA FlattenCuts ==
  ASSUME NEW V, NEW seqs \in Seq(Seq(V))
  PROVE  \E off : FlattenSeq(seqs) \in Seq(V) /\ CutBy(off, FlattenSeq(seqs), seqs)
<1> DEFINE n == Len(seqs)
<1>1. n \in Nat /\ \A i \in 1..n : seqs[i] \in Seq(V)
  OBVIOUS
<1>2. CASE n = 0
  <2> DEFINE off == [i \in 0..0 |-> 0]
  <2>1. FlattenSeq(seqs) = <<>>
    BY <1>2, FlattenNone
  <2>2. off \in [0..n -> Nat] /\ off[0] = 0 /\ Len(<<>>) = off[n]
    BY <1>2
  <2> HIDE DEF off
  <2>3. CutBy(off, <<>>, seqs)
    BY <1>2, <2>2 DEF CutBy
  <2> QED
    BY <2>1, <2>3
<1>3. CASE n # 0
  <2>1. AreSeqs(V, n, seqs)
    BY <1>1, <1>3 DEF AreSeqs
  <2>2. PICK f \in [0..n -> Seq(V)] : Flattens(f, n, seqs) /\ FlattenSeq(seqs) = f[n]
    BY <1>3, <2>1, FlattenIs
  <2> HIDE DEF n
  <2> DEFINE off == [i \in 0..n |-> Len(f[i])]
  <2>3. off \in [0..n -> Nat] /\ f[n] \in Seq(V) /\ Len(f[n]) = off[n]
    BY <1>1
  <2>4. off[0] = 0
    BY <1>1, <2>2 DEF Flattens
  <2>5. ASSUME NEW i \in 1..n
        PROVE  /\ f[i] = f[i - 1] \o seqs[i] /\ f[i] \in Seq(V) /\ f[i - 1] \in Seq(V)
               /\ off[i - 1] = Len(f[i - 1]) /\ off[i] = Len(f[i])
               /\ off[i] = off[i - 1] + Len(seqs[i]) /\ Len(seqs[i]) \in Nat
    <3>1. i \in 0..n /\ i - 1 \in 0..n
      BY <1>1
    <3>2. f[i] = f[i - 1] \o seqs[i]
      BY <2>2 DEF Flattens
    <3>3. f[i] \in Seq(V) /\ f[i - 1] \in Seq(V) /\ seqs[i] \in Seq(V)
      BY <1>1, <3>1
    <3>4. off[i - 1] = Len(f[i - 1]) /\ off[i] = Len(f[i])
      BY <3>1
    <3> HIDE DEF off
    <3>5. Len(f[i - 1] \o seqs[i]) = Len(f[i - 1]) + Len(seqs[i]) /\ Len(seqs[i]) \in Nat
      BY <3>3, ConcatAt
    <3> QED
      BY <3>2, <3>3, <3>4, <3>5
  <2> HIDE DEF off
  <2>6. \A i \in 0..n : \A j \in i..n : off[i] <= off[j]
    <3>1. ASSUME NEW i \in 1..n PROVE off[i - 1] <= off[i]
      <4>1. i - 1 \in 0..n
        BY <1>1
      <4>2. off[i - 1] \in Nat
        BY <2>3, <4>1
      <4>3. off[i] = off[i - 1] + Len(seqs[i]) /\ Len(seqs[i]) \in Nat
        BY <2>5
      <4> QED
        BY <4>2, <4>3
    <3> QED
      BY <1>1, <2>3, <3>1, NeverFalls
  <2>7. ASSUME NEW i \in 1..n, NEW k \in 1..Len(seqs[i]) PROVE f[n][off[i - 1] + k] = seqs[i][k]
    <3> DEFINE S == {d \in Nat : i + d <= n => f[i + d][off[i - 1] + k] = seqs[i][k]}
    <3>1. 0 \in S
      <4>0. seqs[i] \in Seq(V) /\ f[i - 1] \in Seq(V)
        BY <1>1, <2>5
      <4>1. (f[i - 1] \o seqs[i])[Len(f[i - 1]) + k] = seqs[i][k]
        <5>1. \A a \in Seq(V), b \in Seq(V) : \A x \in 1..Len(b) : (a \o b)[Len(a) + x] = b[x]
          BY ConcatAt
        <5> QED
          BY <4>0, <5>1, Zenon
      <4>2. f[i][off[i - 1] + k] = seqs[i][k]
        BY <2>5, <4>1
      <4>3. i + 0 = i
        OBVIOUS
      <4> QED
        BY <4>2, <4>3
    <3>2. ASSUME NEW d \in Nat, d \in S PROVE d + 1 \in S
      <4> SUFFICES ASSUME i + (d + 1) <= n PROVE f[i + (d + 1)][off[i - 1] + k] = seqs[i][k]
        OBVIOUS
      <4> DEFINE j == i + (d + 1)
      <4>1. j \in 1..n /\ j - 1 = i + d /\ j - 1 \in i..n /\ i \in 0..n
        BY <1>1
      <4>2. f[j - 1][off[i - 1] + k] = seqs[i][k]
        BY <3>2, <4>1
      <4>3. off[i] <= off[j - 1] /\ off[i - 1] \in Nat
        BY <1>1, <2>3, <2>6, <4>1
      <4> HIDE DEF j
      <4>4. /\ f[j] = f[j - 1] \o seqs[j] /\ f[j - 1] \in Seq(V) /\ off[j - 1] = Len(f[j - 1])
            /\ seqs[j] \in Seq(V)
        BY <1>1, <2>5, <4>1
      <4>5. off[i - 1] + k \in 1..Len(f[j - 1])
        <5>1. off[i] = off[i - 1] + Len(seqs[i]) /\ Len(seqs[i]) \in Nat
          BY <2>5
        <5>2. off[j - 1] \in Nat
          BY <4>4, ConcatAt
        <5> QED
          BY <4>3, <4>4, <5>1, <5>2, SMTT(20)
      <4>6. (f[j - 1] \o seqs[j])[off[i - 1] + k] = f[j - 1][off[i - 1] + k]
        BY <4>4, <4>5, ConcatAt, ZenonT(30)
      <4> QED
        BY <4>2, <4>4, <4>6 DEF j
    <3> HIDE DEF S
    <3>3. n - i \in S
      <4>1. n - i \in Nat
        BY <1>1
      <4> QED
        BY <3>1, <3>2, <4>1, NatInduct
    <3>4. i + (n - i) = n /\ n - i \in Nat
      BY <1>1
    <3> QED
      BY <1>1, <3>3, <3>4 DEF S
  <2>8. CutBy(off, f[n], seqs)
    BY <2>3, <2>4, <2>5, <2>7 DEF CutBy, n
  <2> QED
    BY <2>2, <2>3, <2>8
<1> QED
  BY <1>2, <1>3

(* How long what follows the first n sequences is.                         *)
LEMMA FlattenTail ==
  ASSUME NEW V, NEW seqs \in Seq(Seq(V)), NEW off, NEW s, CutBy(off, s, seqs),
         NEW n \in 0..Len(seqs)
  PROVE  Len(FlattenSeq(SubSeq(seqs, n + 1, Len(seqs)))) = off[Len(seqs)] - off[n]
<1> DEFINE m == Len(seqs) - n  t == SubSeq(seqs, n + 1, Len(seqs))
<1>0. Len(seqs) \in Nat /\ n \in Nat
  OBVIOUS
<1>1. /\ t \in Seq(Seq(V)) /\ Len(t) = m /\ m \in Nat
      /\ \A i \in 1..m : t[i] = seqs[n + i] /\ n + i \in 1..Len(seqs)
  OBVIOUS
<1>2. off \in [0..Len(seqs) -> Nat] /\ \A i \in 1..Len(seqs) : off[i] = off[i - 1] + Len(seqs[i])
  BY DEF CutBy
<1> HIDE DEF t
<1>3. PICK rest : CutBy(rest, FlattenSeq(t), t)
  BY <1>1, FlattenCuts
<1>4. /\ rest \in [0..m -> Nat] /\ rest[0] = 0 /\ Len(FlattenSeq(t)) = rest[m]
      /\ \A i \in 1..m : rest[i] = rest[i - 1] + Len(t[i])
  BY <1>1, <1>3 DEF CutBy
<1> HIDE DEF m
<1> DEFINE S == {i \in Nat : i <= m => rest[i] = off[n + i] - off[n]}
<1>5. 0 \in S
  <2>1. n + 0 = n
    BY <1>0
  <2>2. off \in [0..Len(seqs) -> Nat]
    BY <1>2
  <2>3. off[n] \in Nat
    BY <2>2
  <2> QED
    BY <1>4, <2>1, <2>3
<1>6. ASSUME NEW i \in Nat, i \in S PROVE i + 1 \in S
  <2> SUFFICES ASSUME i + 1 <= m PROVE rest[i + 1] = off[n + (i + 1)] - off[n]
    OBVIOUS
  <2> DEFINE j == i + 1
  <2>1. j \in 1..m /\ j - 1 = i /\ n + j \in 1..Len(seqs) /\ (n + j) - 1 = n + i
        /\ n + i \in 0..Len(seqs) /\ n + j \in 0..Len(seqs)
    BY <1>0 DEF m
  <2>2. rest[i] = off[n + i] - off[n]
    BY <1>1, <1>6, <2>1
  <2> HIDE DEF j
  <2>3. rest[j] = rest[i] + Len(t[j])
    BY <1>4, <2>1
  <2>4. off[n + j] = off[n + i] + Len(seqs[n + j]) /\ t[j] = seqs[n + j]
    BY <1>1, <1>2, <2>1
  <2>5. off[n] \in Nat /\ off[n + i] \in Nat /\ off[n + j] \in Nat /\ Len(t[j]) \in Nat
    <3>1. t[j] \in Seq(V)
      BY <1>1, <2>1
    <3>2. off \in [0..Len(seqs) -> Nat]
      BY <1>2
    <3>3. off[n] \in Nat /\ off[n + i] \in Nat /\ off[n + j] \in Nat
      BY <2>1, <3>2
    <3> QED
      BY <3>1, <3>3
  <2>6. \A a, c, d \in Nat : (a - c) + d = (a + d) - c
    OBVIOUS
  <2>7. (off[n + i] - off[n]) + Len(t[j]) = (off[n + i] + Len(t[j])) - off[n]
    BY <2>5, <2>6, Zenon
  <2> QED
    BY <2>2, <2>3, <2>4, <2>7, Zenon DEF j
<1> HIDE DEF S
<1>7. m \in S
  BY <1>1, <1>5, <1>6, NatInduct
<1>8. rest[m] = off[n + m] - off[n] /\ n + m = Len(seqs)
  BY <1>1, <1>7 DEF S, m
<1> QED
  BY <1>4, <1>8 DEF t

(* A function whose values depend on those at greater places is there:     *)
(* at i it is last[i], or what step[i] makes of its value at next[i].      *)
Returns(f, m, next, last, step) ==
  \A i \in 1..m : f[i] = IF next[i] = 0 THEN last[i] ELSE step[i][f[next[i]]]

(* By induction on the number of places, from the greatest one down.       *)
LEMMA BackwardExists ==
  ASSUME NEW V, NEW m \in Nat, NEW next, NEW last \in [1..m -> V], NEW step \in [1..m -> [V -> V]],
         \A i \in 1..m : next[i] = 0 \/ next[i] \in i + 1..m
  PROVE  \E f \in [1..m -> V] : Returns(f, m, next, last, step)
<1> DEFINE From(d) == m + 1 - d..m
           Good(f, d) == /\ f \in [From(d) -> V]
                         /\ \A i \in From(d) : f[i] = IF next[i] = 0 THEN last[i] ELSE step[i][f[next[i]]]
           S == {d \in Nat : d <= m => \E f : Good(f, d)}
<1>1. 0 \in S
  <2>1. From(0) = {}
    OBVIOUS
  <2>2. Good([i \in {} |-> {}], 0)
    BY <2>1
  <2> QED
    BY <2>2
<1>2. ASSUME NEW d \in Nat, d \in S PROVE d + 1 \in S
  <2> SUFFICES ASSUME d + 1 <= m PROVE \E f : Good(f, d + 1)
    OBVIOUS
  <2>1. PICK f : Good(f, d)
    BY <1>2
  <2> DEFINE j == m - d
  <2>2. j \in 1..m /\ From(d) = j + 1..m /\ From(d + 1) = j..m
    OBVIOUS
  <2> HIDE DEF j
  <2>3. /\ f \in [j + 1..m -> V]
        /\ \A i \in j + 1..m : f[i] = IF next[i] = 0 THEN last[i] ELSE step[i][f[next[i]]]
    BY <2>1, <2>2
  <2> DEFINE x == IF next[j] = 0 THEN last[j] ELSE step[j][f[next[j]]]
             g == [i \in j..m |-> IF i = j THEN x ELSE f[i]]
  <2>4. x \in V
    BY <2>2, <2>3
  <2> HIDE DEF x
  <2>5. g \in [j..m -> V] /\ g[j] = x /\ \A i \in j + 1..m : g[i] = f[i]
    BY <2>2, <2>3, <2>4
  <2> HIDE DEF g
  <2>6. ASSUME NEW i \in j..m PROVE g[i] = IF next[i] = 0 THEN last[i] ELSE step[i][g[next[i]]]
    <3>1. next[i] # 0 => next[i] \in j + 1..m /\ g[next[i]] = f[next[i]]
      <4>1. i \in 1..m
        BY <2>2
      <4>2. next[i] # 0 => next[i] \in j + 1..m
        BY <2>2, <4>1
      <4> QED
        BY <2>5, <4>2
    <3>2. CASE i = j
      BY <2>5, <3>1, <3>2, Zenon DEF x
    <3>3. CASE i # j
      <4>1. i \in j + 1..m
        BY <2>2, <3>3
      <4> QED
        BY <2>3, <2>5, <3>1, <4>1, Zenon
    <3> QED
      BY <3>2, <3>3
  <2>7. Good(g, d + 1)
    BY <2>2, <2>5, <2>6, Zenon
  <2> QED
    BY <2>7, Zenon
<1> HIDE DEF S
<1>3. m \in S
  BY <1>1, <1>2, NatInduct
<1>4. \E f : Good(f, m)
  <2>1. \A d \in S : d <= m => \E f : Good(f, d)
    BY Zenon DEF S
  <2> HIDE DEF Good
  <2> QED
    BY <1>3, <2>1
<1>5. PICK f : Good(f, m)
  BY <1>4, Zenon
<1>6. From(m) = 1..m
  OBVIOUS
<1>7. f \in [1..m -> V] /\ Returns(f, m, next, last, step)
  BY <1>5, <1>6, Zenon DEF Returns
<1> QED
  BY <1>7, Zenon

(* What is where in a part of a sequence.                                  *)
LEMMA PartAt ==
  ASSUME NEW V, NEW s \in Seq(V), NEW a \in Nat, NEW b \in Nat, a <= b, b <= Len(s)
  PROVE  /\ SubSeq(s, a + 1, b) \in Seq(V) /\ Len(SubSeq(s, a + 1, b)) = b - a
         /\ \A i \in 1..b - a : SubSeq(s, a + 1, b)[i] = s[a + i]
OBVIOUS

(* The places are in order.                                                *)
LEMMA CutPlaces ==
  ASSUME NEW V, NEW seqs \in Seq(Seq(V)), NEW off, NEW s, CutBy(off, s, seqs)
  PROVE  /\ \A i \in 0..Len(seqs) : off[i] \in Nat /\ \A j \in i..Len(seqs) : off[i] <= off[j]
         /\ \A i \in 1..Len(seqs) : seqs[i] \in Seq(V) /\ Len(seqs[i]) \in Nat
<1>1. Len(seqs) \in Nat /\ off \in [0..Len(seqs) -> Nat]
  BY DEF CutBy
<1>2. ASSUME NEW i \in 1..Len(seqs) PROVE seqs[i] \in Seq(V) /\ Len(seqs[i]) \in Nat
  OBVIOUS
<1>3. ASSUME NEW i \in 1..Len(seqs) PROVE off[i - 1] <= off[i]
  <2>1. i - 1 \in 0..Len(seqs) /\ off[i] = off[i - 1] + Len(seqs[i])
    BY DEF CutBy
  <2>2. off[i - 1] \in Nat
    BY <1>1, <2>1
  <2> QED
    BY <1>2, <2>1, <2>2
<1>4. \A i \in 0..Len(seqs) : \A j \in i..Len(seqs) : off[i] <= off[j]
  BY <1>1, <1>3, NeverFalls
<1>5. \A i \in 0..Len(seqs) : off[i] \in Nat
  BY <1>1
<1> QED
  BY <1>2, <1>4, <1>5, Zenon

(* From one place to another one is a concatenation too.                   *)
LEMMA CutPart ==
  ASSUME NEW V, NEW seqs \in Seq(Seq(V)), NEW s \in Seq(V), NEW off, CutBy(off, s, seqs),
         NEW n \in 0..Len(seqs), NEW m \in n..Len(seqs)
  PROVE  /\ off[n] \in Nat /\ off[m] \in Nat /\ off[n] <= off[m] /\ off[m] <= Len(s)
         /\ CutBy([i \in 0..m - n |-> off[n + i] - off[n]], SubSeq(s, off[n] + 1, off[m]),
                  SubSeq(seqs, n + 1, m))
<1> DEFINE N == Len(seqs)
           part == [i \in 0..m - n |-> off[n + i] - off[n]]
           t == SubSeq(s, off[n] + 1, off[m])
           ts == SubSeq(seqs, n + 1, m)
<1>1. /\ N \in Nat /\ n \in 0..N /\ m \in 0..N /\ m \in n..N /\ N \in m..N
      /\ m - n \in Nat /\ 0 \in 0..N /\ n \in 0..n
  OBVIOUS
<1>2. /\ \A i \in 0..N : off[i] \in Nat /\ \A j \in i..N : off[i] <= off[j]
      /\ \A i \in 1..N : seqs[i] \in Seq(V) /\ Len(seqs[i]) \in Nat
  BY CutPlaces
<1>0. N = Len(seqs)
  OBVIOUS
<1> HIDE DEF N, t, ts
<1>3. /\ off[n] \in Nat /\ off[m] \in Nat /\ off[n] <= off[m] /\ off[m] <= off[N] /\ off[N] = Len(s)
      /\ off[N] \in Nat
  <2>1. off[N] = Len(s)
    BY <1>0 DEF CutBy
  <2>2. off[n] \in Nat /\ off[m] \in Nat /\ off[N] \in Nat
    <3>1. N \in 0..N
      BY <1>1
    <3> QED
      BY <1>1, <1>2, <3>1, Zenon
  <2>3. off[n] <= off[m] /\ off[m] <= off[N]
    BY <1>1, <1>2, Zenon
  <2> QED
    BY <2>1, <2>2, <2>3
<1>4. /\ \A i \in 1..N : off[i] = off[i - 1] + Len(seqs[i])
      /\ \A i \in 1..N : \A k \in 1..Len(seqs[i]) : s[off[i - 1] + k] = seqs[i][k]
  BY <1>0 DEF CutBy
<1>5. Len(ts) = m - n /\ \A i \in 1..m - n : ts[i] = seqs[n + i]
  <2>1. n \in Nat /\ m \in Nat /\ n <= m /\ m <= Len(seqs)
    BY <1>0, <1>1
  <2> QED
    BY <2>1, PartAt DEF ts
<1>6. /\ Len(t) = off[m] - off[n]
      /\ \A i \in 1..off[m] - off[n] : t[i] = s[off[n] + i]
  <2> DEFINE a == off[n]  b == off[m]
  <2>1. a \in Nat /\ b \in Nat /\ a <= b /\ b <= Len(s)
    BY <1>3
  <2> HIDE DEF a, b
  <2>2. /\ Len(SubSeq(s, a + 1, b)) = b - a
        /\ \A i \in 1..b - a : SubSeq(s, a + 1, b)[i] = s[a + i]
    BY <2>1, PartAt
  <2> QED
    BY <2>2 DEF a, b, t
<1>7. part \in [0..m - n -> Nat] /\ part[0] = 0 /\ Len(t) = part[m - n]
  <2>1. ASSUME NEW i \in 0..m - n PROVE off[n + i] - off[n] \in Nat
    <3>1. n + i \in 0..N /\ n + i \in n..N
      BY <1>1
    <3>2. off[n + i] \in Nat /\ off[n] <= off[n + i]
      BY <1>1, <1>2, <3>1
    <3> QED
      BY <1>3, <3>2
  <2>2. n + 0 = n /\ n + (m - n) = m /\ 0 \in 0..m - n /\ m - n \in 0..m - n
    BY <1>1
  <2>3. part[0] = off[n] - off[n] /\ part[m - n] = off[m] - off[n]
    BY <2>2
  <2>4. part \in [0..m - n -> Nat]
    BY <2>1
  <2> HIDE DEF part
  <2>5. off[n] - off[n] = 0
    BY <1>3
  <2> QED
    BY <1>6, <2>3, <2>4, <2>5
<1>8. ASSUME NEW i \in 1..m - n
      PROVE  /\ part[i] = part[i - 1] + Len(ts[i])
             /\ \A k \in 1..Len(ts[i]) : t[part[i - 1] + k] = ts[i][k]
  <2>1. /\ n + i \in 1..N /\ (n + i) - 1 \in 0..N /\ i - 1 \in 0..m - n /\ i \in 0..m - n
        /\ n + (i - 1) = (n + i) - 1 /\ n + i \in 0..N /\ (n + i) - 1 \in n..N /\ m \in n + i..N
    BY <1>1
  <2>2. part[i] = off[n + i] - off[n] /\ part[i - 1] = off[(n + i) - 1] - off[n] /\ ts[i] = seqs[n + i]
    BY <1>5, <2>1
  <2> HIDE DEF part
  <2>3. /\ off[n + i] = off[(n + i) - 1] + Len(seqs[n + i])
        /\ \A k \in 1..Len(seqs[n + i]) : s[off[(n + i) - 1] + k] = seqs[n + i][k]
    BY <1>4, <2>1
  <2>4. /\ off[(n + i) - 1] \in Nat /\ off[n + i] \in Nat /\ Len(seqs[n + i]) \in Nat
        /\ off[n] <= off[(n + i) - 1] /\ off[n + i] <= off[m]
    BY <1>1, <1>2, <2>1
  <2> DEFINE x == off[(n + i) - 1]  y == off[n + i]  z == off[n]  l == Len(seqs[n + i])
  <2>5. part[i] = part[i - 1] + Len(ts[i])
    <3>1. part[i] = y - z /\ part[i - 1] = x - z /\ Len(ts[i]) = l /\ y = x + l
      BY <2>2, <2>3
    <3>2. x \in Nat /\ y \in Nat /\ z \in Nat /\ l \in Nat
      BY <1>3, <2>4
    <3> HIDE DEF x, y, z, l
    <3> QED
      BY <3>1, <3>2
  <2>6. ASSUME NEW k \in 1..Len(ts[i]) PROVE t[part[i - 1] + k] = ts[i][k]
    <3>1. k \in 1..Len(seqs[n + i])
      BY <2>2
    <3>2. /\ part[i - 1] + k \in 1..off[m] - off[n]
          /\ off[n] + (part[i - 1] + k) = off[(n + i) - 1] + k
      <4> DEFINE w == off[m]
      <4>1. part[i - 1] = x - z /\ y = x + l /\ z <= x /\ y <= w /\ k \in 1..l
        BY <2>2, <2>3, <2>4, <3>1
      <4>2. x \in Nat /\ y \in Nat /\ z \in Nat /\ l \in Nat /\ w \in Nat
        BY <1>3, <2>4
      <4>3. part[i - 1] + k \in 1..w - z /\ z + (part[i - 1] + k) = x + k
        <5> HIDE DEF x, y, z, l, w
        <5> QED
          BY <4>1, <4>2
      <4> QED
        BY <4>3
    <3>3. t[part[i - 1] + k] = s[off[(n + i) - 1] + k]
      BY <1>6, <3>2
    <3> QED
      BY <2>2, <2>3, <3>1, <3>3
  <2> QED
    BY <2>5, <2>6
<1>9. CutBy(part, t, ts)
  BY <1>5, <1>7, <1>8 DEF CutBy
<1> QED
  BY <1>3, <1>9 DEF t, ts

(* Two functions that are alike at a place when they are alike at all      *)
(* greater ones are alike.                                                 *)
AlikeAfter(i, f, g, m) == \A j \in i + 1..m : f[j] = g[j]

(* By induction on the number of places, too.                              *)
LEMMA BackwardAlike ==
  ASSUME NEW f, NEW g, NEW m \in Nat,
         \A i \in 1..m : AlikeAfter(i, f, g, m) => f[i] = g[i]
  PROVE  \A i \in 1..m : f[i] = g[i]
<1> DEFINE S == {d \in Nat : \A j \in m + 1 - d..m : j > 0 => f[j] = g[j]}
<1>1. 0 \in S
  OBVIOUS
<1>2. ASSUME NEW d \in Nat, d \in S PROVE d + 1 \in S
  <2>1. ASSUME NEW j \in m + 1 - (d + 1)..m, j > 0 PROVE f[j] = g[j]
    <3>1. j \in 1..m /\ \A k \in j + 1..m : k \in m + 1 - d..m /\ k > 0
      BY <2>1
    <3>2. \A k \in j + 1..m : f[k] = g[k]
      BY <1>2, <3>1
    <3> QED
      BY <3>1, <3>2 DEF AlikeAfter
  <2> QED
    BY <2>1
<1> HIDE DEF S
<1>3. m \in S
  BY <1>1, <1>2, NatInduct
<1> QED
  BY <1>3 DEF S

(* A part of a part.                                                       *)
LEMMA PartOfPart ==
  ASSUME NEW V, NEW s \in Seq(V), NEW a \in Nat, NEW b \in Nat, a <= b, b <= Len(s),
         NEW x \in Nat, NEW y \in Nat, x <= y, y <= b - a
  PROVE  SubSeq(SubSeq(s, a + 1, b), x + 1, y) = SubSeq(s, (a + x) + 1, a + y)
<1> DEFINE p == SubSeq(s, a + 1, b)  l == SubSeq(p, x + 1, y)  r == SubSeq(s, (a + x) + 1, a + y)
<1>1. p \in Seq(V) /\ Len(p) = b - a /\ \A i \in 1..b - a : p[i] = s[a + i]
  BY PartAt
<1> HIDE DEF p
<1>2. l \in Seq(V) /\ Len(l) = y - x /\ \A i \in 1..y - x : l[i] = p[x + i]
  BY <1>1, PartAt
<1>3. /\ r \in Seq(V) /\ Len(r) = (a + y) - (a + x)
      /\ \A i \in 1..(a + y) - (a + x) : r[i] = s[(a + x) + i]
  <2>1. a + x \in Nat /\ a + y \in Nat /\ a + x <= a + y /\ a + y <= Len(s)
    OBVIOUS
  <2> QED
    BY <2>1, PartAt
<1> HIDE DEF l, r
<1>4. ASSUME NEW i \in 1..y - x PROVE l[i] = r[i]
  <2>1. x + i \in 1..b - a /\ i \in 1..(a + y) - (a + x) /\ a + (x + i) = (a + x) + i
    OBVIOUS
  <2> QED
    BY <1>1, <1>2, <1>3, <2>1
<1>5. Len(l) = Len(r) /\ Len(l) = y - x
  BY <1>2, <1>3
<1>6. l = r
  BY <1>2, <1>3, <1>4, <1>5, SeqEqual
<1> QED
  BY <1>6 DEF l, r, p

(* Two parts, one behind the other.                                        *)
LEMMA PartsJoin ==
  ASSUME NEW V, NEW s \in Seq(V), NEW a \in Nat, NEW b \in Nat, NEW c \in Nat,
         a <= b, b <= c, c <= Len(s)
  PROVE  SubSeq(s, a + 1, b) \o SubSeq(s, b + 1, c) = SubSeq(s, a + 1, c)
<1>1. a + 1 \in 1..Len(s) + 1 /\ b \in (a + 1) - 1..Len(s) /\ c \in b..Len(s)
  OBVIOUS
<1> QED
  BY <1>1, ConcatAdjacentSubSeq

(* A sequence over a set is one over a greater set.                        *)
LEMMA SeqWider == ASSUME NEW S, NEW T, S \subseteq T, NEW s \in Seq(S) PROVE s \in Seq(T)
<1>1. \A i \in 1..Len(s) : s[i] \in T
  OBVIOUS
<1>2. Len(s) \in Nat /\ s = [i \in 1..Len(s) |-> s[i]]
  OBVIOUS
<1>3. [i \in 1..Len(s) |-> s[i]] \in Seq(T)
  BY <1>1, <1>2
<1> QED
  BY <1>2, <1>3, Zenon

(* Two neighbours.                                                         *)
LEMMA PairAt ==
  ASSUME NEW V, NEW s \in Seq(V), NEW k \in 1..Len(s) - 1
  PROVE  /\ Len(SubSeq(s, k, k + 1)) = 2
         /\ SubSeq(s, k, k + 1)[1] = s[k] /\ SubSeq(s, k, k + 1)[2] = s[k + 1]
<1> DEFINE a == k - 1  b == k + 1
<1>1. a \in Nat /\ b \in Nat /\ a <= b /\ b <= Len(s) /\ a + 1 = k /\ b - a = 2 /\ a + 2 = k + 1
  OBVIOUS
<1> HIDE DEF a
<1>2. Len(SubSeq(s, a + 1, b)) = b - a /\ \A i \in 1..b - a : SubSeq(s, a + 1, b)[i] = s[a + i]
  BY <1>1, PartAt
<1>3. 1 \in 1..b - a /\ 2 \in 1..b - a
  BY <1>1
<1> QED
  BY <1>1, <1>2, <1>3

(* Removing the first e, at k, moves up what is behind it.                 *)
LEMMA RemoveFirstIs ==
  ASSUME NEW V, NEW s \in Seq(V), NEW e
  PROVE  \/ RemoveFirst(s, e) = s /\ \A i \in 1..Len(s) : s[i] # e
         \/ \E k \in 1..Len(s) :
              /\ s[k] = e
              /\ RemoveFirst(s, e) \in Seq(V) /\ Len(RemoveFirst(s, e)) = Len(s) - 1
              /\ \A i \in 1..Len(s) - 1 :
                   RemoveFirst(s, e)[i] = IF i < k THEN s[i] ELSE s[i + 1]
<1>1. CASE \A i \in 1..Len(s) : s[i] # e
  BY <1>1 DEF RemoveFirst
<1>2. CASE \E i \in 1..Len(s) : s[i] = e
  <2> DEFINE P == {i \in 1..Len(s) : s[i] = e}
             k == SelectInSeq(s, LAMBDA v : v = e)
  <2>1. P \subseteq Nat /\ P # {}
    BY <1>2
  <2>2. \E m \in P : \A j \in P : m <= j
    BY <2>1, LeastNat
  <2>3. k = Min(P)
    BY <2>1 DEF SelectInSeq
  <2>4. Min(P) \in P
    BY <2>2 DEF Min
  <2>5. k \in 1..Len(s) /\ s[k] = e
    BY <2>3, <2>4
  <2>6. RemoveFirst(s, e) = SubSeq(s, 1, k - 1) \o SubSeq(s, k + 1, Len(s))
    BY <1>2 DEF RemoveFirst, RemoveAt
  <2> HIDE DEF k
  <2> DEFINE a == SubSeq(s, 1, k - 1)  b == SubSeq(s, k + 1, Len(s))
  <2>7. /\ a \in Seq(V) /\ Len(a) = k - 1 /\ \A i \in 1..k - 1 : a[i] = s[i]
    <3>1. \A i \in 1..k - 1 : s[i] \in V
      BY <2>5
    <3>2. 1 \in Int /\ k - 1 \in Int /\ (k - 1) - 1 + 1 = k - 1
      BY <2>5
    <3>3. /\ a \in Seq(V) /\ Len(a) = IF 1 <= k - 1 THEN (k - 1) - 1 + 1 ELSE 0
          /\ \A i \in 1..(k - 1) - 1 + 1 : a[i] = s[1 + i - 1]
      BY <3>1, <3>2, SubSeqProperties
    <3> QED
      BY <2>5, <3>2, <3>3
  <2>8. /\ b \in Seq(V) /\ Len(b) = Len(s) - k /\ \A i \in 1..Len(s) - k : b[i] = s[k + i]
    <3>1. \A i \in k + 1..Len(s) : s[i] \in V
      BY <2>5
    <3>2. k + 1 \in Int /\ Len(s) \in Int /\ Len(s) - (k + 1) + 1 = Len(s) - k
      BY <2>5
    <3>3. /\ b \in Seq(V) /\ Len(b) = IF k + 1 <= Len(s) THEN Len(s) - (k + 1) + 1 ELSE 0
          /\ \A i \in 1..Len(s) - (k + 1) + 1 : b[i] = s[(k + 1) + i - 1]
      BY <3>1, <3>2, SubSeqProperties
    <3> QED
      BY <2>5, <3>2, <3>3
  <2> HIDE DEF a, b
  <2>9. /\ a \o b \in Seq(V) /\ Len(a \o b) = Len(s) - 1
        /\ \A i \in 1..Len(s) - 1 : (a \o b)[i] = IF i <= k - 1 THEN a[i] ELSE b[i - (k - 1)]
    <3>1. /\ a \o b \in Seq(V) /\ Len(a \o b) = Len(a) + Len(b)
          /\ \A i \in 1..Len(a) + Len(b) : (a \o b)[i] = IF i <= Len(a) THEN a[i] ELSE b[i - Len(a)]
      BY <2>7, <2>8, ConcatProperties
    <3>2. Len(a) = k - 1 /\ Len(a) + Len(b) = Len(s) - 1
      BY <2>5, <2>7, <2>8
    <3> QED
      BY <3>1, <3>2
  <2>10. ASSUME NEW i \in 1..Len(s) - 1
         PROVE  (a \o b)[i] = IF i < k THEN s[i] ELSE s[i + 1]
    <3>1. CASE i < k
      <4>1. i \in 1..k - 1 /\ i <= k - 1
        BY <2>5, <3>1
      <4> QED
        BY <2>7, <2>9, <3>1, <4>1
    <3>2. CASE ~(i < k)
      <4>1. i - (k - 1) \in 1..Len(s) - k /\ k + (i - (k - 1)) = i + 1 /\ ~(i <= k - 1)
        BY <2>5, <3>2
      <4> QED
        BY <2>8, <2>9, <3>2, <4>1
    <3> QED
      BY <3>1, <3>2
  <2>11. RemoveFirst(s, e) = a \o b
    BY <2>6 DEF a, b
  <2> QED
    BY <2>5, <2>9, <2>10, <2>11
<1> QED
  BY <1>1, <1>2
=============================================================================
