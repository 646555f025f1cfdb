------------------------ MODULE ApiConnection_proofs ------------------------
(***************************************************************************)
(* Proofs about the socket pair of one connection, for every number of     *)
(* threads and messages, every size of the socket and every way the reads  *)
(* of the worker cut the stream.                                           *)
(***************************************************************************)
EXTENDS ApiConnection, InductionOnSets, FiniteSetTheorems, SequenceTheorems

-----------------------------------------------------------------------------
(* Sequences *)

LEMMA ElementsOf ==
    ASSUME NEW S, NEW s \in Seq(S)
    PROVE  /\ Len(s) \in Nat /\ DOMAIN s = 1 .. Len(s)
           /\ \A k \in 1 .. Len(s) : s[k] \in S
           /\ ToSet(s) \subseteq S
BY DEF ToSet

(* s is what is kept of batch: its first steps are those of the loop. *)
IsLoop(kept, batch, places, S) ==
    /\ kept \in [0 .. Len(batch) -> Seq(S)]
    /\ kept[0] = <<>>
    /\ \A i \in 1 .. Len(batch) :
          kept[i] = IF i \in places THEN Append(kept[i - 1], batch[i]) ELSE kept[i - 1]
    /\ Kept(batch, places) = kept[Len(batch)]

HasLoop(batch, places, S) == \E kept : IsLoop(kept, batch, places, S)

(* The recursive function of Kept has its defining equation. *)
LEMMA KeptIsLoop ==
    ASSUME NEW S, NEW batch \in Seq(S), NEW places
    PROVE  HasLoop(batch, places, S)
<1> DEFINE n == Len(batch)
           step == [p \in (1 .. n) \X Seq(S) |->
                       IF p[1] \in places THEN Append(p[2], batch[p[1]]) ELSE p[2]]
           Solves(kept) == kept = [i \in 0 .. n |->
                       IF i = 0 THEN <<>>
                       ELSE IF i \in places THEN Append(kept[i - 1], batch[i]) ELSE kept[i - 1]]
           loop == CHOOSE kept : Solves(kept)
<1>1. n \in Nat /\ \A i \in 1 .. n : batch[i] \in S
  BY ElementsOf
<1>2. step \in [(1 .. n) \X Seq(S) -> Seq(S)] /\ <<>> \in Seq(S)
  BY <1>1
<1>3. PICK f : IsRecursive(f, n, Seq(S), <<>>, step)
  <2> HIDE DEF step, n
  <2>1. QED
    BY <1>1, <1>2, RecursionOnInterval
<1>4. Solves(f)
  <2>1. ASSUME NEW i \in 1 .. n
        PROVE  step[<<i, f[i - 1]>>] = IF i \in places THEN Append(f[i - 1], batch[i]) ELSE f[i - 1]
    <3>1. f[i - 1] \in Seq(S)
      BY <1>1, <1>3 DEF IsRecursive
    <3>2. <<i, f[i - 1]>> \in (1 .. n) \X Seq(S)
      BY <3>1
    <3>3. QED
      BY <3>2
  <2>2. ASSUME NEW i \in 0 .. n
        PROVE  f[i] = IF i = 0 THEN <<>>
                      ELSE IF i \in places THEN Append(f[i - 1], batch[i]) ELSE f[i - 1]
    <3>1. CASE i = 0
      BY <3>1, <1>3 DEF IsRecursive
    <3>2. CASE i # 0
      <4>1. i \in 1 .. n
        BY <3>2, <1>1
      <4>2. f[i] = step[<<i, f[i - 1]>>]
        BY <4>1, <1>3 DEF IsRecursive
      <4>3. QED
        BY <2>1, <3>2, <4>1, <4>2
    <3>3. QED
      BY <3>1, <3>2
  <2>3. QED
    BY <1>3, <2>2 DEF IsRecursive
<1>5. Solves(loop)
  BY <1>4
<1>6. Kept(batch, places) = loop[n]
  BY DEF Kept
<1>7. \A i \in 0 .. n : loop[i] = IF i = 0 THEN <<>>
                      ELSE IF i \in places THEN Append(loop[i - 1], batch[i]) ELSE loop[i - 1]
  <2> HIDE DEF loop
  <2>1. QED
    BY <1>5
<1> HIDE DEF loop
<1> DEFINE Typed == {i \in Nat : i <= n => loop[i] \in Seq(S)}
<1>8. 0 \in Typed
  <2>1. loop[0] = <<>>
    BY <1>1, <1>7
  <2>2. <<>> \in Seq(S)
    BY EmptySeq
  <2>3. QED
    BY <2>1, <2>2
<1>9. ASSUME NEW i \in Nat, i \in Typed PROVE i + 1 \in Typed
  <2>1. SUFFICES ASSUME i + 1 <= n PROVE loop[i + 1] \in Seq(S)
    OBVIOUS
  <2>2. loop[i] \in Seq(S) /\ i + 1 \in 1 .. n /\ batch[i + 1] \in S
    BY <1>1, <1>9, <2>1
  <2>3. loop[i + 1] = IF i + 1 \in places THEN Append(loop[i], batch[i + 1]) ELSE loop[i]
    BY <1>7, <2>2
  <2>4. QED
    BY <2>2, <2>3
<1>10. Nat \subseteq Typed
  <2> HIDE DEF Typed
  <2>1. QED
    BY <1>8, <1>9, InductionOnSet
<1>11. \A i \in 0 .. n : loop[i] \in Seq(S)
  BY <1>10, <1>1
<1>12. loop \in [0 .. n -> Seq(S)]
  BY <1>5, <1>11
<1>13. IsLoop(loop, batch, places, S)
  <2>1. loop[0] = <<>>
    BY <1>1, <1>7
  <2>2. \A i \in 1 .. n :
          loop[i] = IF i \in places THEN Append(loop[i - 1], batch[i]) ELSE loop[i - 1]
    BY <1>1, <1>7
  <2>3. QED
    BY <1>6, <1>12, <2>1, <2>2 DEF IsLoop
<1>14. QED
  BY <1>13 DEF HasLoop


Distinct(s) == \A i, j \in DOMAIN s : s[i] = s[j] => i = j

(* What is kept are elements of the batch, each as often as it was there   *)
(* at most once.                                                           *)
LEMMA KeptFacts ==
    ASSUME NEW S, NEW batch \in Seq(S), NEW places
    PROVE  /\ Kept(batch, places) \in Seq(S)
           /\ ToSet(Kept(batch, places)) \subseteq ToSet(batch)
           /\ Distinct(batch) => Distinct(Kept(batch, places))
<1> DEFINE n == Len(batch)
<1>1. n \in Nat /\ DOMAIN batch = 1 .. n /\ \A i \in 1 .. n : batch[i] \in S
  BY ElementsOf
<1>2. PICK f : IsLoop(f, batch, places, S)
  BY KeptIsLoop DEF HasLoop
<1>3. ASSUME NEW i \in 0 .. n
      PROVE  f[i] \in Seq(S) /\ Len(f[i]) \in Nat /\ DOMAIN f[i] = 1 .. Len(f[i])
  <2>1. f[i] \in Seq(S)
    BY <1>2 DEF IsLoop
  <2>2. QED
    BY <2>1, ElementsOf
<1> DEFINE From(i) == \A x \in 1 .. Len(f[i]) : \E k \in 1 .. i : f[i][x] = batch[k]
           Once(i) == \A x, y \in 1 .. Len(f[i]) : f[i][x] = f[i][y] => x = y
           Good == {i \in Nat : i <= n => From(i) /\ (Distinct(batch) => Once(i))}
<1>4. 0 \in Good
  <2>1. f[0] = <<>> /\ Len(<<>>) = 0
    BY <1>2 DEF IsLoop
  <2>2. QED
    BY <2>1
<1>5. ASSUME NEW i \in Nat, i \in Good PROVE i + 1 \in Good
  <2>1. SUFFICES ASSUME i + 1 <= n PROVE From(i + 1) /\ (Distinct(batch) => Once(i + 1))
    OBVIOUS
  <2>2. i \in 0 .. n /\ i + 1 \in 1 .. n /\ i + 1 \in 0 .. n /\ i = (i + 1) - 1
    BY <1>1, <2>1
  <2>3. From(i) /\ (Distinct(batch) => Once(i))
    BY <1>5, <2>2
  <2>4. CASE i + 1 \notin places
    <3>1. f[i + 1] = f[i]
      BY <1>2, <2>2, <2>4 DEF IsLoop
    <3>2. QED
      BY <2>2, <2>3, <3>1
  <2>5. CASE i + 1 \in places
    <3>1. f[i + 1] = Append(f[i], batch[i + 1])
      BY <1>2, <2>2, <2>5 DEF IsLoop
    <3>2. /\ Len(f[i + 1]) = Len(f[i]) + 1 /\ Len(f[i]) \in Nat
          /\ \A x \in 1 .. Len(f[i]) : f[i + 1][x] = f[i][x]
          /\ f[i + 1][Len(f[i]) + 1] = batch[i + 1]
      BY <1>1, <1>3, <2>2, <3>1
    <3>3. From(i + 1)
      BY <2>2, <2>3, <3>2
    <3>4. ASSUME Distinct(batch) PROVE Once(i + 1)
      <4>1. \A x \in 1 .. Len(f[i]) : f[i][x] # batch[i + 1]
        <5>1. \A k \in 1 .. i : batch[k] # batch[i + 1]
          BY <1>1, <2>2, <3>4 DEF Distinct
        <5>2. QED
          BY <2>3, <5>1
      <4>2. Once(i)
        BY <2>3, <3>4
      <4>3. SUFFICES ASSUME NEW x \in 1 .. Len(f[i]) + 1, NEW y \in 1 .. Len(f[i]) + 1,
                            f[i + 1][x] = f[i + 1][y]
                     PROVE  x = y
        BY <3>2
      <4>4. x \in 1 .. Len(f[i]) \/ x = Len(f[i]) + 1
        BY <3>2
      <4>5. y \in 1 .. Len(f[i]) \/ y = Len(f[i]) + 1
        BY <3>2
      <4>6. QED
        BY <3>2, <4>1, <4>2, <4>3, <4>4, <4>5
    <3>5. QED
      BY <3>3, <3>4
  <2>6. QED
    BY <2>4, <2>5
<1>6. Nat \subseteq Good
  <2> HIDE DEF Good
  <2>1. QED
    BY <1>4, <1>5, InductionOnSet
<1>7. From(n) /\ (Distinct(batch) => Once(n))
  <2>1. n \in Good
    BY <1>1, <1>6
  <2>2. QED
    BY <1>1, <2>1
<1>8. Kept(batch, places) = f[n] /\ n \in 0 .. n
  BY <1>1, <1>2 DEF IsLoop
<1>9. QED
  <2> HIDE DEF n
  <2>1. Distinct(batch) => Distinct(f[n])
    BY <1>3, <1>7, <1>8 DEF Distinct
  <2>2. ToSet(f[n]) \subseteq ToSet(batch)
    <3>1. \A x \in DOMAIN f[n] : \E k \in DOMAIN batch : f[n][x] = batch[k]
      BY <1>1, <1>3, <1>7, <1>8
    <3>2. QED
      BY <3>1 DEF ToSet
  <2>3. QED
    BY <1>3, <1>8, <2>1, <2>2

(* Concatenations of three, as a fact of its own *)
Associates(s, t, u) == (s \o t) \o u = s \o (t \o u)

LEMMA ConcatAssociates ==
    ASSUME NEW S, NEW s \in Seq(S), NEW t \in Seq(S), NEW u \in Seq(S)
    PROVE  Associates(s, t, u)
BY ConcatAssociative DEF Associates

(* Appending to the end of a concatenation *)
AppendsInside(s, t, x) == Append(s \o t, x) = s \o Append(t, x)

LEMMA AppendConcat ==
    ASSUME NEW S, NEW s \in Seq(S), NEW t \in Seq(S), NEW x \in S
    PROVE  AppendsInside(s, t, x)
<1>1. Append(t, x) \in Seq(S) /\ Len(Append(t, x)) = Len(t) + 1
  OBVIOUS
<1>2. s \o t \in Seq(S) /\ Len(s \o t) = Len(s) + Len(t)
  BY ConcatProperties
<1>3. Append(s \o t, x) \in Seq(S) /\ s \o Append(t, x) \in Seq(S)
  BY <1>1, <1>2, ConcatProperties
<1>4. Len(Append(s \o t, x)) = Len(s) + Len(t) + 1 /\ Len(s \o Append(t, x)) = Len(s) + Len(t) + 1
  <2>1. Len(s \o Append(t, x)) = Len(s) + Len(Append(t, x))
    BY <1>1, ConcatProperties
  <2>2. Len(s) \in Nat /\ Len(t) \in Nat
    OBVIOUS
  <2>3. Len(Append(s \o t, x)) = Len(s \o t) + 1
    BY <1>2
  <2>4. QED
    BY <1>1, <1>2, <2>1, <2>2, <2>3
<1>5. ASSUME NEW i \in 1 .. Len(s) + Len(t) + 1
      PROVE  Append(s \o t, x)[i] = (s \o Append(t, x))[i]
  <2>1. (s \o Append(t, x))[i] = IF i <= Len(s) THEN s[i] ELSE Append(t, x)[i - Len(s)]
    BY <1>1, ConcatProperties
  <2>2. CASE i = Len(s) + Len(t) + 1
    BY <1>1, <1>2, <2>1, <2>2
  <2>3. CASE i # Len(s) + Len(t) + 1
    <3>1. i \in 1 .. Len(s) + Len(t)
      BY <2>3
    <3>2. (s \o t)[i] = IF i <= Len(s) THEN s[i] ELSE t[i - Len(s)]
      BY <3>1, ConcatProperties
    <3>3. QED
      BY <1>2, <2>1, <3>1, <3>2
  <2>4. QED
    BY <2>2, <2>3
<1>6. Append(s \o t, x) = s \o Append(t, x)
  BY <1>3, <1>4, <1>5, SeqEqual
<1>7. QED
  BY <1>6 DEF AppendsInside

(* What is kept of two batches is what is kept of each. *)
LEMMA KeptConcat ==
    ASSUME NEW S, NEW s \in Seq(S), NEW t \in Seq(S), NEW P, NEW Q, NEW R,
           \A i \in 1 .. Len(s) : i \in P <=> i \in Q,
           \A i \in 1 .. Len(t) : Len(s) + i \in P <=> i \in R
    PROVE  Kept(s \o t, P) = Kept(s, Q) \o Kept(t, R)
<1> DEFINE m == Len(s)
           n == Len(t)
<1>1. m \in Nat /\ n \in Nat /\ (\A i \in 1 .. m : s[i] \in S) /\ \A i \in 1 .. n : t[i] \in S
  BY ElementsOf
<1>2. /\ s \o t \in Seq(S) /\ Len(s \o t) = m + n
      /\ \A i \in 1 .. m : (s \o t)[i] = s[i]
      /\ \A i \in 1 .. n : (s \o t)[m + i] = t[i]
  <2>1. /\ s \o t \in Seq(S) /\ Len(s \o t) = m + n
        /\ \A i \in 1 .. m + n : (s \o t)[i] = IF i <= m THEN s[i] ELSE t[i - m]
    BY ConcatProperties
  <2>2. ASSUME NEW i \in 1 .. n PROVE (s \o t)[m + i] = t[i]
    <3>1. m + i \in 1 .. m + n /\ ~ (m + i <= m) /\ (m + i) - m = i
      BY <1>1
    <3>2. QED
      BY <2>1, <3>1
  <2>3. QED
    BY <1>1, <2>1, <2>2
<1>3. PICK f : IsLoop(f, s \o t, P, S)
  BY <1>2, KeptIsLoop DEF HasLoop
<1>4. PICK g : IsLoop(g, s, Q, S)
  BY KeptIsLoop DEF HasLoop
<1>5. PICK h : IsLoop(h, t, R, S)
  BY KeptIsLoop DEF HasLoop
<1> DEFINE First == {i \in Nat : i <= m => f[i] = g[i]}
<1>6. 0 \in First
  BY <1>3, <1>4 DEF IsLoop
<1>7. ASSUME NEW i \in Nat, i \in First PROVE i + 1 \in First
  <2>1. SUFFICES ASSUME i + 1 <= m PROVE f[i + 1] = g[i + 1]
    OBVIOUS
  <2>2. i + 1 \in 1 .. m /\ i + 1 \in 1 .. m + n /\ (i + 1) - 1 = i /\ f[i] = g[i]
    BY <1>1, <1>7, <2>1
  <2>3. f[i + 1] = IF i + 1 \in P THEN Append(f[i], s[i + 1]) ELSE f[i]
    BY <1>2, <1>3, <2>2 DEF IsLoop
  <2>4. g[i + 1] = IF i + 1 \in Q THEN Append(g[i], s[i + 1]) ELSE g[i]
    BY <1>4, <2>2 DEF IsLoop
  <2>5. QED
    BY <2>2, <2>3, <2>4
<1>8. Nat \subseteq First
  <2> HIDE DEF First
  <2>1. QED
    BY <1>6, <1>7, InductionOnSet
<1>9. f[m] = g[m] /\ g[m] \in Seq(S)
  <2>1. m \in First
    BY <1>1, <1>8
  <2>2. m \in 0 .. m /\ m <= m
    BY <1>1
  <2>3. f[m] = g[m]
    BY <2>1, <2>2, Zenon
  <2>4. \A i \in 0 .. m : g[i] \in Seq(S)
    BY <1>4, Zenon DEF IsLoop
  <2>5. QED
    BY <2>2, <2>3, <2>4, Zenon
<1> DEFINE both == [i \in 0 .. n |-> g[m] \o h[i]]
<1> DEFINE Then == {i \in Nat : i <= n => f[m + i] = both[i]}
<1>10. 0 \in Then
  <2>1. h[0] = <<>> /\ m + 0 = m
    BY <1>1, <1>5 DEF IsLoop
  <2>2. g[m] \o <<>> = g[m]
    BY <1>9, ConcatEmptySeq
  <2>3. both[0] = g[m]
    <3>1. 0 \in 0 .. n
      BY <1>1
    <3>2. both[0] = g[m] \o h[0]
      BY <3>1, Zenon
    <3> HIDE DEF both
    <3>3. QED
      BY <2>1, <2>2, <3>2
  <2> HIDE DEF both
  <2>4. QED
    BY <1>9, <2>1, <2>3
<1>11. ASSUME NEW i \in Nat, i \in Then PROVE i + 1 \in Then
  <2> HIDE DEF both
  <2>1. SUFFICES ASSUME i + 1 <= n PROVE f[m + (i + 1)] = both[i + 1]
    OBVIOUS
  <2>2. /\ i + 1 \in 1 .. n /\ m + (i + 1) \in 1 .. m + n /\ (i + 1) - 1 = i
        /\ (m + (i + 1)) - 1 = m + i /\ f[m + i] = both[i] /\ i \in 0 .. n /\ i + 1 \in 0 .. n
    BY <1>1, <1>11, <2>1
  <2>3. f[m + (i + 1)] = IF m + (i + 1) \in P THEN Append(f[m + i], t[i + 1]) ELSE f[m + i]
    BY <1>2, <1>3, <2>2 DEF IsLoop
  <2>4. h[i + 1] = IF i + 1 \in R THEN Append(h[i], t[i + 1]) ELSE h[i]
    BY <1>5, <2>2 DEF IsLoop
  <2>5. h[i] \in Seq(S) /\ t[i + 1] \in S
    BY <1>1, <1>5, <2>2 DEF IsLoop
  <2>6. both[i] = g[m] \o h[i] /\ both[i + 1] = g[m] \o h[i + 1]
    BY <2>2, Zenon DEF both
  <2>7. Append(g[m] \o h[i], t[i + 1]) = g[m] \o Append(h[i], t[i + 1])
    <3>1. AppendsInside(g[m], h[i], t[i + 1])
      BY <1>9, <2>5, AppendConcat
    <3>2. QED
      BY <3>1, Zenon DEF AppendsInside
  <2>8. CASE i + 1 \in R
    BY <2>2, <2>3, <2>4, <2>6, <2>7, <2>8
  <2>9. CASE i + 1 \notin R
    BY <2>2, <2>3, <2>4, <2>6, <2>9
  <2>10. QED
    BY <2>8, <2>9
<1>12. Nat \subseteq Then
  <2> HIDE DEF Then
  <2>1. QED
    BY <1>10, <1>11, InductionOnSet
<1>13. f[m + n] = g[m] \o h[n]
  <2>1. n \in Then
    BY <1>1, <1>12
  <2>2. n \in 0 .. n /\ n <= n
    BY <1>1
  <2>3. both[n] = g[m] \o h[n]
    BY <2>2, Zenon
  <2> HIDE DEF both
  <2>4. f[m + n] = both[n]
    BY <2>1, <2>2
  <2>5. QED
    BY <2>3, <2>4
<1>14. Kept(s \o t, P) = f[m + n] /\ Kept(s, Q) = g[m] /\ Kept(t, R) = h[n]
  BY <1>2, <1>3, <1>4, <1>5 DEF IsLoop
<1>15. QED
  BY <1>13, <1>14


(* The elements of a concatenation *)
LEMMA ConcatElements ==
    ASSUME NEW S, NEW s \in Seq(S), NEW t \in Seq(S)
    PROVE  /\ s \o t \in Seq(S) /\ Len(s \o t) = Len(s) + Len(t)
           /\ \A i \in 1 .. Len(s) : (s \o t)[i] = s[i]
           /\ \A i \in 1 .. Len(t) : (s \o t)[Len(s) + i] = t[i]
           /\ \A k \in 1 .. Len(s) + Len(t) :
                 k \in 1 .. Len(s) \/ \E i \in 1 .. Len(t) : k = Len(s) + i
<1>1. /\ s \o t \in Seq(S) /\ Len(s \o t) = Len(s) + Len(t)
      /\ \A i \in 1 .. Len(s) + Len(t) :
            (s \o t)[i] = IF i <= Len(s) THEN s[i] ELSE t[i - Len(s)]
  BY ConcatProperties
<1>2. Len(s) \in Nat /\ Len(t) \in Nat
  BY ElementsOf
<1>3. ASSUME NEW i \in 1 .. Len(s) PROVE (s \o t)[i] = s[i]
  BY <1>1, <1>2
<1>4. ASSUME NEW i \in 1 .. Len(t) PROVE (s \o t)[Len(s) + i] = t[i]
  <2>1. Len(s) + i \in 1 .. Len(s) + Len(t) /\ ~ (Len(s) + i <= Len(s)) /\ (Len(s) + i) - Len(s) = i
    BY <1>2
  <2>2. QED
    BY <1>1, <2>1
<1>5. ASSUME NEW k \in 1 .. Len(s) + Len(t), k \notin 1 .. Len(s)
      PROVE  \E i \in 1 .. Len(t) : k = Len(s) + i
  <2>1. k - Len(s) \in 1 .. Len(t) /\ k = Len(s) + (k - Len(s))
    BY <1>2, <1>5
  <2>2. QED
    BY <2>1
<1>6. QED
  BY <1>1, <1>3, <1>4, <1>5

LEMMA ConcatSets ==
    ASSUME NEW S, NEW s \in Seq(S), NEW t \in Seq(S)
    PROVE  /\ s \o t \in Seq(S)
           /\ ToSet(s \o t) = ToSet(s) \cup ToSet(t)
           /\ Distinct(s \o t) <=> Distinct(s) /\ Distinct(t) /\ ToSet(s) \cap ToSet(t) = {}
<1> DEFINE u == s \o t
           m == Len(s)
           n == Len(t)
<1>1. /\ u \in Seq(S) /\ Len(u) = m + n
      /\ \A i \in 1 .. m : u[i] = s[i]
      /\ \A i \in 1 .. n : u[m + i] = t[i]
      /\ \A k \in 1 .. m + n : k \in 1 .. m \/ \E i \in 1 .. n : k = m + i
  BY ConcatElements
<1>2. m \in Nat /\ n \in Nat /\ DOMAIN s = 1 .. m /\ DOMAIN t = 1 .. n
  BY ElementsOf
<1>3. DOMAIN u = 1 .. m + n
  BY <1>1
<1> HIDE DEF u, m, n
<1>4. ToSet(u) = ToSet(s) \cup ToSet(t)
  <2>1. ASSUME NEW x \in ToSet(u) PROVE x \in ToSet(s) \cup ToSet(t)
    <3>1. PICK k \in 1 .. m + n : x = u[k]
      BY <1>3 DEF ToSet
    <3>2. CASE k \in 1 .. m
      BY <1>1, <1>2, <3>1, <3>2 DEF ToSet
    <3>3. CASE \E i \in 1 .. n : k = m + i
      BY <1>1, <1>2, <3>1, <3>3 DEF ToSet
    <3>4. QED
      BY <1>1, <3>2, <3>3
  <2>2. ASSUME NEW x \in ToSet(s) PROVE x \in ToSet(u)
    <3>1. PICK k \in 1 .. m : x = s[k]
      BY <1>2 DEF ToSet
    <3>2. k \in 1 .. m + n /\ u[k] = x
      BY <1>1, <1>2, <3>1
    <3>3. QED
      BY <1>3, <3>2 DEF ToSet
  <2>3. ASSUME NEW x \in ToSet(t) PROVE x \in ToSet(u)
    <3>1. PICK k \in 1 .. n : x = t[k]
      BY <1>2 DEF ToSet
    <3>2. m + k \in 1 .. m + n /\ u[m + k] = x
      BY <1>1, <1>2, <3>1
    <3>3. QED
      BY <1>3, <3>2 DEF ToSet
  <2>4. QED
    BY <2>1, <2>2, <2>3
<1>5. ASSUME Distinct(u)
      PROVE  Distinct(s) /\ Distinct(t) /\ ToSet(s) \cap ToSet(t) = {}
  <2>1. \A i, j \in 1 .. m + n : u[i] = u[j] => i = j
    BY <1>3, <1>5 DEF Distinct
  <2>2. Distinct(s)
    BY <1>1, <1>2, <2>1 DEF Distinct
  <2>3. Distinct(t)
    <3>1. ASSUME NEW i \in 1 .. n, NEW j \in 1 .. n, t[i] = t[j] PROVE i = j
      <4>1. m + i \in 1 .. m + n /\ m + j \in 1 .. m + n /\ u[m + i] = u[m + j]
        BY <1>1, <1>2, <3>1
      <4>2. m + i = m + j
        BY <2>1, <4>1
      <4>3. QED
        BY <1>2, <4>2
    <3>2. QED
      BY <1>2, <3>1 DEF Distinct
  <2>4. ASSUME NEW x \in ToSet(s), x \in ToSet(t) PROVE FALSE
    <3>1. PICK i \in 1 .. m : x = s[i]
      BY <1>2 DEF ToSet
    <3>2. PICK j \in 1 .. n : x = t[j]
      BY <1>2, <2>4 DEF ToSet
    <3>3. i \in 1 .. m + n /\ m + j \in 1 .. m + n
      BY <1>2
    <3>6. u[i] = s[i] /\ u[m + j] = t[j]
      BY <1>1
    <3>7. u[i] = u[m + j]
      BY <3>1, <3>2, <3>6
    <3>4. i = m + j
      BY <2>1, <3>3, <3>7
    <3>5. QED
      BY <1>2, <3>4
  <2>5. QED
    BY <2>2, <2>3, <2>4
<1>6. ASSUME Distinct(s), Distinct(t), ToSet(s) \cap ToSet(t) = {}
      PROVE  Distinct(u)
  <2>1. ASSUME NEW k \in 1 .. m + n, NEW l \in 1 .. m + n, u[k] = u[l] PROVE k = l
    <3>1. ASSUME NEW a \in 1 .. m, NEW b \in 1 .. n PROVE s[a] # t[b]
      BY <1>2, <1>6 DEF ToSet
    <3>2. CASE k \in 1 .. m /\ l \in 1 .. m
      BY <1>1, <1>2, <1>6, <2>1, <3>2 DEF Distinct
    <3>3. CASE k \in 1 .. m /\ l \notin 1 .. m
      <4>1. PICK b \in 1 .. n : l = m + b
        BY <1>1, <3>3
      <4>2. QED
        BY <1>1, <2>1, <3>1, <3>3, <4>1
    <3>4. CASE k \notin 1 .. m /\ l \in 1 .. m
      <4>1. PICK b \in 1 .. n : k = m + b
        BY <1>1, <3>4
      <4>2. QED
        BY <1>1, <2>1, <3>1, <3>4, <4>1
    <3>5. CASE k \notin 1 .. m /\ l \notin 1 .. m
      <4>1. PICK a \in 1 .. n : k = m + a
        BY <1>1, <3>5
      <4>2. PICK b \in 1 .. n : l = m + b
        BY <1>1, <3>5
      <4>3. t[a] = t[b]
        BY <1>1, <2>1, <4>1, <4>2
      <4>4. a = b
        BY <1>2, <1>6, <4>3 DEF Distinct
      <4>5. QED
        BY <4>1, <4>2, <4>4
    <3>6. QED
      BY <3>2, <3>3, <3>4, <3>5
  <2>2. QED
    BY <1>3, <2>1 DEF Distinct
<1>7. QED
  BY <1>1, <1>4, <1>5, <1>6 DEF u

LEMMA Singleton ==
    ASSUME NEW S, NEW x \in S
    PROVE  <<x>> \in Seq(S) /\ Len(<<x>>) = 1 /\ ToSet(<<x>>) = {x} /\ Distinct(<<x>>)
<1>1. <<x>> \in Seq(S) /\ Len(<<x>>) = 1 /\ <<x>>[1] = x /\ DOMAIN <<x>> = 1 .. 1
  OBVIOUS
<1>2. QED
  BY <1>1 DEF ToSet, Distinct

LEMMA EmptyElements == ToSet(<<>>) = {} /\ Distinct(<<>>)
<1>1. DOMAIN <<>> = {}
  OBVIOUS
<1>2. QED
  BY <1>1 DEF ToSet, Distinct

LEMMA AppendAsConcat ==
    ASSUME NEW S, NEW s \in Seq(S), NEW x \in S
    PROVE  Append(s, x) = s \o <<x>> /\ Append(s, x) \in Seq(S) /\ Len(Append(s, x)) = Len(s) + 1
OBVIOUS

LEMMA EqualsConcat ==
    ASSUME NEW S, NEW s \in Seq(S), NEW a \in Seq(S), NEW b \in Seq(S),
           Len(s) = Len(a) + Len(b),
           \A i \in 1 .. Len(a) : s[i] = a[i],
           \A i \in 1 .. Len(b) : s[Len(a) + i] = b[i]
    PROVE  s = a \o b
<1>1. /\ a \o b \in Seq(S) /\ Len(a \o b) = Len(a) + Len(b)
      /\ \A i \in 1 .. Len(a) : (a \o b)[i] = a[i]
      /\ \A i \in 1 .. Len(b) : (a \o b)[Len(a) + i] = b[i]
      /\ \A k \in 1 .. Len(a) + Len(b) :
            k \in 1 .. Len(a) \/ \E i \in 1 .. Len(b) : k = Len(a) + i
  BY ConcatElements
<1>2. ASSUME NEW k \in 1 .. Len(s) PROVE s[k] = (a \o b)[k]
  <2>1. CASE k \in 1 .. Len(a)
    BY <1>1, <2>1
  <2>2. CASE \E i \in 1 .. Len(b) : k = Len(a) + i
    BY <1>1, <2>2
  <2>3. QED
    BY <1>1, <2>1, <2>2
<1>3. QED
  BY <1>1, <1>2, SeqEqual

(* The first element and the others *)
LEMMA HeadAndTail ==
    ASSUME NEW S, NEW s \in Seq(S), s # <<>>
    PROVE  /\ Head(s) \in S /\ Tail(s) \in Seq(S) /\ Len(Tail(s)) = Len(s) - 1
           /\ s = <<Head(s)>> \o Tail(s)
<1>1. /\ Head(s) \in S /\ Tail(s) \in Seq(S) /\ Len(Tail(s)) = Len(s) - 1
      /\ \A i \in 1 .. Len(Tail(s)) : Tail(s)[i] = s[i + 1]
  BY HeadTailProperties
<1>2. Len(s) \in Nat /\ Len(s) # 0 /\ Head(s) = s[1]
  OBVIOUS
<1>3. /\ <<Head(s)>> \in Seq(S) /\ Len(<<Head(s)>>) = 1
      /\ \A i \in 1 .. Len(<<Head(s)>>) : s[i] = <<Head(s)>>[i]
  BY <1>1, <1>2
<1>4. \A i \in 1 .. Len(Tail(s)) : s[Len(<<Head(s)>>) + i] = Tail(s)[i]
  <2>1. \A i \in 1 .. Len(Tail(s)) : 1 + i = i + 1
    OBVIOUS
  <2>2. QED
    BY <1>1, <1>3, <2>1
<1>5. Len(s) = Len(<<Head(s)>>) + Len(Tail(s))
  BY <1>1, <1>2, <1>3
<1>6. s = <<Head(s)>> \o Tail(s)
  BY <1>1, <1>3, <1>4, <1>5, EqualsConcat
<1>7. QED
  BY <1>1, <1>6

(* The first n elements and the others *)
CutAt(s, n, S) ==
    /\ SubSeq(s, 1, n) \in Seq(S) /\ SubSeq(s, n + 1, Len(s)) \in Seq(S)
    /\ s = SubSeq(s, 1, n) \o SubSeq(s, n + 1, Len(s))
    /\ Len(SubSeq(s, 1, n)) = n /\ Len(SubSeq(s, n + 1, Len(s))) = Len(s) - n

LEMMA Cut ==
    ASSUME NEW S, NEW s \in Seq(S), NEW n \in 0 .. Len(s)
    PROVE  CutAt(s, n, S)
<1>1. Len(s) \in Nat /\ n \in Nat /\ n <= Len(s) /\ \A k \in 1 .. Len(s) : s[k] \in S
  BY ElementsOf
<1>2. SubSeq(s, 1, n) \in Seq(S) /\ Len(SubSeq(s, 1, n)) = n
  <2>1. \A i \in 1 .. n : s[i] \in S
    BY <1>1
  <2>2. 1 \in Int /\ n \in Int
    BY <1>1
  <2>3. /\ SubSeq(s, 1, n) \in Seq(S)
        /\ Len(SubSeq(s, 1, n)) = IF 1 <= n THEN n - 1 + 1 ELSE 0
    BY <2>1, <2>2, SubSeqProperties
  <2>4. QED
    BY <1>1, <2>3
<1>3. SubSeq(s, n + 1, Len(s)) \in Seq(S) /\ Len(SubSeq(s, n + 1, Len(s))) = Len(s) - n
  <2>1. \A i \in n + 1 .. Len(s) : s[i] \in S
    BY <1>1
  <2>2. n + 1 \in Int /\ Len(s) \in Int
    BY <1>1
  <2>3. /\ SubSeq(s, n + 1, Len(s)) \in Seq(S)
        /\ Len(SubSeq(s, n + 1, Len(s))) = IF n + 1 <= Len(s) THEN Len(s) - (n + 1) + 1 ELSE 0
    BY <2>1, <2>2, SubSeqProperties
  <2>4. QED
    BY <1>1, <2>3
<1>4. SubSeq(s, 1, n) \o SubSeq(s, n + 1, Len(s)) = SubSeq(s, 1, Len(s))
  <2>1. 1 \in 1 .. Len(s) + 1 /\ n \in 1 - 1 .. Len(s) /\ Len(s) \in n .. Len(s)
    BY <1>1
  <2>2. QED
    BY <2>1, ConcatAdjacentSubSeq
<1>5. SubSeq(s, 1, Len(s)) = s
  BY SubSeqFull
<1>6. QED
  BY <1>2, <1>3, <1>4, <1>5 DEF CutAt


(* A sequence stays in order when a part of it is left out, ...            *)
LEMMA InOrderWithout ==
    ASSUME NEW S, NEW a \in Seq(S), NEW b \in Seq(S), NEW c \in Seq(S), NEW t \in Seq(S),
           InOrderOf(a \o (b \o c), t)
    PROVE  InOrderOf(a \o c, t)
<1> DEFINE s == a \o (b \o c)
           r == a \o c
           m == Len(a)
           n == Len(b)
           p == Len(c)
<1>1. m \in Nat /\ n \in Nat /\ p \in Nat
  BY ElementsOf
<1>2. /\ b \o c \in Seq(S) /\ Len(b \o c) = n + p
      /\ \A i \in 1 .. p : (b \o c)[n + i] = c[i]
  BY ConcatElements
<1>3. /\ s \in Seq(S) /\ Len(s) = m + (n + p)
      /\ \A i \in 1 .. m : s[i] = a[i]
      /\ \A i \in 1 .. n + p : s[m + i] = (b \o c)[i]
  BY <1>2, ConcatElements
<1>4. /\ r \in Seq(S) /\ Len(r) = m + p
      /\ \A i \in 1 .. m : r[i] = a[i]
      /\ \A i \in 1 .. p : r[m + i] = c[i]
      /\ \A k \in 1 .. m + p : k \in 1 .. m \/ \E i \in 1 .. p : k = m + i
  BY ConcatElements
<1>5. DOMAIN s = 1 .. m + (n + p) /\ DOMAIN r = 1 .. m + p
  BY <1>3, <1>4
<1>6. InOrderOf(s, t)
  OBVIOUS
<1> HIDE DEF s, r, m, n, p
<1> DEFINE at == [k \in 1 .. m + p |-> IF k <= m THEN k ELSE n + k]
<1>7. ASSUME NEW k \in 1 .. m + p
      PROVE  at[k] \in 1 .. m + (n + p) /\ s[at[k]] = r[k]
  <2>1. CASE k \in 1 .. m
    <3>1. at[k] = k
      BY <1>1, <2>1
    <3>2. QED
      BY <1>1, <1>3, <1>4, <2>1, <3>1
  <2>2. CASE \E i \in 1 .. p : k = m + i
    <3>1. PICK i \in 1 .. p : k = m + i
      BY <2>2
    <3>2. ~ (k <= m) /\ n + k = m + (n + i) /\ n + i \in 1 .. n + p
      BY <1>1, <3>1
    <3>3. at[k] = m + (n + i) /\ m + (n + i) \in 1 .. m + (n + p)
      BY <1>1, <3>2
    <3>4. s[m + (n + i)] = (b \o c)[n + i] /\ (b \o c)[n + i] = c[i]
      BY <1>2, <1>3, <3>2
    <3>5. r[k] = c[i]
      BY <1>4, <3>1
    <3>6. QED
      BY <3>3, <3>4, <3>5
  <2>3. QED
    BY <1>4, <2>1, <2>2
<1>8. \A j, k \in 1 .. m + p : j < k => at[j] < at[k]
  BY <1>1
<1> HIDE DEF at
<1>9. ToSet(r) \subseteq ToSet(t)
  <2>1. ASSUME NEW x \in ToSet(r) PROVE x \in ToSet(s)
    <3>1. PICK k \in 1 .. m + p : x = r[k]
      BY <1>5 DEF ToSet
    <3>2. QED
      BY <1>5, <1>7, <3>1 DEF ToSet
  <2>2. QED
    BY <1>6, <2>1 DEF InOrderOf
<1>10. ASSUME NEW i \in DOMAIN r, NEW j \in DOMAIN r, NEW k \in DOMAIN t, NEW l \in DOMAIN t,
              i < j, r[i] = t[k], r[j] = t[l]
       PROVE  k < l
  <2>1. /\ at[i] \in DOMAIN s /\ at[j] \in DOMAIN s /\ at[i] < at[j]
        /\ s[at[i]] = t[k] /\ s[at[j]] = t[l]
    BY <1>5, <1>7, <1>8, <1>10
  <2>2. QED
    BY <1>6, <2>1 DEF InOrderOf
<1>11. InOrderOf(r, t)
  BY <1>9, <1>10 DEF InOrderOf
<1>12. QED
  BY <1>11 DEF r

(* ... and when both sequences get the same new elements at their end.     *)
LEMMA InOrderExtended ==
    ASSUME NEW S, NEW s \in Seq(S), NEW t \in Seq(S), NEW x \in Seq(S),
           InOrderOf(s, t), Distinct(t \o x)
    PROVE  InOrderOf(s \o x, t \o x)
<1> DEFINE u == s \o x
           v == t \o x
           m == Len(s)
           n == Len(t)
           p == Len(x)
<1>1. m \in Nat /\ n \in Nat /\ p \in Nat /\ DOMAIN s = 1 .. m /\ DOMAIN t = 1 .. n
  BY ElementsOf
<1>2. /\ u \in Seq(S) /\ Len(u) = m + p
      /\ \A i \in 1 .. m : u[i] = s[i]
      /\ \A i \in 1 .. p : u[m + i] = x[i]
      /\ \A k \in 1 .. m + p : k \in 1 .. m \/ \E i \in 1 .. p : k = m + i
  BY ConcatElements
<1>3. /\ v \in Seq(S) /\ Len(v) = n + p
      /\ \A i \in 1 .. n : v[i] = t[i]
      /\ \A i \in 1 .. p : v[n + i] = x[i]
      /\ \A k \in 1 .. n + p : k \in 1 .. n \/ \E i \in 1 .. p : k = n + i
  BY ConcatElements
<1>4. ToSet(u) = ToSet(s) \cup ToSet(x) /\ ToSet(v) = ToSet(t) \cup ToSet(x)
  BY ConcatSets
<1>5. DOMAIN u = 1 .. m + p /\ DOMAIN v = 1 .. n + p
  BY <1>2, <1>3
<1>6. \A k, l \in 1 .. n + p : v[k] = v[l] => k = l
  BY <1>5 DEF Distinct
<1> HIDE DEF u, v, m, n, p
<1>7. ASSUME NEW i \in 1 .. m PROVE \E k \in 1 .. n : u[i] = v[k]
  <2>1. s[i] \in ToSet(t)
    BY <1>1 DEF InOrderOf, ToSet
  <2>2. PICK k \in 1 .. n : s[i] = t[k]
    BY <1>1, <2>1 DEF ToSet
  <2>3. QED
    BY <1>2, <1>3, <2>2
<1>8. ASSUME NEW i \in 1 .. m + p, NEW j \in 1 .. m + p, NEW k \in 1 .. n + p, NEW l \in 1 .. n + p,
             i < j, u[i] = v[k], u[j] = v[l]
      PROVE  k < l
  <2>1. CASE i \in 1 .. m
    <3>1. PICK q \in 1 .. n : u[i] = v[q]
      BY <2>1, <1>7
    <3>2. q \in 1 .. n + p /\ k = q
      <4>1. q \in 1 .. n + p
        BY <1>1
      <4>2. v[k] = v[q]
        BY <1>8, <3>1
      <4>3. QED
        BY <1>6, <4>1, <4>2
    <3>3. CASE j \in 1 .. m
      <4>1. PICK w \in 1 .. n : u[j] = v[w]
        BY <3>3, <1>7
      <4>2. w \in 1 .. n + p /\ l = w
        <5>1. w \in 1 .. n + p
          BY <1>1
        <5>2. v[l] = v[w]
          BY <1>8, <4>1
        <5>3. QED
          BY <1>6, <5>1, <5>2
      <4>3. s[i] = t[k] /\ s[j] = t[l]
        BY <1>2, <1>3, <1>8, <2>1, <3>2, <3>3, <4>2
      <4>4. QED
        BY <1>1, <1>8, <2>1, <3>2, <3>3, <4>2, <4>3 DEF InOrderOf
    <3>4. CASE j \notin 1 .. m
      <4>1. PICK w \in 1 .. p : j = m + w
        BY <1>2, <3>4
      <4>2. n + w \in 1 .. n + p /\ v[n + w] = u[j]
        BY <1>1, <1>2, <1>3, <4>1
      <4>3. l = n + w
        BY <1>6, <1>8, <4>2
      <4>4. QED
        BY <1>1, <3>2, <4>3
    <3>5. QED
      BY <3>3, <3>4
  <2>2. CASE i \notin 1 .. m
    <3>1. PICK w \in 1 .. p : i = m + w
      BY <1>2, <2>2
    <3>2. j \notin 1 .. m
      BY <1>1, <1>8, <2>2
    <3>3. PICK z \in 1 .. p : j = m + z
      BY <1>2, <3>2
    <3>4. n + w \in 1 .. n + p /\ n + z \in 1 .. n + p
      BY <1>1
    <3>7. v[n + w] = u[i] /\ v[n + z] = u[j]
      BY <1>2, <1>3, <3>1, <3>3
    <3>5. k = n + w /\ l = n + z
      BY <1>6, <1>8, <3>4, <3>7
    <3>6. QED
      BY <1>1, <1>8, <3>1, <3>3, <3>5
  <2>3. QED
    BY <2>1, <2>2
<1>9. ToSet(u) \subseteq ToSet(v)
  BY <1>4 DEF InOrderOf
<1>10. InOrderOf(u, v)
  BY <1>5, <1>8, <1>9 DEF InOrderOf
<1>11. QED
  BY <1>10 DEF u, v


LEMMA InOrderOnce ==
    ASSUME NEW s, NEW t, DOMAIN s \subseteq Int, DOMAIN t \subseteq Int, InOrderOf(s, t)
    PROVE  Distinct(s)
<1>1. SUFFICES ASSUME NEW i \in DOMAIN s, NEW j \in DOMAIN s, s[i] = s[j], i < j PROVE FALSE
  BY DEF Distinct
<1>2. s[i] \in ToSet(t)
  BY DEF InOrderOf, ToSet
<1>3. PICK k \in DOMAIN t : s[i] = t[k]
  BY <1>2 DEF ToSet
<1>4. k < k
  BY <1>1, <1>3 DEF InOrderOf
<1>5. ~ (k < k)
  BY <1>1, <1>3 DEF InOrderOf
<1>6. QED
  BY <1>4, <1>5

-----------------------------------------------------------------------------
(* The inductive invariant *)

Calling == {msg[t] : t \in Threads} \ {NoMsg}

(* A message is being sent by one thread, which is in Send. *)
Calls ==
    /\ \A t \in Threads : msg[t] # NoMsg <=> pc[t] \in {"sendSelect", "write"}
    /\ \A t, u \in Threads : msg[t] # NoMsg /\ msg[t] = msg[u] => t = u

(* On its way down a message is in one place: a call, the socket, or the   *)
(* stack.                                                                  *)
Down ==
    /\ Calling \cup ToSet(toTransport) \cup stack \subseteq made
    /\ Calling \cap ToSet(toTransport) = {} /\ Calling \cap stack = {}
    /\ ToSet(toTransport) \cap stack = {}
    /\ Distinct(toTransport)

(* What has been received, what is in the socket and what is in the output *)
(* buffer are in the order in which they were offered.                     *)
line == received \o (toApi \o output)

Up ==
    /\ Distinct(offered) /\ ToSet(offered) \subseteq made
    /\ InOrderOf(line, offered)
    /\ InUse => offered = line
    /\ mine \cap UpMsgs = ToSet(received)

(* r is what the worker has read of what was accepted. *)
ReadIs(r) ==
    /\ r \in Seq(DownMsgs)
    /\ accepted = r \o toTransport
    /\ passed = GoDown(r)
    /\ connState = "OPEN" <=> ~ Pausing(r)

DownOrder == InUse => \E r : ReadIs(r)

Draining == draining => ~ InUse

IInv == TypeOK /\ Calls /\ Down /\ Up /\ DownOrder /\ Draining /\ PointersAreAlive

-----------------------------------------------------------------------------
(* Types *)

Flags ==
    /\ blocked_down \in BOOLEAN /\ reading \in BOOLEAN /\ nonblock \in BOOLEAN
    /\ draining \in BOOLEAN /\ closeAsked \in BOOLEAN

Types ==
    /\ connState \in {"OPEN", "PAUSED", "CLOSED", "freed"} /\ Flags
    /\ toTransport \in Seq(DownMsgs) /\ Len(toTransport) <= SocketSize
    /\ toApi \in Seq(UpMsgs) /\ Len(toApi) <= SocketSize
    /\ output \in Seq(UpMsgs) /\ stack \subseteq DownMsgs
    /\ pc \in [Threads -> {"idle", "sendSelect", "write", "recvSelect", "read"}]
    /\ msg \in [Threads -> DownMsgs \cup {NoMsg}]
    /\ refs \in [Msgs -> Nat] /\ mine \subseteq made /\ made \subseteq Msgs
    /\ accepted \in Seq(DownMsgs) /\ passed \in Seq(DownMsgs)
    /\ offered \in Seq(UpMsgs) /\ received \in Seq(UpMsgs)

LEMMA TypesAreOK == Types <=> TypeOK
BY DEF Types, TypeOK, Flags

LEMMA TypesAreOKNext == Types' <=> TypeOK'
BY DEF Types, TypeOK, Flags

LEMMA Constants ==
    /\ DownMsgs \subseteq Msgs /\ UpMsgs \subseteq Msgs /\ DownMsgs \cap UpMsgs = {}
    /\ \A m \in Msgs : m # NoMsg /\ (m \in DownMsgs \/ m \in UpMsgs)
    /\ SocketSize \in Nat /\ SocketSize > 0
BY ApiAssumption DEF Msgs

(* The sets a message may be in *)
Down3(m) == In(stack, m) + In(Calling, m) + In(ToSet(toTransport), m)
Up2(m) == In(ToSet(toApi), m) + In(ToSet(output), m)

LEMMA CallersOf ==
    ASSUME NEW calls, NEW m, m # NoMsg,
           \A t, u \in Threads : calls[t] # NoMsg /\ calls[t] = calls[u] => t = u
    PROVE  Cardinality({t \in Threads : calls[t] = m}) = In({calls[t] : t \in Threads} \ {NoMsg}, m)
<1> DEFINE T == {t \in Threads : calls[t] = m}
<1>1. CASE T = {}
  <2>1. m \notin {calls[t] : t \in Threads} \ {NoMsg}
    BY <1>1
  <2>2. QED
    BY <1>1, <2>1, FS_EmptySet DEF In
<1>2. CASE T # {}
  <2>1. PICK t \in Threads : calls[t] = m
    BY <1>2
  <2>2. T = {t}
    BY <2>1
  <2>3. m \in {calls[u] : u \in Threads} \ {NoMsg}
    BY <2>1
  <2>4. Cardinality(T) = 1
    BY <2>2, FS_Singleton
  <2>5. QED
    BY <2>3, <2>4 DEF In
<1>3. QED
  BY <1>1, <1>2

LEMMA InNat == \A S, m : In(S, m) \in 0 .. 1 /\ (m \in S => In(S, m) = 1) /\ (m \notin S => In(S, m) = 0)
BY DEF In

LEMMA HoldersAre ==
    ASSUME Calls, NEW m \in Msgs
    PROVE  Holders(m) = In(mine, m) + Down3(m) + Up2(m)
<1>1. Cardinality({t \in Threads : msg[t] = m}) = In(Calling, m)
  BY Constants, CallersOf DEF Calls, Calling
<1>2. QED
  BY <1>1, InNat DEF Holders, Down3, Up2

LEMMA HoldersAreNext ==
    ASSUME Calls', NEW m \in Msgs
    PROVE  Holders(m)' = In(mine', m) + Down3(m)' + Up2(m)'
<1>1. Cardinality({t \in Threads : msg'[t] = m}) = In(Calling', m)
  BY Constants, CallersOf DEF Calls, Calling
<1>2. QED
  BY <1>1, InNat DEF Holders, Down3, Up2


(* What of the invariant a step keeps that leaves its variables alone *)

LEMMA DownFrame ==
    ASSUME Down, UNCHANGED <<toTransport, stack, msg>>, made \subseteq made'
    PROVE  Down'
<1>1. Calling' = Calling
  BY DEF Calling
<1>2. QED
  BY <1>1 DEF Down

LEMMA CallsFrame ==
    ASSUME Calls, UNCHANGED <<pc, msg>>
    PROVE  Calls'
BY DEF Calls

LEMMA UpFrame ==
    ASSUME Up, UNCHANGED <<toApi, output, offered, received>>, made \subseteq made',
           mine' \cap UpMsgs = mine \cap UpMsgs, InUse' => InUse
    PROVE  Up'
<1>1. line' = line
  BY DEF line
<1>2. QED
  BY <1>1 DEF Up

LEMMA DownOrderFrame ==
    ASSUME DownOrder, UNCHANGED <<toTransport, accepted, passed, connState>>
    PROVE  DownOrder'
<1>1. SUFFICES ASSUME InUse' PROVE \E r : ReadIs(r)'
  BY DEF DownOrder
<1>2. InUse
  BY <1>1 DEF InUse
<1>3. PICK r : ReadIs(r)
  BY <1>2 DEF DownOrder
<1>4. ReadIs(r)'
  BY <1>3 DEF ReadIs
<1>5. QED
  BY <1>4

LEMMA DownOrderClosed ==
    ASSUME connState' \in {"CLOSED", "freed"}
    PROVE  DownOrder' /\ ~ InUse'
BY DEF DownOrder, InUse

LEMMA AliveFrame ==
    ASSUME PointersAreAlive, UNCHANGED <<refs, mine, stack, msg, toTransport, toApi, output>>,
           InUse' => InUse
    PROVE  PointersAreAlive'
<1>1. \A m \in Msgs : Holders(m)' = Holders(m)
  BY DEF Holders
<1>2. QED
  BY <1>1 DEF PointersAreAlive

(* A call that sends nothing begins, goes on or ends. *)
LEMMA CallsStep ==
    ASSUME Types, Calls, NEW t \in Threads,
           msg' = msg, NEW step \in {"idle", "sendSelect", "write", "recvSelect", "read"},
           pc' = [pc EXCEPT ![t] = step],
           step \in {"sendSelect", "write"} <=> pc[t] \in {"sendSelect", "write"}
    PROVE  Calls' /\ pc' \in [Threads -> {"idle", "sendSelect", "write", "recvSelect", "read"}]
<1>1. pc' \in [Threads -> {"idle", "sendSelect", "write", "recvSelect", "read"}]
  BY DEF Types
<1>2. \A u \in Threads : pc'[u] \in {"sendSelect", "write"} <=> pc[u] \in {"sendSelect", "write"}
  BY DEF Types
<1>3. QED
  BY <1>1, <1>2 DEF Calls

(* A step of a call that moves no message *)
LEMMA CallKeeps ==
    ASSUME IInv, Calls', msg' = msg,
           pc' \in [Threads -> {"idle", "sendSelect", "write", "recvSelect", "read"}],
           UNCHANGED <<connection, kernel, output, draining, stack, closeAsked, refs, mine, made, logs>>
    PROVE  IInv'
<1>1. UNCHANGED <<connState, blocked_down, reading, toTransport, toApi, nonblock, output, draining,
                  stack, msg, closeAsked, refs, mine, made, accepted, passed, offered, received>>
  BY DEF connection, kernel, logs
<1>2. Types /\ Down /\ Up /\ DownOrder /\ Draining /\ PointersAreAlive
  BY TypesAreOK DEF IInv
<1>3. InUse' <=> InUse
  BY <1>1 DEF InUse
<1>4. TypeOK'
  <2>1. Types'
    BY <1>1, <1>2 DEF Types, Flags
  <2>2. QED
    BY <2>1, TypesAreOKNext
<1>5. Down'
  BY <1>1, <1>2, DownFrame
<1>6. Up'
  BY <1>1, <1>2, <1>3, UpFrame
<1>7. DownOrder'
  BY <1>1, <1>2, DownOrderFrame
<1>8. PointersAreAlive'
  BY <1>1, <1>2, <1>3, AliveFrame
<1>9. Draining'
  BY <1>1, <1>2, <1>3 DEF Draining
<1>10. QED
  BY <1>4, <1>5, <1>6, <1>7, <1>8, <1>9 DEF IInv

LEMMA SelectKeeps ==
    ASSUME IInv, NEW t \in Threads,
           SendSelect(t) \/ Recv(t) \/ RecvSelect(t)
    PROVE  IInv'
<1>1. Types /\ Calls
  BY TypesAreOK DEF IInv
<1>2. UNCHANGED <<connection, kernel, output, draining, stack, closeAsked, refs, mine, made, logs>>
      /\ msg' = msg
  BY DEF SendSelect, Recv, RecvSelect, Goto
<1>3. Calls' /\ pc' \in [Threads -> {"idle", "sendSelect", "write", "recvSelect", "read"}]
  <2>1. CASE SendSelect(t)
    BY <1>1, <1>2, <2>1, CallsStep DEF SendSelect, Goto
  <2>2. CASE Recv(t)
    BY <1>1, <1>2, <2>2, CallsStep DEF Recv, Goto
  <2>3. CASE RecvSelect(t)
    BY <1>1, <1>2, <2>3, CallsStep DEF RecvSelect, Goto
  <2>4. QED
    BY <2>1, <2>2, <2>3
<1>4. QED
  BY <1>2, <1>3, CallKeeps

LEMMA RecvFailsKeeps ==
    ASSUME IInv, NEW t \in Threads, RecvFails(t)
    PROVE  IInv'
<1>1. Types /\ Calls
  BY TypesAreOK DEF IInv
<1>2. UNCHANGED <<connection, kernel, output, draining, stack, closeAsked, refs, mine, made, logs>>
  BY DEF RecvFails
<1>3. pc[t] \in {"recvSelect", "read"} /\ pc' = [pc EXCEPT ![t] = "idle"]
      /\ msg' = [msg EXCEPT ![t] = NoMsg]
  BY DEF RecvFails, Return
<1>4. msg' = msg
  <2>1. msg[t] = NoMsg
    BY <1>1, <1>3 DEF Calls
  <2>2. QED
    BY <1>1, <1>3, <2>1 DEF Types
<1>5. Calls' /\ pc' \in [Threads -> {"idle", "sendSelect", "write", "recvSelect", "read"}]
  BY <1>1, <1>3, <1>4, CallsStep
<1>6. QED
  BY <1>2, <1>4, <1>5, CallKeeps

(* Steps that change a flag *)
LEMMA FlagKeeps ==
    ASSUME IInv, Flags', Draining',
           UNCHANGED <<connState, toTransport, toApi, output, stack, call, refs, mine, made, logs>>
    PROVE  IInv'
<1>1. UNCHANGED <<connState, toTransport, toApi, output, stack, pc, msg, refs, mine, made,
                  accepted, passed, offered, received>>
  BY DEF call, logs
<1>2. Types /\ Calls /\ Down /\ Up /\ DownOrder /\ PointersAreAlive
  BY TypesAreOK DEF IInv
<1>3. InUse' <=> InUse
  BY <1>1 DEF InUse
<1>4. TypeOK'
  <2>1. Types'
    BY <1>1, <1>2 DEF Types
  <2>2. QED
    BY <2>1, TypesAreOKNext
<1>5. Calls' /\ Down'
  BY <1>1, <1>2, DownFrame, CallsFrame
<1>6. Up'
  BY <1>1, <1>2, <1>3, UpFrame
<1>7. DownOrder'
  BY <1>1, <1>2, DownOrderFrame
<1>8. PointersAreAlive'
  BY <1>1, <1>2, <1>3, AliveFrame
<1>9. QED
  BY <1>4, <1>5, <1>6, <1>7, <1>8 DEF IInv

LEMMA CloseKeeps == IInv /\ Close => IInv'
<1> SUFFICES ASSUME IInv, Close PROVE IInv'
  OBVIOUS
<1>1. Types /\ Draining
  BY TypesAreOK DEF IInv
<1>2. /\ closeAsked' = TRUE
      /\ UNCHANGED <<connState, toTransport, toApi, output, stack, call, refs, mine, made, logs>>
      /\ UNCHANGED <<blocked_down, reading, nonblock, draining>>
  BY DEF Close, connection, kernel
<1>3. Flags'
  BY <1>1, <1>2 DEF Types, Flags
<1>4. Draining'
  BY <1>1, <1>2 DEF Draining, InUse
<1>5. QED
  BY <1>2, <1>3, <1>4, FlagKeeps

LEMMA DrainedKeeps == IInv /\ Drained => IInv'
<1> SUFFICES ASSUME IInv, Drained PROVE IInv'
  OBVIOUS
<1>1. Types
  BY TypesAreOK DEF IInv
<1>2. /\ draining' = FALSE
      /\ UNCHANGED <<connState, toTransport, toApi, output, stack, call, refs, mine, made, logs>>
      /\ UNCHANGED <<blocked_down, reading, nonblock, closeAsked>>
  BY DEF Drained, connection, kernel
<1>3. Flags'
  BY <1>1, <1>2 DEF Types, Flags
<1>4. Draining'
  BY <1>2 DEF Draining
<1>5. QED
  BY <1>2, <1>3, <1>4, FlagKeeps

LEMMA BlockDownKeeps == ASSUME IInv, NEW blocked \in BOOLEAN, BlockDown(blocked) PROVE IInv'
<1>1. Types /\ Draining
  BY TypesAreOK DEF IInv
<1>2. /\ blocked_down' = blocked
      /\ UNCHANGED <<connState, toTransport, toApi, output, stack, call, refs, mine, made, logs>>
      /\ UNCHANGED <<nonblock, draining, closeAsked>>
  BY DEF BlockDown, kernel
<1>3. reading' \in BOOLEAN
  BY DEF BlockDown, StateChange
<1>4. Flags'
  BY <1>1, <1>2, <1>3 DEF Types, Flags
<1>5. Draining'
  BY <1>1, <1>2 DEF Draining, InUse
<1>6. QED
  BY <1>2, <1>4, <1>5, FlagKeeps


-----------------------------------------------------------------------------
(* References *)

Weight(m) == In(mine, m) + Down3(m) + Up2(m)

LEMMA WeightNat == \A m : Weight(m) \in Nat
BY InNat DEF Weight, Down3, Up2

LEMMA WeightNatNext == \A m : Weight(m)' \in Nat
BY InNat DEF Weight, Down3, Up2

(* A message has a reference for each place it is in. *)
LEMMA AliveMeans ==
    ASSUME Types, Calls, PointersAreAlive, NEW m \in Msgs
    PROVE  refs[m] \in Nat /\ refs[m] >= Weight(m) /\ (InUse => refs[m] = Weight(m))
<1>1. Holders(m) = Weight(m)
  BY HoldersAre DEF Weight
<1>2. refs[m] \in Nat
  BY DEF Types
<1>3. QED
  BY <1>1, <1>2 DEF PointersAreAlive

(* A step takes and gives back references as messages change their places; *)
(* one that ends the use of the connection may leave some behind.          *)
LEMMA AliveStep ==
    ASSUME Types, Calls, PointersAreAlive, Calls', InUse' => InUse,
           \A m \in Msgs : /\ refs'[m] \in Int
                           /\ refs'[m] - refs[m] >= Weight(m)' - Weight(m)
                           /\ InUse' => refs'[m] - refs[m] = Weight(m)' - Weight(m)
    PROVE  PointersAreAlive' /\ \A m \in Msgs : refs'[m] \in Nat
<1>1. ASSUME NEW m \in Msgs
      PROVE  /\ refs'[m] >= Holders(m)' /\ refs'[m] \in Nat
             /\ InUse' => refs'[m] = Holders(m)'
  <2>1. refs[m] \in Nat /\ refs[m] >= Weight(m) /\ (InUse => refs[m] = Weight(m))
    BY AliveMeans
  <2>2. Holders(m)' = Weight(m)'
    BY HoldersAreNext DEF Weight
  <2>3. Weight(m) \in Nat /\ Weight(m)' \in Nat
    BY WeightNat, WeightNatNext
  <2>4. /\ refs'[m] \in Int
        /\ refs'[m] - refs[m] >= Weight(m)' - Weight(m)
        /\ InUse' => refs'[m] - refs[m] = Weight(m)' - Weight(m)
    OBVIOUS
  <2> DEFINE w == Weight(m)
             v == Weight(m)'
  <2>5. refs'[m] >= v /\ refs'[m] \in Nat
    <3> HIDE DEF w, v
    <3>1. QED
      BY <2>1, <2>3, <2>4 DEF w, v
  <2>6. InUse' => refs'[m] = v
    <3>1. SUFFICES ASSUME InUse' PROVE refs'[m] = v
      OBVIOUS
    <3>2. refs[m] = w /\ refs'[m] - refs[m] = v - w
      BY <2>1, <2>4, <3>1
    <3> HIDE DEF w, v
    <3>3. QED
      BY <2>1, <2>3, <2>4, <3>2 DEF w, v
  <2>7. QED
    BY <2>2, <2>5, <2>6
<1>2. QED
  BY <1>1 DEF PointersAreAlive

(* One message leaves a place and another reference to it is given back.   *)
LEMMA ReleaseOne ==
    ASSUME Types, NEW x \in Msgs, refs' = Release({x}, refs)
    PROVE  /\ DOMAIN refs' = Msgs
           /\ \A m \in Msgs : refs'[m] \in Int /\ refs'[m] - refs[m] = 0 - In({x}, m)
<1>1. ASSUME NEW m \in Msgs
      PROVE  refs'[m] \in Int /\ refs'[m] - refs[m] = 0 - In({x}, m)
  <2>1. refs[m] \in Nat /\ refs'[m] = IF m \in {x} THEN refs[m] - 1 ELSE refs[m]
    BY DEF Types, Release
  <2>2. QED
    BY <2>1 DEF In
<1>2. QED
  BY <1>1 DEF Release

LEMMA AliveExact ==
    ASSUME Types, Calls, PointersAreAlive, Calls', InUse' => InUse,
           \A m \in Msgs : refs'[m] \in Int /\ refs'[m] - refs[m] = Weight(m)' - Weight(m)
    PROVE  PointersAreAlive' /\ \A m \in Msgs : refs'[m] \in Nat
<1>1. \A m \in Msgs : refs'[m] - refs[m] >= Weight(m)' - Weight(m)
  BY DEF Types
<1>2. QED
  BY <1>1, AliveStep

-----------------------------------------------------------------------------
(* Sending *)

(* A thread leaves Send, and its message with it. *)
LEMMA CallEnds ==
    ASSUME Types, Calls, NEW t \in Threads, pc[t] \in {"sendSelect", "write"}, Return(t)
    PROVE  /\ msg[t] \in DownMsgs /\ msg[t] \in Calling
           /\ Calls' /\ Calling' = Calling \ {msg[t]}
           /\ pc' \in [Threads -> {"idle", "sendSelect", "write", "recvSelect", "read"}]
           /\ msg' \in [Threads -> DownMsgs \cup {NoMsg}]
<1>1. msg[t] # NoMsg /\ msg[t] \in DownMsgs /\ msg[t] \in Calling
  BY DEF Calls, Types, Calling
<1>2. /\ pc' \in [Threads -> {"idle", "sendSelect", "write", "recvSelect", "read"}]
      /\ msg' \in [Threads -> DownMsgs \cup {NoMsg}]
  BY DEF Types, Return
<1>3. /\ \A u \in Threads \ {t} : pc'[u] = pc[u] /\ msg'[u] = msg[u]
      /\ pc'[t] = "idle" /\ msg'[t] = NoMsg
  BY DEF Types, Return
<1>4. \A u \in Threads : msg'[u] # NoMsg <=> pc'[u] \in {"sendSelect", "write"}
  BY <1>3 DEF Calls
<1>5. ASSUME NEW u \in Threads, NEW w \in Threads, msg'[u] # NoMsg, msg'[u] = msg'[w] PROVE u = w
  BY <1>3, <1>5 DEF Calls
<1>6. Calling' = Calling \ {msg[t]}
  <2>1. ASSUME NEW x \in Calling' PROVE x \in Calling \ {msg[t]}
    <3>1. PICK u \in Threads : x = msg'[u] /\ x # NoMsg
      BY DEF Calling
    <3>2. u # t /\ msg[u] = x
      BY <1>3, <3>1
    <3>3. msg[u] # msg[t]
      BY <3>1, <3>2 DEF Calls
    <3>4. QED
      BY <3>1, <3>2, <3>3 DEF Calling
  <2>2. ASSUME NEW x \in Calling, x # msg[t] PROVE x \in Calling'
    <3>1. PICK u \in Threads : x = msg[u] /\ x # NoMsg
      BY DEF Calling
    <3>2. u # t
      BY <2>2, <3>1
    <3>3. msg'[u] = x
      BY <1>3, <3>1, <3>2
    <3>4. QED
      BY <3>1, <3>3 DEF Calling
  <2>3. QED
    BY <2>1, <2>2
<1>7. QED
  BY <1>1, <1>2, <1>4, <1>5, <1>6 DEF Calls

LEMMA SendFailsKeeps == ASSUME IInv, NEW t \in Threads, SendFails(t) PROVE IInv'
<1>1. Types /\ Calls /\ Down /\ Up /\ DownOrder /\ Draining /\ PointersAreAlive
  BY TypesAreOK DEF IInv
<1>2. /\ UNCHANGED <<connState, blocked_down, reading, toTransport, toApi, nonblock, output, draining,
                     stack, closeAsked, mine, made, accepted, passed, offered, received>>
      /\ Return(t) /\ refs' = Release({msg[t]}, refs) /\ pc[t] \in {"sendSelect", "write"}
  BY DEF SendFails, CannotSend, connection, kernel, logs
<1>3. /\ msg[t] \in DownMsgs /\ msg[t] \in Calling
      /\ Calls' /\ Calling' = Calling \ {msg[t]}
      /\ pc' \in [Threads -> {"idle", "sendSelect", "write", "recvSelect", "read"}]
      /\ msg' \in [Threads -> DownMsgs \cup {NoMsg}]
  BY <1>1, <1>2, CallEnds
<1>4. InUse' <=> InUse
  BY <1>2 DEF InUse
<1>5. /\ DOMAIN refs' = Msgs
      /\ \A m \in Msgs : refs'[m] \in Int /\ refs'[m] - refs[m] = 0 - In({msg[t]}, m)
  <2>1. msg[t] \in Msgs
    BY <1>3, Constants
  <2>2. QED
    BY <1>1, <1>2, <2>1, ReleaseOne
<1>6. ASSUME NEW m \in Msgs PROVE Weight(m)' - Weight(m) = 0 - In({msg[t]}, m)
  <2>1. In(Calling', m) = In(Calling, m) - In({msg[t]}, m)
    BY <1>3 DEF In
  <2>2. /\ In(mine', m) = In(mine, m) /\ In(stack', m) = In(stack, m)
        /\ In(ToSet(toTransport'), m) = In(ToSet(toTransport), m)
        /\ In(ToSet(toApi'), m) = In(ToSet(toApi), m)
        /\ In(ToSet(output'), m) = In(ToSet(output), m)
    BY <1>2
  <2>3. QED
    BY <2>1, <2>2, InNat DEF Weight, Down3, Up2
<1>7. PointersAreAlive' /\ \A m \in Msgs : refs'[m] \in Nat
  <2>1. \A m \in Msgs : /\ refs'[m] \in Int
                        /\ refs'[m] - refs[m] = Weight(m)' - Weight(m)
    BY <1>5, <1>6
  <2>2. QED
    BY <1>1, <1>3, <1>4, <2>1, AliveExact
<1>8. TypeOK'
  <2>1. refs' \in [Msgs -> Nat]
    BY <1>2, <1>7 DEF Release
  <2>2. Types'
    BY <1>1, <1>2, <1>3, <2>1 DEF Types, Flags
  <2>3. QED
    BY <2>2, TypesAreOKNext
<1>9. Down'
  BY <1>1, <1>2, <1>3 DEF Down
<1>10. Up'
  BY <1>1, <1>2, <1>4, UpFrame
<1>11. DownOrder'
  BY <1>1, <1>2, DownOrderFrame
<1>12. Draining'
  BY <1>1, <1>2, <1>4 DEF Draining
<1>13. QED
  BY <1>3, <1>7, <1>8, <1>9, <1>10, <1>11, <1>12 DEF IInv


LEMMA SendKeeps ==
    ASSUME IInv, NEW t \in Threads, NEW x \in DownMsgs, Send(t, x)
    PROVE  IInv'
<1>1. Types /\ Calls /\ Down /\ Up /\ DownOrder /\ Draining /\ PointersAreAlive
  BY TypesAreOK DEF IInv
<1>2. /\ UNCHANGED <<connState, blocked_down, reading, toTransport, toApi, nonblock, output, draining,
                     stack, closeAsked, accepted, passed, offered, received>>
      /\ pc[t] = "idle" /\ x \in DownMsgs \ made /\ made' = made \cup {x} /\ mine' = mine \cup {x}
      /\ refs' = [refs EXCEPT ![x] = 2]
      /\ pc' = [pc EXCEPT ![t] = "sendSelect"] /\ msg' = [msg EXCEPT ![t] = x]
  BY DEF Send, connection, kernel, logs
<1>3. x \in Msgs /\ x # NoMsg /\ x \notin UpMsgs
  BY <1>2, Constants
<1>4. /\ \A u \in Threads \ {t} : pc'[u] = pc[u] /\ msg'[u] = msg[u]
      /\ pc'[t] = "sendSelect" /\ msg'[t] = x /\ msg[t] = NoMsg
      /\ \A u \in Threads : msg[u] # x
  <2>1. ASSUME NEW u \in Threads PROVE msg[u] # x
    <3>1. msg[u] # NoMsg => msg[u] \in made
      BY <1>1 DEF Down, Calling
    <3>2. QED
      BY <1>2, <1>3, <3>1
  <2>2. msg[t] = NoMsg
    BY <1>1, <1>2 DEF Calls
  <2>3. QED
    BY <1>1, <1>2, <2>1, <2>2 DEF Types
<1>5. Calls'
  <2>1. \A u \in Threads : msg'[u] # NoMsg <=> pc'[u] \in {"sendSelect", "write"}
    BY <1>1, <1>3, <1>4 DEF Calls
  <2>2. ASSUME NEW u \in Threads, NEW w \in Threads, msg'[u] # NoMsg, msg'[u] = msg'[w] PROVE u = w
    BY <1>1, <1>4, <2>2 DEF Calls
  <2>3. QED
    BY <2>1, <2>2 DEF Calls
<1>6. Calling' = Calling \cup {x}
  <2>1. ASSUME NEW y \in Calling' PROVE y \in Calling \cup {x}
    BY <1>4 DEF Calling
  <2>2. ASSUME NEW y \in Calling PROVE y \in Calling'
    <3>1. PICK u \in Threads : y = msg[u] /\ y # NoMsg
      BY DEF Calling
    <3>2. u # t /\ msg'[u] = y
      BY <1>4, <3>1
    <3>3. QED
      BY <3>1, <3>2 DEF Calling
  <2>3. x \in Calling'
    BY <1>3, <1>4 DEF Calling
  <2>4. QED
    BY <2>1, <2>2, <2>3
<1>7. x \notin mine /\ x \notin Calling /\ x \notin stack /\ x \notin ToSet(toTransport)
  BY <1>1, <1>2 DEF Types, Down
<1>8. x \notin ToSet(toApi) /\ x \notin ToSet(output)
  <2>1. ToSet(toApi) \subseteq UpMsgs /\ ToSet(output) \subseteq UpMsgs
    BY <1>1, ElementsOf DEF Types
  <2>2. QED
    BY <1>3, <2>1
<1>9. InUse' <=> InUse
  BY <1>2 DEF InUse
<1>10. ASSUME NEW m \in Msgs
       PROVE  /\ refs'[m] >= Holders(m)' /\ refs'[m] \in Nat
              /\ InUse' => refs'[m] = Holders(m)'
  <2>1. Holders(m)' = In(mine', m) + Down3(m)' + Up2(m)'
    BY <1>5, HoldersAreNext
  <2>2. CASE m = x
    <3>1. In(mine', m) = 1 /\ In(Calling', m) = 1 /\ In(stack', m) = 0
          /\ In(ToSet(toTransport'), m) = 0 /\ In(ToSet(toApi'), m) = 0 /\ In(ToSet(output'), m) = 0
      BY <1>2, <1>6, <1>7, <1>8, <2>2 DEF In
    <3>2. Holders(m)' = 2
      BY <2>1, <3>1 DEF Down3, Up2
    <3>3. refs'[m] = 2
      BY <1>1, <1>2, <2>2 DEF Types
    <3>4. QED
      BY <3>2, <3>3
  <2>3. CASE m # x
    <3>1. In(mine', m) = In(mine, m) /\ In(Calling', m) = In(Calling, m)
      BY <1>2, <1>6, <2>3 DEF In
    <3>2. Down3(m)' = Down3(m) /\ Up2(m)' = Up2(m)
      BY <1>2, <3>1 DEF Down3, Up2
    <3>3. Holders(m)' = Weight(m)
      BY <2>1, <3>1, <3>2 DEF Weight
    <3>4. refs'[m] = refs[m]
      BY <1>1, <1>2, <2>3 DEF Types
    <3>5. refs[m] \in Nat /\ refs[m] >= Weight(m) /\ (InUse => refs[m] = Weight(m))
      BY <1>1, AliveMeans
    <3>6. QED
      BY <1>9, <3>3, <3>4, <3>5
  <2>4. QED
    BY <2>2, <2>3
<1>11. PointersAreAlive'
  BY <1>10 DEF PointersAreAlive
<1>12. TypeOK'
  <2>1. refs' \in [Msgs -> Nat]
    BY <1>1, <1>2 DEF Types
  <2>2. /\ pc' \in [Threads -> {"idle", "sendSelect", "write", "recvSelect", "read"}]
        /\ msg' \in [Threads -> DownMsgs \cup {NoMsg}]
    BY <1>1, <1>2 DEF Types
  <2>3. mine' \subseteq made' /\ made' \subseteq Msgs
    BY <1>1, <1>2, <1>3 DEF Types
  <2>4. Types'
    BY <1>1, <1>2, <2>1, <2>2, <2>3 DEF Types, Flags
  <2>5. QED
    BY <2>4, TypesAreOKNext
<1>13. Down'
  BY <1>1, <1>2, <1>6, <1>7 DEF Down
<1>14. Up'
  <2>1. mine' \cap UpMsgs = mine \cap UpMsgs /\ made \subseteq made'
    BY <1>2, <1>3
  <2>2. QED
    BY <1>1, <1>2, <1>9, <2>1, UpFrame
<1>15. DownOrder'
  BY <1>1, <1>2, DownOrderFrame
<1>16. Draining'
  BY <1>1, <1>2, <1>9 DEF Draining
<1>17. QED
  BY <1>5, <1>11, <1>12, <1>13, <1>14, <1>15, <1>16 DEF IInv

LEMMA SendWriteKeeps == ASSUME IInv, NEW t \in Threads, SendWrite(t) PROVE IInv'
<1>1. Types /\ Calls /\ Down /\ Up /\ DownOrder /\ Draining /\ PointersAreAlive
  BY TypesAreOK DEF IInv
<1> DEFINE x == msg[t]
<1>2. /\ UNCHANGED <<connState, blocked_down, reading, toApi, nonblock, output, draining, stack,
                     closeAsked, refs, mine, made, passed, offered, received>>
      /\ Return(t) /\ pc[t] \in {"sendSelect", "write"} /\ Len(toTransport) < SocketSize
      /\ toTransport' = Append(toTransport, x) /\ accepted' = Append(accepted, x)
  BY DEF SendWrite, connection
<1>3. /\ x \in DownMsgs /\ x \in Calling
      /\ Calls' /\ Calling' = Calling \ {x}
      /\ pc' \in [Threads -> {"idle", "sendSelect", "write", "recvSelect", "read"}]
      /\ msg' \in [Threads -> DownMsgs \cup {NoMsg}]
  BY <1>1, <1>2, CallEnds
<1>4. InUse' <=> InUse
  BY <1>2 DEF InUse
<1> HIDE DEF x
<1>5. /\ toTransport \in Seq(DownMsgs) /\ accepted \in Seq(DownMsgs) /\ <<x>> \in Seq(DownMsgs)
      /\ toTransport' = toTransport \o <<x>> /\ toTransport' \in Seq(DownMsgs)
      /\ accepted' = accepted \o <<x>> /\ accepted' \in Seq(DownMsgs)
      /\ Len(toTransport') = Len(toTransport) + 1
      /\ ToSet(<<x>>) = {x} /\ Distinct(<<x>>)
  BY <1>1, <1>2, <1>3, AppendAsConcat, Singleton DEF Types
<1>6. /\ ToSet(toTransport') = ToSet(toTransport) \cup {x}
      /\ x \notin ToSet(toTransport) /\ x \notin stack /\ x \in made
      /\ Distinct(toTransport')
  <2>1. x \notin ToSet(toTransport) /\ x \notin stack /\ x \in made
    BY <1>1, <1>3 DEF Down
  <2>2. /\ ToSet(toTransport \o <<x>>) = ToSet(toTransport) \cup ToSet(<<x>>)
        /\ Distinct(toTransport \o <<x>>) <=>
             Distinct(toTransport) /\ Distinct(<<x>>) /\ ToSet(toTransport) \cap ToSet(<<x>>) = {}
    BY <1>5, ConcatSets
  <2>3. QED
    BY <1>1, <1>5, <2>1, <2>2 DEF Down
<1>7. ASSUME NEW m \in Msgs PROVE Weight(m)' - Weight(m) = 0
  <2>1. Down3(m)' = Down3(m)
    <3>1. In(ToSet(toTransport'), m) + In(Calling', m) = In(ToSet(toTransport), m) + In(Calling, m)
      BY <1>3, <1>6 DEF In
    <3>2. In(stack', m) = In(stack, m)
      BY <1>2
    <3>3. QED
      BY <3>1, <3>2, InNat DEF Down3
  <2>2. Up2(m)' = Up2(m) /\ In(mine', m) = In(mine, m)
    BY <1>2 DEF Up2
  <2>3. Weight(m)' = Weight(m)
    BY <2>1, <2>2 DEF Weight
  <2>4. QED
    BY <2>3, WeightNat
<1>8. PointersAreAlive'
  <2>1. \A m \in Msgs : refs'[m] \in Int /\ refs'[m] - refs[m] = Weight(m)' - Weight(m)
    BY <1>1, <1>2, <1>7 DEF Types
  <2>2. QED
    BY <1>1, <1>3, <1>4, <2>1, AliveExact
<1>9. TypeOK'
  <2>1. Len(toTransport') <= SocketSize
    BY <1>2, <1>5, Constants
  <2>2. Types'
    BY <1>1, <1>2, <1>3, <1>5, <2>1 DEF Types, Flags
  <2>3. QED
    BY <2>2, TypesAreOKNext
<1>10. Down'
  BY <1>1, <1>2, <1>3, <1>6 DEF Down
<1>11. Up'
  BY <1>1, <1>2, <1>4, UpFrame
<1>12. DownOrder'
  <2>1. SUFFICES ASSUME InUse' PROVE \E r : ReadIs(r)'
    BY DEF DownOrder
  <2>2. PICK r : ReadIs(r)
    BY <1>1, <1>4, <2>1 DEF DownOrder
  <2>3. r \in Seq(DownMsgs) /\ accepted = r \o toTransport /\ passed = GoDown(r)
        /\ (connState = "OPEN" <=> ~ Pausing(r))
    BY <2>2 DEF ReadIs
  <2>4. (r \o toTransport) \o <<x>> = r \o (toTransport \o <<x>>)
    <3>1. Associates(r, toTransport, <<x>>)
      BY <1>5, <2>3, ConcatAssociates
    <3>2. QED
      BY <3>1, Zenon DEF Associates
  <2>5. accepted' = r \o toTransport'
    BY <1>5, <2>3, <2>4, Zenon
  <2>6. ReadIs(r)'
    BY <1>2, <2>3, <2>5 DEF ReadIs
  <2>7. QED
    BY <2>6
<1>13. Draining'
  BY <1>1, <1>2, <1>4 DEF Draining
<1>14. QED
  BY <1>3, <1>8, <1>9, <1>10, <1>11, <1>12, <1>13 DEF IInv


(* A step that gives one reference back, as a message leaves mine or stack *)
LEMMA LetGo ==
    ASSUME IInv, NEW x \in DownMsgs,
           \/ x \in mine /\ mine' = mine \ {x} /\ stack' = stack
           \/ x \in stack /\ stack' = stack \ {x} /\ mine' = mine,
           refs' = Release({x}, refs),
           UNCHANGED <<connState, blocked_down, reading, toTransport, toApi, nonblock, output, draining,
                       pc, msg, closeAsked, made, accepted, passed, offered, received>>
    PROVE  IInv'
<1>1. Types /\ Calls /\ Down /\ Up /\ DownOrder /\ Draining /\ PointersAreAlive
  BY TypesAreOK DEF IInv
<1>2. UNCHANGED <<connState, blocked_down, reading, toTransport, toApi, nonblock, output, draining,
                  pc, msg, closeAsked, made, accepted, passed, offered, received>>
  OBVIOUS
<1>3. InUse' <=> InUse
  BY <1>2 DEF InUse
<1>4. x \in Msgs /\ x \notin UpMsgs
  BY Constants
<1>5. \A m \in Msgs : refs'[m] \in Int /\ refs'[m] - refs[m] = 0 - In({x}, m)
  BY <1>1, <1>4, ReleaseOne
<1>6. ASSUME NEW m \in Msgs PROVE Weight(m)' - Weight(m) = 0 - In({x}, m)
  <2>1. In(mine', m) + In(stack', m) = In(mine, m) + In(stack, m) - In({x}, m)
    <3>1. CASE m = x
      BY <3>1 DEF In
    <3>2. CASE m # x
      BY <3>2 DEF In
    <3>3. QED
      BY <3>1, <3>2
  <2>2. Calling' = Calling /\ Up2(m)' = Up2(m)
    BY <1>2 DEF Calling, Up2
  <2>3. In(Calling', m) = In(Calling, m) /\ In(ToSet(toTransport'), m) = In(ToSet(toTransport), m)
    BY <1>2, <2>2
  <2>4. Up2(m) \in Nat
    BY InNat DEF Up2
  <2>5. QED
    BY <2>1, <2>2, <2>3, <2>4, InNat DEF Weight, Down3
<1>7. Calls'
  BY <1>1, <1>2, CallsFrame
<1>8. PointersAreAlive' /\ \A m \in Msgs : refs'[m] \in Nat
  <2>1. \A m \in Msgs : /\ refs'[m] \in Int
                        /\ refs'[m] - refs[m] = Weight(m)' - Weight(m)
    BY <1>5, <1>6
  <2>2. QED
    BY <1>1, <1>3, <1>7, <2>1, AliveExact
<1>9. TypeOK'
  <2>1. refs' \in [Msgs -> Nat]
    BY <1>8 DEF Release
  <2>2. mine' \subseteq made' /\ stack' \subseteq DownMsgs
    BY <1>1, <1>2 DEF Types
  <2>3. Types'
    BY <1>1, <1>2, <2>1, <2>2 DEF Types, Flags
  <2>4. QED
    BY <2>3, TypesAreOKNext
<1>10. Down'
  <2>1. Calling' = Calling
    BY <1>2 DEF Calling
  <2>2. stack' \subseteq stack
    OBVIOUS
  <2>3. QED
    BY <1>1, <1>2, <2>1, <2>2 DEF Down
<1>11. Up'
  <2>1. mine' \cap UpMsgs = mine \cap UpMsgs
    BY <1>4
  <2>2. QED
    BY <1>1, <1>2, <1>3, <2>1, UpFrame
<1>12. DownOrder'
  BY <1>1, <1>2, DownOrderFrame
<1>13. Draining'
  BY <1>1, <1>2, <1>3 DEF Draining
<1>14. QED
  BY <1>7, <1>8, <1>9, <1>10, <1>11, <1>12, <1>13 DEF IInv

LEMMA AppReleaseKeeps == ASSUME IInv, NEW m \in Msgs, AppRelease(m) PROVE IInv'
BY LetGo DEF AppRelease, connection, kernel, call, logs

LEMMA StackDoneKeeps == ASSUME IInv, NEW m \in Msgs, StackDone(m) PROVE IInv'
<1>1. m \in DownMsgs
  BY TypesAreOK DEF IInv, Types, StackDone
<1>2. QED
  BY <1>1, LetGo DEF StackDone, connection, kernel, call, logs

LEMMA RemoveConnectionKeeps == IInv /\ RemoveConnection => IInv'
<1> SUFFICES ASSUME IInv, RemoveConnection PROVE IInv'
  OBVIOUS
<1>1. Types /\ Calls /\ Down /\ Up /\ DownOrder /\ Draining /\ PointersAreAlive
  BY TypesAreOK DEF IInv
<1>2. /\ UNCHANGED <<blocked_down, reading, toApi, nonblock, output, draining, stack, pc, msg,
                     closeAsked, refs, mine, made, accepted, passed, offered, received>>
      /\ connState' = "freed" /\ toTransport' = <<>>
  BY DEF RemoveConnection, call, logs
<1>3. DownOrder' /\ ~ InUse'
  BY <1>2, DownOrderClosed
<1>4. ToSet(toTransport') = {} /\ Distinct(toTransport') /\ toTransport' \in Seq(DownMsgs)
      /\ Len(toTransport') = 0
  BY <1>2, EmptyElements
<1>5. Calls' /\ Calling' = Calling
  BY <1>1, <1>2, CallsFrame DEF Calling
<1>6. ASSUME NEW m \in Msgs PROVE 0 >= Weight(m)' - Weight(m)
  <2>1. In(ToSet(toTransport'), m) = 0
    BY <1>4, InNat
  <2>2. /\ In(Calling', m) = In(Calling, m) /\ In(stack', m) = In(stack, m)
        /\ Up2(m)' = Up2(m) /\ In(mine', m) = In(mine, m)
    BY <1>2, <1>5 DEF Up2
  <2>3. Up2(m) \in Nat
    BY InNat DEF Up2
  <2>4. QED
    BY <2>1, <2>2, <2>3, InNat DEF Weight, Down3
<1>7. PointersAreAlive'
  <2>1. \A m \in Msgs : refs'[m] \in Int /\ refs'[m] - refs[m] = 0
    BY <1>1, <1>2 DEF Types
  <2>2. \A m \in Msgs : refs'[m] \in Int /\ refs'[m] - refs[m] >= Weight(m)' - Weight(m)
    BY <1>6, <2>1
  <2>3. QED
    BY <1>1, <1>3, <1>5, <2>2, AliveStep
<1>8. TypeOK'
  <2>1. Len(toTransport') <= SocketSize
    BY <1>4, Constants
  <2>2. Types'
    BY <1>1, <1>2, <1>4, <2>1 DEF Types, Flags
  <2>3. QED
    BY <2>2, TypesAreOKNext
<1>9. Down'
  BY <1>1, <1>2, <1>4, <1>5 DEF Down
<1>10. Up'
  BY <1>1, <1>2, <1>3, UpFrame
<1>11. Draining'
  BY <1>3 DEF Draining
<1>12. QED
  BY <1>3, <1>5, <1>7, <1>8, <1>9, <1>10, <1>11 DEF IInv

-----------------------------------------------------------------------------
(* Reading what was sent *)

LEMMA GoDownConcat ==
    ASSUME NEW r \in Seq(DownMsgs), NEW b \in Seq(DownMsgs), connState = "OPEN" <=> ~ Pausing(r)
    PROVE  /\ GoDown(r \o b) = GoDown(r) \o Passed(b)
           /\ Pausing(r \o b) <=> Pausing(r) \/ Pausing(b)
<1> DEFINE u == r \o b
           m == Len(r)
           n == Len(b)
           P == {i \in DOMAIN u : u[i] \in Control \/ ~ PauseBefore(u, i)}
           Q == {i \in DOMAIN r : r[i] \in Control \/ ~ PauseBefore(r, i)}
           R == {i \in DOMAIN b : b[i] \in Control \/ (connState = "OPEN" /\ ~ PauseBefore(b, i))}
<1>1. /\ u \in Seq(DownMsgs) /\ Len(u) = m + n
      /\ \A i \in 1 .. m : u[i] = r[i]
      /\ \A i \in 1 .. n : u[m + i] = b[i]
      /\ \A k \in 1 .. m + n : k \in 1 .. m \/ \E i \in 1 .. n : k = m + i
  BY ConcatElements
<1>2. m \in Nat /\ n \in Nat /\ DOMAIN r = 1 .. m /\ DOMAIN b = 1 .. n /\ DOMAIN u = 1 .. m + n
  BY <1>1, ElementsOf
<1>3. GoDown(u) = Kept(u, P) /\ GoDown(r) = Kept(r, Q) /\ Passed(b) = Kept(b, R)
  BY DEF GoDown, Passed
<1> HIDE DEF u, m, n
<1>4. ASSUME NEW i \in 1 .. m PROVE i \in P <=> i \in Q
  <2>1. i \in 1 .. m + n /\ u[i] = r[i]
    BY <1>1, <1>2
  <2>2. PauseBefore(u, i) <=> PauseBefore(r, i)
    BY <1>1, <1>2 DEF PauseBefore
  <2>3. QED
    BY <1>2, <2>1, <2>2
<1>5. ASSUME NEW i \in 1 .. n PROVE PauseBefore(u, m + i) <=> Pausing(r) \/ PauseBefore(b, i)
  <2>1. ASSUME PauseBefore(u, m + i) PROVE Pausing(r) \/ PauseBefore(b, i)
    <3>1. PICK j \in 1 .. (m + i) - 1 : u[j] \in Pauses
      BY <2>1 DEF PauseBefore
    <3>2. CASE j \in 1 .. m
      BY <1>1, <1>2, <3>1, <3>2 DEF Pausing
    <3>3. CASE j \notin 1 .. m
      <4>1. j - m \in 1 .. i - 1 /\ j - m \in 1 .. n /\ m + (j - m) = j
        BY <1>2, <3>3
      <4>2. b[j - m] \in Pauses
        BY <1>1, <3>1, <4>1
      <4>3. QED
        BY <4>1, <4>2 DEF PauseBefore
    <3>4. QED
      BY <3>2, <3>3
  <2>2. ASSUME Pausing(r) PROVE PauseBefore(u, m + i)
    <3>1. PICK j \in 1 .. m : r[j] \in Pauses
      BY <1>2, <2>2 DEF Pausing
    <3>2. j \in 1 .. (m + i) - 1 /\ u[j] \in Pauses
      BY <1>1, <1>2, <3>1
    <3>3. QED
      BY <3>2 DEF PauseBefore
  <2>3. ASSUME PauseBefore(b, i) PROVE PauseBefore(u, m + i)
    <3>1. PICK j \in 1 .. i - 1 : b[j] \in Pauses
      BY <2>3 DEF PauseBefore
    <3>2. m + j \in 1 .. (m + i) - 1 /\ j \in 1 .. n
      BY <1>2
    <3>3. u[m + j] \in Pauses
      BY <1>1, <3>1, <3>2
    <3>4. QED
      BY <3>2, <3>3 DEF PauseBefore
  <2>4. QED
    BY <2>1, <2>2, <2>3
<1>6. ASSUME NEW i \in 1 .. n PROVE m + i \in P <=> i \in R
  <2>1. m + i \in 1 .. m + n /\ u[m + i] = b[i]
    BY <1>1, <1>2
  <2>2. m + i \in P <=> u[m + i] \in Control \/ ~ PauseBefore(u, m + i)
    BY <1>2, <2>1
  <2>3. i \in R <=> b[i] \in Control \/ (connState = "OPEN" /\ ~ PauseBefore(b, i))
    BY <1>2
  <2>4. ~ PauseBefore(u, m + i) <=> connState = "OPEN" /\ ~ PauseBefore(b, i)
    BY <1>5
  <2>5. QED
    BY <2>1, <2>2, <2>3, <2>4
<1>7. Kept(u, P) = Kept(r, Q) \o Kept(b, R)
  <2> HIDE DEF P, Q, R
  <2>1. QED
    BY <1>4, <1>6, KeptConcat DEF u, m, n
<1>8. Pausing(u) <=> Pausing(r) \/ Pausing(b)
  <2>1. ASSUME Pausing(u) PROVE Pausing(r) \/ Pausing(b)
    <3>1. PICK k \in 1 .. m + n : u[k] \in Pauses
      BY <1>2, <2>1 DEF Pausing
    <3>2. CASE k \in 1 .. m
      BY <1>1, <1>2, <3>1, <3>2 DEF Pausing
    <3>3. CASE \E i \in 1 .. n : k = m + i
      BY <1>1, <1>2, <3>1, <3>3 DEF Pausing
    <3>4. QED
      BY <1>1, <3>2, <3>3
  <2>2. ASSUME Pausing(r) PROVE Pausing(u)
    <3>1. PICK j \in 1 .. m : r[j] \in Pauses
      BY <1>2, <2>2 DEF Pausing
    <3>2. j \in 1 .. m + n /\ u[j] \in Pauses
      BY <1>1, <1>2, <3>1
    <3>3. QED
      BY <1>2, <3>2 DEF Pausing
  <2>3. ASSUME Pausing(b) PROVE Pausing(u)
    <3>1. PICK j \in 1 .. n : b[j] \in Pauses
      BY <1>2, <2>3 DEF Pausing
    <3>2. m + j \in 1 .. m + n /\ u[m + j] \in Pauses
      BY <1>1, <1>2, <3>1
    <3>3. QED
      BY <1>2, <3>2 DEF Pausing
  <2>4. QED
    BY <2>1, <2>2, <2>3
<1>9. QED
  <2> HIDE DEF P, Q, R
  <2>1. QED
    BY <1>3, <1>7, <1>8, Zenon DEF u


(* What the stack gets of a batch *)
LEMMA PassedFacts ==
    ASSUME NEW b \in Seq(DownMsgs)
    PROVE  Passed(b) \in Seq(DownMsgs) /\ ToSet(Passed(b)) \subseteq ToSet(b)
BY KeptFacts DEF Passed

LEMMA DowncallReadKeeps == ASSUME IInv, NEW n \in Int, DowncallRead(n) PROVE IInv'
<1>1. Types /\ Calls /\ Down /\ Up /\ DownOrder /\ Draining /\ PointersAreAlive
  BY TypesAreOK DEF IInv
<1> DEFINE b == SubSeq(toTransport, 1, n)
           rest == SubSeq(toTransport, n + 1, Len(toTransport))
           p == Passed(b)
<1>2. /\ UNCHANGED <<blocked_down, toApi, nonblock, output, draining, pc, msg, closeAsked, mine, made,
                     accepted, offered, received>>
      /\ InUse /\ n \in 1 .. Len(toTransport)
      /\ toTransport' = rest /\ passed' = passed \o p
      /\ stack' = stack \cup ToSet(p)
      /\ refs' = Release(ToSet(b), Acquired(ToSet(p), refs))
      /\ connState' = IF Pausing(b) THEN "PAUSED" ELSE connState
      /\ StateChange(connState', blocked_down)
  BY DEF DowncallRead, call
<1>3. /\ b \in Seq(DownMsgs) /\ rest \in Seq(DownMsgs)
      /\ toTransport = b \o rest /\ Len(rest) = Len(toTransport) - n
      /\ toTransport \in Seq(DownMsgs) /\ Len(toTransport) \in Nat /\ Len(toTransport) <= SocketSize
  <2>1. toTransport \in Seq(DownMsgs) /\ Len(toTransport) \in Nat /\ Len(toTransport) <= SocketSize
    BY <1>1, ElementsOf DEF Types
  <2>2. n \in 0 .. Len(toTransport)
    BY <1>2, <2>1
  <2>3. CutAt(toTransport, n, DownMsgs)
    BY <2>1, <2>2, Cut
  <2>4. QED
    BY <2>1, <2>3 DEF CutAt
<1>4. p \in Seq(DownMsgs) /\ ToSet(p) \subseteq ToSet(b)
  <2> HIDE DEF b
  <2>1. QED
    BY <1>3, PassedFacts
<1> HIDE DEF b, rest, p
<1>5. /\ ToSet(toTransport) = ToSet(b) \cup ToSet(rest)
      /\ ToSet(b) \cap ToSet(rest) = {} /\ Distinct(rest)
  <2>1. /\ ToSet(b \o rest) = ToSet(b) \cup ToSet(rest)
        /\ Distinct(b \o rest) <=> Distinct(b) /\ Distinct(rest) /\ ToSet(b) \cap ToSet(rest) = {}
    BY <1>3, ConcatSets
  <2>2. Distinct(b \o rest)
    BY <1>1, <1>3, Zenon DEF Down
  <2>3. ToSet(toTransport) = ToSet(b \o rest)
    BY <1>3, Zenon
  <2>4. QED
    BY <2>1, <2>2, <2>3
<1>6. /\ ToSet(b) \subseteq made /\ ToSet(b) \cap Calling = {} /\ ToSet(b) \cap stack = {}
      /\ ToSet(p) \cap stack = {} /\ ToSet(p) \subseteq DownMsgs
  <2>1. ToSet(p) \subseteq DownMsgs
    BY <1>4, ElementsOf
  <2>2. QED
    BY <1>1, <1>4, <1>5, <2>1 DEF Down
<1>7. Calls' /\ Calling' = Calling
  BY <1>1, <1>2, CallsFrame DEF Calling
<1>8. connState' \in {"OPEN", "PAUSED"} /\ InUse'
  BY <1>2 DEF InUse
<1>9. \A m \in Msgs : refs'[m] \in Int /\ refs'[m] - refs[m] = In(ToSet(p), m) - In(ToSet(b), m)
  <2>1. ASSUME NEW m \in Msgs
        PROVE  refs'[m] \in Int /\ refs'[m] - refs[m] = In(ToSet(p), m) - In(ToSet(b), m)
    <3>1. refs[m] \in Nat
      BY <1>1 DEF Types
    <3>2. Acquired(ToSet(p), refs)[m] = refs[m] + In(ToSet(p), m)
      BY <3>1 DEF Acquired, In
    <3>3. refs'[m] = IF m \in ToSet(b) THEN Acquired(ToSet(p), refs)[m] - 1
                                       ELSE Acquired(ToSet(p), refs)[m]
      BY <1>2 DEF Release
    <3>4. refs'[m] = refs[m] + In(ToSet(p), m) - In(ToSet(b), m)
      BY <3>1, <3>2, <3>3, InNat DEF In
    <3>5. QED
      BY <3>1, <3>4, InNat
  <2>2. QED
    BY <2>1
<1>10. ASSUME NEW m \in Msgs PROVE Weight(m)' - Weight(m) = In(ToSet(p), m) - In(ToSet(b), m)
  <2>1. In(stack', m) = In(stack, m) + In(ToSet(p), m)
    BY <1>2, <1>6 DEF In
  <2>2. In(ToSet(toTransport'), m) = In(ToSet(toTransport), m) - In(ToSet(b), m)
    <3>1. ToSet(toTransport') = ToSet(toTransport) \ ToSet(b) /\ ToSet(b) \subseteq ToSet(toTransport)
      BY <1>2, <1>5
    <3>2. QED
      BY <3>1 DEF In
  <2>3. In(Calling', m) = In(Calling, m) /\ In(mine', m) = In(mine, m) /\ Up2(m)' = Up2(m)
    BY <1>2, <1>7 DEF Up2
  <2>4. Up2(m) \in Nat
    BY InNat DEF Up2
  <2>5. QED
    BY <2>1, <2>2, <2>3, <2>4, InNat DEF Weight, Down3
<1>11. PointersAreAlive' /\ \A m \in Msgs : refs'[m] \in Nat
  <2>1. \A m \in Msgs : /\ refs'[m] \in Int
                        /\ refs'[m] - refs[m] = Weight(m)' - Weight(m)
    BY <1>9, <1>10
  <2>2. InUse' => InUse
    BY <1>2
  <2>3. QED
    BY <1>1, <1>7, <2>1, <2>2, AliveExact
<1>12. TypeOK'
  <2>1. refs' \in [Msgs -> Nat]
    BY <1>2, <1>11 DEF Release
  <2>2. Len(toTransport') <= SocketSize /\ toTransport' \in Seq(DownMsgs)
    BY <1>2, <1>3, Constants
  <2>3. stack' \subseteq DownMsgs
    BY <1>1, <1>2, <1>6 DEF Types
  <2>4. passed' \in Seq(DownMsgs)
    <3>1. passed \in Seq(DownMsgs)
      BY <1>1 DEF Types
    <3>2. passed \o p \in Seq(DownMsgs)
      BY <1>4, <3>1, ConcatSets
    <3>3. QED
      BY <1>2, <3>2, Zenon
  <2>5. Flags'
    <3>1. reading' \in BOOLEAN
      BY <1>2 DEF StateChange
    <3>2. QED
      BY <1>1, <1>2, <3>1 DEF Types, Flags
  <2>6. Types'
    BY <1>1, <1>2, <1>8, <2>1, <2>2, <2>3, <2>4, <2>5 DEF Types
  <2>7. QED
    BY <2>6, TypesAreOKNext
<1>13. Down'
  BY <1>1, <1>2, <1>4, <1>5, <1>6, <1>7 DEF Down
<1>14. Up'
  <2>1. InUse' => InUse
    BY <1>2
  <2>2. QED
    BY <1>1, <1>2, <2>1, UpFrame
<1>15. DownOrder'
  <2>1. PICK r : ReadIs(r)
    BY <1>1, <1>2 DEF DownOrder
  <2>2. r \in Seq(DownMsgs) /\ accepted = r \o toTransport /\ passed = GoDown(r)
        /\ (connState = "OPEN" <=> ~ Pausing(r))
    BY <2>1 DEF ReadIs
  <2>3. /\ GoDown(r \o b) = GoDown(r) \o p
        /\ Pausing(r \o b) <=> Pausing(r) \/ Pausing(b)
    BY <1>3, <2>2, GoDownConcat DEF p
  <2>4. r \o b \in Seq(DownMsgs)
    BY <1>3, <2>2, ConcatSets
  <2>5. (r \o b) \o rest = r \o (b \o rest)
    <3>1. Associates(r, b, rest)
      BY <1>3, <2>2, ConcatAssociates
    <3>2. QED
      BY <3>1, Zenon DEF Associates
  <2>6. accepted' = (r \o b) \o toTransport'
    BY <1>2, <1>3, <2>2, <2>5, Zenon
  <2>7. passed' = GoDown(r \o b)
    BY <1>2, <2>2, <2>3, Zenon
  <2>8. connState' = "OPEN" <=> ~ Pausing(r \o b)
    BY <1>2, <2>2, <2>3
  <2>9. PICK q : q = r \o b
    OBVIOUS
  <2>10. ReadIs(q)'
    <3>1. q \in Seq(DownMsgs)
      BY <2>4, <2>9, Zenon
    <3>2. accepted' = q \o toTransport' /\ passed' = GoDown(q)
      BY <2>6, <2>7, <2>9, Zenon
    <3>3. connState' = "OPEN" <=> ~ Pausing(q)
      BY <2>8, <2>9, Zenon
    <3>4. QED
      BY <3>1, <3>2, <3>3, Zenon DEF ReadIs
  <2>11. QED
    BY <2>10 DEF DownOrder
<1>16. Draining'
  BY <1>1, <1>2, <1>8 DEF Draining
<1>17. QED
  BY <1>7, <1>11, <1>12, <1>13, <1>14, <1>15, <1>16 DEF IInv

-----------------------------------------------------------------------------
(* The way up *)

(* On its way up a message is in one place: the output buffer, the socket, *)
(* or the application.                                                     *)
LEMMA Located ==
    ASSUME Types, Up
    PROVE  /\ line \in Seq(UpMsgs)
           /\ Distinct(received) /\ Distinct(toApi) /\ Distinct(output)
           /\ ToSet(received) \cap ToSet(toApi) = {} /\ ToSet(received) \cap ToSet(output) = {}
           /\ ToSet(toApi) \cap ToSet(output) = {}
           /\ ToSet(received) \cup ToSet(toApi) \cup ToSet(output) \subseteq made
           /\ ToSet(received) \cup ToSet(toApi) \cup ToSet(output) \subseteq UpMsgs
           /\ mine \cap (ToSet(toApi) \cup ToSet(output)) = {}
<1>1. received \in Seq(UpMsgs) /\ toApi \in Seq(UpMsgs) /\ output \in Seq(UpMsgs) /\ offered \in Seq(UpMsgs)
  BY DEF Types
<1>2. /\ toApi \o output \in Seq(UpMsgs)
      /\ ToSet(toApi \o output) = ToSet(toApi) \cup ToSet(output)
      /\ Distinct(toApi \o output)
           <=> Distinct(toApi) /\ Distinct(output) /\ ToSet(toApi) \cap ToSet(output) = {}
  BY <1>1, ConcatSets
<1>3. /\ line \in Seq(UpMsgs)
      /\ ToSet(line) = ToSet(received) \cup ToSet(toApi \o output)
      /\ Distinct(line)
           <=> Distinct(received) /\ Distinct(toApi \o output)
               /\ ToSet(received) \cap ToSet(toApi \o output) = {}
  BY <1>1, <1>2, ConcatSets DEF line
<1>4. Distinct(line)
  <2>1. InOrderOf(line, offered)
    BY DEF Up
  <2>2. DOMAIN line \subseteq Int /\ DOMAIN offered \subseteq Int
    BY <1>1, <1>3, ElementsOf
  <2>3. QED
    BY <2>1, <2>2, InOrderOnce
<1>5. ToSet(line) \subseteq ToSet(offered) /\ ToSet(offered) \subseteq made
  BY DEF Up, InOrderOf
<1>6. ToSet(line) \subseteq UpMsgs
  BY <1>3, ElementsOf
<1>7. mine \cap UpMsgs = ToSet(received)
  BY DEF Up
<1>8. QED
  BY <1>2, <1>3, <1>4, <1>5, <1>6, <1>7

(* Moving a border in the line *)
Regroups(a, x, t, o) ==
    /\ (a \o x) \o (t \o o) = a \o ((x \o t) \o o)
    /\ a \o ((x \o t) \o o) = a \o (x \o (t \o o))

LEMMA Regroup ==
    ASSUME NEW S, NEW a \in Seq(S), NEW x \in Seq(S), NEW t \in Seq(S), NEW o \in Seq(S)
    PROVE  Regroups(a, x, t, o)
<1>1. t \o o \in Seq(S)
  BY ConcatSets
<1>2. (x \o t) \o o = x \o (t \o o)
  <2>1. Associates(x, t, o)
    BY ConcatAssociates
  <2>2. QED
    BY <2>1, Zenon DEF Associates
<1>3. (a \o x) \o (t \o o) = a \o (x \o (t \o o))
  <2>1. Associates(a, x, t \o o)
    BY <1>1, ConcatAssociates
  <2>2. QED
    BY <2>1, Zenon DEF Associates
<1>4. a \o ((x \o t) \o o) = a \o (x \o (t \o o))
  BY <1>2, Zenon
<1>5. QED
  BY <1>3, <1>4, Zenon DEF Regroups

(* The head of the socket leaves it. *)
LEMMA TakeHead ==
    ASSUME Types, Up, toApi # <<>>
    PROVE  /\ Head(toApi) \in UpMsgs /\ Head(toApi) \in made /\ <<Head(toApi)>> \in Seq(UpMsgs)
           /\ Tail(toApi) \in Seq(UpMsgs) /\ Len(Tail(toApi)) <= SocketSize
           /\ toApi = <<Head(toApi)>> \o Tail(toApi)
           /\ ToSet(toApi) = ToSet(Tail(toApi)) \cup {Head(toApi)}
           /\ Head(toApi) \notin ToSet(Tail(toApi))
           /\ Head(toApi) \notin mine /\ Head(toApi) \notin ToSet(output)
           /\ Head(toApi) \in Msgs /\ Head(toApi) \notin DownMsgs
<1>1. toApi \in Seq(UpMsgs) /\ Len(toApi) <= SocketSize /\ Len(toApi) \in Nat
  BY ElementsOf DEF Types
<1>2. /\ Head(toApi) \in UpMsgs /\ Tail(toApi) \in Seq(UpMsgs) /\ Len(Tail(toApi)) = Len(toApi) - 1
      /\ toApi = <<Head(toApi)>> \o Tail(toApi)
  BY <1>1, HeadAndTail
<1> DEFINE h == Head(toApi)
           T == Tail(toApi)
<1>3. <<h>> \in Seq(UpMsgs) /\ ToSet(<<h>>) = {h}
  BY <1>2, Singleton
<1>4. Distinct(toApi) /\ ToSet(toApi) \subseteq made
      /\ mine \cap ToSet(toApi) = {} /\ ToSet(toApi) \cap ToSet(output) = {}
  BY Located
<1> HIDE DEF h, T
<1>5. /\ ToSet(<<h>> \o T) = ToSet(<<h>>) \cup ToSet(T)
      /\ Distinct(<<h>> \o T) <=> Distinct(<<h>>) /\ Distinct(T) /\ ToSet(<<h>>) \cap ToSet(T) = {}
  BY <1>2, <1>3, ConcatSets DEF h, T
<1>6. toApi = <<h>> \o T
  BY <1>2 DEF h, T
<1>7. ToSet(toApi) = ToSet(<<h>> \o T) /\ Distinct(<<h>> \o T)
  BY <1>4, <1>6, Zenon
<1>8. ToSet(toApi) = ToSet(T) \cup {h} /\ h \notin ToSet(T)
  BY <1>3, <1>5, <1>7
<1>9. h \in made /\ h \notin mine /\ h \notin ToSet(output)
  BY <1>4, <1>8
<1>10. Len(T) <= SocketSize
  BY <1>1, <1>2, Constants DEF T
<1>11. h \in Msgs /\ h \notin DownMsgs
  BY <1>2, Constants DEF h
<1>12. QED
  BY <1>2, <1>3, <1>6, <1>8, <1>9, <1>10, <1>11 DEF h, T


LEMMA RecvReadKeeps == ASSUME IInv, NEW t \in Threads, RecvRead(t) PROVE IInv'
<1>1. Types /\ Calls /\ Down /\ Up /\ DownOrder /\ Draining /\ PointersAreAlive
  BY TypesAreOK DEF IInv
<1>2. PICK h, T : h = Head(toApi) /\ T = Tail(toApi)
  OBVIOUS
<1>3. /\ UNCHANGED <<connState, blocked_down, reading, toTransport, nonblock, output, draining, stack,
                     closeAsked, refs, made, accepted, passed, offered>>
      /\ Return(t) /\ pc[t] = "read" /\ toApi # <<>>
      /\ received' = Append(received, h) /\ mine' = mine \cup {h} /\ toApi' = T
  BY <1>2 DEF RecvRead, connection
<1>4. /\ h \in UpMsgs /\ h \in made /\ <<h>> \in Seq(UpMsgs)
      /\ T \in Seq(UpMsgs) /\ Len(T) <= SocketSize
      /\ toApi = <<h>> \o T /\ ToSet(toApi) = ToSet(T) \cup {h} /\ h \notin ToSet(T)
      /\ h \notin mine /\ h \notin ToSet(output) /\ h \in Msgs
  BY <1>1, <1>2, <1>3, TakeHead
<1>5. pc' = [pc EXCEPT ![t] = "idle"] /\ msg' = msg
  <2>1. msg[t] = NoMsg
    BY <1>1, <1>3 DEF Calls
  <2>2. QED
    BY <1>1, <1>3, <2>1 DEF Types, Return
<1>6. Calls' /\ pc' \in [Threads -> {"idle", "sendSelect", "write", "recvSelect", "read"}]
  BY <1>1, <1>3, <1>5, CallsStep
<1>7. Calling' = Calling
  BY <1>5 DEF Calling
<1>8. InUse' <=> InUse
  BY <1>3 DEF InUse
<1>9. /\ received \in Seq(UpMsgs) /\ output \in Seq(UpMsgs)
      /\ received' = received \o <<h>> /\ received' \in Seq(UpMsgs)
      /\ ToSet(received') = ToSet(received) \cup {h}
  <2>1. received \in Seq(UpMsgs) /\ output \in Seq(UpMsgs)
    BY <1>1 DEF Types
  <2>2. Append(received, h) = received \o <<h>> /\ Append(received, h) \in Seq(UpMsgs)
    BY <1>4, <2>1, AppendAsConcat
  <2>3. ToSet(received \o <<h>>) = ToSet(received) \cup {h}
    <3>1. <<h>> \in Seq(UpMsgs) /\ ToSet(<<h>>) = {h}
      BY <1>4, Singleton
    <3>2. ToSet(received \o <<h>>) = ToSet(received) \cup ToSet(<<h>>)
      BY <2>1, <3>1, ConcatSets
    <3>3. QED
      BY <3>1, <3>2
  <2>4. QED
    BY <1>3, <2>1, <2>2, <2>3
<1>10. line' = line
  <2>1. Regroups(received, <<h>>, T, output)
    BY <1>4, <1>9, Regroup
  <2>2. (received \o <<h>>) \o (T \o output) = received \o (toApi \o output)
    BY <1>4, <2>1, Zenon DEF Regroups
  <2>3. received' \o (toApi' \o output') = received \o (toApi \o output)
    BY <1>3, <1>9, <2>2, Zenon
  <2>4. QED
    BY <2>3, Zenon DEF line
<1>11. ASSUME NEW m \in Msgs PROVE Weight(m)' - Weight(m) = 0
  <2>1. In(mine', m) + In(ToSet(toApi'), m) = In(mine, m) + In(ToSet(toApi), m)
    <3>1. CASE m = h
      BY <1>3, <1>4, <3>1 DEF In
    <3>2. CASE m # h
      BY <1>3, <1>4, <3>2 DEF In
    <3>3. QED
      BY <3>1, <3>2
  <2>2. Down3(m)' = Down3(m) /\ In(ToSet(output'), m) = In(ToSet(output), m)
    BY <1>3, <1>7 DEF Down3
  <2>3. Down3(m) \in Nat
    BY InNat DEF Down3
  <2>4. QED
    BY <2>1, <2>2, <2>3, InNat DEF Weight, Up2
<1>12. PointersAreAlive'
  <2>1. \A m \in Msgs : refs'[m] \in Int /\ refs'[m] - refs[m] = Weight(m)' - Weight(m)
    BY <1>1, <1>3, <1>11 DEF Types
  <2>2. QED
    BY <1>1, <1>6, <1>8, <2>1, AliveExact
<1>13. TypeOK'
  <2>1. mine' \subseteq made'
    BY <1>1, <1>3, <1>4 DEF Types
  <2>2. Types'
    BY <1>1, <1>3, <1>4, <1>5, <1>6, <1>9, <2>1 DEF Types, Flags
  <2>3. QED
    BY <2>2, TypesAreOKNext
<1>14. Down'
  BY <1>1, <1>3, <1>5, DownFrame
<1>15. Up'
  <2>1. mine' \cap UpMsgs = ToSet(received')
    BY <1>1, <1>3, <1>4, <1>9 DEF Up
  <2>2. QED
    BY <1>1, <1>3, <1>8, <1>10, <2>1 DEF Up
<1>16. DownOrder'
  BY <1>1, <1>3, DownOrderFrame
<1>17. Draining'
  BY <1>1, <1>3, <1>8 DEF Draining
<1>18. QED
  BY <1>6, <1>12, <1>13, <1>14, <1>15, <1>16, <1>17 DEF IInv

LEMMA DrainKeeps == IInv /\ Drain => IInv'
<1> SUFFICES ASSUME IInv, Drain PROVE IInv'
  OBVIOUS
<1>1. Types /\ Calls /\ Down /\ Up /\ DownOrder /\ Draining /\ PointersAreAlive
  BY TypesAreOK DEF IInv
<1>2. PICK h, T : h = Head(toApi) /\ T = Tail(toApi)
  OBVIOUS
<1>3. /\ UNCHANGED <<connState, blocked_down, reading, toTransport, nonblock, output, draining, stack,
                     pc, msg, closeAsked, mine, made, accepted, passed, offered, received>>
      /\ draining /\ toApi # <<>> /\ toApi' = T /\ refs' = Release({h}, refs)
  BY <1>2 DEF Drain, connection, call, logs
<1>4. /\ h \in UpMsgs /\ <<h>> \in Seq(UpMsgs)
      /\ T \in Seq(UpMsgs) /\ Len(T) <= SocketSize
      /\ toApi = <<h>> \o T /\ ToSet(toApi) = ToSet(T) \cup {h} /\ h \notin ToSet(T) /\ h \in Msgs
  BY <1>1, <1>2, <1>3, TakeHead
<1>5. Calls' /\ Calling' = Calling
  BY <1>1, <1>3, CallsFrame DEF Calling
<1>6. ~ InUse /\ ~ InUse'
  BY <1>1, <1>3 DEF Draining, InUse
<1>7. \A m \in Msgs : refs'[m] \in Int /\ refs'[m] - refs[m] = 0 - In({h}, m)
  BY <1>1, <1>3, <1>4, ReleaseOne
<1>8. ASSUME NEW m \in Msgs PROVE Weight(m)' - Weight(m) = 0 - In({h}, m)
  <2>1. In(ToSet(toApi'), m) = In(ToSet(toApi), m) - In({h}, m)
    <3>1. CASE m = h
      BY <1>3, <1>4, <3>1 DEF In
    <3>2. CASE m # h
      BY <1>3, <1>4, <3>2 DEF In
    <3>3. QED
      BY <3>1, <3>2
  <2>2. /\ Down3(m)' = Down3(m) /\ In(ToSet(output'), m) = In(ToSet(output), m)
        /\ In(mine', m) = In(mine, m)
    BY <1>3, <1>5 DEF Down3
  <2>3. Down3(m) \in Nat
    BY InNat DEF Down3
  <2>4. QED
    BY <2>1, <2>2, <2>3, InNat DEF Weight, Up2
<1>9. PointersAreAlive' /\ \A m \in Msgs : refs'[m] \in Nat
  <2>1. \A m \in Msgs : refs'[m] \in Int /\ refs'[m] - refs[m] = Weight(m)' - Weight(m)
    BY <1>7, <1>8
  <2>2. QED
    BY <1>1, <1>5, <1>6, <2>1, AliveExact
<1>10. TypeOK'
  <2>1. refs' \in [Msgs -> Nat]
    BY <1>3, <1>9 DEF Release
  <2>2. Types'
    BY <1>1, <1>3, <1>4, <2>1 DEF Types, Flags
  <2>3. QED
    BY <2>2, TypesAreOKNext
<1>11. Down'
  BY <1>1, <1>3, DownFrame
<1>12. Up'
  <2>1. received \in Seq(UpMsgs) /\ output \in Seq(UpMsgs) /\ offered \in Seq(UpMsgs)
    BY <1>1 DEF Types
  <2>2. T \o output \in Seq(UpMsgs)
    BY <1>4, <2>1, ConcatSets
  <2>3. Regroups(received, <<h>>, T, output)
    BY <1>4, <2>1, Regroup
  <2>4. line = received \o (<<h>> \o (T \o output))
    BY <1>4, <2>3, Zenon DEF Regroups, line
  <2>5. InOrderOf(received \o (<<h>> \o (T \o output)), offered)
    BY <1>1, <2>4, Zenon DEF Up
  <2>6. InOrderOf(received \o (T \o output), offered)
    BY <1>4, <2>1, <2>2, <2>5, InOrderWithout
  <2>7. line' = received \o (T \o output)
    BY <1>3, Zenon DEF line
  <2>8. InOrderOf(line', offered')
    BY <1>3, <2>6, <2>7, Zenon
  <2>9. QED
    BY <1>1, <1>3, <1>6, <2>8 DEF Up
<1>13. DownOrder'
  BY <1>1, <1>3, DownOrderFrame
<1>14. Draining'
  BY <1>6 DEF Draining
<1>15. QED
  BY <1>5, <1>9, <1>10, <1>11, <1>12, <1>13, <1>14 DEF IInv

(* Pointers a move from the output buffer to the socket, and c do not. *)
Moves(a, c) ==
    /\ a \in Seq(UpMsgs) /\ c \in Seq(UpMsgs) /\ output = a \o c
    /\ toApi' = toApi \o a /\ toApi' \in Seq(UpMsgs) /\ Len(toApi') <= SocketSize
    /\ ToSet(toApi') = ToSet(toApi) \cup ToSet(a)
    /\ ToSet(output) = ToSet(a) \cup ToSet(c)
    /\ ToSet(a) \cap ToSet(c) = {} /\ ToSet(toApi) \cap ToSet(a) = {}

LEMMA FlushMoves ==
    ASSUME Types, Up, NEW n \in Int, Flush(n)
    PROVE  Moves(SubSeq(output, 1, n), SubSeq(output, n + 1, Len(output)))
<1> DEFINE a == SubSeq(output, 1, n)
           c == SubSeq(output, n + 1, Len(output))
<1>1. output \in Seq(UpMsgs) /\ toApi \in Seq(UpMsgs) /\ Len(output) \in Nat /\ Len(toApi) \in Nat
  BY ElementsOf DEF Types
<1>2. n \in 0 .. Len(output) /\ Len(toApi) + n <= SocketSize /\ toApi' = toApi \o a
  BY DEF Flush
<1>3. CutAt(output, n, UpMsgs)
  BY <1>1, <1>2, Cut
<1>4. output = a \o c /\ Len(a) = n
  BY <1>3 DEF CutAt
<1>5. a \in Seq(UpMsgs) /\ c \in Seq(UpMsgs)
  BY <1>3 DEF CutAt
<1> HIDE DEF a, c
<1>6. toApi \o a \in Seq(UpMsgs) /\ Len(toApi \o a) = Len(toApi) + Len(a)
  BY <1>1, <1>5, ConcatElements
<1>7. ToSet(toApi \o a) = ToSet(toApi) \cup ToSet(a)
  BY <1>1, <1>5, ConcatSets
<1>8. toApi' \in Seq(UpMsgs) /\ Len(toApi') <= SocketSize /\ ToSet(toApi') = ToSet(toApi) \cup ToSet(a)
  BY <1>2, <1>4, <1>6, <1>7
<1>9. /\ ToSet(a \o c) = ToSet(a) \cup ToSet(c)
      /\ Distinct(a \o c) <=> Distinct(a) /\ Distinct(c) /\ ToSet(a) \cap ToSet(c) = {}
  BY <1>5, ConcatSets
<1>10. Distinct(output) /\ ToSet(toApi) \cap ToSet(output) = {}
  BY Located
<1>11. ToSet(output) = ToSet(a \o c) /\ Distinct(a \o c)
  BY <1>4, <1>10, Zenon
<1>12. ToSet(output) = ToSet(a) \cup ToSet(c) /\ ToSet(a) \cap ToSet(c) = {} /\ ToSet(toApi) \cap ToSet(a) = {}
  BY <1>9, <1>10, <1>11
<1>13. Moves(a, c)
  BY <1>2, <1>4, <1>5, <1>8, <1>12 DEF Moves
<1>14. QED
  BY <1>13 DEF a, c

LEMMA WriteOutKeeps == ASSUME IInv, NEW n \in Int, WriteOut(n) PROVE IInv'
<1>1. Types /\ Calls /\ Down /\ Up /\ DownOrder /\ Draining /\ PointersAreAlive
  BY TypesAreOK DEF IInv
<1>2. PICK a, c : a = SubSeq(output, 1, n) /\ c = SubSeq(output, n + 1, Len(output))
  OBVIOUS
<1>3. /\ UNCHANGED <<connState, blocked_down, reading, toTransport, nonblock, draining, stack,
                     pc, msg, closeAsked, refs, mine, made, accepted, passed, offered, received>>
      /\ Flush(n) /\ output' = c
  BY <1>2 DEF WriteOut, connection, call, logs
<1>4. Moves(a, c)
  BY <1>1, <1>2, <1>3, FlushMoves
<1>5. /\ a \in Seq(UpMsgs) /\ c \in Seq(UpMsgs) /\ toApi' \in Seq(UpMsgs) /\ Len(toApi') <= SocketSize
      /\ ToSet(toApi') = ToSet(toApi) \cup ToSet(a) /\ ToSet(output) = ToSet(a) \cup ToSet(c)
      /\ ToSet(a) \cap ToSet(c) = {} /\ ToSet(toApi) \cap ToSet(a) = {}
  BY <1>4, Zenon DEF Moves
<1>6. output = a \o c /\ toApi' = toApi \o a
  BY <1>4, Zenon DEF Moves
<1>7. Calls' /\ Calling' = Calling
  BY <1>1, <1>3, CallsFrame DEF Calling
<1>8. InUse' <=> InUse
  BY <1>3 DEF InUse
<1>9. ASSUME NEW m \in Msgs PROVE Weight(m)' - Weight(m) = 0
  <2>1. In(ToSet(toApi'), m) = In(ToSet(toApi), m) + In(ToSet(a), m)
    BY <1>5 DEF In
  <2>2. In(ToSet(output), m) = In(ToSet(a), m) + In(ToSet(output'), m)
    BY <1>3, <1>5 DEF In
  <2>3. Down3(m)' = Down3(m) /\ In(mine', m) = In(mine, m)
    BY <1>3, <1>7 DEF Down3
  <2>4. Down3(m) \in Nat
    BY InNat DEF Down3
  <2>5. QED
    BY <2>1, <2>2, <2>3, <2>4, InNat DEF Weight, Up2
<1>10. PointersAreAlive'
  <2>1. \A m \in Msgs : refs'[m] \in Int /\ refs'[m] - refs[m] = Weight(m)' - Weight(m)
    BY <1>1, <1>3, <1>9 DEF Types
  <2>2. QED
    BY <1>1, <1>7, <1>8, <2>1, AliveExact
<1>11. TypeOK'
  <2>1. Types'
    BY <1>1, <1>3, <1>5 DEF Types, Flags
  <2>2. QED
    BY <2>1, TypesAreOKNext
<1>12. Down'
  BY <1>1, <1>3, DownFrame
<1>13. Up'
  <2>1. toApi \in Seq(UpMsgs)
    BY <1>1 DEF Types
  <2>2. (toApi \o a) \o c = toApi \o (a \o c)
    <3>1. Associates(toApi, a, c)
      BY <1>5, <2>1, ConcatAssociates
    <3>2. QED
      BY <3>1, Zenon DEF Associates
  <2>3. toApi' \o output' = toApi \o output
    BY <1>3, <1>6, <2>2, Zenon
  <2>4. line' = line
    BY <1>3, <2>3, Zenon DEF line
  <2>5. QED
    BY <1>1, <1>3, <1>8, <2>4 DEF Up
<1>14. DownOrder'
  BY <1>1, <1>3, DownOrderFrame
<1>15. Draining'
  BY <1>1, <1>3, <1>8 DEF Draining
<1>16. QED
  BY <1>7, <1>10, <1>11, <1>12, <1>13, <1>14, <1>15 DEF IInv

LEMMA CloseConnectionKeeps == ASSUME IInv, NEW n \in Int, CloseConnection(n) PROVE IInv'
<1>1. Types /\ Calls /\ Down /\ Up /\ DownOrder /\ Draining /\ PointersAreAlive
  BY TypesAreOK DEF IInv
<1>2. PICK a, c : a = SubSeq(output, 1, n) /\ c = SubSeq(output, n + 1, Len(output))
  OBVIOUS
<1>3. /\ UNCHANGED <<blocked_down, toTransport, stack, pc, msg, closeAsked, refs, mine, made,
                     accepted, passed, offered, received>>
      /\ Flush(n) /\ output' = <<>> /\ connState' = "CLOSED" /\ reading' \in BOOLEAN
      /\ nonblock' = TRUE /\ draining' = TRUE
  BY DEF CloseConnection, DrainApiConnection, StateChange, call, logs
<1>4. Moves(a, c)
  BY <1>1, <1>2, <1>3, FlushMoves
<1>5. /\ a \in Seq(UpMsgs) /\ c \in Seq(UpMsgs) /\ toApi' \in Seq(UpMsgs) /\ Len(toApi') <= SocketSize
      /\ ToSet(toApi') = ToSet(toApi) \cup ToSet(a) /\ ToSet(output) = ToSet(a) \cup ToSet(c)
      /\ ToSet(toApi) \cap ToSet(a) = {}
  BY <1>4, Zenon DEF Moves
<1>6. output = a \o c /\ toApi' = toApi \o a
  BY <1>4, Zenon DEF Moves
<1>7. Calls' /\ Calling' = Calling
  BY <1>1, <1>3, CallsFrame DEF Calling
<1>8. DownOrder' /\ ~ InUse'
  BY <1>3, DownOrderClosed
<1>9. ToSet(output') = {} /\ output' \in Seq(UpMsgs)
  BY <1>3, EmptyElements
<1>10. ASSUME NEW m \in Msgs PROVE 0 >= Weight(m)' - Weight(m)
  <2>1. In(ToSet(toApi'), m) + In(ToSet(output'), m) <= In(ToSet(toApi), m) + In(ToSet(output), m)
    BY <1>5, <1>9 DEF In
  <2>2. Down3(m)' = Down3(m) /\ In(mine', m) = In(mine, m)
    BY <1>3, <1>7 DEF Down3
  <2>3. Down3(m) \in Nat
    BY InNat DEF Down3
  <2>4. QED
    BY <2>1, <2>2, <2>3, InNat DEF Weight, Up2
<1>11. PointersAreAlive'
  <2>1. \A m \in Msgs : refs'[m] \in Int /\ refs'[m] - refs[m] = 0
    BY <1>1, <1>3 DEF Types
  <2>2. \A m \in Msgs : refs'[m] \in Int /\ refs'[m] - refs[m] >= Weight(m)' - Weight(m)
    BY <1>10, <2>1
  <2>3. QED
    BY <1>1, <1>7, <1>8, <2>2, AliveStep
<1>12. TypeOK'
  <2>1. Flags'
    BY <1>1, <1>3 DEF Types, Flags
  <2>2. Types'
    BY <1>1, <1>3, <1>5, <1>9, <2>1 DEF Types
  <2>3. QED
    BY <2>2, TypesAreOKNext
<1>13. Down'
  BY <1>1, <1>3, DownFrame
<1>14. Up'
  <2>1. toApi \in Seq(UpMsgs) /\ received \in Seq(UpMsgs) /\ offered \in Seq(UpMsgs) /\ <<>> \in Seq(UpMsgs)
    BY <1>1 DEF Types
  <2>2. (toApi \o a) \o c = toApi \o (a \o c)
    <3>1. Associates(toApi, a, c)
      BY <1>5, <2>1, ConcatAssociates
    <3>2. QED
      BY <3>1, Zenon DEF Associates
  <2>3. (received \o toApi') \o c = received \o (toApi' \o c)
    <3>1. c \in Seq(UpMsgs) /\ toApi' \in Seq(UpMsgs)
      BY <1>5
    <3>2. QED
      <4>1. Associates(received, toApi', c)
        BY <2>1, <3>1, ConcatAssociates
      <4>2. QED
        BY <4>1, Zenon DEF Associates
  <2>4. line = (received \o toApi') \o c
    BY <1>6, <2>2, <2>3, Zenon DEF line
  <2>5. received \o toApi' \in Seq(UpMsgs)
    BY <1>5, <2>1, ConcatSets
  <2>6. c \o <<>> = c
    BY <1>5, ConcatEmptySeq
  <2>7. InOrderOf((received \o toApi') \o (c \o <<>>), offered)
    BY <1>1, <2>4, <2>6, Zenon DEF Up
  <2>8. InOrderOf((received \o toApi') \o <<>>, offered)
    BY <1>5, <2>1, <2>5, <2>7, InOrderWithout
  <2>9. (received \o toApi') \o <<>> = received \o (toApi' \o <<>>)
    <3>1. Associates(received, toApi', <<>>)
      BY <1>5, <2>1, ConcatAssociates
    <3>2. QED
      BY <3>1, Zenon DEF Associates
  <2>10. line' = (received \o toApi') \o <<>>
    BY <1>3, <2>9, Zenon DEF line
  <2>11. InOrderOf(line', offered')
    BY <1>3, <2>8, <2>10, Zenon
  <2>12. QED
    BY <1>1, <1>3, <1>8, <2>11 DEF Up
<1>15. Draining'
  BY <1>8 DEF Draining
<1>16. QED
  BY <1>7, <1>8, <1>11, <1>12, <1>13, <1>14, <1>15 DEF IInv


(* What the stack sends up in one batch *)
LEMMA BatchFacts ==
    ASSUME NEW batch \in UpBatches
    PROVE  batch \in Seq(UpMsgs) /\ Distinct(batch)
<1>1. PICK S \in SUBSET UpMsgs : IsFiniteSet(S) /\ batch \in SetToSeqs(S)
  BY DEF UpBatches
<1>2. Cardinality(S) \in Nat
  BY <1>1, FS_CardinalityType
<1>3. /\ batch \in [1 .. Cardinality(S) -> S]
      /\ \A i, j \in 1 .. Cardinality(S) : i # j => batch[i] # batch[j]
  BY <1>1 DEF SetToSeqs
<1>4. batch \in Seq(UpMsgs)
  BY <1>1, <1>2, <1>3
<1>5. DOMAIN batch = 1 .. Cardinality(S)
  BY <1>3
<1>6. Distinct(batch)
  BY <1>3, <1>5 DEF Distinct
<1>7. QED
  BY <1>4, <1>6

LEMMA OfferedFacts ==
    ASSUME NEW b \in Seq(UpMsgs)
    PROVE  /\ Offered(b) \in Seq(UpMsgs) /\ ToSet(Offered(b)) \subseteq ToSet(b)
           /\ Distinct(b) => Distinct(Offered(b))
BY KeptFacts DEF Offered

LEMMA UpcallReadKeeps == ASSUME IInv, NEW batch \in UpBatches, UpcallRead(batch) PROVE IInv'
<1>1. Types /\ Calls /\ Down /\ Up /\ DownOrder /\ Draining /\ PointersAreAlive
  BY TypesAreOK DEF IInv
<1>2. PICK x : x = Offered(batch)
  OBVIOUS
<1>3. /\ UNCHANGED <<connState, blocked_down, reading, toTransport, toApi, nonblock, draining, stack,
                     pc, msg, closeAsked, mine, accepted, passed, received>>
      /\ ToSet(batch) \cap made = {} /\ made' = made \cup ToSet(batch)
      /\ output' = output \o x /\ offered' = offered \o x
      /\ refs' = Acquired(ToSet(x), refs)
  BY <1>2 DEF UpcallRead, connection, kernel, call
<1>4. /\ x \in Seq(UpMsgs) /\ ToSet(x) \subseteq ToSet(batch) /\ Distinct(x)
      /\ ToSet(batch) \subseteq UpMsgs
  <2>1. batch \in Seq(UpMsgs) /\ Distinct(batch)
    BY BatchFacts
  <2>2. QED
    BY <1>2, <2>1, OfferedFacts, ElementsOf
<1>5. /\ output \in Seq(UpMsgs) /\ offered \in Seq(UpMsgs) /\ received \in Seq(UpMsgs)
      /\ toApi \in Seq(UpMsgs)
  BY <1>1 DEF Types
<1>6. /\ line \in Seq(UpMsgs) /\ ToSet(output) \subseteq made
  BY <1>1, Located
<1>7. Calls' /\ Calling' = Calling
  BY <1>1, <1>3, CallsFrame DEF Calling
<1>8. InUse' <=> InUse
  BY <1>3 DEF InUse
<1>9. output' \in Seq(UpMsgs) /\ ToSet(output') = ToSet(output) \cup ToSet(x)
  <2>1. output \o x \in Seq(UpMsgs) /\ ToSet(output \o x) = ToSet(output) \cup ToSet(x)
    BY <1>4, <1>5, ConcatSets
  <2>2. QED
    BY <1>3, <2>1
<1>10. /\ offered' \in Seq(UpMsgs) /\ ToSet(offered') = ToSet(offered) \cup ToSet(x)
       /\ Distinct(offered \o x)
  <2>1. /\ offered \o x \in Seq(UpMsgs) /\ ToSet(offered \o x) = ToSet(offered) \cup ToSet(x)
        /\ Distinct(offered \o x) <=> Distinct(offered) /\ Distinct(x) /\ ToSet(offered) \cap ToSet(x) = {}
    BY <1>4, <1>5, ConcatSets
  <2>2. Distinct(offered) /\ ToSet(offered) \cap ToSet(x) = {}
    BY <1>1, <1>3, <1>4 DEF Up
  <2>3. QED
    BY <1>3, <1>4, <2>1, <2>2
<1>11. line' = line \o x
  <2>1. toApi \o output \in Seq(UpMsgs)
    BY <1>5, ConcatProperties
  <2>2. toApi \o (output \o x) = (toApi \o output) \o x
    <3>1. Associates(toApi, output, x)
      BY <1>4, <1>5, ConcatAssociates
    <3>2. QED
      BY <3>1, Zenon DEF Associates
  <2>3. (received \o (toApi \o output)) \o x = received \o ((toApi \o output) \o x)
    <3>1. Associates(received, toApi \o output, x)
      BY <1>4, <1>5, <2>1, ConcatAssociates
    <3>2. QED
      BY <3>1, Zenon DEF Associates
  <2>4. received' \o (toApi' \o output') = (received \o (toApi \o output)) \o x
    BY <1>3, <2>2, <2>3, Zenon
  <2>5. QED
    BY <2>4, Zenon DEF line
<1>12. \A m \in Msgs : refs'[m] \in Int /\ refs'[m] - refs[m] = In(ToSet(x), m)
  <2>1. ASSUME NEW m \in Msgs PROVE refs'[m] \in Int /\ refs'[m] - refs[m] = In(ToSet(x), m)
    <3>1. refs[m] \in Nat /\ refs'[m] = IF m \in ToSet(x) THEN refs[m] + 1 ELSE refs[m]
      BY <1>1, <1>3 DEF Types, Acquired
    <3>2. QED
      BY <3>1 DEF In
  <2>2. QED
    BY <2>1
<1>13. ASSUME NEW m \in Msgs PROVE Weight(m)' - Weight(m) = In(ToSet(x), m)
  <2>1. In(ToSet(output'), m) = In(ToSet(output), m) + In(ToSet(x), m)
    <3>1. ToSet(output) \cap ToSet(x) = {}
      BY <1>3, <1>4, <1>6
    <3>2. QED
      BY <1>9, <3>1 DEF In
  <2>2. /\ Down3(m)' = Down3(m) /\ In(mine', m) = In(mine, m)
        /\ In(ToSet(toApi'), m) = In(ToSet(toApi), m)
    BY <1>3, <1>7 DEF Down3
  <2>3. Down3(m) \in Nat
    BY InNat DEF Down3
  <2>4. QED
    BY <2>1, <2>2, <2>3, InNat DEF Weight, Up2
<1>14. PointersAreAlive' /\ \A m \in Msgs : refs'[m] \in Nat
  <2>1. \A m \in Msgs : refs'[m] \in Int /\ refs'[m] - refs[m] = Weight(m)' - Weight(m)
    BY <1>12, <1>13
  <2>2. QED
    BY <1>1, <1>7, <1>8, <2>1, AliveExact
<1>15. TypeOK'
  <2>1. refs' \in [Msgs -> Nat]
    BY <1>3, <1>14 DEF Acquired
  <2>2. mine' \subseteq made' /\ made' \subseteq Msgs
    BY <1>1, <1>3, <1>4, Constants DEF Types
  <2>3. Types'
    BY <1>1, <1>3, <1>9, <1>10, <2>1, <2>2 DEF Types, Flags
  <2>4. QED
    BY <2>3, TypesAreOKNext
<1>16. Down'
  BY <1>1, <1>3, DownFrame
<1>17. Up'
  <2>1. InOrderOf(line, offered)
    BY <1>1 DEF Up
  <2>2. InOrderOf(line \o x, offered \o x)
    BY <1>4, <1>5, <1>6, <1>10, <2>1, InOrderExtended
  <2>3. InOrderOf(line', offered') /\ Distinct(offered')
    BY <1>3, <1>10, <1>11, <2>2, Zenon
  <2>4. ToSet(offered') \subseteq made'
    BY <1>1, <1>3, <1>4, <1>10 DEF Up
  <2>5. ASSUME InUse' PROVE offered' = line'
    <3>1. offered = line
      BY <1>1, <1>8, <2>5 DEF Up
    <3>2. QED
      BY <1>3, <1>11, <3>1, Zenon
  <2>6. mine' \cap UpMsgs = ToSet(received')
    BY <1>1, <1>3 DEF Up
  <2>7. QED
    BY <2>3, <2>4, <2>5, <2>6 DEF Up
<1>18. DownOrder'
  BY <1>1, <1>3, DownOrderFrame
<1>19. Draining'
  BY <1>1, <1>3, <1>8 DEF Draining
<1>20. QED
  BY <1>7, <1>14, <1>15, <1>16, <1>17, <1>18, <1>19 DEF IInv

-----------------------------------------------------------------------------
(* The steps of the specification *)

LEMMA InitKeeps == Init => IInv
<1> SUFFICES ASSUME Init PROVE IInv
  OBVIOUS
<1>1. /\ connState = "OPEN" /\ blocked_down = FALSE /\ reading = TRUE /\ nonblock = FALSE
      /\ toTransport = <<>> /\ toApi = <<>> /\ output = <<>> /\ draining = FALSE /\ stack = {}
      /\ pc = [t \in Threads |-> "idle"] /\ msg = [t \in Threads |-> NoMsg]
      /\ closeAsked = FALSE /\ refs = [m \in Msgs |-> 0] /\ mine = {} /\ made = {}
      /\ accepted = <<>> /\ passed = <<>> /\ offered = <<>> /\ received = <<>>
  BY DEF Init, SocketPairMade, ConnectionOpened
<1>2. \A S : <<>> \in Seq(S) /\ Len(<<>>) = 0
  OBVIOUS
<1>3. TypeOK
  <2>1. Flags
    BY <1>1 DEF Flags
  <2>2. Types
    BY <1>1, <1>2, <2>1, Constants DEF Types
  <2>3. QED
    BY <2>2, TypesAreOK
<1>4. Calls /\ Calling = {}
  BY <1>1 DEF Calls, Calling
<1>5. ToSet(toTransport) = {} /\ ToSet(toApi) = {} /\ ToSet(output) = {} /\ ToSet(offered) = {}
      /\ ToSet(received) = {} /\ Distinct(toTransport) /\ Distinct(offered)
  BY <1>1, EmptyElements
<1>6. Down
  BY <1>1, <1>4, <1>5 DEF Down
<1>7. line = <<>>
  <2>1. <<>> \in Seq(UpMsgs) /\ <<>> \o <<>> = <<>>
    BY <1>2, ConcatEmptySeq
  <2>2. QED
    BY <1>1, <2>1, Zenon DEF line
<1>8. Up
  <2>1. InOrderOf(<<>>, <<>>)
    BY EmptyElements DEF InOrderOf
  <2>2. QED
    BY <1>1, <1>5, <1>7, <2>1 DEF Up
<1>9. DownOrder
  <2>1. <<>> \in Seq(DownMsgs) /\ <<>> \o <<>> = <<>>
    BY <1>2, ConcatEmptySeq
  <2>2. GoDown(<<>>) = <<>>
    <3>1. GoDown(<<>>) \in Seq(DownMsgs) /\ ToSet(GoDown(<<>>)) \subseteq ToSet(<<>>)
      BY <2>1, KeptFacts DEF GoDown
    <3>2. ToSet(GoDown(<<>>)) = {}
      BY <3>1, EmptyElements
    <3>3. Len(GoDown(<<>>)) = 0
      <4>1. \A k \in 1 .. Len(GoDown(<<>>)) : GoDown(<<>>)[k] \in ToSet(GoDown(<<>>))
        BY <3>1, ElementsOf DEF ToSet
      <4>2. Len(GoDown(<<>>)) \in Nat
        BY <3>1, ElementsOf
      <4>3. QED
        BY <3>2, <4>1, <4>2
    <3>4. QED
      BY <3>1, <3>3, EmptySeq
  <2>3. ~ Pausing(<<>>)
    BY DEF Pausing
  <2>4. ReadIs(<<>>)
    <3>1. accepted = <<>> \o toTransport
      BY <1>1, <2>1, Zenon
    <3>2. QED
      BY <1>1, <2>1, <2>2, <2>3, <3>1 DEF ReadIs
  <2>5. QED
    BY <2>4 DEF DownOrder
<1>10. Draining
  BY <1>1 DEF Draining
<1>11. PointersAreAlive
  <2>1. ASSUME NEW m \in Msgs PROVE Holders(m) = 0 /\ refs[m] = 0
    <3>1. Holders(m) = In(mine, m) + Down3(m) + Up2(m)
      BY <1>4, HoldersAre
    <3>2. QED
      BY <1>1, <1>4, <1>5, <3>1 DEF In, Down3, Up2
  <2>2. QED
    BY <2>1 DEF PointersAreAlive
<1>12. QED
  BY <1>3, <1>4, <1>6, <1>8, <1>9, <1>10, <1>11 DEF IInv

LEMMA StepKeeps == IInv /\ Next => IInv'
<1> SUFFICES ASSUME IInv, Next PROVE IInv'
  OBVIOUS
<1>1. CASE \E t \in Threads : Thread(t) \/ Recv(t) \/ \E m \in DownMsgs : Send(t, m)
  <2>1. PICK t \in Threads : Thread(t) \/ Recv(t) \/ \E m \in DownMsgs : Send(t, m)
    BY <1>1
  <2>2. CASE SendSelect(t) \/ RecvSelect(t) \/ Recv(t)
    BY <2>2, SelectKeeps
  <2>3. CASE SendFails(t)
    BY <2>3, SendFailsKeeps
  <2>4. CASE SendWrite(t)
    BY <2>4, SendWriteKeeps
  <2>5. CASE RecvFails(t)
    BY <2>5, RecvFailsKeeps
  <2>6. CASE RecvRead(t)
    BY <2>6, RecvReadKeeps
  <2>7. CASE \E m \in DownMsgs : Send(t, m)
    BY <2>7, SendKeeps
  <2>8. QED
    BY <2>1, <2>2, <2>3, <2>4, <2>5, <2>6, <2>7 DEF Thread
<1>2. CASE \E m \in Msgs : AppRelease(m)
  BY <1>2, AppReleaseKeeps
<1>3. CASE Close
  BY <1>3, CloseKeeps
<1>4. CASE Worker
  <2>1. CASE \E n \in 1 .. SocketSize : DowncallRead(n) \/ WriteOut(n)
    <3>1. PICK n \in Int : DowncallRead(n) \/ WriteOut(n)
      BY <2>1
    <3>2. QED
      BY <3>1, DowncallReadKeeps, WriteOutKeeps
  <2>2. CASE \E n \in 0 .. SocketSize : CloseConnection(n)
    <3>1. PICK n \in Int : CloseConnection(n)
      BY <2>2
    <3>2. QED
      BY <3>1, CloseConnectionKeeps
  <2>3. CASE Drain
    BY <2>3, DrainKeeps
  <2>4. CASE Drained
    BY <2>4, DrainedKeeps
  <2>5. CASE RemoveConnection
    BY <2>5, RemoveConnectionKeeps
  <2>6. CASE \E m \in Msgs : StackDone(m)
    BY <2>6, StackDoneKeeps
  <2>7. QED
    BY <1>4, <2>1, <2>2, <2>3, <2>4, <2>5, <2>6 DEF Worker
<1>5. CASE \E batch \in UpBatches : UpcallRead(batch)
  BY <1>5, UpcallReadKeeps
<1>6. CASE \E blocked \in BOOLEAN : BlockDown(blocked)
  BY <1>6, BlockDownKeeps
<1>7. QED
  BY <1>1, <1>2, <1>3, <1>4, <1>5, <1>6 DEF Next

LEMMA StutterKeeps == IInv /\ UNCHANGED vars => IInv'
<1> SUFFICES ASSUME IInv, UNCHANGED vars PROVE IInv'
  OBVIOUS
<1>1. UNCHANGED <<connection, kernel, output, draining, stack, pc, msg, closeAsked, refs, mine, made, logs>>
  BY DEF vars, call
<1>2. Types /\ Calls
  BY TypesAreOK DEF IInv
<1>3. Calls' /\ pc' \in [Threads -> {"idle", "sendSelect", "write", "recvSelect", "read"}]
  BY <1>1, <1>2 DEF Calls, Types
<1>4. QED
  BY <1>1, <1>3, CallKeeps

(* However many threads send and receive, however the worker's reads cut   *)
(* the stream, and whenever the connection is closed: every message is in  *)
(* one place on its way, and the logs of the two directions are what       *)
(* DownOrder and Up say.                                                   *)
THEOREM Inductive == Spec => []IInv
<1>1. IInv /\ [Next]_vars => IInv'
  BY StepKeeps, StutterKeeps
<1>2. QED
  BY InitKeeps, <1>1, PTL DEF Spec

(* The variables keep their types; the messages in the two directions of   *)
(* the socket pair do not mix, and neither exceeds its buffer.             *)
THEOREM TypeCorrect == Spec => []TypeOK
<1>1. IInv => TypeOK
  BY DEF IInv
<1>2. QED
  BY Inductive, <1>1, PTL

(* Nobody reads a message that was freed: every pointer that a socket, a   *)
(* buffer, a call in progress, the stack or the application holds has a    *)
(* reference of its own, and there are no others while the connection is   *)
(* in use.                                                                 *)
THEOREM PointersStayAlive == Spec => []PointersAreAlive
<1>1. IInv => PointersAreAlive
  BY DEF IInv
<1>2. QED
  BY Inductive, <1>1, PTL

(* What is sent is put on the stack in the order of the writes, each       *)
(* message unless a pause was sent before it; what is offered is received  *)
(* in order, and nothing of it is lost or repeated before the close.       *)
THEOREM OrderIsKept == Spec => []OrderKept
<1>1. ASSUME IInv PROVE OrderKept
  <2>1. Types /\ Up /\ DownOrder
    BY <1>1, TypesAreOK DEF IInv
  <2>2. /\ received \in Seq(UpMsgs) /\ toApi \in Seq(UpMsgs) /\ output \in Seq(UpMsgs)
        /\ offered \in Seq(UpMsgs) /\ toTransport \in Seq(DownMsgs)
    BY <2>1 DEF Types
  <2>3. ASSUME InUse
        PROVE  passed = GoDown(SubSeq(accepted, 1, Len(accepted) - Len(toTransport)))
    <3>1. PICK r : ReadIs(r)
      BY <2>1, <2>3 DEF DownOrder
    <3>2. r \in Seq(DownMsgs) /\ accepted = r \o toTransport /\ passed = GoDown(r)
      BY <3>1 DEF ReadIs
    <3>3. Len(r) \in Nat /\ Len(toTransport) \in Nat /\ Len(r \o toTransport) = Len(r) + Len(toTransport)
      BY <2>2, <3>2, ElementsOf, ConcatElements
    <3>4. Len(accepted) - Len(toTransport) = Len(r)
      BY <3>2, <3>3
    <3>5. SubSeq(r \o toTransport, 1, Len(r)) = r
      <4>1. r \o toTransport \in Seq(DownMsgs)
            /\ \A i \in 1 .. Len(r) : (r \o toTransport)[i] = r[i]
        BY <2>2, <3>2, ConcatElements
      <4>2. Len(r) \in 0 .. Len(r \o toTransport)
        BY <3>3
      <4>3. CutAt(r \o toTransport, Len(r), DownMsgs)
        BY <4>1, <4>2, Cut
      <4>4. SubSeq(r \o toTransport, 1, Len(r)) \in Seq(DownMsgs)
            /\ Len(SubSeq(r \o toTransport, 1, Len(r))) = Len(r)
        BY <4>3 DEF CutAt
      <4>5. ASSUME NEW i \in 1 .. Len(r) PROVE SubSeq(r \o toTransport, 1, Len(r))[i] = r[i]
        <5>1. SubSeq(r \o toTransport, 1, Len(r))[i] = (r \o toTransport)[i]
          BY <3>3, <4>1, <4>2
        <5>2. QED
          BY <4>1, <5>1
      <4>6. QED
        BY <3>2, <4>4, <4>5, SeqEqual
    <3>6. QED
      BY <3>2, <3>4, <3>5, Zenon
  <2>4. ASSUME InUse PROVE offered = received \o toApi \o output
    <3>1. (received \o toApi) \o output = received \o (toApi \o output)
      <4>1. Associates(received, toApi, output)
        BY <2>2, ConcatAssociates
      <4>2. QED
        BY <4>1, Zenon DEF Associates
    <3>2. offered = received \o (toApi \o output)
      BY <2>1, <2>4 DEF Up, line
    <3>3. QED
      BY <3>1, <3>2, Zenon
  <2>5. InOrderOf(received, offered)
    <3>1. toApi \o output \in Seq(UpMsgs) /\ <<>> \in Seq(UpMsgs)
      BY <2>2, ConcatSets
    <3>2. (toApi \o output) \o <<>> = toApi \o output /\ received \o <<>> = received
      BY <2>2, <3>1, ConcatEmptySeq
    <3>3. InOrderOf(received \o ((toApi \o output) \o <<>>), offered)
      BY <2>1, <3>2, Zenon DEF Up, line
    <3>4. InOrderOf(received \o <<>>, offered)
      BY <2>2, <3>1, <3>3, InOrderWithout
    <3>5. QED
      BY <3>2, <3>4, Zenon
  <2>6. QED
    BY <2>3, <2>4, <2>5 DEF OrderKept
<1>2. QED
  BY Inductive, <1>1, PTL
=============================================================================
