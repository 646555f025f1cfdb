------------------------- MODULE LocalPipe_proofs -------------------------
(***************************************************************************)
(* Proofs about the local connector and the bent pipe, for every number of *)
(* clients and slots, every size of header and bodies, and every way the   *)
(* streams are cut into reads.                                             *)
(***************************************************************************)
EXTENDS LocalPipe, InductionOnSets, FiniteSetTheorems, SequenceTheorems

-----------------------------------------------------------------------------
(* Sequences *)

LEMMA ElementsOf ==
    ASSUME NEW S, NEW s \in Seq(S)
    PROVE  Len(s) \in Nat /\ DOMAIN s = 1 .. Len(s) /\ \A k \in 1 .. Len(s) : s[k] \in S
OBVIOUS

(* A sequence by its length and elements *)
LEMMA MadeOf ==
    ASSUME NEW S, NEW n \in Nat, NEW f, f = [k \in 1 .. n |-> f[k]], \A k \in 1 .. n : f[k] \in S
    PROVE  f \in Seq(S) /\ Len(f) = n
<1>1. f \in [1 .. n -> S]
  OBVIOUS
<1>2. QED
  BY <1>1, IsASeq, LenProperties

(* Concatenations of three, as a fact of its own *)
Associates(s, t, u) == (s \o t) \o u = s \o (t \o u)

LEMMA ConcatAssociates ==
    ASSUME NEW S, NEW s \in Seq(S), NEW t \in Seq(S), NEW u \in Seq(S)
    PROVE  Associates(s, t, u)
BY ConcatAssociative DEF Associates

(* The elements of a concatenation *)
LEMMA ConcatElements ==
    ASSUME NEW S, NEW s \in Seq(S), NEW t \in Seq(S)
    PROVE  /\ s \o t \in Seq(S) /\ Len(s \o t) = Len(s) + Len(t)
           /\ \A i \in 1 .. Len(s) : (s \o t)[i] = s[i]
           /\ \A i \in 1 .. Len(t) : (s \o t)[Len(s) + i] = t[i]
           /\ \A k \in 1 .. Len(s) + Len(t) :
                 k \in 1 .. Len(s) \/ \E i \in 1 .. Len(t) : k = Len(s) + i
<1>1. /\ s \o t \in Seq(S) /\ Len(s \o t) = Len(s) + Len(t)
      /\ \A i \in 1 .. Len(s) + Len(t) :
            (s \o t)[i] = IF i <= Len(s) THEN s[i] ELSE t[i - Len(s)]
  BY ConcatProperties
<1>2. Len(s) \in Nat /\ Len(t) \in Nat
  BY ElementsOf
<1>3. ASSUME NEW i \in 1 .. Len(s) PROVE (s \o t)[i] = s[i]
  BY <1>1, <1>2
<1>4. ASSUME NEW i \in 1 .. Len(t) PROVE (s \o t)[Len(s) + i] = t[i]
  <2>1. Len(s) + i \in 1 .. Len(s) + Len(t) /\ ~ (Len(s) + i <= Len(s)) /\ (Len(s) + i) - Len(s) = i
    BY <1>2
  <2>2. QED
    BY <1>1, <2>1
<1>5. ASSUME NEW k \in 1 .. Len(s) + Len(t), k \notin 1 .. Len(s)
      PROVE  \E i \in 1 .. Len(t) : k = Len(s) + i
  <2>1. k - Len(s) \in 1 .. Len(t) /\ k = Len(s) + (k - Len(s))
    BY <1>2, <1>5
  <2>2. QED
    BY <2>1
<1>6. QED
  BY <1>1, <1>3, <1>4, <1>5

Joins(u, s, t, S) ==
    /\ u \in Seq(S) /\ Len(u) = Len(s) + Len(t)
    /\ \A i \in 1 .. Len(s) : u[i] = s[i]
    /\ \A i \in 1 .. Len(t) : u[Len(s) + i] = t[i]

LEMMA ConcatJoins ==
    ASSUME NEW S, NEW s \in Seq(S), NEW t \in Seq(S)
    PROVE  Joins(s \o t, s, t, S)
BY ConcatElements DEF Joins

(* The beginning and the rest of a sequence *)
LEMMA CutElements ==
    ASSUME NEW S, NEW s \in Seq(S), NEW n \in 0 .. Len(s)
    PROVE  /\ Prefix(s, n) \in Seq(S) /\ Len(Prefix(s, n)) = n
           /\ \A k \in 1 .. n : Prefix(s, n)[k] = s[k]
           /\ Rest(s, n) \in Seq(S) /\ Len(Rest(s, n)) = Len(s) - n
           /\ \A k \in 1 .. Len(s) - n : Rest(s, n)[k] = s[n + k]
<1>1. Len(s) \in Nat /\ n \in Nat /\ \A k \in 1 .. Len(s) : s[k] \in S
  BY ElementsOf
<1>2. \A k \in 1 .. n : s[k] \in S
  BY <1>1
<1>3. \A k \in n + 1 .. Len(s) : s[k] \in S
  BY <1>1
<1>4. /\ Prefix(s, n) \in Seq(S)
      /\ Len(Prefix(s, n)) = IF 1 <= n THEN (n - 1) + 1 ELSE 0
      /\ \A k \in 1 .. (n - 1) + 1 : Prefix(s, n)[k] = s[(1 + k) - 1]
  BY <1>1, <1>2, SubSeqProperties DEF Prefix
<1>5. /\ Rest(s, n) \in Seq(S)
      /\ Len(Rest(s, n)) = IF n + 1 <= Len(s) THEN (Len(s) - (n + 1)) + 1 ELSE 0
      /\ \A k \in 1 .. (Len(s) - (n + 1)) + 1 : Rest(s, n)[k] = s[((n + 1) + k) - 1]
  BY <1>1, <1>3, SubSeqProperties DEF Rest
<1>6. \A k \in 1 .. n : k \in 1 .. (n - 1) + 1 /\ (1 + k) - 1 = k
  BY <1>1
<1>7. \A k \in 1 .. Len(s) - n : k \in 1 .. (Len(s) - (n + 1)) + 1 /\ ((n + 1) + k) - 1 = n + k
  BY <1>1
<1>8. \A k \in 1 .. n : Prefix(s, n)[k] = s[k]
  BY <1>4, <1>6
<1>9. \A k \in 1 .. Len(s) - n : Rest(s, n)[k] = s[n + k]
  BY <1>5, <1>7
<1>10. Len(Prefix(s, n)) = n /\ Len(Rest(s, n)) = Len(s) - n
  BY <1>1, <1>4, <1>5
<1>11. QED
  BY <1>4, <1>5, <1>8, <1>9, <1>10

LEMMA CutConcat ==
    ASSUME NEW S, NEW s \in Seq(S), NEW n \in 0 .. Len(s)
    PROVE  s = Prefix(s, n) \o Rest(s, n)
<1> DEFINE p == Prefix(s, n)
           r == Rest(s, n)
<1>1. /\ p \in Seq(S) /\ Len(p) = n /\ \A k \in 1 .. n : p[k] = s[k]
      /\ r \in Seq(S) /\ Len(r) = Len(s) - n /\ \A k \in 1 .. Len(s) - n : r[k] = s[n + k]
  BY CutElements
<1>2. Len(s) \in Nat /\ n \in Nat /\ n + (Len(s) - n) = Len(s)
  BY ElementsOf
<1> HIDE DEF p, r
<1>3. /\ p \o r \in Seq(S) /\ Len(p \o r) = Len(p) + Len(r)
      /\ \A i \in 1 .. Len(p) : (p \o r)[i] = p[i]
      /\ \A i \in 1 .. Len(r) : (p \o r)[Len(p) + i] = r[i]
  BY <1>1, ConcatElements
<1> DEFINE c == p \o r
<1>4. /\ c \in Seq(S) /\ Len(c) = Len(s)
      /\ \A i \in 1 .. n : c[i] = s[i]
      /\ \A i \in 1 .. Len(s) - n : c[n + i] = s[n + i]
  BY <1>1, <1>2, <1>3
<1> HIDE DEF c
<1>5. ASSUME NEW k \in 1 .. Len(s) PROVE s[k] = c[k]
  <2>1. CASE k <= n
    BY <1>2, <1>4, <2>1
  <2>2. CASE ~ (k <= n)
    <3>1. k - n \in 1 .. Len(s) - n /\ n + (k - n) = k
      BY <1>2, <2>2
    <3>2. QED
      BY <1>4, <3>1
  <2>3. QED
    BY <2>1, <2>2
<1>6. s = c
  BY <1>4, <1>5, SeqEqual
<1>7. QED
  BY <1>6 DEF c, p, r

(* f gathers the sequences of s one after the other. *)
Gathers(f, s, S) ==
    /\ f \in [0 .. Len(s) -> Seq(S)]
    /\ f[0] = <<>>
    /\ \A k \in 1 .. Len(s) : f[k] = f[k - 1] \o s[k]
    /\ FlattenSeq(s) = f[Len(s)]

Gathered(s, S) == \E f : Gathers(f, s, S)

(* The recursive function of FlattenSeq has its defining equation. *)
LEMMA FlattenGathers ==
    ASSUME NEW S, NEW s \in Seq(Seq(S))
    PROVE  Gathered(s, S)
<1> DEFINE n == Len(s)
           step == [p \in (1 .. n) \X Seq(S) |-> p[2] \o s[p[1]]]
           Solves(g) == g = [i \in 1 .. n |-> IF i = 1 THEN s[i] ELSE g[i - 1] \o s[i]]
           flat == CHOOSE g : Solves(g)
<1>1. n \in Nat /\ \A k \in 1 .. n : s[k] \in Seq(S)
  BY ElementsOf
<1>2. \A x, y \in Seq(S) : x \o y \in Seq(S)
  BY ConcatProperties
<1>3. step \in [(1 .. n) \X Seq(S) -> Seq(S)] /\ <<>> \in Seq(S)
  BY <1>1, <1>2
<1>4. PICK f : IsRecursive(f, n, Seq(S), <<>>, step)
  <2> HIDE DEF step, n
  <2>1. QED
    BY <1>1, <1>3, RecursionOnInterval
<1>5. f \in [0 .. n -> Seq(S)] /\ f[0] = <<>>
  BY <1>4 DEF IsRecursive
<1>6. ASSUME NEW k \in 1 .. n PROVE f[k] = f[k - 1] \o s[k]
  <2>1. f[k - 1] \in Seq(S)
    BY <1>1, <1>5, SMTT(30)
  <2>2. <<k, f[k - 1]>> \in (1 .. n) \X Seq(S)
    BY <2>1
  <2>3. step[<<k, f[k - 1]>>] = f[k - 1] \o s[k]
    BY <2>2
  <2> HIDE DEF step
  <2>4. QED
    BY <1>4, <2>3 DEF IsRecursive
<1>7. ASSUME NEW k \in 1 .. n, k = 1 PROVE f[k] = s[k]
  <2>1. f[k] = f[k - 1] \o s[k] /\ f[k - 1] = <<>>
    <3>1. k - 1 = 0
      BY <1>7
    <3>2. f[k] = f[k - 1] \o s[k]
      BY <1>6
    <3>3. QED
      BY <1>5, <3>1, <3>2
  <2>2. <<>> \o s[k] = s[k]
    BY <1>1, ConcatEmptySeq
  <2>3. QED
    BY <2>1, <2>2
<1>8. CASE n = 0
  <2>1. s = <<>>
    BY <1>8, EmptySeq
  <2>2. FlattenSeq(s) = s
    BY <1>8 DEF FlattenSeq
  <2>3. Gathers(f, s, S)
    BY <1>5, <1>6, <1>8, <2>1, <2>2 DEF Gathers
  <2>4. QED
    BY <2>3 DEF Gathered
<1>9. CASE n # 0
  <2>1. Solves([i \in 1 .. n |-> f[i]])
    <3> DEFINE g == [i \in 1 .. n |-> f[i]]
    <3>1. ASSUME NEW i \in 1 .. n, i # 1 PROVE i - 1 \in 1 .. n /\ g[i - 1] = f[i - 1]
      BY <1>1, <3>1
    <3>2. \A i \in 1 .. n : g[i] = IF i = 1 THEN s[i] ELSE g[i - 1] \o s[i]
      BY <1>6, <1>7, <3>1
    <3>3. QED
      BY <3>2
  <2>2. Solves(flat)
    BY <2>1
  <2>3. FlattenSeq(s) = flat[n]
    BY <1>9 DEF FlattenSeq
  <2>4. \A i \in 1 .. n : flat[i] = IF i = 1 THEN s[i] ELSE flat[i - 1] \o s[i]
    <3> HIDE DEF flat
    <3>1. QED
      BY <2>2
  <2> HIDE DEF flat
  <2> DEFINE Same == {i \in Nat : i + 1 <= n => flat[i + 1] = f[i + 1]}
  <2>5. 0 \in Same
    BY <1>1, <1>7, <1>9, <2>4
  <2>6. ASSUME NEW i \in Nat, i \in Same PROVE i + 1 \in Same
    <3>1. SUFFICES ASSUME (i + 1) + 1 <= n PROVE flat[(i + 1) + 1] = f[(i + 1) + 1]
      OBVIOUS
    <3>2. (i + 1) + 1 \in 1 .. n /\ (i + 1) + 1 # 1 /\ ((i + 1) + 1) - 1 = i + 1 /\ flat[i + 1] = f[i + 1]
      BY <1>1, <2>6, <3>1
    <3>3. flat[(i + 1) + 1] = flat[i + 1] \o s[(i + 1) + 1]
      BY <2>4, <3>2
    <3>4. f[(i + 1) + 1] = f[i + 1] \o s[(i + 1) + 1]
      BY <1>6, <3>2
    <3>5. QED
      BY <3>2, <3>3, <3>4
  <2>7. Nat \subseteq Same
    <3> HIDE DEF Same
    <3>1. QED
      BY <2>5, <2>6, InductionOnSet
  <2>8. flat[n] = f[n]
    <3>1. n - 1 \in Nat /\ (n - 1) + 1 = n
      BY <1>1, <1>9
    <3>2. n - 1 \in Same
      BY <2>7, <3>1
    <3>3. QED
      BY <3>1, <3>2
  <2>9. Gathers(f, s, S)
    BY <1>5, <1>6, <2>3, <2>8 DEF Gathers
  <2>10. QED
    BY <2>9 DEF Gathered
<1>10. QED
  BY <1>8, <1>9

LEMMA FlattenType ==
    ASSUME NEW S, NEW s \in Seq(Seq(S))
    PROVE  FlattenSeq(s) \in Seq(S)
<1>1. PICK f : Gathers(f, s, S)
  BY FlattenGathers DEF Gathered
<1>2. Len(s) \in 0 .. Len(s)
  BY ElementsOf
<1>3. QED
  BY <1>1, <1>2 DEF Gathers

(* What two sequences of sequences hold is what each of them holds. *)
FlattensBoth(s, t) == FlattenSeq(s \o t) = FlattenSeq(s) \o FlattenSeq(t)

LEMMA FlattenConcat ==
    ASSUME NEW S, NEW s \in Seq(Seq(S)), NEW t \in Seq(Seq(S))
    PROVE  FlattensBoth(s, t)
<1> DEFINE m == Len(s)
           n == Len(t)
           u == s \o t
<1>1. m \in Nat /\ n \in Nat /\ (\A k \in 1 .. m : s[k] \in Seq(S)) /\ \A k \in 1 .. n : t[k] \in Seq(S)
  BY ElementsOf
<1>2. /\ u \in Seq(Seq(S)) /\ Len(u) = m + n
      /\ \A i \in 1 .. m : u[i] = s[i]
      /\ \A i \in 1 .. n : u[m + i] = t[i]
  BY ConcatElements
<1> HIDE DEF u
<1>3. PICK f : Gathers(f, u, S)
  BY <1>2, FlattenGathers DEF Gathered
<1>4. PICK g : Gathers(g, s, S)
  BY FlattenGathers DEF Gathered
<1>5. PICK h : Gathers(h, t, S)
  BY FlattenGathers DEF Gathered
<1>6. /\ f[0] = <<>> /\ (\A k \in 1 .. m + n : f[k] = f[k - 1] \o u[k]) /\ FlattenSeq(u) = f[m + n]
      /\ g \in [0 .. m -> Seq(S)]
      /\ g[0] = <<>> /\ (\A k \in 1 .. m : g[k] = g[k - 1] \o s[k]) /\ FlattenSeq(s) = g[m]
      /\ h \in [0 .. n -> Seq(S)]
      /\ h[0] = <<>> /\ (\A k \in 1 .. n : h[k] = h[k - 1] \o t[k]) /\ FlattenSeq(t) = h[n]
  BY <1>2, <1>3, <1>4, <1>5 DEF Gathers
<1> DEFINE First == {i \in Nat : i <= m => f[i] = g[i]}
<1>7. 0 \in First
  BY <1>6
<1>8. ASSUME NEW i \in Nat, i \in First PROVE i + 1 \in First
  <2>1. SUFFICES ASSUME i + 1 <= m PROVE f[i + 1] = g[i + 1]
    OBVIOUS
  <2>2. i + 1 \in 1 .. m /\ i + 1 \in 1 .. m + n /\ (i + 1) - 1 = i /\ f[i] = g[i]
    BY <1>1, <1>8, <2>1
  <2>3. f[i + 1] = f[i] \o u[i + 1] /\ g[i + 1] = g[i] \o s[i + 1] /\ u[i + 1] = s[i + 1]
    BY <1>2, <1>6, <2>2
  <2>4. QED
    BY <2>2, <2>3
<1>9. Nat \subseteq First
  <2> HIDE DEF First
  <2>1. QED
    BY <1>7, <1>8, InductionOnSet
<1>10. f[m] = g[m] /\ g[m] \in Seq(S)
  <2>1. m \in First /\ m \in 0 .. m /\ m <= m
    BY <1>1, <1>9
  <2>2. QED
    BY <1>6, <2>1
<1> DEFINE both == [i \in 0 .. n |-> g[m] \o h[i]]
           Then == {i \in Nat : i <= n => f[m + i] = both[i]}
<1>11. \A i \in 0 .. n : both[i] = g[m] \o h[i]
  BY Zenon
<1> HIDE DEF both
<1>12. 0 \in Then
  <2>1. m + 0 = m /\ g[m] \o <<>> = g[m] /\ 0 \in 0 .. n
    BY <1>1, <1>10, ConcatEmptySeq
  <2>2. both[0] = g[m]
    BY <1>6, <1>11, <2>1
  <2>3. QED
    BY <1>10, <2>1, <2>2
<1>13. ASSUME NEW i \in Nat, i \in Then PROVE i + 1 \in Then
  <2>1. SUFFICES ASSUME i + 1 <= n PROVE f[m + (i + 1)] = both[i + 1]
    OBVIOUS
  <2>2. /\ i + 1 \in 1 .. n /\ m + (i + 1) \in 1 .. m + n /\ (i + 1) - 1 = i /\ i \in 0 .. n
        /\ (m + (i + 1)) - 1 = m + i /\ f[m + i] = both[i] /\ i + 1 \in 0 .. n
    BY <1>1, <1>13, <2>1
  <2>3. f[m + (i + 1)] = f[m + i] \o t[i + 1] /\ h[i + 1] = h[i] \o t[i + 1]
    BY <1>2, <1>6, <2>2
  <2>4. Associates(g[m], h[i], t[i + 1])
    <3>1. h[i] \in Seq(S) /\ t[i + 1] \in Seq(S)
      BY <1>1, <1>6, <2>2
    <3>2. QED
      BY <1>10, <3>1, ConcatAssociates
  <2>5. both[i] = g[m] \o h[i] /\ both[i + 1] = g[m] \o h[i + 1]
    BY <1>11, <2>2
  <2>6. QED
    BY <2>2, <2>3, <2>4, <2>5, Zenon DEF Associates
<1>14. f[m + n] = g[m] \o h[n]
  <2>1. Nat \subseteq Then
    <3> HIDE DEF Then
    <3>1. QED
      BY <1>12, <1>13, InductionOnSet
  <2>2. n \in Then /\ n <= n /\ n \in 0 .. n
    BY <1>1, <2>1
  <2>3. f[m + n] = both[n] /\ both[n] = g[m] \o h[n]
    BY <1>11, <2>2, Zenon
  <2>4. QED
    BY <2>3, Zenon
<1>15. FlattenSeq(u) = FlattenSeq(s) \o FlattenSeq(t)
  BY <1>6, <1>14, Zenon
<1>16. QED
  BY <1>15, Zenon DEF FlattensBoth, u

(* One sequence is what a sequence of it alone holds; a sequence of empty  *)
(* ones holds nothing.                                                     *)
LEMMA FlattenOne ==
    ASSUME NEW S, NEW x \in Seq(S)
    PROVE  FlattenSeq(<<x>>) = x
<1>1. <<x>> \in Seq(Seq(S)) /\ Len(<<x>>) = 1 /\ <<x>>[1] = x
  OBVIOUS
<1>2. PICK f : Gathers(f, <<x>>, S)
  BY <1>1, FlattenGathers DEF Gathered
<1> DEFINE s == <<x>>
<1> HIDE DEF s
<1>3. /\ f[0] = <<>> /\ FlattenSeq(s) = f[Len(s)] /\ Len(s) = 1 /\ s[1] = x
      /\ \A k \in 1 .. Len(s) : f[k] = f[k - 1] \o s[k]
  <2>1. Len(s) = 1 /\ s[1] = x
    BY <1>1, Zenon DEF s
  <2>2. Gathers(f, s, S)
    BY <1>2, Zenon DEF s
  <2>3. QED
    BY <2>1, <2>2 DEF Gathers
<1>4. f[1] = f[0] \o x /\ FlattenSeq(s) = f[1]
  <2>1. 1 \in 1 .. Len(s) /\ 1 - 1 = 0
    BY <1>3
  <2>2. QED
    BY <1>3, <2>1
<1>5. <<>> \o x = x
  BY ConcatEmptySeq
<1>6. QED
  BY <1>3, <1>4, <1>5, Zenon DEF s

LEMMA FlattenNothing ==
    ASSUME NEW n \in Nat, NEW s, s = [k \in 1 .. n |-> <<>>]
    PROVE  FlattenSeq(s) = <<>>
<1> DEFINE S == {}
<1>1. s \in Seq(Seq(S)) /\ Len(s) = n
  <2>1. <<>> \in Seq(S)
    BY EmptySeq
  <2>2. s \in [1 .. n -> Seq(S)]
    BY <2>1
  <2>3. QED
    BY <2>2, IsASeq, LenProperties
<1>2. FlattenSeq(s) \in Seq(S)
  BY <1>1, FlattenType
<1>3. QED
  <2>1. ASSUME NEW x \in Seq({}) PROVE x = <<>>
    <3>1. Len(x) \in Nat /\ \A k \in 1 .. Len(x) : x[k] \in {}
      BY ElementsOf
    <3>2. Len(x) = 0
      BY <3>1
    <3>3. QED
      BY <3>2, EmptySeq
  <2>2. QED
    BY <1>2, <2>1

(* The sequence of what g makes of the elements of s, and what that holds  *)
Images(s, g) == [k \in DOMAIN s |-> g[s[k]]]

Gather(s, g) == FlattenSeq(Images(s, g))

MapsTo(g, A, T) == g \in [A -> T]

AreImages(x, s, g, T) ==
    x \in Seq(T) /\ Len(x) = Len(s) /\ \A k \in 1 .. Len(s) : x[k] = g[s[k]]

LEMMA ImagesAre ==
    ASSUME NEW A, NEW T, NEW s \in Seq(A), NEW g, MapsTo(g, A, T)
    PROVE  AreImages(Images(s, g), s, g, T)
<1>1. Len(s) \in Nat /\ DOMAIN s = 1 .. Len(s) /\ \A k \in 1 .. Len(s) : s[k] \in A
  BY ElementsOf
<1>2. Images(s, g) \in [1 .. Len(s) -> T]
  BY <1>1 DEF Images, MapsTo
<1>3. \A k \in 1 .. Len(s) : Images(s, g)[k] = g[s[k]]
  BY <1>1 DEF Images
<1>4. Images(s, g) \in Seq(T)
  BY <1>1, <1>2, IsASeq
<1>5. DOMAIN Images(s, g) = 1 .. Len(s)
  BY <1>2
<1>6. Len(Images(s, g)) = Len(s)
  BY <1>1, <1>4, <1>5, LenProperties
<1>7. QED
  BY <1>3, <1>4, <1>6 DEF AreImages

ImagesBoth(s, t, g) == Images(s \o t, g) = Images(s, g) \o Images(t, g)

LEMMA ImagesConcat ==
    ASSUME NEW A, NEW T, NEW s \in Seq(A), NEW t \in Seq(A), NEW g, MapsTo(g, A, T)
    PROVE  ImagesBoth(s, t, g)
<1> DEFINE m == Len(s)
           n == Len(t)
           u == s \o t
           x == Images(u, g)
           p == Images(s, g)
           q == Images(t, g)
           y == p \o q
<1>1. m \in Nat /\ n \in Nat
  BY ElementsOf
<1>2. /\ u \in Seq(A) /\ Len(u) = m + n
      /\ \A i \in 1 .. m : u[i] = s[i]
      /\ \A i \in 1 .. n : u[m + i] = t[i]
      /\ \A k \in 1 .. m + n : k \in 1 .. m \/ \E i \in 1 .. n : k = m + i
  BY ConcatElements
<1> HIDE DEF u
<1>3. x \in Seq(T) /\ Len(x) = m + n /\ \A k \in 1 .. m + n : x[k] = g[u[k]]
  <2>1. AreImages(x, u, g, T)
    BY <1>2, ImagesAre
  <2> HIDE DEF x
  <2>2. QED
    BY <1>2, <2>1 DEF AreImages
<1>4. /\ p \in Seq(T) /\ Len(p) = m /\ \A k \in 1 .. m : p[k] = g[s[k]]
      /\ q \in Seq(T) /\ Len(q) = n /\ \A k \in 1 .. n : q[k] = g[t[k]]
  <2>1. AreImages(p, s, g, T) /\ AreImages(q, t, g, T)
    BY ImagesAre
  <2> HIDE DEF p, q
  <2>2. QED
    BY <2>1 DEF AreImages
<1> HIDE DEF x, p, q
<1>5. /\ y \in Seq(T) /\ Len(y) = m + n
      /\ \A i \in 1 .. m : y[i] = p[i]
      /\ \A i \in 1 .. n : y[m + i] = q[i]
  <2> HIDE DEF m, n
  <2>1. Len(p) = m /\ Len(q) = n /\ p \in Seq(T) /\ q \in Seq(T)
    BY <1>4
  <2>2. Joins(y, p, q, T)
    BY <2>1, ConcatJoins
  <2> HIDE DEF y
  <2>3. QED
    BY <2>1, <2>2 DEF Joins
<1> HIDE DEF y, m, n
<1>6. ASSUME NEW k \in 1 .. m + n PROVE x[k] = y[k]
  <2>1. CASE k \in 1 .. m
    <3>1. x[k] = g[u[k]] /\ u[k] = s[k]
      BY <1>2, <1>3, <2>1
    <3>2. y[k] = p[k] /\ p[k] = g[s[k]]
      BY <1>4, <1>5, <2>1
    <3>3. QED
      BY <3>1, <3>2, Zenon
  <2>2. CASE \E i \in 1 .. n : k = m + i
    <3>1. PICK i \in 1 .. n : k = m + i
      BY <2>2
    <3>2. x[m + i] = g[t[i]]
      BY <1>2, <1>3, <3>1
    <3>3. y[m + i] = g[t[i]]
      BY <1>4, <1>5
    <3>4. QED
      BY <3>1, <3>2, <3>3
  <2>3. QED
    BY <1>2, <2>1, <2>2
<1>7. x = y
  BY <1>3, <1>5, <1>6, SeqEqual
<1>8. QED
  BY <1>7, Zenon DEF ImagesBoth, x, y, p, q, u

GathersBoth(s, t, g) == Gather(s \o t, g) = Gather(s, g) \o Gather(t, g)

LEMMA GatherType ==
    ASSUME NEW A, NEW B, NEW s \in Seq(A), NEW g, MapsTo(g, A, Seq(B))
    PROVE  Gather(s, g) \in Seq(B)
<1>1. Images(s, g) \in Seq(Seq(B))
  BY ImagesAre, Zenon DEF AreImages
<1>2. QED
  BY <1>1, FlattenType DEF Gather

LEMMA GatherConcat ==
    ASSUME NEW A, NEW B, NEW s \in Seq(A), NEW t \in Seq(A), NEW g, MapsTo(g, A, Seq(B))
    PROVE  GathersBoth(s, t, g)
<1>1. Images(s, g) \in Seq(Seq(B)) /\ Images(t, g) \in Seq(Seq(B))
  BY ImagesAre, Zenon DEF AreImages
<1>2. FlattensBoth(Images(s, g), Images(t, g))
  BY <1>1, FlattenConcat
<1>3. ImagesBoth(s, t, g)
  BY ImagesConcat
<1>4. QED
  BY <1>2, <1>3, Zenon DEF ImagesBoth, FlattensBoth, GathersBoth, Gather

GathersOne(x, g) == Gather(<<x>>, g) = g[x]

LEMMA GatherOne ==
    ASSUME NEW A, NEW B, NEW x \in A, NEW g, MapsTo(g, A, Seq(B))
    PROVE  GathersOne(x, g)
<1> DEFINE s == <<x>>
           i == Images(s, g)
           y == g[x]
           t == <<y>>
<1>1. s \in Seq(A) /\ Len(s) = 1 /\ s[1] = x
  OBVIOUS
<1>2. y \in Seq(B)
  BY DEF MapsTo
<1> HIDE DEF y
<1>3. t \in Seq(Seq(B)) /\ Len(t) = 1 /\ t[1] = y
  BY <1>2
<1> HIDE DEF s, t
<1>4. i \in Seq(Seq(B)) /\ Len(i) = 1 /\ i[1] = y
  <2>1. AreImages(i, s, g, Seq(B))
    BY <1>1, ImagesAre
  <2> HIDE DEF i
  <2>2. 1 \in 1 .. Len(s)
    BY <1>1
  <2>3. QED
    BY <1>1, <2>1, <2>2 DEF AreImages, y
<1> HIDE DEF i
<1>5. i = t
  <2>1. \A k \in 1 .. Len(i) : i[k] = t[k]
    BY <1>3, <1>4
  <2>2. QED
    BY <1>3, <1>4, <2>1, SeqEqual
<1>6. FlattenSeq(t) = y
  BY <1>2, FlattenOne DEF t
<1>7. QED
  BY <1>5, <1>6, Zenon DEF GathersOne, Gather, i, s, y

LEMMA GatherNothing ==
    ASSUME NEW A, NEW s \in Seq(A), NEW g, \A k \in 1 .. Len(s) : g[s[k]] = <<>>
    PROVE  Gather(s, g) = <<>>
<1>1. Len(s) \in Nat /\ DOMAIN s = 1 .. Len(s)
  BY ElementsOf
<1>2. Images(s, g) = [k \in 1 .. Len(s) |-> <<>>]
  BY <1>1 DEF Images
<1>3. QED
  BY <1>1, <1>2, FlattenNothing DEF Gather

LEMMA GatherEmpty ==
    ASSUME NEW g
    PROVE  Gather(<<>>, g) = <<>>
<1> DEFINE s == <<>>
<1>1. s \in Seq({}) /\ Len(s) = 0
  OBVIOUS
<1> HIDE DEF s
<1>2. \A k \in 1 .. Len(s) : g[s[k]] = <<>>
  BY <1>1
<1>3. Gather(s, g) = <<>>
  BY <1>1, <1>2, GatherNothing
<1>4. QED
  BY <1>3 DEF s

-----------------------------------------------------------------------------
(* Units, messages and packets *)

Number == 1 .. Len(Body)

Units == {u \in Clients \X Number \X Nat : u[3] \in 1 .. HeaderSize + Body[u[2]]}

Message == Clients \X Number

Waiting == [pbuff : Seq(Units) \ {<<>>}, wait : Waits]

LEMMA Constants ==
    /\ None \notin Clients /\ HeaderSize \in Nat /\ HeaderSize > 0
    /\ Len(Body) \in Nat /\ DOMAIN Body = Number
    /\ \A n \in Number : Body[n] \in Nat /\ Body[n] > 0
    /\ MaxConn \in Nat /\ MaxConn > 0 /\ Delays \subseteq Nat \ {0} /\ Buffers \subseteq Nat
<1>1. Body \in Seq(Nat \ {0})
  BY FrameAssumption
<1>2. Len(Body) \in Nat /\ DOMAIN Body = Number /\ \A n \in Number : Body[n] \in Nat \ {0}
  BY <1>1, ElementsOf DEF Number
<1>3. QED
  BY <1>2, FrameAssumption, PipeAssumption

LEMMA UnitFields ==
    ASSUME NEW u \in Units
    PROVE  /\ u[1] \in Clients /\ u[2] \in Number /\ u[3] \in Nat
           /\ u[3] \in 1 .. HeaderSize + Body[u[2]] /\ u = <<u[1], u[2], u[3]>>
BY DEF Units

(* What a unit tells of messages, a message of a client's numbers, and a   *)
(* packet in a queue of units                                              *)
heads  == [u \in Units |-> IF u[3] = 1 THEN << <<u[1], u[2]>> >> ELSE <<>>]
own(a) == [m \in Message |-> IF m[1] = a THEN <<m[2]>> ELSE <<>>]
pbuffs == [w \in Waiting |-> w.pbuff]

LEMMA Maps ==
    /\ MapsTo(heads, Units, Seq(Message))
    /\ \A a : MapsTo(own(a), Message, Seq(Number))
    /\ MapsTo(pbuffs, Waiting, Seq(Units))
<1>1. \A u \in Units : <<u[1], u[2]>> \in Message
  BY UnitFields DEF Message
<1>2. heads \in [Units -> Seq(Message)]
  BY <1>1 DEF heads
<1>3. \A m \in Message : m[2] \in Number
  BY DEF Message
<1>4. \A a : own(a) \in [Message -> Seq(Number)]
  BY <1>3 DEF own
<1>5. pbuffs \in [Waiting -> Seq(Units)]
  BY DEF pbuffs, Waiting
<1>6. QED
  BY <1>2, <1>4, <1>5 DEF MapsTo

LEMMA MessagesGather ==
    ASSUME NEW s \in Seq(Units)
    PROVE  Messages(s) = Gather(s, heads)
<1>1. DOMAIN s = 1 .. Len(s) /\ \A k \in 1 .. Len(s) : s[k] \in Units
  BY ElementsOf
<1>2. [k \in DOMAIN s |-> IF s[k][3] = 1 THEN << <<s[k][1], s[k][2]>> >> ELSE <<>>] = Images(s, heads)
  BY <1>1 DEF Images, heads
<1>3. QED
  BY <1>2, Zenon DEF Messages, Gather

LEMMA NumbersGather ==
    ASSUME NEW s \in Seq(Message), NEW a
    PROVE  Numbers(s, a) = Gather(s, own(a))
<1>1. DOMAIN s = 1 .. Len(s) /\ \A k \in 1 .. Len(s) : s[k] \in Message
  BY ElementsOf
<1>2. [k \in DOMAIN s |-> IF s[k][1] = a THEN <<s[k][2]>> ELSE <<>>] = Images(s, own(a))
  BY <1>1 DEF Images, own
<1>3. QED
  BY <1>2, Zenon DEF Numbers, Gather

LEMMA PacketsGather ==
    ASSUME NEW s \in Seq(Waiting)
    PROVE  Packets(s) = Gather(s, pbuffs)
<1>1. DOMAIN s = 1 .. Len(s) /\ \A k \in 1 .. Len(s) : s[k] \in Waiting
  BY ElementsOf
<1>2. [k \in DOMAIN s |-> s[k].pbuff] = Images(s, pbuffs)
  BY <1>1 DEF Images, pbuffs
<1>3. QED
  BY <1>2, Zenon DEF Packets, Gather

(* The numbers of the messages of a that begin in some units *)
Begun(s, a) == Numbers(Messages(s), a)

LEMMA PacketsFacts ==
    /\ Packets(<<>>) = <<>>
    /\ \A s \in Seq(Waiting) : Packets(s) \in Seq(Units)
    /\ \A s, t \in Seq(Waiting) : Packets(s \o t) = Packets(s) \o Packets(t)
    /\ \A w \in Waiting : Packets(<<w>>) = w.pbuff
<1>1. Packets(<<>>) = <<>>
  <2>1. <<>> \in Seq(Waiting)
    BY EmptySeq
  <2>2. QED
    BY <2>1, Maps, GatherEmpty, PacketsGather
<1>2. ASSUME NEW s \in Seq(Waiting) PROVE Packets(s) \in Seq(Units)
  BY Maps, GatherType, PacketsGather
<1>3. ASSUME NEW s \in Seq(Waiting), NEW t \in Seq(Waiting)
      PROVE  Packets(s \o t) = Packets(s) \o Packets(t)
  <2>1. GathersBoth(s, t, pbuffs)
    BY Maps, GatherConcat
  <2>2. s \o t \in Seq(Waiting)
    BY ConcatProperties
  <2>3. Packets(s \o t) = Gather(s \o t, pbuffs) /\ Packets(s) = Gather(s, pbuffs) /\ Packets(t) = Gather(t, pbuffs)
    BY <2>2, PacketsGather
  <2>4. QED
    BY <2>1, <2>3, Zenon DEF GathersBoth
<1>4. ASSUME NEW w \in Waiting PROVE Packets(<<w>>) = w.pbuff
  <2>1. <<w>> \in Seq(Waiting) /\ pbuffs[w] = w.pbuff
    BY DEF pbuffs
  <2>2. QED
    <3>1. GathersOne(w, pbuffs)
      BY Maps, GatherOne
    <3>2. QED
      BY <2>1, <3>1, PacketsGather, Zenon DEF GathersOne
<1>5. QED
  BY <1>1, <1>2, <1>3, <1>4

LEMMA MessagesFacts ==
    /\ Messages(<<>>) = <<>>
    /\ \A s \in Seq(Units) : Messages(s) \in Seq(Message)
    /\ \A s, t \in Seq(Units) : Messages(s \o t) = Messages(s) \o Messages(t)
    /\ \A u \in Units : Messages(<<u>>) = IF u[3] = 1 THEN << <<u[1], u[2]>> >> ELSE <<>>
<1>1. Messages(<<>>) = <<>>
  <2>1. <<>> \in Seq(Units)
    BY EmptySeq
  <2>2. QED
    BY <2>1, Maps, GatherEmpty, MessagesGather
<1>2. ASSUME NEW s \in Seq(Units) PROVE Messages(s) \in Seq(Message)
  BY Maps, GatherType, MessagesGather
<1>3. ASSUME NEW s \in Seq(Units), NEW t \in Seq(Units)
      PROVE  Messages(s \o t) = Messages(s) \o Messages(t)
  <2>1. GathersBoth(s, t, heads)
    BY Maps, GatherConcat
  <2>2. s \o t \in Seq(Units)
    BY ConcatProperties
  <2>3. Messages(s \o t) = Gather(s \o t, heads) /\ Messages(s) = Gather(s, heads) /\ Messages(t) = Gather(t, heads)
    BY <2>2, MessagesGather
  <2>4. QED
    BY <2>1, <2>3, Zenon DEF GathersBoth
<1>4. ASSUME NEW u \in Units
      PROVE  Messages(<<u>>) = IF u[3] = 1 THEN << <<u[1], u[2]>> >> ELSE <<>>
  <2>1. <<u>> \in Seq(Units) /\ heads[u] = IF u[3] = 1 THEN << <<u[1], u[2]>> >> ELSE <<>>
    BY DEF heads
  <2>2. Messages(<<u>>) = heads[u]
    <3>1. GathersOne(u, heads)
      BY Maps, GatherOne
    <3>2. QED
      BY <2>1, <3>1, MessagesGather, Zenon DEF GathersOne
  <2>3. QED
    BY <2>1, <2>2, Zenon
<1>5. QED
  BY <1>1, <1>2, <1>3, <1>4

LEMMA NumbersFacts ==
    ASSUME NEW a
    PROVE  /\ Numbers(<<>>, a) = <<>>
           /\ \A s \in Seq(Message) : Numbers(s, a) \in Seq(Number)
           /\ \A s, t \in Seq(Message) : Numbers(s \o t, a) = Numbers(s, a) \o Numbers(t, a)
           /\ \A m \in Message : Numbers(<<m>>, a) = IF m[1] = a THEN <<m[2]>> ELSE <<>>
<1>1. Numbers(<<>>, a) = <<>>
  <2>1. <<>> \in Seq(Message)
    BY EmptySeq
  <2>2. QED
    BY <2>1, Maps, GatherEmpty, NumbersGather
<1>2. ASSUME NEW s \in Seq(Message) PROVE Numbers(s, a) \in Seq(Number)
  BY Maps, GatherType, NumbersGather
<1>3. ASSUME NEW s \in Seq(Message), NEW t \in Seq(Message)
      PROVE  Numbers(s \o t, a) = Numbers(s, a) \o Numbers(t, a)
  <2>1. GathersBoth(s, t, own(a))
    BY Maps, GatherConcat
  <2>2. s \o t \in Seq(Message)
    BY ConcatProperties
  <2>3. /\ Numbers(s \o t, a) = Gather(s \o t, own(a))
        /\ Numbers(s, a) = Gather(s, own(a)) /\ Numbers(t, a) = Gather(t, own(a))
    BY <2>2, NumbersGather
  <2>4. QED
    BY <2>1, <2>3, Zenon DEF GathersBoth
<1>4. ASSUME NEW m \in Message
      PROVE  Numbers(<<m>>, a) = IF m[1] = a THEN <<m[2]>> ELSE <<>>
  <2>1. <<m>> \in Seq(Message) /\ own(a)[m] = IF m[1] = a THEN <<m[2]>> ELSE <<>>
    BY DEF own
  <2>2. Numbers(<<m>>, a) = own(a)[m]
    <3>1. GathersOne(m, own(a))
      BY Maps, GatherOne
    <3>2. QED
      BY <2>1, <3>1, NumbersGather, Zenon DEF GathersOne
  <2>3. QED
    BY <2>1, <2>2, Zenon
<1>5. QED
  BY <1>1, <1>2, <1>3, <1>4

LEMMA BegunFacts ==
    ASSUME NEW a
    PROVE  /\ Begun(<<>>, a) = <<>>
           /\ \A s \in Seq(Units) : Begun(s, a) \in Seq(Number)
           /\ \A s, t \in Seq(Units) : Begun(s \o t, a) = Begun(s, a) \o Begun(t, a)
<1>1. Begun(<<>>, a) = <<>>
  BY MessagesFacts, NumbersFacts DEF Begun
<1>2. ASSUME NEW s \in Seq(Units) PROVE Begun(s, a) \in Seq(Number)
  BY MessagesFacts, NumbersFacts DEF Begun
<1>3. ASSUME NEW s \in Seq(Units), NEW t \in Seq(Units) PROVE Begun(s \o t, a) = Begun(s, a) \o Begun(t, a)
  <2>1. Messages(s) \in Seq(Message) /\ Messages(t) \in Seq(Message) /\ Messages(s \o t) = Messages(s) \o Messages(t)
    BY MessagesFacts
  <2> DEFINE x == Messages(s)
             y == Messages(t)
  <2> HIDE DEF x, y
  <2>2. Numbers(x \o y, a) = Numbers(x, a) \o Numbers(y, a)
    BY <2>1, NumbersFacts DEF x, y
  <2>3. QED
    BY <2>1, <2>2, Zenon DEF Begun, x, y
<1>4. QED
  BY <1>1, <1>2, <1>3

-----------------------------------------------------------------------------
(* Streams of messages *)

Place(u) == HeaderSize + Body[u[2]]

LEMMA PlaceType ==
    ASSUME NEW u \in Units
    PROVE  Place(u) \in Nat /\ Place(u) > HeaderSize /\ u[3] \in Nat /\ u[3] >= 1 /\ u[3] <= Place(u)
BY UnitFields, Constants DEF Place

(* v can come after u in a stream of messages. *)
Follows(u, v) == IF v[3] = 1 THEN u[3] = Place(u) ELSE u = <<v[1], v[2], v[3] - 1>>

(* Units that begin with a message, and units that also end with one *)
Stream(s) == Framed(s) /\ BeginsMessage(s)

Whole(s) == Stream(s) /\ (Len(s) > 0 => s[Len(s)][3] = Place(s[Len(s)]))

LEMMA StreamIs ==
    ASSUME NEW s \in Seq(Units)
    PROVE  Stream(s) <=> /\ Len(s) > 0 => s[1][3] = 1
                         /\ \A k \in 1 .. Len(s) : k > 1 => Follows(s[k - 1], s[k])
<1>1. Len(s) \in Nat /\ DOMAIN s = 1 .. Len(s) /\ \A k \in 1 .. Len(s) : s[k] \in Units
  BY ElementsOf
<1>2. s = <<>> <=> ~ (Len(s) > 0)
  BY <1>1, EmptySeq
<1>3. \A k \in 1 .. Len(s) : k = 1 \/ k > 1
  BY <1>1
<1>4. ASSUME Stream(s)
      PROVE  /\ Len(s) > 0 => s[1][3] = 1
             /\ \A k \in 1 .. Len(s) : k > 1 => Follows(s[k - 1], s[k])
  <2>1. Len(s) > 0 => s[1][3] = 1
    BY <1>2, <1>4 DEF Stream, BeginsMessage
  <2>2. ASSUME NEW k \in 1 .. Len(s), k > 1 PROVE Follows(s[k - 1], s[k])
    <3>1. k # 1
      BY <2>2, <1>1
    <3>2. IF s[k][3] = 1 THEN k = 1 \/ s[k - 1][3] = HeaderSize + Body[s[k - 1][2]]
          ELSE k > 1 /\ s[k - 1] = <<s[k][1], s[k][2], s[k][3] - 1>>
      BY <1>1, <1>4, Zenon DEF Stream, Framed
    <3>3. QED
      BY <3>1, <3>2 DEF Follows, Place
  <2>3. QED
    BY <2>1, <2>2
<1>5. ASSUME Len(s) > 0 => s[1][3] = 1,
             \A k \in 1 .. Len(s) : k > 1 => Follows(s[k - 1], s[k])
      PROVE  Stream(s)
  <2>1. BeginsMessage(s)
    BY <1>2, <1>5 DEF BeginsMessage
  <2>2. ASSUME NEW p \in 1 .. Len(s)
        PROVE  IF s[p][3] = 1
               THEN p = 1 \/ s[p - 1][3] = HeaderSize + Body[s[p - 1][2]]
               ELSE p > 1 /\ s[p - 1] = <<s[p][1], s[p][2], s[p][3] - 1>>
    <3>1. CASE p = 1
      <4>1. Len(s) > 0
        BY <1>1, <3>1
      <4>2. QED
        BY <1>5, <3>1, <4>1
    <3>2. CASE p > 1
      <4>1. Follows(s[p - 1], s[p])
        BY <1>5, <3>2
      <4>2. QED
        BY <3>2, <4>1 DEF Follows, Place
    <3>3. QED
      BY <1>3, <3>1, <3>2
  <2>3. Framed(s)
    BY <1>1, <2>2, Zenon DEF Framed
  <2>4. QED
    BY <2>1, <2>3 DEF Stream
<1>6. QED
  BY <1>4, <1>5

LEMMA EmptyIsWhole == Stream(<<>>) /\ Whole(<<>>)
<1> DEFINE s == <<>>
<1>1. s \in Seq(Units) /\ Len(s) = 0
  BY EmptySeq
<1> HIDE DEF s
<1>2. Stream(s)
  <2>1. ~ (Len(s) > 0) /\ \A k \in 1 .. Len(s) : FALSE
    BY <1>1
  <2>2. QED
    BY <1>1, <2>1, StreamIs, Zenon
<1>3. Whole(s)
  BY <1>1, <1>2 DEF Whole
<1>4. QED
  BY <1>2, <1>3 DEF s

(* What follows whole messages begins a message. *)
LEMMA StreamConcat ==
    ASSUME NEW s \in Seq(Units), NEW t \in Seq(Units), Whole(s), Stream(t)
    PROVE  Stream(s \o t) /\ (Whole(t) => Whole(s \o t))
<1> DEFINE u == s \o t
           m == Len(s)
           n == Len(t)
<1>1. m \in Nat /\ n \in Nat /\ (\A k \in 1 .. m : s[k] \in Units) /\ \A k \in 1 .. n : t[k] \in Units
  BY ElementsOf
<1>2. /\ u \in Seq(Units) /\ Len(u) = m + n
      /\ \A i \in 1 .. m : u[i] = s[i]
      /\ \A i \in 1 .. n : u[m + i] = t[i]
      /\ \A k \in 1 .. m + n : k \in 1 .. m \/ \E i \in 1 .. n : k = m + i
  BY ConcatElements
<1>3. /\ m > 0 => s[1][3] = 1 /\ s[m][3] = Place(s[m])
      /\ \A k \in 1 .. m : k > 1 => Follows(s[k - 1], s[k])
      /\ n > 0 => t[1][3] = 1
      /\ \A k \in 1 .. n : k > 1 => Follows(t[k - 1], t[k])
  BY StreamIs DEF Whole
<1>4. Whole(t) => (n > 0 => t[n][3] = Place(t[n]))
  BY DEF Whole
<1> HIDE DEF u, m, n
<1>5. m + n > 0 => u[1][3] = 1
  <2>1. CASE m > 0
    BY <1>1, <1>2, <1>3, <2>1
  <2>2. CASE m = 0 /\ n > 0
    <3>1. 1 \in 1 .. n /\ m + 1 = 1
      BY <1>1, <2>2
    <3>2. u[1] = t[1]
      BY <1>2, <3>1
    <3>3. QED
      BY <1>3, <2>2, <3>2
  <2>3. QED
    BY <1>1, <2>1, <2>2
<1>6. ASSUME NEW k \in 1 .. m + n, k > 1 PROVE Follows(u[k - 1], u[k])
  <2>1. CASE k \in 1 .. m
    <3>1. k - 1 \in 1 .. m
      BY <1>1, <1>6, <2>1
    <3>2. QED
      BY <1>2, <1>3, <1>6, <2>1, <3>1
  <2>2. CASE \E i \in 1 .. n : k = m + i
    <3>1. PICK i \in 1 .. n : k = m + i
      BY <2>2
    <3>2. u[k] = t[i]
      BY <1>2, <3>1
    <3>3. CASE i = 1
      <4>1. m \in 1 .. m /\ m > 0 /\ k - 1 = m /\ n > 0
        BY <1>1, <1>6, <3>1, <3>3
      <4>2. u[k - 1] = s[m] /\ t[1][3] = 1 /\ s[m][3] = Place(s[m])
        BY <1>2, <1>3, <4>1
      <4>3. QED
        BY <3>2, <3>3, <4>2 DEF Follows
    <3>4. CASE i > 1
      <4>1. i - 1 \in 1 .. n /\ m + (i - 1) = k - 1
        BY <1>1, <3>1, <3>4
      <4>2. u[k - 1] = t[i - 1]
        BY <1>2, <4>1
      <4>3. QED
        BY <1>3, <3>2, <3>4, <4>2
    <3>5. QED
      BY <1>1, <3>3, <3>4
  <2>3. QED
    BY <1>2, <2>1, <2>2
<1>7. Stream(u)
  BY <1>2, <1>5, <1>6, StreamIs
<1>8. ASSUME Whole(t) PROVE Whole(u)
  <2>1. ASSUME m + n > 0 PROVE u[m + n][3] = Place(u[m + n])
    <3>1. CASE n > 0
      <4>1. u[m + n] = t[n]
        BY <1>1, <1>2, <3>1
      <4>2. QED
        BY <1>4, <1>8, <3>1, <4>1
    <3>2. CASE n = 0
      <4>1. m + n = m /\ m > 0 /\ m \in 1 .. m
        BY <1>1, <2>1, <3>2
      <4>2. u[m + n] = s[m]
        BY <1>2, <4>1
      <4>3. QED
        BY <1>3, <4>1, <4>2
    <3>3. QED
      BY <1>1, <3>1, <3>2
  <2>2. QED
    BY <1>2, <1>7, <2>1 DEF Whole
<1>9. QED
  BY <1>7, <1>8 DEF u

(* The beginning of a stream *)
LEMMA StreamHead ==
    ASSUME NEW s \in Seq(Units), NEW t \in Seq(Units), Stream(s \o t)
    PROVE  Stream(s)
<1> DEFINE u == s \o t
           m == Len(s)
           n == Len(t)
<1>1. m \in Nat /\ n \in Nat
  BY ElementsOf
<1>2. u \in Seq(Units) /\ Len(u) = m + n /\ \A i \in 1 .. m : u[i] = s[i]
  BY ConcatElements
<1>3. /\ m + n > 0 => u[1][3] = 1
      /\ \A k \in 1 .. m + n : k > 1 => Follows(u[k - 1], u[k])
  <2>1. Stream(u)
    OBVIOUS
  <2> HIDE DEF u
  <2>2. QED
    BY <1>2, <2>1, StreamIs
<1> HIDE DEF u
<1>4. m > 0 => s[1][3] = 1
  BY <1>1, <1>2, <1>3, SMTT(30)
<1>5. ASSUME NEW k \in 1 .. m, k > 1 PROVE Follows(s[k - 1], s[k])
  <2>1. k - 1 \in 1 .. m /\ k \in 1 .. m + n
    BY <1>1, <1>5
  <2>2. u[k - 1] = s[k - 1] /\ u[k] = s[k]
    BY <1>2, <2>1
  <2>3. QED
    BY <1>3, <1>5, <2>1, <2>2
<1>6. QED
  BY <1>4, <1>5, StreamIs

(* The units of a message *)
LEMMA MessageUnitsType ==
    ASSUME NEW c \in Clients, NEW n \in Number
    PROVE  /\ MessageUnits(c, n) \in Seq(Units)
           /\ Len(MessageUnits(c, n)) = HeaderSize + Body[n]
           /\ HeaderSize + Body[n] \in Nat /\ HeaderSize + Body[n] > HeaderSize
           /\ \A k \in 1 .. HeaderSize + Body[n] : MessageUnits(c, n)[k] = <<c, n, k>>
<1> DEFINE z == HeaderSize + Body[n]
<1>1. z \in Nat /\ z > HeaderSize /\ HeaderSize \in Nat
  BY Constants
<1>2. \A k \in 1 .. z : <<c, n, k>> \in Units
  BY <1>1 DEF Units
<1>3. MessageUnits(c, n) \in [1 .. z -> Units]
  BY <1>2 DEF MessageUnits
<1>4. \A k \in 1 .. z : MessageUnits(c, n)[k] = <<c, n, k>>
  BY DEF MessageUnits
<1> HIDE DEF z
<1>5. MessageUnits(c, n) \in Seq(Units)
  BY <1>1, <1>3, IsASeq
<1>6. DOMAIN MessageUnits(c, n) = 1 .. z
  BY <1>3
<1>7. Len(MessageUnits(c, n)) = z
  BY <1>1, <1>5, <1>6, LenProperties
<1>8. QED
  BY <1>1, <1>4, <1>5, <1>7 DEF z

LEMMA MessageIsWhole ==
    ASSUME NEW c \in Clients, NEW n \in Number
    PROVE  Whole(MessageUnits(c, n)) /\ MessageUnits(c, n) # <<>>
<1> DEFINE s == MessageUnits(c, n)
           z == HeaderSize + Body[n]
<1>1. s \in Seq(Units) /\ Len(s) = z /\ z \in Nat /\ z > 0 /\ \A k \in 1 .. z : s[k] = <<c, n, k>>
  BY MessageUnitsType, Constants
<1>2. \A k \in 1 .. z : s[k][1] = c /\ s[k][2] = n /\ s[k][3] = k
  BY <1>1
<1> HIDE DEF s
<1>3. ASSUME NEW k \in 1 .. z, k > 1 PROVE Follows(s[k - 1], s[k])
  <2>1. k - 1 \in 1 .. z /\ k # 1
    BY <1>1, <1>3
  <2>2. s[k - 1] = <<c, n, k - 1>> /\ s[k][1] = c /\ s[k][2] = n /\ s[k][3] = k
    BY <1>1, <1>2, <2>1
  <2>3. QED
    BY <2>1, <2>2 DEF Follows
<1>4. s[1][3] = 1
  BY <1>1, <1>2
<1>5. Stream(s)
  BY <1>1, <1>3, <1>4, StreamIs
<1>6. s[z][3] = Place(s[z])
  BY <1>1, <1>2 DEF Place
<1>7. Whole(s) /\ s # <<>>
  BY <1>1, <1>5, <1>6, EmptySeq DEF Whole
<1>8. QED
  BY <1>7 DEF s

(* What comes after a message is a stream again. *)
LEMMA StreamAfter ==
    ASSUME NEW c \in Clients, NEW n \in Number, NEW t \in Seq(Units),
           Stream(MessageUnits(c, n) \o t)
    PROVE  Stream(t) /\ (Whole(MessageUnits(c, n) \o t) => Whole(t))
<1> DEFINE s == MessageUnits(c, n)
           u == s \o t
           m == Len(s)
           l == Len(t)
<1>1. s \in Seq(Units) /\ m \in Nat /\ m > 0 /\ s[m] = <<c, n, m>> /\ m = HeaderSize + Body[n]
  BY MessageUnitsType, Constants
<1> HIDE DEF s
<1>2. l \in Nat /\ \A k \in 1 .. l : t[k] \in Units
  BY ElementsOf
<1>3. /\ u \in Seq(Units) /\ Len(u) = m + l
      /\ \A i \in 1 .. m : u[i] = s[i]
      /\ \A i \in 1 .. l : u[m + i] = t[i]
  <2>1. Joins(u, s, t, Units)
    BY <1>1, ConcatJoins
  <2>2. QED
    BY <2>1 DEF Joins
<1>4. Stream(u)
  BY Zenon DEF s
<1> HIDE DEF u
<1>5. \A k \in 1 .. m + l : k > 1 => Follows(u[k - 1], u[k])
  BY <1>3, <1>4, StreamIs
<1> HIDE DEF m
<1>6. ASSUME l > 0 PROVE t[1][3] = 1
  <2>1. m \in 1 .. m /\ 1 \in 1 .. l /\ m + 1 \in 1 .. m + l /\ m + 1 > 1 /\ (m + 1) - 1 = m
    BY <1>1, <1>2, <1>6
  <2>2. Follows(s[m], t[1])
    BY <1>3, <1>5, <2>1
  <2>3. SUFFICES ASSUME t[1][3] # 1 PROVE FALSE
    OBVIOUS
  <2>4. s[m] = <<t[1][1], t[1][2], t[1][3] - 1>>
    BY <2>2, <2>3 DEF Follows
  <2>5. t[1][2] = n /\ t[1][3] - 1 = m
    BY <1>1, <2>4
  <2>6. t[1] \in Units
    BY <1>2, <2>1
  <2>7. t[1][3] \in Nat /\ t[1][3] <= HeaderSize + Body[n]
    BY <2>5, <2>6, PlaceType DEF Place
  <2>8. QED
    BY <1>1, <2>5, <2>7
<1>7. ASSUME NEW k \in 1 .. l, k > 1 PROVE Follows(t[k - 1], t[k])
  <2>1. k - 1 \in 1 .. l /\ m + k \in 1 .. m + l /\ m + k > 1 /\ (m + k) - 1 = m + (k - 1)
    BY <1>1, <1>2, <1>7
  <2>2. u[m + k] = t[k] /\ u[m + (k - 1)] = t[k - 1]
    BY <1>3, <2>1
  <2>3. QED
    BY <1>5, <2>1, <2>2
<1>8. Stream(t)
  BY <1>6, <1>7, StreamIs
<1>9. ASSUME Whole(s \o t) PROVE Whole(t)
  <2>1. Whole(u)
    BY <1>9 DEF u
  <2>2. ASSUME l > 0 PROVE t[l][3] = Place(t[l])
    <3>1. l \in 1 .. l /\ m + l > 0
      BY <1>1, <1>2, <2>2
    <3>2. u[m + l] = t[l] /\ u[m + l][3] = Place(u[m + l])
      BY <1>3, <2>1, <3>1 DEF Whole
    <3>3. QED
      BY <3>2
  <2>3. QED
    BY <1>8, <2>2 DEF Whole
<1>10. QED
  BY <1>8, <1>9 DEF s

(* The units that a stream begins with are those of one message. *)
LEMMA FirstUnits ==
    ASSUME NEW s \in Seq(Units), Stream(s), Len(s) > 0
    PROVE  \A k \in 1 .. Len(s) : k <= Place(s[1]) => s[k] = <<s[1][1], s[1][2], k>>
<1> DEFINE c == s[1][1]
           n == s[1][2]
           z == Place(s[1])
<1>1. Len(s) \in Nat /\ \A k \in 1 .. Len(s) : s[k] \in Units
  BY ElementsOf
<1>2. s[1] \in Units /\ c \in Clients /\ n \in Number
  BY <1>1, UnitFields
<1>3. z \in Nat /\ z > HeaderSize /\ HeaderSize \in Nat
  BY <1>2, PlaceType, Constants
<1>4. s[1][3] = 1 /\ \A k \in 1 .. Len(s) : k > 1 => Follows(s[k - 1], s[k])
  BY StreamIs
<1> DEFINE P == {k \in Nat : k + 1 <= z /\ k + 1 <= Len(s) => s[k + 1] = <<c, n, k + 1>>}
<1>5. 0 \in P
  <2>1. s[1] = <<s[1][1], s[1][2], s[1][3]>>
    BY <1>2, UnitFields
  <2>2. s[0 + 1] = <<c, n, 0 + 1>>
    BY <1>4, <2>1
  <2>3. QED
    BY <2>2
<1>6. ASSUME NEW k \in Nat, k \in P PROVE k + 1 \in P
  <2>1. SUFFICES ASSUME (k + 1) + 1 <= z, (k + 1) + 1 <= Len(s)
                 PROVE  s[(k + 1) + 1] = <<c, n, (k + 1) + 1>>
    OBVIOUS
  <2> DEFINE j == (k + 1) + 1
  <2>2. j \in 1 .. Len(s) /\ j > 1 /\ j - 1 = k + 1 /\ k + 1 <= z /\ k + 1 <= Len(s) /\ j <= z /\ j \in Nat
    BY <1>1, <1>3, <2>1
  <2>3. s[k + 1] = <<c, n, k + 1>>
    BY <1>6, <2>2
  <2> HIDE DEF j
  <2>4. Follows(s[k + 1], s[j]) /\ s[j] \in Units
    BY <1>1, <1>4, <2>2
  <2> HIDE DEF c, n
  <2>5. s[k + 1][1] = c /\ s[k + 1][2] = n /\ s[k + 1][3] = k + 1
    BY <2>3
  <2>6. Place(s[k + 1]) = z
    BY <2>5 DEF Place, n
  <2>7. s[j][3] # 1
    <3>1. SUFFICES ASSUME s[j][3] = 1 PROVE FALSE
      OBVIOUS
    <3>2. k + 1 = z
      BY <2>4, <2>5, <2>6, <3>1 DEF Follows
    <3>3. QED
      BY <1>3, <2>2, <3>2
  <2>8. <<c, n, k + 1>> = <<s[j][1], s[j][2], s[j][3] - 1>>
    BY <2>3, <2>4, <2>7 DEF Follows
  <2>9. s[j][1] = c /\ s[j][2] = n /\ s[j][3] - 1 = k + 1
    BY <2>8
  <2>10. s[j] = <<s[j][1], s[j][2], s[j][3]>> /\ s[j][3] \in Nat
    BY <2>4, UnitFields
  <2>11. s[j][3] = j
    BY <2>2, <2>9, <2>10
  <2>12. s[j] = <<c, n, j>>
    BY <2>9, <2>10, <2>11
  <2>13. QED
    BY <2>12 DEF j
<1>7. Nat \subseteq P
  <2> HIDE DEF P
  <2>1. QED
    BY <1>5, <1>6, InductionOnSet
<1>8. ASSUME NEW k \in 1 .. Len(s), k <= z PROVE s[k] = <<c, n, k>>
  <2>1. k - 1 \in Nat /\ (k - 1) + 1 = k /\ k <= z /\ k <= Len(s)
    BY <1>1, <1>3, <1>8
  <2>2. k - 1 \in P
    BY <1>7, <2>1
  <2>3. QED
    BY <2>1, <2>2
<1>9. QED
  BY <1>8

(* Whole messages are at least one when they are not none. *)
LEMMA WholeHolds ==
    ASSUME NEW s \in Seq(Units), Whole(s), Len(s) > 0
    PROVE  Place(s[1]) <= Len(s)
<1>1. Len(s) \in Nat /\ s[1] \in Units /\ Stream(s) /\ s[Len(s)][3] = Place(s[Len(s)])
  BY ElementsOf DEF Whole
<1>2. Place(s[1]) \in Nat
  BY <1>1, PlaceType
<1>3. SUFFICES ASSUME Len(s) < Place(s[1]) PROVE FALSE
  BY <1>1, <1>2
<1>4. s[Len(s)] = <<s[1][1], s[1][2], Len(s)>>
  BY <1>1, <1>2, <1>3, FirstUnits
<1>5. Place(s[Len(s)]) = Place(s[1])
  BY <1>4 DEF Place
<1>6. QED
  BY <1>1, <1>2, <1>3, <1>4, <1>5

(* The message that a stream begins with, when there is enough of it *)
LEMMA FirstMessage ==
    ASSUME NEW s \in Seq(Units), Stream(s), Len(s) > 0
    PROVE  /\ s[1] \in Units /\ s[1][1] \in Clients /\ s[1][2] \in Number
           /\ Place(s[1]) \in Nat /\ Place(s[1]) > HeaderSize
           /\ HeaderLengths(s) = {Body[s[1][2]]}
           /\ Place(s[1]) <= Len(s) => Prefix(s, Place(s[1])) = MessageUnits(s[1][1], s[1][2])
<1> DEFINE c == s[1][1]
           n == s[1][2]
           z == Place(s[1])
<1>1. Len(s) \in Nat /\ \A k \in 1 .. Len(s) : s[k] \in Units
  BY ElementsOf
<1>2. s[1] \in Units /\ c \in Clients /\ n \in Number
  BY <1>1, UnitFields
<1>3. z \in Nat /\ z > HeaderSize /\ HeaderSize \in Nat
  BY <1>2, PlaceType, Constants
<1>4. s[1][3] = 1 /\ \A k \in 1 .. Len(s) : k > 1 => Follows(s[k - 1], s[k])
  BY StreamIs
<1>5. HeaderLengths(s) = {Body[n]}
  BY <1>4 DEF HeaderLengths
<1>6. ASSUME z <= Len(s) PROVE Prefix(s, z) = MessageUnits(c, n)
  <2>4. ASSUME NEW k \in 1 .. z PROVE s[k] = <<c, n, k>>
    <3>1. k \in 1 .. Len(s) /\ k <= z
      BY <1>1, <1>3, <1>6
    <3>2. QED
      BY <3>1, FirstUnits
  <2> DEFINE p == Prefix(s, z)
             q == MessageUnits(c, n)
  <2>5. z \in 0 .. Len(s)
    BY <1>1, <1>3, <1>6
  <2>6. p \in Seq(Units) /\ Len(p) = z /\ \A k \in 1 .. z : p[k] = s[k]
    <3> HIDE DEF z
    <3>1. QED
      BY <2>5, CutElements
  <2>7. q \in Seq(Units) /\ Len(q) = z /\ \A k \in 1 .. z : q[k] = <<c, n, k>>
    <3>1. z = HeaderSize + Body[n]
      BY DEF Place
    <3> HIDE DEF c, n
    <3>2. QED
      BY <1>2, <3>1, MessageUnitsType
  <2> HIDE DEF p, q, z, c, n
  <2>8. \A k \in 1 .. Len(p) : p[k] = q[k]
    BY <2>4, <2>6, <2>7
  <2>9. p = q
    BY <2>6, <2>7, <2>8, SeqEqual
  <2>10. QED
    BY <2>9 DEF p, q
<1>7. QED
  BY <1>2, <1>3, <1>5, <1>6

LEMMA AppendIsJoin ==
    ASSUME NEW S, NEW s \in Seq(S), NEW x \in S
    PROVE  Append(s, x) = s \o <<x>> /\ <<x>> \in Seq(S) /\ Append(s, x) \in Seq(S)
<1>1. Append(s, x) = s \o <<x>>
  BY AppendIsConcat
<1>2. <<x>> \in Seq(S)
  OBVIOUS
<1>3. Append(s, x) \in Seq(S)
  BY AppendProperties
<1>4. QED
  BY <1>1, <1>2, <1>3

(* A message at the head of a stream, taken off *)
LEMMA CutMessage ==
    ASSUME NEW s \in Seq(Units), Stream(s), Len(s) > 0, Place(s[1]) <= Len(s)
    PROVE  /\ Rest(s, Place(s[1])) \in Seq(Units)
           /\ s = MessageUnits(s[1][1], s[1][2]) \o Rest(s, Place(s[1]))
           /\ Len(Rest(s, Place(s[1]))) = Len(s) - Place(s[1])
<1> DEFINE z == Place(s[1])
<1>1. z \in Nat /\ Prefix(s, z) = MessageUnits(s[1][1], s[1][2]) /\ Len(s) \in Nat
  BY FirstMessage, ElementsOf
<1>2. z \in 0 .. Len(s)
  BY <1>1
<1> HIDE DEF z
<1>3. Rest(s, z) \in Seq(Units) /\ s = Prefix(s, z) \o Rest(s, z) /\ Len(Rest(s, z)) = Len(s) - z
  BY <1>2, CutConcat, CutElements
<1>4. QED
  BY <1>1, <1>3 DEF z

(* One message begins in the units of a message. *)
LEMMA MessagesOfMessage ==
    ASSUME NEW c \in Clients, NEW n \in Number
    PROVE  Messages(MessageUnits(c, n)) = << <<c, n>> >>
<1> DEFINE s == MessageUnits(c, n)
           u == <<c, n, 1>>
           t == Rest(s, 1)
<1>1. s \in Seq(Units) /\ 1 \in 0 .. Len(s) /\ s[1] = u /\ u \in Units
  <2>1. s \in Seq(Units) /\ Len(s) \in Nat /\ Len(s) > HeaderSize /\ HeaderSize \in Nat
        /\ \A k \in 1 .. Len(s) : s[k] = <<c, n, k>>
    BY MessageUnitsType, Constants
  <2> HIDE DEF s
  <2>2. 1 \in 1 .. Len(s) /\ 1 \in 0 .. Len(s)
    BY <2>1
  <2>3. s[1] \in Units
    BY <2>1, <2>2, ElementsOf
  <2>4. QED
    BY <2>1, <2>2, <2>3
<1>2. \A k \in 1 .. Len(s) : s[k][3] = k
  BY MessageUnitsType
<1> HIDE DEF s
<1>3. /\ Prefix(s, 1) \in Seq(Units) /\ Len(Prefix(s, 1)) = 1 /\ Prefix(s, 1)[1] = s[1]
      /\ t \in Seq(Units) /\ \A k \in 1 .. Len(t) : t[k] = s[1 + k] /\ 1 + k \in 1 .. Len(s) /\ k >= 1
  <2>1. Len(s) \in Nat /\ Len(t) = Len(s) - 1
    BY <1>1, CutElements, ElementsOf
  <2>2. \A k \in 1 .. Len(t) : k \in 1 .. Len(s) - 1 /\ 1 + k \in 1 .. Len(s) /\ k >= 1
    BY <2>1
  <2>3. /\ Prefix(s, 1) \in Seq(Units) /\ Len(Prefix(s, 1)) = 1
        /\ \A k \in 1 .. 1 : Prefix(s, 1)[k] = s[k]
        /\ t \in Seq(Units) /\ \A k \in 1 .. Len(s) - 1 : t[k] = s[1 + k]
    BY <1>1, CutElements
  <2>4. 1 \in 1 .. 1
    OBVIOUS
  <2> HIDE DEF t
  <2>5. QED
    BY <2>2, <2>3, <2>4
<1>4. s = Prefix(s, 1) \o t
  BY <1>1, CutConcat
<1>5. Prefix(s, 1) = <<u>>
  <2> DEFINE p == Prefix(s, 1)
             q == <<u>>
  <2>1. q \in Seq(Units) /\ Len(q) = 1 /\ q[1] = u
    BY <1>1
  <2> HIDE DEF p, q
  <2>2. p \in Seq(Units) /\ Len(p) = 1 /\ p[1] = u
    BY <1>1, <1>3 DEF p
  <2>3. \A k \in 1 .. Len(p) : p[k] = q[k]
    BY <2>1, <2>2
  <2>4. p = q
    BY <2>1, <2>2, <2>3, SeqEqual
  <2>5. QED
    BY <2>4 DEF p, q
<1>6. Messages(<<u>>) = << <<c, n>> >>
  BY <1>1, MessagesFacts
<1>7. Messages(t) = <<>>
  <2>1. \A k \in 1 .. Len(t) : t[k] \in Units /\ t[k][3] # 1
    <3>1. \A k \in 1 .. Len(t) : t[k] \in Units
      BY <1>3, ElementsOf
    <3>2. ASSUME NEW k \in 1 .. Len(t) PROVE t[k][3] # 1
      <4>1. t[k] = s[1 + k] /\ s[1 + k][3] = 1 + k /\ k >= 1 /\ k \in Int
        BY <1>2, <1>3
      <4>2. QED
        BY <4>1
    <3>3. QED
      BY <3>1, <3>2
  <2>2. \A k \in 1 .. Len(t) : heads[t[k]] = <<>>
    BY <2>1 DEF heads
  <2>3. Gather(t, heads) = <<>>
    BY <1>3, <2>2, GatherNothing
  <2>4. QED
    BY <1>3, <2>3, MessagesGather
<1>8. Messages(<<u>> \o t) = Messages(<<u>>) \o Messages(t) /\ Messages(<<u>>) \in Seq(Message)
  <2> DEFINE q == <<u>>
  <2>1. q \in Seq(Units)
    BY <1>1
  <2> HIDE DEF q, t
  <2>2. Messages(q \o t) = Messages(q) \o Messages(t) /\ Messages(q) \in Seq(Message)
    BY <1>3, <2>1, MessagesFacts
  <2>3. QED
    BY <2>2 DEF q
<1>9. Messages(<<u>>) \o <<>> = Messages(<<u>>)
  BY <1>8, ConcatEmptySeq
<1>10. QED
  BY <1>4, <1>5, <1>6, <1>7, <1>8, <1>9, Zenon DEF s

LEMMA BegunMessage ==
    ASSUME NEW c \in Clients, NEW n \in Number, NEW a
    PROVE  Begun(MessageUnits(c, n), a) = IF c = a THEN <<n>> ELSE <<>>
<1> DEFINE m == <<c, n>>
<1>1. m \in Message /\ m[1] = c /\ m[2] = n
  BY DEF Message
<1>2. Messages(MessageUnits(c, n)) = <<m>>
  BY MessagesOfMessage
<1> HIDE DEF m
<1>3. Numbers(<<m>>, a) = IF m[1] = a THEN <<m[2]>> ELSE <<>>
  BY <1>1, NumbersFacts
<1>4. QED
  BY <1>1, <1>2, <1>3, Zenon DEF Begun

(* Units of one client *)
From(c, s) == \A k \in 1 .. Len(s) : s[k][1] = c

LEMMA FromConcat ==
    ASSUME NEW s \in Seq(Units), NEW t \in Seq(Units), NEW c
    PROVE  From(c, s \o t) <=> From(c, s) /\ From(c, t)
<1> DEFINE u == s \o t
           m == Len(s)
           n == Len(t)
<1>1. /\ u \in Seq(Units) /\ Len(u) = m + n /\ m \in Nat /\ n \in Nat
      /\ \A i \in 1 .. m : u[i] = s[i]
      /\ \A i \in 1 .. n : u[m + i] = t[i]
      /\ \A k \in 1 .. m + n : k \in 1 .. m \/ \E i \in 1 .. n : k = m + i
  BY ConcatElements, ElementsOf
<1> HIDE DEF u, m, n
<1>2. ASSUME \A k \in 1 .. m + n : u[k][1] = c
      PROVE  (\A k \in 1 .. m : s[k][1] = c) /\ \A k \in 1 .. n : t[k][1] = c
  <2>1. \A k \in 1 .. m : k \in 1 .. m + n
    BY <1>1
  <2>2. \A k \in 1 .. n : m + k \in 1 .. m + n
    BY <1>1
  <2>3. QED
    BY <1>1, <1>2, <2>1, <2>2, ZenonT(60)
<1>3. ASSUME \A k \in 1 .. m : s[k][1] = c, \A k \in 1 .. n : t[k][1] = c
      PROVE  \A k \in 1 .. m + n : u[k][1] = c
  BY <1>1, <1>3, SMTT(30)
<1>4. From(c, u) <=> \A k \in 1 .. m + n : u[k][1] = c
  BY <1>1 DEF From
<1>5. From(c, s) /\ From(c, t) <=> (\A k \in 1 .. m : s[k][1] = c) /\ \A k \in 1 .. n : t[k][1] = c
  BY DEF From, m, n
<1>6. QED
  BY <1>2, <1>3, <1>4, <1>5, Zenon DEF u

LEMMA FromMessage ==
    ASSUME NEW c \in Clients, NEW n \in Number
    PROVE  From(c, MessageUnits(c, n))
BY MessageUnitsType DEF From

LEMMA FromNothing == \A c : From(c, <<>>)
BY EmptySeq DEF From

-----------------------------------------------------------------------------
(* Queues *)

(* Each packet is a message. *)
Carries(queue) ==
    \A k \in 1 .. Len(queue) : \E m \in Message : queue[k].pbuff = MessageUnits(m[1], m[2])

LEMMA CarriesConcat ==
    ASSUME NEW s \in Seq(Waiting), NEW t \in Seq(Waiting)
    PROVE  Carries(s \o t) <=> Carries(s) /\ Carries(t)
<1> DEFINE u == s \o t
           m == Len(s)
           n == Len(t)
           Fit(w) == \E x \in Message : w.pbuff = MessageUnits(x[1], x[2])
<1>1. /\ u \in Seq(Waiting) /\ Len(u) = m + n /\ m \in Nat /\ n \in Nat
      /\ \A i \in 1 .. m : u[i] = s[i]
      /\ \A i \in 1 .. n : u[m + i] = t[i]
      /\ \A k \in 1 .. m + n : k \in 1 .. m \/ \E i \in 1 .. n : k = m + i
  BY ConcatElements, ElementsOf
<1> HIDE DEF u, Fit, m, n
<1>2. ASSUME \A k \in 1 .. m + n : Fit(u[k])
      PROVE  (\A k \in 1 .. m : Fit(s[k])) /\ \A k \in 1 .. n : Fit(t[k])
  <2>1. \A k \in 1 .. m : k \in 1 .. m + n
    BY <1>1
  <2>2. \A k \in 1 .. n : m + k \in 1 .. m + n
    BY <1>1
  <2>3. QED
    BY <1>1, <1>2, <2>1, <2>2
<1>3. ASSUME \A k \in 1 .. m : Fit(s[k]), \A k \in 1 .. n : Fit(t[k])
      PROVE  \A k \in 1 .. m + n : Fit(u[k])
  BY <1>1, <1>3
<1>4. Carries(u) <=> \A k \in 1 .. m + n : Fit(u[k])
  BY <1>1 DEF Carries, Fit
<1>5. Carries(s) /\ Carries(t) <=> (\A k \in 1 .. m : Fit(s[k])) /\ \A k \in 1 .. n : Fit(t[k])
  BY DEF Carries, Fit, m, n
<1>6. QED
  BY <1>2, <1>3, <1>4, <1>5, Zenon DEF u

(* The packets of a queue are whole messages. *)
LEMMA PacketsWhole ==
    ASSUME NEW queue \in Seq(Waiting), Carries(queue)
    PROVE  Whole(Packets(queue))
<1> DEFINE x == Images(queue, pbuffs)
<1>1. AreImages(x, queue, pbuffs, Seq(Units))
  BY Maps, ImagesAre
<1> HIDE DEF x
<1>2. x \in Seq(Seq(Units)) /\ Len(x) = Len(queue) /\ \A k \in 1 .. Len(queue) : x[k] = pbuffs[queue[k]]
  BY <1>1 DEF AreImages
<1>3. Len(queue) \in Nat /\ \A k \in 1 .. Len(queue) : queue[k] \in Waiting
  BY ElementsOf
<1>4. PICK f : Gathers(f, x, Units)
  BY <1>2, FlattenGathers DEF Gathered
<1>5. /\ f \in [0 .. Len(x) -> Seq(Units)] /\ f[0] = <<>>
      /\ \A k \in 1 .. Len(x) : f[k] = f[k - 1] \o x[k]
      /\ FlattenSeq(x) = f[Len(x)]
  BY <1>4 DEF Gathers
<1>6. ASSUME NEW k \in 1 .. Len(queue) PROVE x[k] \in Seq(Units) /\ Whole(x[k])
  <2>1. x[k] = queue[k].pbuff
    BY <1>2, <1>3 DEF pbuffs
  <2>2. PICK m \in Message : queue[k].pbuff = MessageUnits(m[1], m[2])
    BY DEF Carries
  <2>3. m[1] \in Clients /\ m[2] \in Number
    BY DEF Message
  <2>4. QED
    BY <2>1, <2>2, <2>3, MessageIsWhole, MessageUnitsType
<1> DEFINE P == {k \in Nat : k <= Len(queue) => Whole(f[k])}
<1>7. 0 \in P
  BY <1>5, EmptyIsWhole
<1>8. ASSUME NEW k \in Nat, k \in P PROVE k + 1 \in P
  <2>1. SUFFICES ASSUME k + 1 <= Len(queue) PROVE Whole(f[k + 1])
    OBVIOUS
  <2>2. k + 1 \in 1 .. Len(queue) /\ (k + 1) - 1 = k /\ k \in 0 .. Len(x) /\ Whole(f[k])
    BY <1>2, <1>3, <1>8, <2>1
  <2>3. f[k + 1] = f[k] \o x[k + 1] /\ f[k] \in Seq(Units)
    BY <1>2, <1>5, <2>2
  <2>4. x[k + 1] \in Seq(Units) /\ Whole(x[k + 1]) /\ Stream(x[k + 1])
    BY <1>6, <2>2 DEF Whole
  <2>5. Whole(f[k] \o x[k + 1])
    BY <2>2, <2>3, <2>4, StreamConcat
  <2>6. QED
    BY <2>3, <2>5
<1>9. Nat \subseteq P
  <2> HIDE DEF P
  <2>1. QED
    BY <1>7, <1>8, InductionOnSet
<1>10. Whole(FlattenSeq(x))
  <2>1. Len(queue) \in P /\ Len(queue) <= Len(queue)
    BY <1>3, <1>9
  <2>2. QED
    BY <1>2, <1>5, <2>1
<1>11. Packets(queue) = FlattenSeq(x)
  BY PacketsGather, Zenon DEF Gather, x
<1>12. QED
  BY <1>10, <1>11, Zenon

LEMMA SizeFacts ==
    /\ SizeOf(<<>>) = 0
    /\ \A s \in Seq(Waiting) : SizeOf(s) \in Nat
    /\ \A s, t \in Seq(Waiting) : SizeOf(s \o t) = SizeOf(s) + SizeOf(t)
    /\ \A w \in Waiting : SizeOf(<<w>>) = Len(w.pbuff)
<1>1. SizeOf(<<>>) = 0
  BY PacketsFacts, EmptySeq DEF SizeOf
<1>2. ASSUME NEW s \in Seq(Waiting) PROVE SizeOf(s) \in Nat
  <2>1. Packets(s) \in Seq(Units)
    BY PacketsFacts
  <2>2. QED
    BY <2>1, ElementsOf DEF SizeOf
<1>3. ASSUME NEW s \in Seq(Waiting), NEW t \in Seq(Waiting) PROVE SizeOf(s \o t) = SizeOf(s) + SizeOf(t)
  <2> DEFINE p == Packets(s)
             q == Packets(t)
  <2>1. p \in Seq(Units) /\ q \in Seq(Units) /\ Packets(s \o t) = p \o q
    BY PacketsFacts
  <2> HIDE DEF p, q
  <2>2. Len(p \o q) = Len(p) + Len(q)
    BY <2>1, ConcatProperties
  <2>3. QED
    BY <2>1, <2>2, Zenon DEF SizeOf, p, q
<1>4. ASSUME NEW w \in Waiting PROVE SizeOf(<<w>>) = Len(w.pbuff)
  BY PacketsFacts, Zenon DEF SizeOf
<1>5. QED
  BY <1>1, <1>2, <1>3, <1>4

(* A queue is not longer than its packets. *)
LEMMA SizeBounds ==
    ASSUME NEW queue \in Seq(Waiting)
    PROVE  Len(queue) <= SizeOf(queue)
<1> DEFINE x == Images(queue, pbuffs)
<1>1. AreImages(x, queue, pbuffs, Seq(Units))
  BY Maps, ImagesAre
<1> HIDE DEF x
<1>2. x \in Seq(Seq(Units)) /\ Len(x) = Len(queue) /\ \A k \in 1 .. Len(queue) : x[k] = pbuffs[queue[k]]
  BY <1>1 DEF AreImages
<1>3. Len(queue) \in Nat /\ \A k \in 1 .. Len(queue) : queue[k] \in Waiting
  BY ElementsOf
<1>4. PICK f : Gathers(f, x, Units)
  BY <1>2, FlattenGathers DEF Gathered
<1>5. /\ f \in [0 .. Len(x) -> Seq(Units)] /\ f[0] = <<>>
      /\ \A k \in 1 .. Len(x) : f[k] = f[k - 1] \o x[k]
      /\ FlattenSeq(x) = f[Len(x)]
  BY <1>4 DEF Gathers
<1>6. ASSUME NEW k \in 1 .. Len(queue) PROVE x[k] \in Seq(Units) /\ Len(x[k]) \in Nat /\ Len(x[k]) > 0
  <2>1. x[k] = queue[k].pbuff /\ queue[k].pbuff \in Seq(Units) \ {<<>>}
    BY <1>2, <1>3 DEF pbuffs, Waiting
  <2> HIDE DEF x
  <2>2. QED
    BY <2>1, EmptySeq
<1> DEFINE P == {k \in Nat : k <= Len(queue) => Len(f[k]) >= k}
<1>7. 0 \in P
  BY <1>5, EmptySeq
<1>8. ASSUME NEW k \in Nat, k \in P PROVE k + 1 \in P
  <2>1. SUFFICES ASSUME k + 1 <= Len(queue) PROVE Len(f[k + 1]) >= k + 1
    OBVIOUS
  <2>2. k + 1 \in 1 .. Len(queue) /\ (k + 1) - 1 = k /\ k \in 0 .. Len(x) /\ Len(f[k]) >= k
    BY <1>2, <1>3, <1>8, <2>1
  <2>3. f[k + 1] = f[k] \o x[k + 1] /\ f[k] \in Seq(Units) /\ Len(f[k]) \in Nat
    BY <1>2, <1>5, <2>2, ElementsOf
  <2>4. x[k + 1] \in Seq(Units) /\ Len(x[k + 1]) \in Nat /\ Len(x[k + 1]) > 0
    BY <1>6, <2>2
  <2>5. Len(f[k] \o x[k + 1]) = Len(f[k]) + Len(x[k + 1])
    BY <2>3, <2>4, ConcatProperties
  <2>6. Len(f[k + 1]) = Len(f[k]) + Len(x[k + 1])
    BY <2>3, <2>5, Zenon
  <2> DEFINE l == Len(f[k])
             d == Len(x[k + 1])
  <2>7. l \in Nat /\ d \in Nat /\ d > 0 /\ l >= k
    BY <2>2, <2>3, <2>4
  <2> HIDE DEF l, d
  <2>8. l + d >= k + 1
    BY <2>7
  <2>9. QED
    BY <2>6, <2>8 DEF l, d
<1>9. Nat \subseteq P
  <2> HIDE DEF P
  <2>1. QED
    BY <1>7, <1>8, InductionOnSet
<1>10. Len(FlattenSeq(x)) >= Len(queue)
  <2>1. Len(queue) \in P /\ Len(queue) <= Len(queue)
    BY <1>3, <1>9
  <2>2. QED
    BY <1>2, <1>5, <2>1
<1>11. Packets(queue) = FlattenSeq(x)
  BY PacketsGather, Zenon DEF Gather, x
<1>12. SizeOf(queue) \in Nat /\ SizeOf(queue) = Len(FlattenSeq(x))
  BY <1>11, SizeFacts DEF SizeOf
<1>13. QED
  BY <1>3, <1>10, <1>12

(* What is due is at the head of the queue. *)
LEMMA DueType ==
    ASSUME NEW queue \in Seq(Waiting)
    PROVE  Due(queue) \in 0 .. Len(queue)
<1> DEFINE I == {i \in 1 .. Len(queue) : queue[i].wait > 0}
<1>1. Len(queue) \in Nat
  BY ElementsOf
<1>2. Ripe(queue) = IF I # {} THEN Min(I) ELSE 0
  BY Zenon DEF Ripe, SelectInSeq
<1>3. ASSUME I # {} PROVE Min(I) \in I
  <2>1. I \in SUBSET Nat
    BY <1>1
  <2> HIDE DEF I
  <2>2. \E x \in I : \A y \in I : x <= y
    BY <1>3, <2>1, LeastOfSet
  <2>3. Min(I) = CHOOSE x \in I : \A y \in I : x <= y
    BY Zenon DEF Min
  <2>4. QED
    BY <2>2, <2>3
<1>4. Ripe(queue) \in 0 .. Len(queue)
  <2>1. I \subseteq 1 .. Len(queue)
    OBVIOUS
  <2> HIDE DEF I
  <2>2. CASE I # {}
    <3>1. Ripe(queue) \in 1 .. Len(queue)
      BY <1>2, <1>3, <2>1, <2>2, Zenon
    <3>2. QED
      BY <1>1, <3>1
  <2>3. CASE I = {}
    <3>1. Ripe(queue) = 0
      BY <1>2, <2>3, Zenon
    <3>2. QED
      BY <1>1, <3>1
  <2>4. QED
    BY <2>2, <2>3
<1>5. QED
  BY <1>1, <1>4 DEF Due

-----------------------------------------------------------------------------
(* Types *)

SlotType == [client_fd : Clients \cup {None}, input : Seq(Units), msg_length : Lengths \cup {0},
             bytes_in_queue : Int, count_in_queue : Int, output_queue : Seq(Waiting),
             timer_event : Waits \cup {Off}]

SocketsTyped ==
    /\ client_end \in [Clients -> {"new", "connecting", "connected", "closed"}]
    /\ pipe_end \in [Clients -> {"none", "backlog", "open", "closed"}]
    /\ down \in [Clients -> Seq(Units)]
    /\ up \in [Clients -> Seq(Units)]

ConnectorTyped ==
    /\ state \in [Clients -> {"new", "open", "paused", "closed"}]
    /\ connected \in [Clients -> BOOLEAN]
    /\ input \in [Clients -> Seq(Units)]
    /\ upcall \in Clients \cup {None}
    /\ wrote \in [Clients -> 0 .. Len(Body)]
    /\ got \in [Clients -> Seq(Message)]
    /\ dropped \in [Clients -> Seq(Message)]
    /\ notice \in [Clients -> {None, "CONNECTION_OPEN", "FORWARDER_NOT_AVAILABLE"}]

PipeTyped ==
    /\ conns \in [Slots -> SlotType]
    /\ conn_count \in Int /\ buffer_bytes \in Nat
    /\ use_params \in BOOLEAN /\ startup_running \in BOOLEAN /\ killme \in BOOLEAN
    /\ reading \in Slots \cup {0}
    /\ router \in {"none", "running", "leaving"}
    /\ caller \in {"created", "starting", "asleep_start", "started",
                  "stopping", "asleep_stop", "stopped", "done"}

Typed == SocketsTyped /\ ConnectorTyped /\ PipeTyped

LEMMA SlotFields ==
    ASSUME NEW conn \in SlotType
    PROVE  /\ conn.client_fd \in Clients \cup {None} /\ conn.input \in Seq(Units)
           /\ conn.msg_length \in Lengths \cup {0}
           /\ conn.bytes_in_queue \in Int /\ conn.count_in_queue \in Int
           /\ conn.output_queue \in Seq(Waiting) /\ conn.timer_event \in Waits \cup {Off}
BY DEF SlotType

LEMMA Numbered ==
    /\ Lengths \subseteq Nat \ {0} /\ Waits \subseteq Nat /\ 0 \notin Delays /\ Delays \subseteq Waits
    /\ \A t \in Waits : Sooner(t) \in Waits
    /\ Off = -1 /\ Off \notin Waits /\ Sooner(Off) = Off
    /\ \A n \in Number : Body[n] \in Lengths
<1>1. Lengths \subseteq Nat \ {0} /\ \A n \in Number : Body[n] \in Lengths
  BY Constants DEF Lengths
<1>2. Delays \subseteq Nat \ {0}
  BY Constants
<1>3. Waits \subseteq Nat /\ 0 \notin Delays
  BY <1>2 DEF Waits
<1>4. Delays \subseteq Waits
  BY <1>2 DEF Waits
<1>5. ASSUME NEW t \in Waits PROVE Sooner(t) \in Waits
  <2>1. t \in Nat /\ \E d \in Delays : t <= d
    BY DEF Waits
  <2>2. PICK d \in Delays : t <= d
    BY <2>1
  <2>3. d \in Nat /\ Sooner(t) \in Nat /\ Sooner(t) <= t
    BY <1>2, <2>1 DEF Sooner
  <2>4. Sooner(t) <= d
    BY <2>1, <2>2, <2>3
  <2>5. QED
    BY <2>3, <2>4 DEF Waits
<1>6. Off = -1 /\ Off \notin Waits /\ Sooner(Off) = Off
  BY <1>3 DEF Off, Sooner
<1>7. QED
  BY <1>1, <1>3, <1>4, <1>5, <1>6

LEMMA NewConnType == NewConn \in SlotType
BY EmptySeq DEF NewConn, SlotType

(* A slot put in the place of another *)
LEMMA PutSlot ==
    ASSUME NEW S, NEW f \in [Slots -> S], NEW i \in Slots, NEW x \in S, NEW g, g = [f EXCEPT ![i] = x]
    PROVE  /\ g \in [Slots -> S]
           /\ g[i] = x
           /\ \A j \in Slots : j # i => g[j] = f[j]
OBVIOUS

(* The lengths that a header may be read as *)
LEMMA HeaderType ==
    ASSUME NEW s \in Seq(Units), Len(s) > 0
    PROVE  HeaderLengths(s) \subseteq Lengths \cup {0}
<1>1. s[1] \in Units
  BY ElementsOf
<1>2. s[1][2] \in Number
  BY <1>1, UnitFields
<1>3. Body[s[1][2]] \in Lengths
  BY <1>2, Numbered
<1>4. {Body[n] : n \in DOMAIN Body} = Lengths
  BY DEF Lengths
<1>5. QED
  BY <1>3, <1>4 DEF HeaderLengths

LEMMA InitTyped == Init => Typed
<1>1. SUFFICES ASSUME Init PROVE Typed
  OBVIOUS
<1> USE <1>1
<1>2. <<>> \in Seq(Units) /\ <<>> \in Seq(Message)
  BY EmptySeq
<1>3. SocketsTyped
  BY <1>2 DEF Init, SocketInit, SocketsTyped
<1>4. ConnectorTyped
  BY <1>2, Constants DEF Init, ConnectorInit, ConnectorTyped
<1>5. PipeTyped
  <2>1. conns \in [Slots -> SlotType]
    BY NewConnType DEF Init, PipeInit
  <2>2. use_params \in BOOLEAN /\ startup_running \in BOOLEAN /\ killme \in BOOLEAN
    BY Zenon DEF Init, PipeInit
  <2>3. conn_count \in Int /\ buffer_bytes \in Nat /\ reading \in Slots \cup {0}
    BY DEF Init, PipeInit
  <2>4. router = "none" /\ caller = "created"
    BY Zenon DEF Init, PipeInit
  <2>5. QED
    BY <2>1, <2>2, <2>3, <2>4 DEF PipeTyped
<1>6. QED
  BY <1>3, <1>4, <1>5 DEF Typed

-----------------------------------------------------------------------------
(* What the steps of the pipe do to its slots *)

LEMMA AcceptedFields ==
    ASSUME NEW conn \in SlotType, NEW c \in Clients, NEW x, x = [conn EXCEPT !.client_fd = c]
    PROVE  /\ x \in SlotType /\ x.client_fd = c
           /\ x.input = conn.input /\ x.msg_length = conn.msg_length
           /\ x.bytes_in_queue = conn.bytes_in_queue /\ x.count_in_queue = conn.count_in_queue
           /\ x.output_queue = conn.output_queue /\ x.timer_event = conn.timer_event
BY DEF SlotType

LEMMA DeallocatedFields ==
    ASSUME NEW conn \in SlotType, NEW x, x = Deallocated(conn)
    PROVE  /\ x \in SlotType /\ x.client_fd = None /\ x.input = <<>> /\ x.timer_event = Off
           /\ x.msg_length = conn.msg_length
           /\ x.bytes_in_queue = conn.bytes_in_queue /\ x.count_in_queue = conn.count_in_queue
           /\ x.output_queue = conn.output_queue
BY EmptySeq DEF SlotType, Deallocated

LEMMA FilledFields ==
    ASSUME NEW conn \in SlotType, NEW s \in Seq(Units), NEW x, x = [conn EXCEPT !.input = s]
    PROVE  /\ x \in SlotType /\ x.client_fd = conn.client_fd
           /\ x.input = s /\ x.msg_length = conn.msg_length
           /\ x.bytes_in_queue = conn.bytes_in_queue /\ x.count_in_queue = conn.count_in_queue
           /\ x.output_queue = conn.output_queue /\ x.timer_event = conn.timer_event
BY DEF SlotType

LEMMA AwaitedFields ==
    ASSUME NEW conn \in SlotType, NEW length \in Lengths \cup {0}, NEW x, x = [conn EXCEPT !.msg_length = length]
    PROVE  /\ x \in SlotType /\ x.client_fd = conn.client_fd
           /\ x.input = conn.input /\ x.msg_length = length
           /\ x.bytes_in_queue = conn.bytes_in_queue /\ x.count_in_queue = conn.count_in_queue
           /\ x.output_queue = conn.output_queue /\ x.timer_event = conn.timer_event
BY DEF SlotType

LEMMA TakenFields ==
    ASSUME NEW conn \in SlotType, NEW length, HeaderSize + length \in 0 .. Len(conn.input),
           NEW x, x = Taken(conn, length)
    PROVE  /\ x \in SlotType /\ x.client_fd = conn.client_fd
           /\ x.input = Rest(conn.input, HeaderSize + length) /\ x.msg_length = 0
           /\ x.bytes_in_queue = conn.bytes_in_queue /\ x.count_in_queue = conn.count_in_queue
           /\ x.output_queue = conn.output_queue /\ x.timer_event = conn.timer_event
<1>1. conn.input \in Seq(Units)
  BY SlotFields
<1> DEFINE n == HeaderSize + length
<1>2. n \in 0 .. Len(conn.input)
  OBVIOUS
<1> HIDE DEF n
<1>3. Rest(conn.input, n) \in Seq(Units)
  BY <1>1, <1>2, CutElements
<1>4. x = [conn EXCEPT !.msg_length = 0, !.input = Rest(conn.input, n)]
  BY Zenon DEF Taken, n
<1>5. /\ x \in SlotType /\ x.client_fd = conn.client_fd
      /\ x.input = Rest(conn.input, n) /\ x.msg_length = 0
      /\ x.bytes_in_queue = conn.bytes_in_queue /\ x.count_in_queue = conn.count_in_queue
      /\ x.output_queue = conn.output_queue /\ x.timer_event = conn.timer_event
  BY <1>3, <1>4 DEF SlotType
<1>6. QED
  BY <1>5 DEF n

(* A packet is appended to a queue. *)
Enqueued(x, conn, pbuff, fate) ==
    /\ x.output_queue = conn.output_queue \o <<[pbuff |-> pbuff, wait |-> fate]>>
    /\ x.bytes_in_queue = conn.bytes_in_queue + Len(pbuff)
    /\ x.count_in_queue = conn.count_in_queue + 1
    /\ x.timer_event = (IF conn.count_in_queue = 0 THEN fate ELSE conn.timer_event)
    /\ Len(pbuff) + conn.bytes_in_queue < buffer_bytes

SameEnd(x, conn) ==
    x.client_fd = conn.client_fd /\ x.input = conn.input /\ x.msg_length = conn.msg_length

LEMMA QueuedFields ==
    ASSUME NEW conn \in SlotType, NEW pbuff \in Seq(Units) \ {<<>>}, NEW fate \in Fates,
           NEW x, x = QueueWithDelay(conn, pbuff, fate), buffer_bytes \in Nat
    PROVE  /\ x \in SlotType /\ SameEnd(x, conn)
           /\ x = conn \/ (fate \in Delays /\ Enqueued(x, conn, pbuff, fate))
<1>1. conn.bytes_in_queue \in Int /\ conn.count_in_queue \in Int /\ conn.output_queue \in Seq(Waiting)
      /\ conn.timer_event \in Waits \cup {Off}
  BY SlotFields
<1>2. Len(pbuff) \in Nat
  BY ElementsOf
<1>3. CASE fate = Lost \/ Len(pbuff) + conn.bytes_in_queue >= buffer_bytes
  BY <1>3 DEF QueueWithDelay, SameEnd
<1>4. CASE ~ (fate = Lost \/ Len(pbuff) + conn.bytes_in_queue >= buffer_bytes)
  <2>1. fate \in Delays /\ fate \in Waits
    BY <1>4, Numbered DEF Fates
  <2> DEFINE w == [pbuff |-> pbuff, wait |-> fate]
             q == Append(conn.output_queue, w)
             b == conn.bytes_in_queue + Len(pbuff)
             k == conn.count_in_queue + 1
             t == IF conn.count_in_queue = 0 THEN fate ELSE conn.timer_event
  <2>2. w \in Waiting
    BY <2>1 DEF Waiting
  <2>3. x = [conn EXCEPT !.bytes_in_queue = b, !.count_in_queue = k, !.output_queue = q, !.timer_event = t]
    BY <1>4, Zenon DEF QueueWithDelay
  <2> HIDE DEF w
  <2>4. q \in Seq(Waiting) /\ q = conn.output_queue \o <<w>>
    BY <1>1, <2>2, AppendIsJoin
  <2>5. b \in Int /\ k \in Int /\ t \in Waits \cup {Off}
    BY <1>1, <1>2, <2>1
  <2> HIDE DEF q, b, k, t
  <2>6. /\ x \in SlotType /\ SameEnd(x, conn)
        /\ x.bytes_in_queue = b /\ x.count_in_queue = k /\ x.output_queue = q /\ x.timer_event = t
    BY <2>3, <2>4, <2>5 DEF SlotType, SameEnd
  <2>7. Len(pbuff) + conn.bytes_in_queue < buffer_bytes
    BY <1>1, <1>2, <1>4
  <2>8. Enqueued(x, conn, pbuff, fate)
    BY <2>4, <2>6, <2>7, Zenon DEF Enqueued, w, b, k, t
  <2>9. QED
    BY <2>1, <2>6, <2>8
<1>5. QED
  BY <1>3, <1>4

LEMMA DequeuedFields ==
    ASSUME NEW conn \in SlotType, NEW n \in 0 .. Len(conn.output_queue), NEW x, x = Dequeued(conn, n)
    PROVE  /\ x \in SlotType /\ SameEnd(x, conn)
           /\ x.output_queue = Rest(conn.output_queue, n)
           /\ x.bytes_in_queue = conn.bytes_in_queue - SizeOf(Prefix(conn.output_queue, n))
           /\ x.count_in_queue = conn.count_in_queue - n
           /\ x.timer_event = TimerSet(Rest(conn.output_queue, n))
<1>1. conn.bytes_in_queue \in Int /\ conn.count_in_queue \in Int /\ conn.output_queue \in Seq(Waiting)
  BY SlotFields
<1> DEFINE p == Prefix(conn.output_queue, n)
           q == Rest(conn.output_queue, n)
           b == conn.bytes_in_queue - SizeOf(p)
           k == conn.count_in_queue - n
           t == TimerSet(q)
<1>2. p \in Seq(Waiting) /\ q \in Seq(Waiting)
  BY <1>1, CutElements
<1>3. x = [conn EXCEPT !.bytes_in_queue = b, !.count_in_queue = k, !.output_queue = q, !.timer_event = t]
  BY Zenon DEF Dequeued
<1> HIDE DEF p, q
<1>4. SizeOf(p) \in Nat
  BY <1>2, SizeFacts
<1>5. b \in Int /\ k \in Int
  BY <1>1, <1>4
<1>6. t \in Waits \cup {Off}
  <2>1. CASE q = <<>>
    BY <2>1 DEF TimerSet
  <2>2. CASE q # <<>>
    <3>1. 1 \in 1 .. Len(q)
      BY <1>2, <2>2, EmptySeq
    <3>2. q[1] \in Waiting
      BY <1>2, <3>1, ElementsOf
    <3>3. q[1].wait \in Waits
      BY <3>2 DEF Waiting
    <3>4. QED
      BY <2>2, <3>3 DEF TimerSet
  <2>3. QED
    BY <2>1, <2>2
<1> HIDE DEF b, k, t
<1>7. /\ x \in SlotType /\ SameEnd(x, conn)
      /\ x.bytes_in_queue = b /\ x.count_in_queue = k /\ x.output_queue = q /\ x.timer_event = t
  BY <1>2, <1>3, <1>5, <1>6 DEF SlotType, SameEnd
<1>8. QED
  BY <1>7, Zenon DEF p, q, b, k, t

(* Time passes for a queue. *)
LEMMA AgedQueue ==
    ASSUME NEW queue \in Seq(Waiting)
    PROVE  /\ Aged(queue) \in Seq(Waiting) /\ Len(Aged(queue)) = Len(queue)
           /\ \A k \in 1 .. Len(queue) : /\ Aged(queue)[k].pbuff = queue[k].pbuff
                                         /\ Aged(queue)[k].wait = Sooner(queue[k].wait)
           /\ Packets(Aged(queue)) = Packets(queue)
<1> DEFINE q == Aged(queue)
<1>1. Len(queue) \in Nat /\ DOMAIN queue = 1 .. Len(queue) /\ \A k \in 1 .. Len(queue) : queue[k] \in Waiting
  BY ElementsOf
<1>2. ASSUME NEW w \in Waiting, NEW x, x = [w EXCEPT !.wait = Sooner(w.wait)]
      PROVE  x \in Waiting /\ x.pbuff = w.pbuff /\ x.wait = Sooner(w.wait)
  BY <1>2, Numbered DEF Waiting
<1>3. \A k \in 1 .. Len(queue) : q[k] = [queue[k] EXCEPT !.wait = Sooner(queue[k].wait)]
  BY <1>1 DEF Aged
<1>4. DOMAIN q = 1 .. Len(queue) /\ q = [k \in 1 .. Len(queue) |-> q[k]]
  BY <1>1 DEF Aged
<1> HIDE DEF q
<1>5. \A k \in 1 .. Len(queue) : q[k] \in Waiting /\ q[k].pbuff = queue[k].pbuff /\ q[k].wait = Sooner(queue[k].wait)
  BY <1>1, <1>2, <1>3
<1>6. q \in Seq(Waiting) /\ Len(q) = Len(queue)
  BY <1>1, <1>4, <1>5, MadeOf
<1>7. [k \in DOMAIN q |-> q[k].pbuff] = [k \in DOMAIN queue |-> queue[k].pbuff]
  BY <1>1, <1>4, <1>5
<1>8. Packets(q) = Packets(queue)
  BY <1>7, Zenon DEF Packets
<1>9. QED
  BY <1>5, <1>6, <1>8 DEF q

TickedSlot(conn) == [conn EXCEPT !.timer_event = Sooner(@), !.output_queue = Aged(@)]

LEMMA TickedFields ==
    ASSUME NEW conn \in SlotType, NEW x, x = TickedSlot(conn)
    PROVE  /\ x \in SlotType /\ SameEnd(x, conn)
           /\ x.bytes_in_queue = conn.bytes_in_queue /\ x.count_in_queue = conn.count_in_queue
           /\ x.output_queue = Aged(conn.output_queue)
           /\ x.timer_event = Sooner(conn.timer_event)
<1> DEFINE q == Aged(conn.output_queue)
           t == Sooner(conn.timer_event)
<1>1. conn.output_queue \in Seq(Waiting) /\ conn.timer_event \in Waits \cup {Off}
  BY SlotFields
<1>2. q \in Seq(Waiting)
  BY <1>1, AgedQueue
<1>3. t \in Waits \cup {Off}
  BY <1>1, Numbered
<1>4. x = [conn EXCEPT !.timer_event = t, !.output_queue = q]
  BY DEF TickedSlot
<1> HIDE DEF q, t
<1>5. /\ x \in SlotType /\ SameEnd(x, conn)
      /\ x.bytes_in_queue = conn.bytes_in_queue /\ x.count_in_queue = conn.count_in_queue
      /\ x.output_queue = q /\ x.timer_event = t
  BY <1>2, <1>3, <1>4 DEF SlotType, SameEnd
<1>6. QED
  BY <1>5 DEF q, t

(* The slot i is as conns'[i] says and every other as before. *)
OnlySlot(i) == conns' \in [Slots -> SlotType] /\ \A j \in Slots : j # i => conns'[j] = conns[j]

SameQueue(x, conn) ==
    /\ x.output_queue = conn.output_queue /\ x.timer_event = conn.timer_event
    /\ x.bytes_in_queue = conn.bytes_in_queue /\ x.count_in_queue = conn.count_in_queue

InUse == {i \in Slots : conns[i].client_fd # None}

(* allocate_connection finds a slot unless all are used. *)
LEMMA NoneIsFree ==
    ASSUME AllocateConnection = {}
    PROVE  InUse = Slots
<1> DEFINE T == {i \in Slots : conns[i].client_fd = None}
<1>1. Slots \subseteq Nat /\ \A i \in Slots : i \in Nat /\ 1 .. i - 1 \subseteq Slots
  BY Constants DEF Slots
<1>2. T = {}
  <2>1. SUFFICES ASSUME T # {} PROVE FALSE
    OBVIOUS
  <2>2. T \in SUBSET Nat
    BY <1>1
  <2>3. PICK i \in T : \A j \in T : i <= j
    <3> HIDE DEF T
    <3>1. QED
      BY <2>1, <2>2, LeastOfSet
  <2>4. \A j \in 1 .. i - 1 : j \in Slots /\ ~ (i <= j)
    BY <1>1, <2>3
  <2>5. \A j \in 1 .. i - 1 : conns[j].client_fd # None
    BY <2>3, <2>4
  <2>6. i \in AllocateConnection
    BY <2>3, <2>5 DEF AllocateConnection
  <2>7. QED
    BY <2>6
<1>3. QED
  BY <1>2 DEF InUse

LEMMA ListenerEffect ==
    ASSUME Typed, NEW c \in Clients, Listener(c)
    PROVE  /\ PipeCalm /\ pipe_end[c] = "backlog"
           /\ UNCHANGED <<client_end, down, up, use_params, buffer_bytes, reading, threadVars>>
           /\ \/ /\ \/ trap' = "listener_cb" /\ conn_count = MaxConn
                    \/ trap' = "allocate_connection" /\ conn_count # MaxConn /\ InUse = Slots
                 /\ UNCHANGED <<pipe_end, conns, conn_count>>
              \/ /\ \E i \in Slots :
                       /\ conns[i].client_fd = None /\ conns'[i].client_fd = c
                       /\ OnlySlot(i) /\ SameQueue(conns'[i], conns[i])
                       /\ conns'[i].input = conns[i].input /\ conns'[i].msg_length = conns[i].msg_length
                 /\ conn_count' = conn_count + 1 /\ trap' = trap
                 /\ pipe_end' = [pipe_end EXCEPT ![c] = "open"]
<1>1. conns \in [Slots -> SlotType]
  BY DEF Typed, PipeTyped
<1>2. CASE conn_count = MaxConn
  BY <1>2 DEF Listener
<1>6. CASE conn_count # MaxConn /\ AllocateConnection = {}
  <2>1. trap' = "allocate_connection" /\ UNCHANGED <<pipe_end, conns, conn_count>>
    BY <1>6 DEF Listener
  <2>2. InUse = Slots
    BY <1>6, NoneIsFree
  <2>3. QED
    BY <1>6, <2>1, <2>2 DEF Listener
<1>3. CASE conn_count # MaxConn /\ AllocateConnection # {}
  <2>1. PICK i \in AllocateConnection :
           /\ conns' = [conns EXCEPT ![i].client_fd = c]
           /\ conn_count' = conn_count + 1
           /\ pipe_end' = [pipe_end EXCEPT ![c] = "open"]
           /\ UNCHANGED trap
    BY <1>3 DEF Listener
  <2>2. i \in Slots /\ conns[i].client_fd = None
    BY DEF AllocateConnection
  <2> DEFINE x == [conns[i] EXCEPT !.client_fd = c]
  <2>3. conns' = [conns EXCEPT ![i] = x]
    BY <2>1
  <2>4. conns[i] \in SlotType
    BY <1>1, <2>2
  <2>5. /\ x \in SlotType /\ x.client_fd = c /\ SameQueue(x, conns[i])
        /\ x.input = conns[i].input /\ x.msg_length = conns[i].msg_length
    BY <2>4, AcceptedFields DEF SameQueue
  <2> HIDE DEF x
  <2>6. conns'[i] = x /\ OnlySlot(i)
    BY <1>1, <2>2, <2>3, <2>5, PutSlot DEF OnlySlot
  <2>7. QED
    BY <1>3, <2>1, <2>2, <2>5, <2>6 DEF Listener
<1>4. QED
  BY <1>2, <1>3, <1>6

LEMMA ConnErrorEffect ==
    ASSUME Typed, NEW i \in Slots, ConnError(i)
    PROVE  /\ PipeCalm /\ conns[i].client_fd \in Clients
           /\ client_end[conns[i].client_fd] = "closed"
           /\ OnlySlot(i) /\ conns'[i].client_fd = None /\ conns'[i].input = <<>>
           /\ conns'[i].timer_event = Off /\ conns'[i].msg_length = conns[i].msg_length
           /\ conns'[i].output_queue = conns[i].output_queue
           /\ conns'[i].bytes_in_queue = conns[i].bytes_in_queue
           /\ conns'[i].count_in_queue = conns[i].count_in_queue
           /\ conn_count' = conn_count - 1
           /\ pipe_end' = [pipe_end EXCEPT ![conns[i].client_fd] = "closed"]
           /\ down' = [down EXCEPT ![conns[i].client_fd] = <<>>]
           /\ trap' \in {None, "deallocate_connection"}
           /\ trap' = "deallocate_connection" => {"EOF", "Error"} \in Reports
           /\ UNCHANGED <<client_end, up, use_params, buffer_bytes, reading, threadVars>>
<1> DEFINE c == conns[i].client_fd
           x == Deallocated(conns[i])
<1>1. conns \in [Slots -> SlotType] /\ conns[i] \in SlotType
  BY DEF Typed, PipeTyped
<1>2. /\ x \in SlotType /\ x.client_fd = None /\ x.input = <<>> /\ x.timer_event = Off
      /\ x.msg_length = conns[i].msg_length
      /\ x.bytes_in_queue = conns[i].bytes_in_queue /\ x.count_in_queue = conns[i].count_in_queue
      /\ x.output_queue = conns[i].output_queue
  BY <1>1, DeallocatedFields
<1>3. conns' = [conns EXCEPT ![i] = x]
  BY DEF ConnError
<1> HIDE DEF x
<1>4. conns'[i] = x /\ OnlySlot(i)
  BY <1>1, <1>2, <1>3, PutSlot DEF OnlySlot
<1>5. c \in Clients
  BY <1>1, SlotFields DEF ConnError
<1>6. trap' \in {None, "deallocate_connection"} /\ (trap' = "deallocate_connection" => {"EOF", "Error"} \in Reports)
  <2>1. PICK events \in Reports :
           trap' = IF events = {"EOF", "Error"} THEN "deallocate_connection" ELSE None
    BY DEF ConnError
  <2>2. "deallocate_connection" # None
    BY DEF None
  <2>3. QED
    BY <2>1, <2>2
<1>7. QED
  BY <1>2, <1>4, <1>5, <1>6 DEF ConnError

LEMMA ConnReadEffect ==
    ASSUME Typed, NEW i \in Slots, ConnRead(i)
    PROVE  /\ PipeCalm /\ conns[i].client_fd \in Clients
           /\ OnlySlot(i) /\ conns'[i].client_fd = conns[i].client_fd
           /\ SameQueue(conns'[i], conns[i]) /\ conns'[i].msg_length = conns[i].msg_length
           /\ \E n \in 1 .. Len(down[conns[i].client_fd]) :
                 /\ conns'[i].input = conns[i].input \o Prefix(down[conns[i].client_fd], n)
                 /\ down' = [down EXCEPT ![conns[i].client_fd] = Rest(down[conns[i].client_fd], n)]
           /\ reading' = i
           /\ UNCHANGED <<client_end, pipe_end, up, trap, conn_count, use_params, buffer_bytes, threadVars>>
<1> DEFINE c == conns[i].client_fd
<1>1. conns \in [Slots -> SlotType] /\ conns[i] \in SlotType /\ conns[i].input \in Seq(Units)
  BY SlotFields DEF Typed, PipeTyped
<1>2. c \in Clients
  BY <1>1, SlotFields DEF ConnRead
<1>3. down[c] \in Seq(Units)
  BY <1>2 DEF Typed, SocketsTyped
<1>4. PICK n \in 1 .. Len(down[c]) :
         /\ conns' = [conns EXCEPT ![i].input = conns[i].input \o Prefix(down[c], n)]
         /\ down' = [down EXCEPT ![c] = Rest(down[c], n)]
  BY DEF ConnRead
<1> DEFINE s == conns[i].input \o Prefix(down[c], n)
           x == [conns[i] EXCEPT !.input = s]
<1>5. s \in Seq(Units)
  <2>1. n \in 0 .. Len(down[c])
    BY <1>3, ElementsOf
  <2>2. Prefix(down[c], n) \in Seq(Units)
    BY <1>3, <2>1, CutElements
  <2>3. QED
    BY <1>1, <2>2, ConcatProperties
<1>6. conns' = [conns EXCEPT ![i] = x]
  BY <1>4
<1> HIDE DEF s
<1>7. /\ x \in SlotType /\ x.client_fd = conns[i].client_fd /\ SameQueue(x, conns[i])
      /\ x.input = s /\ x.msg_length = conns[i].msg_length
  BY <1>1, <1>5, FilledFields DEF SameQueue
<1> HIDE DEF x
<1>8. conns'[i] = x /\ OnlySlot(i)
  BY <1>1, <1>6, <1>7, PutSlot DEF OnlySlot
<1>9. QED
  BY <1>2, <1>4, <1>7, <1>8 DEF ConnRead, s

TimerWrites(c, i) ==
    up'[c] = IF c = conns[i].client_fd /\ client_end[c] # "closed"
             THEN up[c] \o Packets(Prefix(conns[i].output_queue, Due(conns[i].output_queue)))
             ELSE up[c]

LEMMA TimerEffect ==
    ASSUME Typed, NEW i \in Slots, Timer(i)
    PROVE  /\ PipeCalm /\ conns[i].timer_event = 0
           /\ \A c \in Clients : TimerWrites(c, i)
           /\ up' \in [Clients -> Seq(Units)]
           /\ OnlySlot(i) /\ SameEnd(conns'[i], conns[i])
           /\ LET q == conns[i].output_queue
                  n == Due(q)
              IN  /\ conns'[i].output_queue = Rest(q, n)
                  /\ conns'[i].bytes_in_queue = conns[i].bytes_in_queue - SizeOf(Prefix(q, n))
                  /\ conns'[i].count_in_queue = conns[i].count_in_queue - n
                  /\ conns'[i].timer_event = TimerSet(Rest(q, n))
           /\ UNCHANGED <<client_end, pipe_end, down, trap, conn_count, use_params, buffer_bytes, reading, threadVars>>
<1> DEFINE q == conns[i].output_queue
           n == Due(q)
           x == Dequeued(conns[i], n)
           p == Packets(Prefix(q, n))
<1>1. conns \in [Slots -> SlotType] /\ conns[i] \in SlotType /\ q \in Seq(Waiting)
  BY SlotFields DEF Typed, PipeTyped
<1>2. n \in 0 .. Len(q)
  BY <1>1, DueType
<1>3. conns' = [conns EXCEPT ![i] = x]
  BY DEF Timer
<1>4. p \in Seq(Units)
  <2>1. Prefix(q, n) \in Seq(Waiting)
    <3> HIDE DEF n, q
    <3>1. QED
      BY <1>1, <1>2, CutElements
  <2>2. QED
    BY <2>1, PacketsFacts
<1>5. up' = [c \in Clients |-> IF c \in {conns[i].client_fd} /\ client_end[c] # "closed"
                               THEN up[c] \o p ELSE up[c]]
  BY Zenon DEF Timer, WrittenTo
<1> HIDE DEF n, p
<1>6. /\ x \in SlotType /\ SameEnd(x, conns[i])
      /\ x.output_queue = Rest(q, n)
      /\ x.bytes_in_queue = conns[i].bytes_in_queue - SizeOf(Prefix(q, n))
      /\ x.count_in_queue = conns[i].count_in_queue - n
      /\ x.timer_event = TimerSet(Rest(q, n))
  BY <1>1, <1>2, DequeuedFields
<1> HIDE DEF x
<1>7. conns'[i] = x /\ OnlySlot(i)
  BY <1>1, <1>3, <1>6, PutSlot DEF OnlySlot
<1>8. \A c \in Clients : up[c] \in Seq(Units)
  BY DEF Typed, SocketsTyped
<1>9. \A c \in Clients : up[c] \o p \in Seq(Units)
  BY <1>4, <1>8, ConcatProperties
<1>10. up' \in [Clients -> Seq(Units)]
  BY <1>5, <1>8, <1>9
<1>11. \A c \in Clients : TimerWrites(c, i)
  BY <1>5, Zenon DEF TimerWrites, p, n
<1>12. QED
  BY <1>6, <1>7, <1>10, <1>11 DEF Timer, n

LEMMA TickEffect ==
    ASSUME Typed, Tick
    PROVE  /\ conns' \in [Slots -> SlotType]
           /\ \A i \in Slots : /\ SameEnd(conns'[i], conns[i])
                               /\ conns'[i].bytes_in_queue = conns[i].bytes_in_queue
                               /\ conns'[i].count_in_queue = conns[i].count_in_queue
                               /\ conns'[i].output_queue = Aged(conns[i].output_queue)
                               /\ conns'[i].timer_event = Sooner(conns[i].timer_event)
           /\ trap = None
           /\ UNCHANGED <<sockets, trap, conn_count, use_params, buffer_bytes, reading, threadVars>>
<1>1. \A i \in Slots : conns[i] \in SlotType
  BY DEF Typed, PipeTyped
<1>2. conns' = [i \in Slots |-> TickedSlot(conns[i])]
  BY DEF Tick, TickedSlot
<1>3. ASSUME NEW i \in Slots
      PROVE  /\ TickedSlot(conns[i]) \in SlotType /\ conns'[i] = TickedSlot(conns[i])
             /\ SameEnd(conns'[i], conns[i])
             /\ conns'[i].bytes_in_queue = conns[i].bytes_in_queue
             /\ conns'[i].count_in_queue = conns[i].count_in_queue
             /\ conns'[i].output_queue = Aged(conns[i].output_queue)
             /\ conns'[i].timer_event = Sooner(conns[i].timer_event)
  BY <1>1, <1>2, TickedFields
<1>4. conns' \in [Slots -> SlotType]
  BY <1>2, <1>3
<1>5. QED
  BY <1>3, <1>4 DEF Tick

(* single_read finds a length that it asserts against. *)
Refuses(i, length) ==
    /\ Refused(conns[i], length)
    /\ trap' = "single_read" /\ UNCHANGED <<conns, up, reading>>

(* It waits for more. *)
Awaits(i, length) ==
    /\ Len(conns[i].input) < HeaderSize + length
    /\ OnlySlot(i) /\ conns'[i].client_fd = conns[i].client_fd
    /\ conns'[i].input = conns[i].input /\ conns'[i].msg_length = length
    /\ SameQueue(conns'[i], conns[i])
    /\ reading' = 0 /\ UNCHANGED <<up, trap>>

(* It takes a message off the input of its slot. *)
Takes(i, length) ==
    /\ ~ Refused(conns[i], length)
    /\ length > 0 /\ HeaderSize + length \in 1 .. Len(conns[i].input)
    /\ conns' \in [Slots -> SlotType] /\ conns'[i].client_fd = conns[i].client_fd
    /\ conns'[i].input = Rest(conns[i].input, HeaderSize + length)
    /\ conns'[i].msg_length = 0 /\ SameQueue(conns'[i], conns[i])
    /\ reading' = (IF Len(conns[i].input) > HeaderSize + length THEN i ELSE 0)

Delays_(i, pbuff) ==
    /\ \A j \in Slots : j # i =>
          /\ SameEnd(conns'[j], conns[j])
          /\ \/ conns'[j] = conns[j]
             \/ j \in Others(i) /\ \E fate \in Delays : Enqueued(conns'[j], conns[j], pbuff, fate)
    /\ UNCHANGED <<up, trap>>

ReflectWrites(c, i, pbuff) ==
    up'[c] = IF c \in {conns[j].client_fd : j \in Others(i)} /\ client_end[c] # "closed"
             THEN up[c] \o pbuff ELSE up[c]

Reflects(i, pbuff) ==
    /\ OnlySlot(i)
    /\ up' \in [Clients -> Seq(Units)] /\ \A c \in Clients : ReflectWrites(c, i, pbuff)
    /\ \E length \in HeaderLengths(pbuff) :
          trap' = IF Others(i) # {} /\ length + HeaderSize # Len(pbuff) THEN "reflect" ELSE None

(* Where single_read has its length from *)
Finds(conn, length) ==
    \/ conn.msg_length # 0 /\ length = conn.msg_length
    \/ conn.msg_length = 0 /\ Len(conn.input) >= HeaderSize /\ length \in HeaderLengths(conn.input)
    \/ conn.msg_length = 0 /\ Len(conn.input) < HeaderSize /\ length = 0

ReadsAs(i, length) ==
    /\ Finds(conns[i], length) /\ length \in Lengths \cup {0}
    /\ \/ Refuses(i, length)
       \/ Awaits(i, length)
       \/ /\ Takes(i, length)
          /\ IF use_params THEN Delays_(i, Prefix(conns[i].input, HeaderSize + length))
             ELSE Reflects(i, Prefix(conns[i].input, HeaderSize + length))

LEMMA FoundType ==
    ASSUME NEW conn \in SlotType, NEW length, Finds(conn, length)
    PROVE  length \in Lengths \cup {0}
<1>1. conn.msg_length \in Lengths \cup {0} /\ conn.input \in Seq(Units)
  BY SlotFields
<1>2. CASE Len(conn.input) >= HeaderSize /\ length \in HeaderLengths(conn.input)
  <2>1. Len(conn.input) > 0
    BY <1>1, <1>2, Constants, ElementsOf
  <2>2. HeaderLengths(conn.input) \subseteq Lengths \cup {0}
    BY <1>1, <2>1, HeaderType
  <2>3. QED
    BY <1>2, <2>2
<1>3. QED
  BY <1>1, <1>2 DEF Finds

LEMMA SingleReadEffect ==
    ASSUME Typed, NEW i \in Slots, SingleRead(i)
    PROVE  /\ trap = None /\ reading = i
           /\ UNCHANGED <<client_end, pipe_end, down, conn_count, use_params, buffer_bytes, threadVars>>
           /\ \E length : ReadsAs(i, length)
<1> DEFINE conn == conns[i]
<1>1. conns \in [Slots -> SlotType] /\ conn \in SlotType /\ conn.input \in Seq(Units)
      /\ buffer_bytes \in Nat /\ Len(conn.input) \in Nat
  BY SlotFields, ElementsOf DEF Typed, PipeTyped
<1>2. PICK length \in IF conn.msg_length # 0 THEN {conn.msg_length}
                      ELSE IF Len(conn.input) >= HeaderSize THEN HeaderLengths(conn.input)
                      ELSE {0} :
          \/ /\ Refused(conn, length)
             /\ trap' = "single_read" /\ UNCHANGED <<conns, up, reading>>
          \/ /\ ~ Refused(conn, length) /\ Len(conn.input) >= HeaderSize + length
             /\ IF use_params
                THEN ReflectDelayed(i, Prefix(conn.input, HeaderSize + length), Taken(conn, length))
                ELSE ReflectNow(i, Prefix(conn.input, HeaderSize + length), Taken(conn, length))
             /\ reading' = IF MoreToRead(conn, length) THEN i ELSE 0
          \/ /\ ~ Refused(conn, length) /\ Len(conn.input) < HeaderSize + length
             /\ conns' = [conns EXCEPT ![i].msg_length = length]
             /\ reading' = 0 /\ UNCHANGED <<up, trap>>
  BY Zenon DEF SingleRead
<1>8. trap = None /\ reading = i
      /\ UNCHANGED <<client_end, pipe_end, down, conn_count, use_params, buffer_bytes, threadVars>>
  BY Zenon DEF SingleRead
<1>3. Finds(conn, length)
  <2>1. CASE conn.msg_length # 0
    BY <1>2, <2>1 DEF Finds
  <2>2. CASE conn.msg_length = 0 /\ Len(conn.input) >= HeaderSize
    BY <1>2, <2>2 DEF Finds
  <2>3. CASE conn.msg_length = 0 /\ ~ (Len(conn.input) >= HeaderSize)
    <3>1. Len(conn.input) < HeaderSize /\ length = 0
      BY <1>1, <1>2, <2>3, Constants
    <3>2. QED
      BY <2>3, <3>1 DEF Finds
  <2>4. QED
    BY <2>1, <2>2, <2>3
<1>4. length \in Lengths \cup {0}
  BY <1>1, <1>3, FoundType
<1>9. ASSUME ~ Refused(conn, length), Len(conn.input) >= HeaderSize + length
      PROVE  length > 0
  <2>1. conn.msg_length \in Nat /\ length \in Nat /\ MsgLimit \in Nat
    BY <1>1, <1>4, SlotFields, Numbered, PipeAssumption
  <2>2. CASE conn.msg_length # 0
    BY <1>3, <2>1, <2>2 DEF Finds
  <2>3. CASE conn.msg_length = 0
    <3>1. Len(conn.input) >= HeaderSize
      BY <1>1, <1>9, <2>1, Constants
    <3>2. length \in 1 .. MsgLimit - 1
      BY <1>9, <2>3, <3>1 DEF Refused
    <3>3. QED
      BY <2>1, <3>2
  <2>4. QED
    BY <2>2, <2>3
<1>5. CASE Refused(conn, length)
           /\ trap' = "single_read" /\ UNCHANGED <<conns, up, reading>>
  <2>1. Refuses(i, length)
    BY <1>5 DEF Refuses
  <2>2. QED
    BY <1>3, <1>4, <1>8, <2>1, Zenon DEF ReadsAs
<1>6. CASE /\ ~ Refused(conn, length) /\ Len(conn.input) < HeaderSize + length
           /\ conns' = [conns EXCEPT ![i].msg_length = length]
           /\ reading' = 0 /\ UNCHANGED <<up, trap>>
  <2> DEFINE x == [conn EXCEPT !.msg_length = length]
  <2>1. conns' = [conns EXCEPT ![i] = x]
    BY <1>6
  <2>2. /\ x \in SlotType /\ x.client_fd = conn.client_fd /\ x.input = conn.input
        /\ x.msg_length = length /\ SameQueue(x, conn)
    <3> HIDE DEF conn
    <3>1. conn \in SlotType
      BY <1>1
    <3>2. QED
      BY <1>4, <3>1, AwaitedFields DEF SameQueue
  <2> HIDE DEF x
  <2>3. conns'[i] = x /\ OnlySlot(i)
    BY <1>1, <2>1, <2>2, PutSlot DEF OnlySlot
  <2>4. Awaits(i, length)
    BY <1>6, <2>2, <2>3 DEF Awaits
  <2>5. QED
    BY <1>3, <1>4, <1>8, <2>4, Zenon DEF ReadsAs
<1>7. CASE /\ ~ Refused(conn, length) /\ Len(conn.input) >= HeaderSize + length
           /\ IF use_params
              THEN ReflectDelayed(i, Prefix(conn.input, HeaderSize + length), Taken(conn, length))
              ELSE ReflectNow(i, Prefix(conn.input, HeaderSize + length), Taken(conn, length))
           /\ reading' = IF MoreToRead(conn, length) THEN i ELSE 0
  <2> DEFINE n == HeaderSize + length
             p == Prefix(conn.input, n)
             x == Taken(conn, length)
  <2>1. length > 0 /\ n \in 0 .. Len(conn.input) /\ n \in 1 .. Len(conn.input)
    BY <1>1, <1>4, <1>7, <1>9, Numbered, Constants
  <2>2. /\ x \in SlotType /\ x.client_fd = conn.client_fd /\ x.input = Rest(conn.input, n)
        /\ x.msg_length = 0 /\ SameQueue(x, conn)
    BY <1>1, <2>1, TakenFields DEF SameQueue
  <2>3. p \in Seq(Units) /\ Len(p) = n /\ p # <<>>
    <3>1. p \in Seq(Units) /\ Len(p) = n
      <4> DEFINE s == conn.input
      <4>1. s \in Seq(Units) /\ n \in 0 .. Len(s)
        BY <1>1, <2>1
      <4> HIDE DEF n, s
      <4>2. Prefix(s, n) \in Seq(Units) /\ Len(Prefix(s, n)) = n
        BY <4>1, CutElements
      <4>3. QED
        BY <4>2 DEF s
    <3>2. QED
      BY <2>1, <3>1, EmptySeq
  <2>4. reading' = IF Len(conn.input) > n THEN i ELSE 0
    BY <1>7 DEF MoreToRead
  <2> HIDE DEF n, p, x
  <2>5. CASE use_params
    <3>1. PICK fate \in [Others(i) -> Fates] :
             conns' = [j \in Slots |->
                          IF j = i THEN x
                          ELSE IF j \in Others(i) THEN QueueWithDelay(conns[j], p, fate[j])
                          ELSE conns[j]]
      BY <1>7, <2>5 DEF ReflectDelayed, x, p, n
    <3>2. UNCHANGED <<up, trap>>
      BY <1>7, <2>5 DEF ReflectDelayed
    <3>3. ASSUME NEW j \in Slots, j # i
          PROVE  /\ conns'[j] \in SlotType /\ SameEnd(conns'[j], conns[j])
                 /\ \/ conns'[j] = conns[j]
                    \/ j \in Others(i) /\ \E d \in Delays : Enqueued(conns'[j], conns[j], p, d)
      <4>1. conns[j] \in SlotType
        BY <1>1
      <4>2. CASE j \in Others(i)
        <5>1. conns'[j] = QueueWithDelay(conns[j], p, fate[j]) /\ fate[j] \in Fates
          BY <3>1, <3>3, <4>2
        <5>2. /\ conns'[j] \in SlotType /\ SameEnd(conns'[j], conns[j])
              /\ conns'[j] = conns[j] \/ (fate[j] \in Delays /\ Enqueued(conns'[j], conns[j], p, fate[j]))
          BY <1>1, <2>3, <4>1, <5>1, QueuedFields
        <5>3. QED
          BY <4>2, <5>2
      <4>3. CASE j \notin Others(i)
        <5>1. conns'[j] = conns[j]
          BY <3>1, <3>3, <4>3
        <5>2. QED
          BY <4>1, <5>1 DEF SameEnd
      <4>4. QED
        BY <4>2, <4>3
    <3>4. conns'[i] = x
      BY <3>1
    <3>5. conns' \in [Slots -> SlotType]
      <4>1. \A j \in Slots : conns'[j] \in SlotType
        BY <2>2, <3>3, <3>4
      <4>2. \E f : conns' = [j \in Slots |-> f[j]]
        <5>1. conns' = [j \in Slots |-> conns'[j]]
          BY <3>1
        <5>2. QED
          BY <5>1
      <4>3. QED
        BY <4>1, <4>2
    <3>6. Delays_(i, p)
      BY <3>2, <3>3 DEF Delays_
    <3>7. Takes(i, length)
      BY <1>7, <2>1, <2>2, <2>4, <3>4, <3>5 DEF Takes, n
    <3>8. QED
      BY <1>3, <1>4, <2>5, <1>8, <3>6, <3>7, Zenon DEF ReadsAs, p, n
  <2>6. CASE ~ use_params
    <3>1. /\ conns' = [conns EXCEPT ![i] = x]
          /\ WrittenTo({conns[j].client_fd : j \in Others(i)}, p)
          /\ \E l \in HeaderLengths(p) :
                trap' = IF Others(i) # {} /\ l + HeaderSize # Len(p) THEN "reflect" ELSE None
      BY <1>7, <2>6, Zenon DEF ReflectNow, x, p, n
    <3>2. conns'[i] = x /\ OnlySlot(i)
      BY <1>1, <2>2, <3>1, PutSlot DEF OnlySlot
    <3> DEFINE R == {conns[j].client_fd : j \in Others(i)}
    <3>3. up' = [c \in Clients |-> IF c \in R /\ client_end[c] # "closed" THEN up[c] \o p ELSE up[c]]
      BY <3>1, Zenon DEF WrittenTo
    <3>4. \A c \in Clients : ReflectWrites(c, i, p)
      BY <3>3, Zenon DEF ReflectWrites
    <3> HIDE DEF R
    <3>5. \A c \in Clients : up[c] \in Seq(Units) /\ up[c] \o p \in Seq(Units)
      BY <2>3, ConcatProperties DEF Typed, SocketsTyped
    <3>6. up' \in [Clients -> Seq(Units)]
      BY <3>3, <3>5
    <3>7. Reflects(i, p)
      BY <3>1, <3>2, <3>4, <3>6, Zenon DEF Reflects
    <3>8. Takes(i, length)
      BY <1>7, <2>1, <2>2, <2>4, <3>2 DEF Takes, OnlySlot, n
    <3>9. QED
      BY <1>3, <1>4, <2>6, <1>8, <3>7, <3>8, Zenon DEF ReadsAs, p, n
  <2>7. QED
    BY <2>5, <2>6
<1>10. QED
  BY <1>2, <1>5, <1>6, <1>7

LEMMA DestroyEffect ==
    ASSUME Typed, Destroy
    PROVE  /\ trap = None /\ caller \in {"created", "stopped"} /\ ~ startup_running /\ caller' = "done"
           /\ up' \in [Clients -> Seq(Units)]
           /\ \A c \in Clients : \E n \in 0 .. Len(up[c]) : up'[c] = Prefix(up[c], n)
           /\ pipe_end' = [c \in Clients |-> IF pipe_end[c] = "none" THEN "none" ELSE "closed"]
           /\ down' = [c \in Clients |-> <<>>]
           /\ conns' = [i \in Slots |-> NewConn] /\ conn_count' = 0
           /\ UNCHANGED <<client_end, trap, use_params, buffer_bytes, reading, router, startup_running, killme>>
<1>1. up' \in {kept \in [Clients -> UNION {Prefixes(up[c]) : c \in Clients}] :
                  \A c \in Clients : kept[c] \in Prefixes(up[c])}
  BY DEF Destroy
<1>2. \A c \in Clients : \E n \in 0 .. Len(up[c]) : up'[c] = Prefix(up[c], n)
  BY <1>1 DEF Prefixes, Prefix
<1>3. \A c \in Clients : up'[c] \in Seq(Units)
  <2>1. SUFFICES ASSUME NEW c \in Clients PROVE up'[c] \in Seq(Units)
    OBVIOUS
  <2>2. PICK n \in 0 .. Len(up[c]) : up'[c] = Prefix(up[c], n)
    BY <1>2
  <2>3. up[c] \in Seq(Units)
    BY DEF Typed, SocketsTyped
  <2>4. QED
    BY <2>2, <2>3, CutElements
<1>4. up' \in [Clients -> Seq(Units)]
  BY <1>1, <1>3
<1>5. QED
  BY <1>2, <1>4 DEF Destroy

-----------------------------------------------------------------------------
(* The steps *)

Idle == UNCHANGED pipeVars

Apart == UNCHANGED connVars

AtClient(c) ==
    \/ Listening /\ Opener(c)
    \/ OpenerFails(c) \/ UpcallConnected(c) \/ UpcallError(c) \/ Arrive(c)
    \/ UpcallRead(c) \/ DowncallRead(c) \/ Pause(c) \/ Closer(c)

AtSlot(i) == ConnError(i) \/ ConnRead(i) \/ SingleRead(i) \/ Timer(i)

AtThread == KeepAlive \/ RunEnds \/ StartWaits \/ StopWaits \/ Params \/ Start \/ Stop

LEMMA Steps ==
    ASSUME [Next]_vars
    PROVE  \/ \E c \in Clients : AtClient(c) /\ Idle
           \/ \E c \in Clients : Listener(c) /\ Apart
           \/ \E i \in Slots : AtSlot(i) /\ Apart
           \/ AtThread /\ Apart
           \/ Tick /\ Apart
           \/ Destroy /\ Apart
           \/ UNCHANGED vars
<1>1. CASE Connector
  <2>1. PICK c \in Clients : \/ Listening /\ Opener(c)
                             \/ ~ Listening /\ OpenerFails(c)
                             \/ ConnectorCallback(c)
                             \/ FromAbove(c)
    BY <1>1 DEF Connector
  <2>2. AtClient(c)
    BY <2>1, Zenon DEF AtClient, ConnectorCallback, FromAbove
  <2>3. QED
    BY <1>1, <2>2, Zenon DEF Connector, Idle
<1>2. CASE Pipe
  <2>1. PipeNext /\ Apart
    BY <1>2, Zenon DEF Pipe, Apart
  <2>2. \/ \E c \in Clients : Listener(c)
        \/ \E i \in Slots : AtSlot(i)
        \/ AtThread \/ Tick \/ Destroy
    BY <2>1, Zenon DEF PipeNext, PipeCallback, CallerStep, AtSlot, AtThread
  <2>3. QED
    BY <2>1, <2>2, Zenon
<1>3. CASE UNCHANGED vars
  BY <1>3
<1>4. QED
  BY <1>1, <1>2, <1>3 DEF Next

LEMMA IdleFrame ==
    ASSUME Idle
    PROVE  /\ conns' = conns /\ conn_count' = conn_count /\ use_params' = use_params
           /\ buffer_bytes' = buffer_bytes /\ reading' = reading /\ router' = router
           /\ startup_running' = startup_running /\ killme' = killme /\ caller' = caller
BY DEF Idle, pipeVars, slotVars, threadVars

LEMMA ApartFrame ==
    ASSUME Apart
    PROVE  /\ state' = state /\ connected' = connected /\ input' = input /\ upcall' = upcall
           /\ wrote' = wrote /\ got' = got /\ dropped' = dropped /\ notice' = notice
BY DEF Apart, connVars

LEMMA IdleTyped == ASSUME PipeTyped, Idle PROVE PipeTyped'
BY IdleFrame DEF PipeTyped

LEMMA ApartTyped == ASSUME ConnectorTyped, Apart PROVE ConnectorTyped'
BY ApartFrame DEF ConnectorTyped

LEMMA SameSockets ==
    ASSUME SocketsTyped, UNCHANGED sockets
    PROVE  SocketsTyped'
BY DEF SocketsTyped, sockets

-----------------------------------------------------------------------------
(* What the steps of a connection do *)

LEMMA OpenerEffect ==
    ASSUME Typed, NEW c \in Clients, Opener(c)
    PROVE  SocketsTyped' /\ ConnectorTyped'
<1>1. SocketsTyped /\ ConnectorTyped
  BY DEF Typed
<1>2. client_end' \in [Clients -> {"new", "connecting", "connected", "closed"}]
      /\ pipe_end' \in [Clients -> {"none", "backlog", "open", "closed"}]
  BY <1>1 DEF SocketsTyped, Opener
<1>3. SocketsTyped'
  BY <1>1, <1>2 DEF SocketsTyped, Opener
<1>4. state' \in [Clients -> {"new", "open", "paused", "closed"}]
  BY <1>1 DEF ConnectorTyped, Opener
<1>5. ConnectorTyped'
  BY <1>1, <1>4 DEF ConnectorTyped, Opener
<1>6. QED
  BY <1>3, <1>5

LEMMA ConnectedEffect ==
    ASSUME Typed, NEW c \in Clients, UpcallConnected(c)
    PROVE  SocketsTyped' /\ ConnectorTyped'
<1>1. SocketsTyped /\ ConnectorTyped
  BY DEF Typed
<1>2. client_end' \in [Clients -> {"new", "connecting", "connected", "closed"}]
  BY <1>1 DEF SocketsTyped, UpcallConnected
<1>3. SocketsTyped'
  BY <1>1, <1>2 DEF SocketsTyped, UpcallConnected
<1>4. connected' \in [Clients -> BOOLEAN]
      /\ notice' \in [Clients -> {None, "CONNECTION_OPEN", "FORWARDER_NOT_AVAILABLE"}]
  BY <1>1 DEF ConnectorTyped, UpcallConnected
<1>5. ConnectorTyped'
  BY <1>1, <1>4 DEF ConnectorTyped, UpcallConnected
<1>6. QED
  BY <1>3, <1>5

LEMMA ErrorEffect ==
    ASSUME Typed, NEW c \in Clients, UpcallError(c)
    PROVE  SocketsTyped' /\ ConnectorTyped'
<1>1. SocketsTyped /\ ConnectorTyped
  BY DEF Typed
<1>2. SocketsTyped'
  BY <1>1, SameSockets DEF UpcallError
<1>3. notice' \in [Clients -> {None, "CONNECTION_OPEN", "FORWARDER_NOT_AVAILABLE"}]
  BY <1>1 DEF ConnectorTyped, UpcallError
<1>4. ConnectorTyped'
  BY <1>1, <1>3 DEF ConnectorTyped, UpcallError
<1>5. QED
  BY <1>2, <1>4

LEMMA ArriveEffect ==
    ASSUME Typed, NEW c \in Clients, Arrive(c)
    PROVE  /\ SocketsTyped' /\ ConnectorTyped'
           /\ input'[c] \o up'[c] = input[c] \o up[c]
           /\ \A d \in Clients : d # c => input'[d] = input[d] /\ up'[d] = up[d]
<1>1. SocketsTyped /\ ConnectorTyped
  BY DEF Typed
<1>2. PICK n \in 1 .. Len(up[c]) : /\ input' = [input EXCEPT ![c] = input[c] \o Prefix(up[c], n)]
                                   /\ up' = [up EXCEPT ![c] = Rest(up[c], n)]
  BY DEF Arrive
<1> DEFINE p == Prefix(up[c], n)
           r == Rest(up[c], n)
           s == input[c] \o p
<1>3. up[c] \in Seq(Units) /\ input[c] \in Seq(Units)
  BY <1>1 DEF SocketsTyped, ConnectorTyped
<1>4. n \in 0 .. Len(up[c])
  BY <1>3, ElementsOf
<1>5. p \in Seq(Units) /\ r \in Seq(Units) /\ up[c] = p \o r
  BY <1>3, <1>4, CutElements, CutConcat
<1> HIDE DEF p, r
<1>6. s \in Seq(Units)
  BY <1>3, <1>5, ConcatProperties
<1>7. s \o r = input[c] \o up[c]
  <2>1. Associates(input[c], p, r)
    BY <1>3, <1>5, ConcatAssociates
  <2>2. QED
    BY <1>5, <2>1, Zenon DEF Associates
<1> HIDE DEF s
<1>8. input' = [input EXCEPT ![c] = s] /\ up' = [up EXCEPT ![c] = r]
  BY <1>2 DEF s, p, r
<1>9. input' \in [Clients -> Seq(Units)] /\ up' \in [Clients -> Seq(Units)]
      /\ input'[c] = s /\ up'[c] = r
      /\ \A d \in Clients : d # c => input'[d] = input[d] /\ up'[d] = up[d]
  BY <1>1, <1>5, <1>6, <1>8 DEF SocketsTyped, ConnectorTyped
<1>10. upcall' = c /\ UNCHANGED <<client_end, pipe_end, down, state, connected, wrote, got, dropped, notice>>
  BY DEF Arrive
<1>11. SocketsTyped'
  BY <1>1, <1>9, <1>10 DEF SocketsTyped
<1>12. ConnectorTyped'
  BY <1>1, <1>9, <1>10 DEF ConnectorTyped
<1>13. QED
  BY <1>7, <1>9, <1>11, <1>12

LEMMA DowncallEffect ==
    ASSUME Typed, NEW c \in Clients, DowncallRead(c)
    PROVE  /\ SocketsTyped' /\ ConnectorTyped'
           /\ wrote'[c] = wrote[c] + 1 /\ wrote'[c] \in Number
           /\ down'[c] = down[c] \o MessageUnits(c, wrote'[c])
           /\ \A d \in Clients : d # c => down'[d] = down[d] /\ wrote'[d] = wrote[d]
<1>1. SocketsTyped /\ ConnectorTyped
  BY DEF Typed
<1> DEFINE n == wrote[c] + 1
           s == down[c] \o MessageUnits(c, n)
<1>2. wrote[c] \in 0 .. Len(Body) /\ wrote[c] < Len(Body) /\ Len(Body) \in Nat
  BY <1>1, Constants, ElementsOf DEF ConnectorTyped, DowncallRead
<1>3. n \in 0 .. Len(Body) /\ n \in Number
  BY <1>2, Constants DEF Number
<1>4. down' = [down EXCEPT ![c] = s] /\ wrote' = [wrote EXCEPT ![c] = n]
  BY DEF DowncallRead
<1> HIDE DEF n
<1>5. down[c] \in Seq(Units) /\ MessageUnits(c, n) \in Seq(Units)
  BY <1>1, <1>3, MessageUnitsType DEF SocketsTyped
<1>6. s \in Seq(Units)
  BY <1>5, ConcatProperties
<1>7. down'[c] = s /\ wrote'[c] = n
      /\ \A d \in Clients : d # c => down'[d] = down[d] /\ wrote'[d] = wrote[d]
  BY <1>1, <1>4 DEF SocketsTyped, ConnectorTyped
<1> HIDE DEF s
<1>8. down' \in [Clients -> Seq(Units)] /\ wrote' \in [Clients -> 0 .. Len(Body)]
  BY <1>1, <1>3, <1>4, <1>6 DEF SocketsTyped, ConnectorTyped
<1>9. UNCHANGED <<client_end, pipe_end, up, trap, state, connected, input, upcall, got, dropped, notice>>
  BY DEF DowncallRead
<1>10. SocketsTyped' /\ ConnectorTyped'
  BY <1>1, <1>8, <1>9 DEF SocketsTyped, ConnectorTyped
<1>11. QED
  BY <1>3, <1>7, <1>10 DEF s, n

LEMMA PauseEffect ==
    ASSUME Typed, NEW c \in Clients, Pause(c)
    PROVE  SocketsTyped' /\ ConnectorTyped'
<1>1. SocketsTyped /\ ConnectorTyped
  BY DEF Typed
<1>2. SocketsTyped'
  BY <1>1, SameSockets DEF Pause
<1>3. state' \in [Clients -> {"new", "open", "paused", "closed"}]
  BY <1>1 DEF ConnectorTyped, Pause
<1>4. ConnectorTyped'
  BY <1>1, <1>3 DEF ConnectorTyped, Pause
<1>5. QED
  BY <1>2, <1>4

LEMMA CloserEffect ==
    ASSUME Typed, NEW c \in Clients, Closer(c)
    PROVE  /\ SocketsTyped' /\ ConnectorTyped'
           /\ \E n \in 0 .. Len(down[c]) : down'[c] = Prefix(down[c], n)
           /\ down[c] = <<>> => down' = down
           /\ up'[c] = <<>> /\ input'[c] = <<>> /\ state'[c] = "closed" /\ client_end'[c] = "closed"
           /\ \A d \in Clients : d # c => /\ down'[d] = down[d] /\ up'[d] = up[d] /\ input'[d] = input[d]
                                          /\ state'[d] = state[d] /\ client_end'[d] = client_end[d]
<1>1. SocketsTyped /\ ConnectorTyped
  BY DEF Typed
<1>2. PICK n \in 0 .. Len(down[c]) : down' = [down EXCEPT ![c] = Prefix(down[c], n)]
  BY DEF Closer
<1> DEFINE p == Prefix(down[c], n)
<1>3. down[c] \in Seq(Units)
  BY <1>1 DEF SocketsTyped
<1>4. p \in Seq(Units) /\ Len(p) = n
  BY <1>3, CutElements
<1>5. down[c] = <<>> => p = <<>>
  <2>1. SUFFICES ASSUME down[c] = <<>> PROVE p = <<>>
    OBVIOUS
  <2> HIDE DEF p
  <2>2. n = 0
    BY <2>1, EmptySeq
  <2>3. QED
    BY <1>4, <2>2, EmptySeq
<1>6. down' = [down EXCEPT ![c] = p]
  BY <1>2
<1> HIDE DEF p
<1>7. down' \in [Clients -> Seq(Units)] /\ down'[c] = p /\ (p = down[c] => down' = down)
      /\ \A d \in Clients : d # c => down'[d] = down[d]
  BY <1>1, <1>4, <1>6 DEF SocketsTyped
<1>8. /\ state' = [state EXCEPT ![c] = "closed"] /\ client_end' = [client_end EXCEPT ![c] = "closed"]
      /\ up' = [up EXCEPT ![c] = <<>>] /\ input' = [input EXCEPT ![c] = <<>>]
      /\ UNCHANGED <<pipe_end, trap, connected, upcall, wrote, got, dropped, notice>>
  BY DEF Closer
<1>9. up' \in [Clients -> Seq(Units)] /\ input' \in [Clients -> Seq(Units)]
      /\ up'[c] = <<>> /\ input'[c] = <<>>
      /\ \A d \in Clients : d # c => up'[d] = up[d] /\ input'[d] = input[d]
  BY <1>1, <1>8, EmptySeq DEF SocketsTyped, ConnectorTyped
<1>10. state' \in [Clients -> {"new", "open", "paused", "closed"}]
       /\ client_end' \in [Clients -> {"new", "connecting", "connected", "closed"}]
       /\ state'[c] = "closed" /\ client_end'[c] = "closed"
       /\ \A d \in Clients : d # c => state'[d] = state[d] /\ client_end'[d] = client_end[d]
  BY <1>1, <1>8 DEF SocketsTyped, ConnectorTyped
<1>11. SocketsTyped'
  BY <1>1, <1>7, <1>8, <1>9, <1>10 DEF SocketsTyped
<1>12. ConnectorTyped'
  BY <1>1, <1>8, <1>9, <1>10 DEF ConnectorTyped
<1>13. \E k \in 0 .. Len(down[c]) : down'[c] = Prefix(down[c], k)
  BY <1>7 DEF p
<1>14. down[c] = <<>> => down' = down
  BY <1>5, <1>7
<1>15. \A d \in Clients : d # c => /\ down'[d] = down[d] /\ up'[d] = up[d] /\ input'[d] = input[d]
                                     /\ state'[d] = state[d] /\ client_end'[d] = client_end[d]
  BY <1>7, <1>9, <1>10, Zenon
<1>16. up'[c] = <<>> /\ input'[c] = <<>> /\ state'[c] = "closed" /\ client_end'[c] = "closed"
  BY <1>9, <1>10, Zenon
<1>17. QED
  BY <1>11, <1>12, <1>13, <1>14, <1>15, <1>16, Zenon

(* A message goes up, or is dropped when the connection is not open. *)
Delivers(c, length) ==
    LET message == <<input[c][1][1], input[c][1][2]>> IN
    /\ Len(input[c]) >= HeaderSize /\ length \in HeaderLengths(input[c])
    /\ HeaderSize + length \in 1 .. Len(input[c]) /\ message \in Message
    /\ input'[c] = Rest(input[c], HeaderSize + length)
    /\ \A d \in Clients : d # c => input'[d] = input[d] /\ got'[d] = got[d] /\ dropped'[d] = dropped[d]
    /\ \/ state[c] = "open" /\ got'[c] = Append(got[c], message) /\ dropped'[c] = dropped[c]
       \/ state[c] # "open" /\ got'[c] = got[c] /\ dropped'[c] = Append(dropped[c], message)

LEMMA UpcallReadEffect ==
    ASSUME Typed, NEW c \in Clients, UpcallRead(c)
    PROVE  /\ SocketsTyped' /\ ConnectorTyped'
           /\ \/ UNCHANGED <<input, got, dropped>>
              \/ \E length : Delivers(c, length)
<1>1. SocketsTyped /\ ConnectorTyped
  BY DEF Typed
<1>2. SocketsTyped'
  BY <1>1, SameSockets DEF UpcallRead
<1>3. CASE upcall' = None /\ UNCHANGED <<input, got, dropped>>
  BY <1>1, <1>2, <1>3 DEF ConnectorTyped, UpcallRead
<1>4. CASE ~ (upcall' = None /\ UNCHANGED <<input, got, dropped>>)
  <2> DEFINE m == <<input[c][1][1], input[c][1][2]>>
  <2>1. Len(input[c]) >= HeaderSize
    BY <1>4, Zenon DEF UpcallRead
  <2>2. PICK length \in HeaderLengths(input[c]) :
           /\ ~ (Len(input[c]) < HeaderSize + length)
           /\ input' = [input EXCEPT ![c] = Rest(input[c], HeaderSize + length)]
           /\ IF state[c] = "open"
              THEN got' = [got EXCEPT ![c] = Append(got[c], m)] /\ UNCHANGED dropped
              ELSE dropped' = [dropped EXCEPT ![c] = Append(dropped[c], m)] /\ UNCHANGED got
           /\ UNCHANGED upcall
    BY <1>4 DEF UpcallRead, MessageRead, SentUp
  <2>3. input[c] \in Seq(Units) /\ got[c] \in Seq(Message) /\ dropped[c] \in Seq(Message)
        /\ Len(input[c]) \in Nat /\ Len(input[c]) > 0
    BY <1>1, <2>1, ElementsOf, Constants DEF ConnectorTyped
  <2>4. input[c][1] \in Units
    BY <2>3, ElementsOf
  <2>5. m \in Message
    BY <2>4, UnitFields DEF Message
  <2>6. length \in Lengths \cup {0}
    BY <2>3, HeaderType
  <2> HIDE DEF m
  <2> DEFINE n == HeaderSize + length
             r == Rest(input[c], n)
             g == Append(got[c], m)
             h == Append(dropped[c], m)
  <2>7. n \in 0 .. Len(input[c]) /\ n \in 1 .. Len(input[c])
    BY <2>2, <2>3, <2>6, Numbered, Constants
  <2> HIDE DEF n
  <2>8. r \in Seq(Units) /\ g \in Seq(Message) /\ h \in Seq(Message)
    BY <2>3, <2>5, <2>7, CutElements, AppendIsJoin
  <2>9. input' = [input EXCEPT ![c] = r]
    BY <2>2 DEF n
  <2>10. \/ state[c] = "open" /\ got' = [got EXCEPT ![c] = g] /\ dropped' = dropped
         \/ state[c] # "open" /\ dropped' = [dropped EXCEPT ![c] = h] /\ got' = got
    BY <2>2
  <2> HIDE DEF r, g, h
  <2>11. input' \in [Clients -> Seq(Units)] /\ input'[c] = r
         /\ \A d \in Clients : d # c => input'[d] = input[d]
    BY <1>1, <2>8, <2>9 DEF ConnectorTyped
  <2>12. got' \in [Clients -> Seq(Message)] /\ dropped' \in [Clients -> Seq(Message)]
         /\ \A d \in Clients : d # c => got'[d] = got[d] /\ dropped'[d] = dropped[d]
         /\ \/ state[c] = "open" /\ got'[c] = g /\ dropped'[c] = dropped[c]
            \/ state[c] # "open" /\ got'[c] = got[c] /\ dropped'[c] = h
    BY <1>1, <2>8, <2>10 DEF ConnectorTyped
  <2>13. ConnectorTyped'
    BY <1>1, <2>2, <2>11, <2>12 DEF ConnectorTyped, UpcallRead
  <2>14. Delivers(c, length)
    BY <2>1, <2>2, <2>5, <2>7, <2>11, <2>12, Zenon DEF Delivers, m, n, r, g, h
  <2>15. QED
    BY <1>2, <2>13, <2>14
<1>5. QED
  BY <1>3, <1>4

-----------------------------------------------------------------------------
(* Every step keeps the types. *)
LEMMA ConnectorTypes ==
    ASSUME Typed, NEW c \in Clients,
           AtClient(c)
    PROVE  SocketsTyped' /\ ConnectorTyped'
<1>1. CASE Opener(c)
  BY <1>1, OpenerEffect
<1>2. CASE OpenerFails(c)
  <2>1. UNCHANGED sockets /\ Apart
    BY <1>2, Zenon DEF OpenerFails, Apart
  <2>2. QED
    BY <2>1, SameSockets, ApartTyped DEF Typed
<1>3. CASE UpcallConnected(c)
  BY <1>3, ConnectedEffect
<1>4. CASE UpcallError(c)
  BY <1>4, ErrorEffect
<1>5. CASE Arrive(c)
  BY <1>5, ArriveEffect
<1>6. CASE UpcallRead(c)
  BY <1>6, UpcallReadEffect
<1>7. CASE DowncallRead(c)
  BY <1>7, DowncallEffect
<1>8. CASE Pause(c)
  BY <1>8, PauseEffect
<1>9. CASE Closer(c)
  BY <1>9, CloserEffect
<1>10. QED
  BY <1>1, <1>2, <1>3, <1>4, <1>5, <1>6, <1>7, <1>8, <1>9, Zenon DEF AtClient

LEMMA ThreadTypes ==
    ASSUME Typed, UNCHANGED <<sockets, conns, conn_count, reading>>,
           AtThread
    PROVE  SocketsTyped' /\ PipeTyped'
<1>1. SocketsTyped' /\ PipeTyped
  BY SameSockets DEF Typed
<1>2. Signal \in {"created", "starting", "asleep_start", "started",
                  "stopping", "asleep_stop", "stopped", "done"}
  BY <1>1 DEF PipeTyped, Signal, Signalled
<1>3. CASE KeepAlive
  <2>1. UNCHANGED <<use_params, buffer_bytes, killme>>
    BY <1>3 DEF KeepAlive, slotVars
  <2>2. \/ startup_running' = TRUE /\ caller' = Signal /\ UNCHANGED router
        \/ router' = "leaving" /\ UNCHANGED <<startup_running, caller>>
    BY <1>3 DEF KeepAlive
  <2>3. startup_running' \in BOOLEAN /\ use_params' \in BOOLEAN /\ killme' \in BOOLEAN
    BY <1>1, <2>1, <2>2, Zenon DEF PipeTyped
  <2>4. caller' \in {"created", "starting", "asleep_start", "started", "stopping", "asleep_stop", "stopped", "done"}
        /\ router' \in {"none", "running", "leaving"} /\ buffer_bytes' \in Nat
    BY <1>1, <1>2, <2>1, <2>2 DEF PipeTyped
  <2>5. QED
    BY <1>1, <2>3, <2>4 DEF PipeTyped
<1>4. CASE RunEnds
  <2>1. UNCHANGED <<use_params, buffer_bytes, killme>>
    BY <1>4 DEF RunEnds, slotVars
  <2>2. router' = "none" /\ startup_running' = FALSE /\ caller' = Signal
    BY <1>4 DEF RunEnds
  <2>3. startup_running' \in BOOLEAN /\ use_params' \in BOOLEAN /\ killme' \in BOOLEAN
    BY <1>1, <2>1, <2>2, Zenon DEF PipeTyped
  <2>4. QED
    BY <1>1, <1>2, <2>1, <2>2, <2>3 DEF PipeTyped
<1>5. CASE StartWaits \/ StopWaits
  <2>1. UNCHANGED <<use_params, buffer_bytes, router, startup_running, killme>>
    BY <1>5 DEF StartWaits, StopWaits, slotVars
  <2>2. caller' \in {"started", "asleep_start", "asleep_stop", "stopped"}
    BY <1>5 DEF StartWaits, StopWaits
  <2>3. startup_running' \in BOOLEAN /\ use_params' \in BOOLEAN /\ killme' \in BOOLEAN
    BY <1>1, <2>1, Zenon DEF PipeTyped
  <2>4. QED
    BY <1>1, <2>1, <2>2, <2>3 DEF PipeTyped
<1>6. CASE Params
  <2>1. UNCHANGED <<router, startup_running, killme, caller>>
    BY <1>6 DEF Params, threadVars
  <2>2. use_params' = TRUE /\ buffer_bytes' \in Nat
    BY <1>6, Constants, PipeAssumption DEF Params
  <2>3. startup_running' \in BOOLEAN /\ use_params' \in BOOLEAN /\ killme' \in BOOLEAN
    BY <1>1, <2>1, <2>2, Zenon DEF PipeTyped
  <2>4. QED
    BY <1>1, <2>1, <2>2, <2>3 DEF PipeTyped
<1>7. CASE Start
  <2>1. UNCHANGED <<use_params, buffer_bytes, startup_running, killme>> /\ router' = "running" /\ caller' = "starting"
    BY <1>7 DEF Start, slotVars
  <2>2. startup_running' \in BOOLEAN /\ use_params' \in BOOLEAN /\ killme' \in BOOLEAN
    BY <1>1, <2>1, Zenon DEF PipeTyped
  <2>3. QED
    BY <1>1, <2>1, <2>2 DEF PipeTyped
<1>8. CASE Stop
  <2>1. UNCHANGED <<use_params, buffer_bytes, router, startup_running>>
    BY <1>8 DEF Stop, slotVars
  <2>2. \/ killme' = TRUE /\ caller' = "stopping"
        \/ UNCHANGED <<killme, caller>>
    BY <1>8 DEF Stop
  <2>3. startup_running' \in BOOLEAN /\ use_params' \in BOOLEAN /\ killme' \in BOOLEAN
    BY <1>1, <2>1, <2>2, Zenon DEF PipeTyped
  <2>4. caller' \in {"created", "starting", "asleep_start", "started", "stopping", "asleep_stop", "stopped", "done"}
    BY <1>1, <2>2 DEF PipeTyped
  <2>5. QED
    BY <1>1, <2>1, <2>3, <2>4 DEF PipeTyped
<1>9. QED
  BY <1>3, <1>4, <1>5, <1>6, <1>7, <1>8, Zenon DEF AtThread

LEMMA ThreadFrame ==
    ASSUME AtThread
    PROVE  UNCHANGED <<sockets, conns, conn_count, reading>>
BY Zenon DEF AtThread, KeepAlive, RunEnds, StartWaits, StopWaits, Params, Start, Stop, slotVars

(* What a callback that changes only slots and sockets leaves alone *)
SameThread == UNCHANGED <<use_params, buffer_bytes, threadVars>>

LEMMA SlotStepTypes ==
    ASSUME Typed, SameThread, conns' \in [Slots -> SlotType], conn_count' \in Int,
           reading' \in Slots \cup {0}
    PROVE  PipeTyped'
<1>1. /\ use_params' = use_params /\ buffer_bytes' = buffer_bytes /\ router' = router
      /\ startup_running' = startup_running /\ killme' = killme /\ caller' = caller
  BY DEF SameThread, threadVars
<1>2. QED
  BY <1>1 DEF Typed, PipeTyped

LEMMA ListenerTypes ==
    ASSUME Typed, NEW c \in Clients, Listener(c)
    PROVE  SocketsTyped' /\ PipeTyped'
<1>1. SocketsTyped /\ conns \in [Slots -> SlotType] /\ conn_count \in Int /\ reading \in Slots \cup {0}
  BY DEF Typed, PipeTyped
<1>2. SameThread /\ reading' = reading /\ UNCHANGED <<client_end, down, up>>
  BY ListenerEffect DEF SameThread
<1>3. \/ pipe_end' = pipe_end /\ conns' = conns /\ conn_count' = conn_count
      \/ /\ conns' \in [Slots -> SlotType] /\ conn_count' = conn_count + 1
         /\ pipe_end' = [pipe_end EXCEPT ![c] = "open"]
  BY ListenerEffect DEF OnlySlot
<1>4. conns' \in [Slots -> SlotType] /\ conn_count' \in Int
      /\ pipe_end' \in [Clients -> {"none", "backlog", "open", "closed"}]
  <2>1. CASE pipe_end' = pipe_end /\ conns' = conns /\ conn_count' = conn_count
    BY <1>1, <2>1 DEF SocketsTyped
  <2>2. CASE conns' \in [Slots -> SlotType] /\ conn_count' = conn_count + 1
             /\ pipe_end' = [pipe_end EXCEPT ![c] = "open"]
    <3>1. pipe_end' \in [Clients -> {"none", "backlog", "open", "closed"}]
      BY <1>1, <2>2 DEF SocketsTyped
    <3>2. QED
      BY <1>1, <2>2, <3>1
  <2>3. QED
    BY <1>3, <2>1, <2>2
<1>5. SocketsTyped'
  BY <1>1, <1>2, <1>4 DEF SocketsTyped
<1>6. QED
  BY <1>1, <1>2, <1>4, <1>5, SlotStepTypes

LEMMA SlotTypes ==
    ASSUME Typed, NEW i \in Slots, AtSlot(i)
    PROVE  SocketsTyped' /\ PipeTyped'
<1>1. /\ SocketsTyped /\ conns \in [Slots -> SlotType] /\ conn_count \in Int /\ reading \in Slots \cup {0}
      /\ conns[i] \in SlotType
  BY DEF Typed, PipeTyped
<1>3. CASE ConnError(i)
  <2>1. SameThread /\ reading' = reading /\ UNCHANGED <<client_end, up>>
        /\ conn_count' = conn_count - 1 /\ conns' \in [Slots -> SlotType]
        /\ pipe_end' = [pipe_end EXCEPT ![conns[i].client_fd] = "closed"]
        /\ down' = [down EXCEPT ![conns[i].client_fd] = <<>>]
    BY <1>3, ConnErrorEffect DEF SameThread, OnlySlot
  <2>2. pipe_end' \in [Clients -> {"none", "backlog", "open", "closed"}] /\ down' \in [Clients -> Seq(Units)]
    BY <1>1, <2>1, EmptySeq DEF SocketsTyped
  <2>3. SocketsTyped'
    BY <1>1, <2>1, <2>2 DEF SocketsTyped
  <2>4. QED
    BY <1>1, <2>1, <2>3, SlotStepTypes
<1>4. CASE ConnRead(i)
  <2> DEFINE d == conns[i].client_fd
  <2>1. SameThread /\ UNCHANGED <<client_end, pipe_end, up>> /\ reading' = i
        /\ conn_count' = conn_count /\ conns' \in [Slots -> SlotType] /\ d \in Clients
    BY <1>4, ConnReadEffect DEF SameThread, OnlySlot
  <2>2. PICK n \in 1 .. Len(down[d]) : down' = [down EXCEPT ![d] = Rest(down[d], n)]
    BY <1>4, ConnReadEffect
  <2> HIDE DEF d
  <2>3. down[d] \in Seq(Units)
    BY <1>1, <2>1 DEF SocketsTyped
  <2>4. n \in 0 .. Len(down[d])
    BY <2>3, ElementsOf
  <2>5. Rest(down[d], n) \in Seq(Units)
    BY <2>3, <2>4, CutElements
  <2>6. down' \in [Clients -> Seq(Units)]
    BY <1>1, <2>2, <2>5 DEF SocketsTyped
  <2>7. SocketsTyped'
    BY <1>1, <2>1, <2>6 DEF SocketsTyped
  <2>8. QED
    BY <1>1, <2>1, <2>7, SlotStepTypes
<1>5. CASE SingleRead(i)
  <2>1. SameThread /\ UNCHANGED <<client_end, pipe_end, down, conn_count>> /\ reading = i
    BY <1>5, SingleReadEffect DEF SameThread
  <2>2. PICK length : ReadsAs(i, length)
    BY <1>5, SingleReadEffect
  <2>3. /\ conns' \in [Slots -> SlotType] /\ reading' \in Slots \cup {0}
    <3>1. CASE Refuses(i, length)
      BY <1>1, <3>1 DEF Refuses
    <3>2. CASE Awaits(i, length)
      BY <3>2 DEF Awaits, OnlySlot
    <3>3. CASE Takes(i, length)
      BY <3>3 DEF Takes
    <3>4. QED
      BY <2>2, <3>1, <3>2, <3>3 DEF ReadsAs
  <2>4. up' \in [Clients -> Seq(Units)]
    <3>1. UNCHANGED up \/ Reflects(i, Prefix(conns[i].input, HeaderSize + length))
      BY <2>2, Zenon DEF ReadsAs, Refuses, Awaits, Delays_
    <3>2. QED
      BY <1>1, <3>1 DEF Reflects, SocketsTyped
  <2>5. SocketsTyped'
    BY <1>1, <2>1, <2>4 DEF SocketsTyped
  <2>6. QED
    BY <1>1, <2>1, <2>3, <2>5, SlotStepTypes
<1>6. CASE Timer(i)
  <2>1. SameThread /\ UNCHANGED <<client_end, pipe_end, down, conn_count, reading>>
        /\ up' \in [Clients -> Seq(Units)] /\ conns' \in [Slots -> SlotType]
    BY <1>6, TimerEffect DEF SameThread, OnlySlot
  <2>2. SocketsTyped'
    BY <1>1, <2>1 DEF SocketsTyped
  <2>3. QED
    BY <1>1, <2>1, <2>2, SlotStepTypes
<1>9. QED
  BY <1>3, <1>4, <1>5, <1>6, Zenon DEF AtSlot

LEMMA PipeTypes ==
    ASSUME Typed, Tick \/ Destroy
    PROVE  SocketsTyped' /\ PipeTyped'
<1>1. SocketsTyped /\ conns \in [Slots -> SlotType] /\ conn_count \in Int /\ reading \in Slots \cup {0}
  BY DEF Typed, PipeTyped
<1>7. CASE Tick
  <2>1. SameThread /\ UNCHANGED <<sockets, conn_count, reading>> /\ conns' \in [Slots -> SlotType]
    BY <1>7, TickEffect DEF SameThread
  <2>2. SocketsTyped'
    BY <1>1, <2>1, SameSockets
  <2>3. QED
    BY <1>1, <2>1, <2>2, SlotStepTypes
<1>8. CASE Destroy
  <2>1. /\ up' \in [Clients -> Seq(Units)]
        /\ pipe_end' = [d \in Clients |-> IF pipe_end[d] = "none" THEN "none" ELSE "closed"]
        /\ down' = [d \in Clients |-> <<>>]
        /\ conns' = [j \in Slots |-> NewConn] /\ conn_count' = 0 /\ caller' = "done"
        /\ UNCHANGED <<client_end, trap, use_params, buffer_bytes, reading, router, startup_running, killme>>
    BY <1>8, DestroyEffect, Zenon
  <2>2. pipe_end' \in [Clients -> {"none", "backlog", "open", "closed"}] /\ down' \in [Clients -> Seq(Units)]
        /\ conns' \in [Slots -> SlotType]
    BY <2>1, EmptySeq, NewConnType
  <2>3. SocketsTyped'
    BY <1>1, <2>1, <2>2 DEF SocketsTyped
  <2>4. PipeTyped'
    BY <2>1, <2>2 DEF Typed, PipeTyped
  <2>5. QED
    BY <2>3, <2>4
<1>9. QED
  BY <1>7, <1>8

LEMMA TypedStep ==
    ASSUME Typed, [Next]_vars
    PROVE  Typed'
<1>1. SocketsTyped /\ ConnectorTyped /\ PipeTyped
  BY DEF Typed
<1>2. ASSUME NEW c \in Clients, AtClient(c), Idle PROVE Typed'
  <2>1. SocketsTyped' /\ ConnectorTyped'
    BY <1>2, ConnectorTypes
  <2>2. PipeTyped'
    BY <1>1, <1>2, IdleTyped
  <2>3. QED
    BY <2>1, <2>2 DEF Typed
<1>3. ASSUME SocketsTyped' /\ PipeTyped', Apart PROVE Typed'
  <2>1. ConnectorTyped'
    BY <1>1, <1>3, ApartTyped
  <2>2. QED
    BY <1>3, <2>1 DEF Typed
<1>4. ASSUME NEW c \in Clients, Listener(c), Apart PROVE Typed'
  BY <1>3, <1>4, ListenerTypes
<1>5. ASSUME NEW i \in Slots, AtSlot(i), Apart PROVE Typed'
  BY <1>3, <1>5, SlotTypes
<1>6. CASE AtThread /\ Apart
  BY <1>3, <1>6, ThreadTypes, ThreadFrame
<1>7. CASE Tick /\ Apart
  BY <1>3, <1>7, PipeTypes
<1>8. CASE Destroy /\ Apart
  BY <1>3, <1>8, PipeTypes
<1>9. CASE UNCHANGED vars
  <2>1. UNCHANGED sockets /\ Idle /\ Apart
    BY <1>9, Zenon DEF vars, Idle, Apart
  <2>2. QED
    BY <1>1, <2>1, SameSockets, IdleTyped, ApartTyped DEF Typed
<1>10. QED
  BY <1>2, <1>4, <1>5, <1>6, <1>7, <1>8, <1>9, Steps, Zenon

-----------------------------------------------------------------------------
(* The thread *)

(* Only a running thread drains a slot, and between Stop and Start, where  *)
(* the pipe can be destroyed, there is no thread.                          *)
ThreadIsKnown ==
    /\ reading # 0 => router = "running" /\ conns[reading].client_fd # None
    /\ startup_running => router # "none"
    /\ caller \in {"created", "stopped", "done"} => router = "none" /\ ~ startup_running
    /\ caller \in {"started", "stopping", "asleep_stop"} /\ ~ startup_running => router = "none"
    /\ caller = "done" => \A i \in Slots : conns[i].client_fd = None /\ conns[i].output_queue = <<>>

LEMMA ThreadRuns ==
    ASSUME ThreadIsKnown, SameThread, router = "running",
           reading' # 0 => conns'[reading'].client_fd # None
    PROVE  ThreadIsKnown'
<1>1. router' = router /\ startup_running' = startup_running /\ caller' = caller
  BY DEF SameThread, threadVars
<1>2. caller # "done"
  BY DEF ThreadIsKnown
<1>3. QED
  BY <1>1, <1>2, Zenon DEF ThreadIsKnown

LEMMA SlotIsNotZero == 0 \notin Slots
BY DEF Slots

LEMMA ThreadStep ==
    ASSUME ThreadIsKnown, AtThread, UNCHANGED <<conns, reading>>
    PROVE  ThreadIsKnown'
<1>1. /\ reading' = 0 \/ (reading # 0 /\ router = "running" /\ conns'[reading'].client_fd # None)
      /\ reading' = reading
      /\ caller = "done" => \A i \in Slots : conns'[i].client_fd = None /\ conns'[i].output_queue = <<>>
  BY Zenon DEF ThreadIsKnown
<1>2. Signal = (IF caller = "asleep_start" THEN "starting"
                ELSE IF caller = "asleep_stop" THEN "stopping" ELSE caller)
  BY DEF Signal, Signalled
<1>3. CASE KeepAlive
  <2>1. router = "running" /\ reading = 0
    BY <1>3 DEF KeepAlive, PipeCalm
  <2>2. caller \notin {"created", "stopped", "done"}
    BY <2>1 DEF ThreadIsKnown
  <2>3. CASE startup_running' = TRUE /\ caller' = Signal /\ router' = router
    BY <1>1, <1>2, <2>1, <2>2, <2>3 DEF ThreadIsKnown
  <2>4. CASE startup_running /\ router' = "leaving" /\ startup_running' = startup_running /\ caller' = caller
    BY <1>1, <2>1, <2>2, <2>4 DEF ThreadIsKnown
  <2>5. QED
    BY <1>3, <2>3, <2>4 DEF KeepAlive
<1>4. CASE RunEnds
  <2>1. router = "leaving" /\ router' = "none" /\ startup_running' = FALSE /\ caller' = Signal
    BY <1>4 DEF RunEnds
  <2>2. reading' = 0 /\ caller' # "done"
    BY <1>1, <1>2, <2>1 DEF ThreadIsKnown
  <2>3. QED
    BY <2>1, <2>2 DEF ThreadIsKnown
<1>5. CASE StartWaits
  <2>1. /\ caller = "starting" /\ caller' = IF startup_running THEN "started" ELSE "asleep_start"
        /\ router' = router /\ startup_running' = startup_running
    BY <1>5 DEF StartWaits
  <2>2. QED
    BY <1>1, <2>1 DEF ThreadIsKnown
<1>6. CASE StopWaits
  <2>1. /\ caller = "stopping" /\ caller' = IF startup_running THEN "asleep_stop" ELSE "stopped"
        /\ router' = router /\ startup_running' = startup_running
    BY <1>6 DEF StopWaits
  <2>2. QED
    BY <1>1, <2>1 DEF ThreadIsKnown
<1>7. CASE Params
  <2>1. caller = "created" /\ UNCHANGED <<router, startup_running, caller>>
    BY <1>7 DEF Params, threadVars
  <2>2. QED
    BY <1>1, <2>1 DEF ThreadIsKnown
<1>8. CASE Start
  <2>1. router' = "running" /\ caller' = "starting" /\ startup_running' = startup_running
    BY <1>8 DEF Start
  <2>2. QED
    BY <1>1, <2>1 DEF ThreadIsKnown
<1>9. CASE Stop
  <2>1. /\ caller = "started" /\ UNCHANGED <<router, startup_running>>
        /\ \/ startup_running /\ caller' = "stopping"
           \/ caller' = caller
    BY <1>9 DEF Stop
  <2>2. QED
    BY <1>1, <2>1 DEF ThreadIsKnown
<1>10. QED
  BY <1>3, <1>4, <1>5, <1>6, <1>7, <1>8, <1>9, Zenon DEF AtThread

LEMMA ThreadKept ==
    ASSUME Typed, ThreadIsKnown, [Next]_vars
    PROVE  ThreadIsKnown'
<1>1. ASSUME NEW c \in Clients, AtClient(c), Idle PROVE ThreadIsKnown'
  BY <1>1, IdleFrame DEF ThreadIsKnown
<1>2. ASSUME NEW c \in Clients, Listener(c) PROVE ThreadIsKnown'
  <2>1. SameThread /\ router = "running" /\ reading' = 0
    BY <1>2, ListenerEffect DEF SameThread, PipeCalm
  <2>2. QED
    BY <2>1, ThreadRuns
<1>3. ASSUME NEW i \in Slots, AtSlot(i) PROVE ThreadIsKnown'
  <2>1. CASE ConnError(i)
    <3>1. SameThread /\ router = "running" /\ reading' = 0
      BY <2>1, ConnErrorEffect DEF SameThread, PipeCalm
    <3>2. QED
      BY <3>1, ThreadRuns
  <2>2. CASE ConnRead(i)
    <3>1. SameThread /\ router = "running" /\ reading' = i /\ conns'[i].client_fd \in Clients
      BY <2>2, ConnReadEffect DEF SameThread, PipeCalm
    <3>2. conns'[i].client_fd # None
      BY <3>1, Constants
    <3>3. QED
      BY <3>1, <3>2, ThreadRuns
  <2>3. CASE SingleRead(i)
    <3>1. SameThread /\ reading = i
      BY <2>3, SingleReadEffect DEF SameThread
    <3>2. PICK length : ReadsAs(i, length)
      BY <2>3, SingleReadEffect
    <3>3. i # 0 /\ router = "running" /\ conns[i].client_fd # None
      BY <3>1, SlotIsNotZero DEF ThreadIsKnown
    <3>4. conns'[i].client_fd = conns[i].client_fd /\ reading' \in {0, i}
      <4>1. CASE Refuses(i, length)
        BY <3>1, <4>1 DEF Refuses
      <4>2. CASE Awaits(i, length)
        BY <4>2 DEF Awaits
      <4>3. CASE Takes(i, length)
        BY <4>3 DEF Takes
      <4>4. QED
        BY <3>2, <4>1, <4>2, <4>3, Zenon DEF ReadsAs
    <3>5. QED
      BY <3>1, <3>3, <3>4, ThreadRuns
  <2>4. CASE Timer(i)
    <3>1. SameThread /\ router = "running" /\ reading' = 0
      BY <2>4, TimerEffect DEF SameThread, PipeCalm
    <3>2. QED
      BY <3>1, ThreadRuns
  <2>5. QED
    BY <1>3, <2>1, <2>2, <2>3, <2>4 DEF AtSlot
<1>4. CASE AtThread
  BY <1>4, ThreadStep, ThreadFrame
<1>5. CASE Tick
  <2>1. /\ \A i \in Slots : /\ conns'[i].client_fd = conns[i].client_fd
                            /\ conns'[i].output_queue = Aged(conns[i].output_queue)
        /\ reading' = reading /\ router' = router
        /\ startup_running' = startup_running /\ caller' = caller
    BY <1>5, TickEffect DEF SameEnd, threadVars
  <2>2. Aged(<<>>) = <<>>
    BY EmptySeq, AgedQueue
  <2>3. reading \in Slots \cup {0}
    BY DEF Typed, PipeTyped
  <2>4. reading # 0 => conns'[reading].client_fd = conns[reading].client_fd
    BY <2>1, <2>3
  <2>5. caller = "done" => \A i \in Slots : conns'[i].client_fd = None /\ conns'[i].output_queue = <<>>
    BY <2>1, <2>2 DEF ThreadIsKnown
  <2>6. QED
    BY <2>1, <2>4, <2>5, Zenon DEF ThreadIsKnown
<1>6. CASE Destroy
  <2>1. /\ caller \in {"created", "stopped"} /\ caller' = "done"
        /\ conns' = [i \in Slots |-> NewConn]
        /\ UNCHANGED <<reading, router, startup_running>>
    BY <1>6, DestroyEffect
  <2>2. reading = 0 /\ router = "none" /\ ~ startup_running
    BY <2>1 DEF ThreadIsKnown
  <2>3. \A i \in Slots : conns'[i].client_fd = None /\ conns'[i].output_queue = <<>>
    BY <2>1 DEF NewConn
  <2>4. QED
    BY <2>1, <2>2, <2>3 DEF ThreadIsKnown
<1>7. CASE UNCHANGED vars
  BY <1>7 DEF vars, pipeVars, slotVars, threadVars, ThreadIsKnown
<1>8. QED
  BY <1>1, <1>2, <1>3, <1>4, <1>5, <1>6, <1>7, Steps, Zenon

-----------------------------------------------------------------------------
(* The slots in use and the ends of the connections *)

OneSlotEach ==
    \A i, j \in Slots : conns[i].client_fd = conns[j].client_fd /\ i # j => conns[i].client_fd = None

OpenHasSlot == \A c \in Clients : pipe_end[c] = "open" <=> \E i \in Slots : conns[i].client_fd = c

UnusedIsEmpty == \A i \in Slots : conns[i].client_fd = None => conns[i].input = <<>>

(* A client has one slot as long as its socket is open; the slots in use   *)
(* are counted.                                                            *)
SlotsAreUsed ==
    OneSlotEach /\ OpenHasSlot /\ UnusedIsEmpty /\ conn_count = Cardinality(InUse)

(* The two ends of a connection *)
Ends(c) ==
    /\ client_end[c] = "new" <=> state[c] = "new"
    /\ client_end[c] = "new" <=> pipe_end[c] = "none"
    /\ client_end[c] = "closed" <=> state[c] = "closed"
    /\ pipe_end[c] \in {"none", "backlog"} =>
          up[c] = <<>> /\ input[c] = <<>> /\ got[c] = <<>> /\ dropped[c] = <<>>
    /\ caller = "done" => pipe_end[c] \in {"none", "closed"}
    /\ client_end[c] = "closed" => up[c] = <<>> /\ input[c] = <<>> /\ c \in Closers
    /\ pipe_end[c] = "closed" => client_end[c] = "closed" \/ caller = "done"
    /\ dropped[c] # <<>> => state[c] # "open"

EndsAgree == \A c \in Clients : Ends(c)

LEMMA InUseFinite == IsFiniteSet(InUse) /\ Cardinality(InUse) \in 0 .. MaxConn
<1>1. IsFiniteSet(Slots) /\ Cardinality(Slots) = MaxConn
  BY FS_Interval, Constants DEF Slots
<1>2. InUse \subseteq Slots
  BY DEF InUse
<1>3. IsFiniteSet(InUse) /\ Cardinality(InUse) <= Cardinality(Slots)
  BY <1>1, <1>2, FS_Subset
<1>4. Cardinality(InUse) \in Nat
  BY <1>3, FS_CardinalityType
<1>5. QED
  BY <1>1, <1>3, <1>4, Constants

LEMMA SlotsSame ==
    ASSUME SlotsAreUsed, conn_count' = conn_count,
           \A j \in Slots : conns'[j].client_fd = conns[j].client_fd,
           \A j \in Slots : conns[j].client_fd = None => conns'[j].input = conns[j].input,
           \A c \in Clients : pipe_end'[c] = "open" <=> pipe_end[c] = "open"
    PROVE  SlotsAreUsed'
<1>1. InUse' = InUse
  BY DEF InUse
<1>2. conn_count' = Cardinality(InUse')
  BY <1>1 DEF SlotsAreUsed
<1>3. OneSlotEach'
  BY DEF SlotsAreUsed, OneSlotEach
<1>4. OpenHasSlot'
  BY DEF SlotsAreUsed, OpenHasSlot
<1>5. UnusedIsEmpty'
  BY DEF SlotsAreUsed, UnusedIsEmpty
<1>6. QED
  BY <1>2, <1>3, <1>4, <1>5 DEF SlotsAreUsed

LEMMA SlotAccepted ==
    ASSUME Typed, SlotsAreUsed, NEW c \in Clients, NEW i \in Slots, pipe_end[c] = "backlog",
           conns[i].client_fd = None, conns'[i].client_fd = c,
           \A j \in Slots : j # i => conns'[j] = conns[j],
           conn_count' = conn_count + 1, pipe_end' = [pipe_end EXCEPT ![c] = "open"]
    PROVE  SlotsAreUsed'
<1>1. c # None /\ \A j \in Slots : conns[j].client_fd # c
  BY Constants DEF SlotsAreUsed, OpenHasSlot
<1>2. pipe_end'[c] = "open" /\ \A d \in Clients : d # c => pipe_end'[d] = pipe_end[d]
  BY DEF Typed, SocketsTyped
<1>3. OneSlotEach'
  BY <1>1 DEF SlotsAreUsed, OneSlotEach
<1>4. OpenHasSlot'
  <2>1. ASSUME NEW d \in Clients
        PROVE  pipe_end'[d] = "open" <=> \E j \in Slots : conns'[j].client_fd = d
    <3>1. CASE d = c
      BY <1>2, <3>1
    <3>2. CASE d # c
      <4>1. d # None
        BY Constants
      <4>2. \A j \in Slots : conns'[j].client_fd = d <=> conns[j].client_fd = d
        BY <3>2, <4>1
      <4>3. pipe_end[d] = "open" <=> \E j \in Slots : conns[j].client_fd = d
        BY DEF SlotsAreUsed, OpenHasSlot
      <4>4. QED
        BY <1>2, <3>2, <4>2, <4>3
    <3>3. QED
      BY <3>1, <3>2
  <2>2. QED
    BY <2>1 DEF OpenHasSlot
<1>5. UnusedIsEmpty'
  BY <1>1 DEF SlotsAreUsed, UnusedIsEmpty
<1>6. InUse' = InUse \cup {i} /\ i \notin InUse
  BY <1>1 DEF InUse
<1>7. Cardinality(InUse') = Cardinality(InUse) + 1
  BY <1>6, InUseFinite, FS_AddElement
<1>8. QED
  BY <1>3, <1>4, <1>5, <1>7 DEF SlotsAreUsed

LEMMA SlotReleased ==
    ASSUME Typed, SlotsAreUsed, NEW i \in Slots, conns[i].client_fd \in Clients,
           conns'[i].client_fd = None, conns'[i].input = <<>>,
           \A j \in Slots : j # i => conns'[j] = conns[j],
           conn_count' = conn_count - 1,
           pipe_end' = [pipe_end EXCEPT ![conns[i].client_fd] = "closed"]
    PROVE  SlotsAreUsed'
<1> DEFINE c == conns[i].client_fd
<1>1. c # None /\ \A j \in Slots : j # i => conns[j].client_fd # c
  BY Constants DEF SlotsAreUsed, OneSlotEach
<1>2. pipe_end'[c] = "closed" /\ \A d \in Clients : d # c => pipe_end'[d] = pipe_end[d]
  BY DEF Typed, SocketsTyped
<1>3. OneSlotEach'
  BY <1>1 DEF SlotsAreUsed, OneSlotEach
<1>4. OpenHasSlot'
  BY <1>1, <1>2, Constants DEF SlotsAreUsed, OpenHasSlot
<1>5. UnusedIsEmpty'
  BY <1>1 DEF SlotsAreUsed, UnusedIsEmpty
<1>6. InUse' = InUse \ {i} /\ i \in InUse
  BY <1>1 DEF InUse
<1>7. Cardinality(InUse') = Cardinality(InUse) - 1
  BY <1>6, InUseFinite, FS_RemoveElement
<1>8. QED
  BY <1>3, <1>4, <1>5, <1>7 DEF SlotsAreUsed

LEMMA SlotsKept ==
    ASSUME Typed, ThreadIsKnown, SlotsAreUsed, EndsAgree, [Next]_vars
    PROVE  SlotsAreUsed'
<1>1. ASSUME NEW c \in Clients, AtClient(c), Idle PROVE SlotsAreUsed'
  <2>1. \A d \in Clients : pipe_end'[d] = "open" <=> pipe_end[d] = "open"
    <3>1. CASE Opener(c)
      <4>1. client_end[c] = "new" /\ pipe_end' = [pipe_end EXCEPT ![c] = "backlog"]
        BY <3>1 DEF Opener
      <4>2. pipe_end[c] # "open"
        BY <4>1 DEF EndsAgree, Ends
      <4>3. QED
        BY <4>1, <4>2 DEF Typed, SocketsTyped
    <3>2. CASE ~ Opener(c)
      <4>1. pipe_end' = pipe_end
        BY <1>1, <3>2, Zenon DEF AtClient, OpenerFails, UpcallConnected, UpcallError, Arrive, UpcallRead,
                                 DowncallRead, Pause, Closer, sockets
      <4>2. QED
        BY <4>1
    <3>3. QED
      BY <3>1, <3>2
  <2>2. QED
    BY <1>1, <2>1, IdleFrame, SlotsSame
<1>2. ASSUME NEW c \in Clients, Listener(c) PROVE SlotsAreUsed'
  <2>1. CASE UNCHANGED <<pipe_end, conns, conn_count>>
    BY <2>1, SlotsSame
  <2>2. CASE ~ UNCHANGED <<pipe_end, conns, conn_count>>
    <3>1. PICK i \in Slots : conns[i].client_fd = None /\ conns'[i].client_fd = c /\ OnlySlot(i)
      BY <1>2, <2>2, ListenerEffect
    <3>2. pipe_end[c] = "backlog" /\ conn_count' = conn_count + 1 /\ pipe_end' = [pipe_end EXCEPT ![c] = "open"]
      BY <1>2, <2>2, ListenerEffect
    <3>3. QED
      BY <3>1, <3>2, SlotAccepted DEF OnlySlot
  <2>3. QED
    BY <2>1, <2>2
<1>3. ASSUME NEW i \in Slots, ConnError(i) PROVE SlotsAreUsed'
  <2>1. /\ conns[i].client_fd \in Clients /\ conns'[i].client_fd = None /\ conns'[i].input = <<>>
        /\ OnlySlot(i) /\ conn_count' = conn_count - 1
        /\ pipe_end' = [pipe_end EXCEPT ![conns[i].client_fd] = "closed"]
    BY <1>3, ConnErrorEffect
  <2>2. QED
    BY <2>1, SlotReleased DEF OnlySlot
<1>4. ASSUME NEW i \in Slots, ConnRead(i) PROVE SlotsAreUsed'
  <2>1. /\ conns[i].client_fd \in Clients /\ conns'[i].client_fd = conns[i].client_fd
        /\ OnlySlot(i) /\ UNCHANGED <<pipe_end, conn_count>>
    BY <1>4, ConnReadEffect
  <2>2. QED
    BY <2>1, SlotsSame, Constants DEF OnlySlot
<1>5. ASSUME NEW i \in Slots, SingleRead(i) PROVE SlotsAreUsed'
  <2>1. UNCHANGED <<pipe_end, conn_count>> /\ reading = i
    BY <1>5, SingleReadEffect
  <2>2. conns[i].client_fd # None
    BY <2>1, SlotIsNotZero DEF ThreadIsKnown
  <2>3. PICK length : ReadsAs(i, length)
    BY <1>5, SingleReadEffect
  <2>4. \A j \in Slots : /\ conns'[j].client_fd = conns[j].client_fd
                         /\ j # i => conns'[j].input = conns[j].input
    <3>1. CASE Refuses(i, length)
      BY <3>1 DEF Refuses
    <3>2. CASE Awaits(i, length)
      BY <3>2 DEF Awaits, OnlySlot
    <3>3. CASE Takes(i, length) /\ Delays_(i, Prefix(conns[i].input, HeaderSize + length))
      BY <3>3 DEF Takes, Delays_, SameEnd
    <3>4. CASE Takes(i, length) /\ Reflects(i, Prefix(conns[i].input, HeaderSize + length))
      BY <3>4 DEF Takes, Reflects, OnlySlot
    <3>5. QED
      BY <2>3, <3>1, <3>2, <3>3, <3>4, Zenon DEF ReadsAs
  <2>5. QED
    BY <2>1, <2>2, <2>4, SlotsSame
<1>6. ASSUME NEW i \in Slots, Timer(i) PROVE SlotsAreUsed'
  <2>1. OnlySlot(i) /\ SameEnd(conns'[i], conns[i]) /\ UNCHANGED <<pipe_end, conn_count>>
    BY <1>6, TimerEffect
  <2>2. QED
    BY <2>1, SlotsSame DEF OnlySlot, SameEnd
<1>7. CASE AtThread
  <2>1. UNCHANGED <<pipe_end, conns, conn_count>>
    BY <1>7, ThreadFrame DEF sockets
  <2>2. QED
    BY <2>1, SlotsSame
<1>8. CASE Tick
  <2>1. (\A i \in Slots : SameEnd(conns'[i], conns[i])) /\ UNCHANGED <<pipe_end, conn_count>>
    BY <1>8, TickEffect DEF sockets
  <2>2. QED
    BY <2>1, SlotsSame DEF SameEnd
<1>9. CASE Destroy
  <2>1. /\ pipe_end' = [c \in Clients |-> IF pipe_end[c] = "none" THEN "none" ELSE "closed"]
        /\ conns' = [i \in Slots |-> NewConn] /\ conn_count' = 0
    BY <1>9, DestroyEffect
  <2>2. \A i \in Slots : conns'[i].client_fd = None /\ conns'[i].input = <<>>
    BY <2>1 DEF NewConn
  <2>3. InUse' = {}
    BY <2>2 DEF InUse
  <2>4. conn_count' = Cardinality(InUse')
    BY <2>1, <2>3, FS_EmptySet
  <2>5. OneSlotEach' /\ UnusedIsEmpty'
    BY <2>2 DEF OneSlotEach, UnusedIsEmpty
  <2>6. OpenHasSlot'
    BY <2>1, <2>2, Constants DEF OpenHasSlot
  <2>7. QED
    BY <2>4, <2>5, <2>6 DEF SlotsAreUsed
<1>10. CASE UNCHANGED vars
  <2>1. UNCHANGED <<pipe_end, conns, conn_count>>
    BY <1>10 DEF vars, sockets, pipeVars, slotVars
  <2>2. QED
    BY <2>1, SlotsSame
<1>11. QED
  BY <1>1, <1>2, <1>3, <1>4, <1>5, <1>6, <1>7, <1>8, <1>9, <1>10, Steps, Zenon DEF AtSlot

LEMMA EndsSame ==
    ASSUME NEW c \in Clients, Ends(c),
           /\ client_end'[c] = client_end[c] /\ pipe_end'[c] = pipe_end[c] /\ up'[c] = up[c]
           /\ state'[c] = state[c] /\ input'[c] = input[c] /\ got'[c] = got[c] /\ dropped'[c] = dropped[c]
           /\ caller' = "done" <=> caller = "done"
    PROVE  Ends(c)'
BY DEF Ends

LEMMA EndsOfClient ==
    ASSUME Typed, EndsAgree, NEW c \in Clients, AtClient(c), Idle
    PROVE  EndsAgree'
<1> DEFINE Same(d) == /\ client_end'[d] = client_end[d] /\ pipe_end'[d] = pipe_end[d] /\ up'[d] = up[d]
                      /\ state'[d] = state[d] /\ input'[d] = input[d] /\ got'[d] = got[d]
                      /\ dropped'[d] = dropped[d]
<1>1. caller' = caller /\ \A d \in Clients : Ends(d)
  BY IdleFrame DEF EndsAgree
<1>2. SUFFICES (\A d \in Clients : d # c => Same(d)) /\ (Same(c) \/ Ends(c)')
  BY <1>1, EndsSame DEF EndsAgree
<1>3. /\ client_end \in [Clients -> {"new", "connecting", "connected", "closed"}]
      /\ pipe_end \in [Clients -> {"none", "backlog", "open", "closed"}]
      /\ state \in [Clients -> {"new", "open", "paused", "closed"}]
      /\ up \in [Clients -> Seq(Units)] /\ input \in [Clients -> Seq(Units)]
  BY DEF Typed, SocketsTyped, ConnectorTyped
<1>4. CASE Opener(c) /\ Listening
  <2>1. /\ client_end[c] = "new" /\ client_end' = [client_end EXCEPT ![c] = "connecting"]
        /\ pipe_end' = [pipe_end EXCEPT ![c] = "backlog"] /\ state' = [state EXCEPT ![c] = "open"]
        /\ up' = up /\ input' = input /\ got' = got /\ dropped' = dropped /\ caller # "done"
    BY <1>4 DEF Opener, Listening
  <2>2. pipe_end[c] = "none"
    BY <1>1, <2>1 DEF Ends
  <2>3. client_end'[c] = "connecting" /\ pipe_end'[c] = "backlog" /\ state'[c] = "open"
    BY <1>3, <2>1
  <2>4. Ends(c)'
    BY <1>1, <2>1, <2>2, <2>3 DEF Ends
  <2>5. QED
    BY <1>3, <2>1, <2>4
<1>5. CASE OpenerFails(c) \/ UpcallError(c)
  BY <1>5 DEF OpenerFails, UpcallError, sockets, connVars
<1>6. CASE UpcallConnected(c)
  <2>1. /\ client_end[c] = "connecting" /\ client_end' = [client_end EXCEPT ![c] = "connected"]
        /\ pipe_end' = pipe_end /\ state' = state
        /\ up' = up /\ input' = input /\ got' = got /\ dropped' = dropped
    BY <1>6 DEF UpcallConnected
  <2>2. client_end'[c] = "connected"
    BY <1>3, <2>1
  <2>3. Ends(c)'
    BY <1>1, <2>1, <2>2 DEF Ends
  <2>4. QED
    BY <1>3, <2>1, <2>3
<1>7. CASE Arrive(c)
  <2>1. /\ client_end[c] = "connected"
        /\ client_end' = client_end /\ pipe_end' = pipe_end /\ state' = state
        /\ got' = got /\ dropped' = dropped /\ up[c] # <<>>
    BY <1>7, EmptySeq DEF Arrive
  <2>2. \A d \in Clients : d # c => input'[d] = input[d] /\ up'[d] = up[d]
    BY <1>7, ArriveEffect
  <2>3. pipe_end[c] \notin {"none", "backlog"}
    BY <1>1, <2>1 DEF Ends
  <2>4. Ends(c)'
    BY <1>1, <2>1, <2>3 DEF Ends
  <2>5. QED
    BY <2>1, <2>2, <2>4
<1>8. CASE UpcallRead(c)
  <2>1. client_end' = client_end /\ pipe_end' = pipe_end /\ up' = up /\ state' = state
    BY <1>8 DEF UpcallRead, sockets
  <2>2. CASE UNCHANGED <<input, got, dropped>>
    BY <2>1, <2>2
  <2>3. CASE ~ UNCHANGED <<input, got, dropped>>
    <3>1. PICK length : Delivers(c, length)
      BY <1>8, <2>3, UpcallReadEffect
    <3>2. Len(input[c]) >= HeaderSize
      BY <3>1 DEF Delivers
    <3>3. input[c] # <<>>
      BY <3>2, Constants, EmptySeq
    <3>4. pipe_end[c] \notin {"none", "backlog"} /\ client_end[c] # "closed"
      BY <1>1, <3>3 DEF Ends
    <3>5. dropped'[c] # <<>> => state[c] # "open"
      BY <1>1, <3>1 DEF Ends, Delivers
    <3>6. Ends(c)'
      BY <1>1, <2>1, <3>4, <3>5 DEF Ends
    <3>7. \A d \in Clients : d # c => input'[d] = input[d] /\ got'[d] = got[d] /\ dropped'[d] = dropped[d]
      BY <3>1 DEF Delivers
    <3>8. QED
      BY <2>1, <3>6, <3>7
  <2>4. QED
    BY <2>2, <2>3
<1>9. CASE DowncallRead(c)
  BY <1>9 DEF DowncallRead
<1>10. CASE Pause(c)
  <2>1. /\ state[c] = "open" /\ state' = [state EXCEPT ![c] = "paused"]
        /\ client_end' = client_end /\ pipe_end' = pipe_end
        /\ up' = up /\ input' = input /\ got' = got /\ dropped' = dropped
    BY <1>10 DEF Pause, sockets
  <2>2. state'[c] = "paused"
    BY <1>3, <2>1
  <2>3. Ends(c)'
    BY <1>1, <2>1, <2>2 DEF Ends
  <2>4. QED
    BY <1>3, <2>1, <2>3
<1>11. CASE Closer(c)
  <2>1. /\ c \in Closers /\ state[c] \in {"open", "paused"}
        /\ pipe_end' = pipe_end /\ got' = got /\ dropped' = dropped
    BY <1>11 DEF Closer
  <2>2. up'[c] = <<>> /\ input'[c] = <<>> /\ state'[c] = "closed" /\ client_end'[c] = "closed"
    BY <1>11, CloserEffect
  <2>3. \A d \in Clients : d # c => /\ up'[d] = up[d] /\ input'[d] = input[d]
                                    /\ state'[d] = state[d] /\ client_end'[d] = client_end[d]
    BY <1>11, CloserEffect
  <2>4. Ends(c)'
    BY <1>1, <2>1, <2>2 DEF Ends
  <2>5. QED
    BY <2>1, <2>3, <2>4
<1>12. QED
  BY <1>4, <1>5, <1>6, <1>7, <1>8, <1>9, <1>10, <1>11, Zenon DEF AtClient

(* A step of the pipe leaves the connections alone and writes to clients   *)
(* that have a slot and whose connection is not closed.                    *)
LEMMA EndsOfPipe ==
    ASSUME EndsAgree, Apart, client_end' = client_end, pipe_end' = pipe_end, caller' = caller,
           \A c \in Clients : up'[c] = up[c] \/ (pipe_end[c] = "open" /\ client_end[c] # "closed")
    PROVE  EndsAgree'
<1>1. SUFFICES ASSUME NEW c \in Clients PROVE Ends(c)'
  BY DEF EndsAgree
<1>2. Ends(c) /\ (up'[c] = up[c] \/ (pipe_end[c] = "open" /\ client_end[c] # "closed"))
  BY DEF EndsAgree
<1>3. state' = state /\ input' = input /\ got' = got /\ dropped' = dropped
  BY ApartFrame
<1>4. QED
  BY <1>2, <1>3 DEF Ends

LEMMA EndsKept ==
    ASSUME Typed, ThreadIsKnown, SlotsAreUsed, EndsAgree, [Next]_vars
    PROVE  EndsAgree'
<1>1. ASSUME NEW c \in Clients, AtClient(c), Idle PROVE EndsAgree'
  BY <1>1, EndsOfClient
<1>2. pipe_end \in [Clients -> {"none", "backlog", "open", "closed"}]
  BY DEF Typed, SocketsTyped
<1>3. ASSUME NEW c \in Clients, Listener(c), Apart PROVE EndsAgree'
  <2>1. /\ UNCHANGED <<client_end, up, caller>> /\ router = "running" /\ pipe_end[c] = "backlog"
        /\ pipe_end' \in {pipe_end, [pipe_end EXCEPT ![c] = "open"]}
    BY <1>3, ListenerEffect DEF PipeCalm, threadVars
  <2>2. caller # "done"
    BY <2>1 DEF ThreadIsKnown
  <2>3. \A d \in Clients : d # c => pipe_end'[d] = pipe_end[d]
    BY <1>2, <2>1
  <2>4. pipe_end'[c] \in {"backlog", "open"}
    BY <1>2, <2>1
  <2>5. state' = state /\ input' = input /\ got' = got /\ dropped' = dropped
    BY <1>3, ApartFrame
  <2>6. ASSUME NEW d \in Clients, d # c PROVE Ends(d)'
    BY <2>1, <2>3, <2>5, <2>6 DEF EndsAgree, Ends
  <2>7. Ends(c)'
    <3>1. Ends(c)
      BY DEF EndsAgree
    <3>2. QED
      BY <2>1, <2>2, <2>4, <2>5, <3>1 DEF Ends
  <2>8. QED
    BY <2>6, <2>7 DEF EndsAgree
<1>4. ASSUME NEW i \in Slots, ConnError(i), Apart PROVE EndsAgree'
  <2>0. PICK c \in Clients : c = conns[i].client_fd
    BY <1>4, ConnErrorEffect
  <2>1. /\ UNCHANGED <<client_end, up, caller>> /\ client_end[c] = "closed"
        /\ pipe_end' = [pipe_end EXCEPT ![c] = "closed"] /\ router = "running"
    BY <1>4, <2>0, ConnErrorEffect DEF PipeCalm, threadVars
  <2>2. caller # "done"
    BY <2>1 DEF ThreadIsKnown
  <2>3. pipe_end'[c] = "closed" /\ \A d \in Clients : d # c => pipe_end'[d] = pipe_end[d]
    BY <1>2, <2>1
  <2>5. state' = state /\ input' = input /\ got' = got /\ dropped' = dropped
    BY <1>4, ApartFrame
  <2>6. ASSUME NEW d \in Clients, d # c PROVE Ends(d)'
    BY <2>1, <2>3, <2>5, <2>6 DEF EndsAgree, Ends
  <2>7. Ends(c)'
    <3>1. Ends(c)
      BY <2>1 DEF EndsAgree
    <3>2. QED
      BY <2>1, <2>2, <2>3, <2>5, <3>1 DEF Ends
  <2>8. QED
    BY <2>6, <2>7 DEF EndsAgree
<1>5. ASSUME NEW i \in Slots, ConnRead(i), Apart PROVE EndsAgree'
  <2>1. UNCHANGED <<client_end, pipe_end, up, caller>>
    BY <1>5, ConnReadEffect DEF threadVars
  <2>2. QED
    BY <1>5, <2>1, EndsOfPipe
<1>6. ASSUME NEW i \in Slots, SingleRead(i), Apart PROVE EndsAgree'
  <2>1. UNCHANGED <<client_end, pipe_end, caller>>
    BY <1>6, SingleReadEffect DEF threadVars
  <2>2. PICK length : ReadsAs(i, length)
    BY <1>6, SingleReadEffect
  <2>3. up' = up \/ Reflects(i, Prefix(conns[i].input, HeaderSize + length))
    BY <2>2, Zenon DEF ReadsAs, Refuses, Awaits, Delays_
  <2>4. ASSUME NEW c \in Clients, up'[c] # up[c] PROVE pipe_end[c] = "open" /\ client_end[c] # "closed"
    <3>1. c \in {conns[j].client_fd : j \in Others(i)} /\ client_end[c] # "closed"
      BY <2>3, <2>4 DEF Reflects, ReflectWrites
    <3>2. \E j \in Slots : conns[j].client_fd = c
      BY <3>1 DEF Others
    <3>3. QED
      BY <3>1, <3>2 DEF SlotsAreUsed, OpenHasSlot
  <2>5. QED
    BY <1>6, <2>1, <2>4, EndsOfPipe
<1>7. ASSUME NEW i \in Slots, Timer(i), Apart PROVE EndsAgree'
  <2>1. UNCHANGED <<client_end, pipe_end, caller>> /\ \A c \in Clients : TimerWrites(c, i)
    BY <1>7, TimerEffect DEF threadVars
  <2>2. ASSUME NEW c \in Clients, up'[c] # up[c] PROVE pipe_end[c] = "open" /\ client_end[c] # "closed"
    <3>1. conns[i].client_fd = c /\ client_end[c] # "closed"
      BY <2>1, <2>2 DEF TimerWrites
    <3>2. QED
      BY <3>1 DEF SlotsAreUsed, OpenHasSlot
  <2>3. QED
    BY <1>7, <2>1, <2>2, EndsOfPipe
<1>8. CASE AtThread /\ Apart
  <2>1. UNCHANGED sockets
    BY <1>8, ThreadFrame
  <2>2. state' = state /\ input' = input /\ got' = got /\ dropped' = dropped
    BY <1>8, ApartFrame
  <2>3. caller' = "done" <=> caller = "done"
    BY <1>8 DEF AtThread, KeepAlive, RunEnds, StartWaits, StopWaits, Params, Start, Stop, Signal, Signalled, threadVars
  <2>4. QED
    BY <2>1, <2>2, <2>3, EndsSame DEF EndsAgree, sockets
<1>9. CASE Tick /\ Apart
  <2>1. UNCHANGED <<client_end, pipe_end, up, caller>>
    BY <1>9, TickEffect DEF threadVars, sockets
  <2>2. QED
    BY <1>9, <2>1, EndsOfPipe
<1>10. CASE Destroy /\ Apart
  <2>1. /\ caller' = "done" /\ client_end' = client_end
        /\ pipe_end' = [c \in Clients |-> IF pipe_end[c] = "none" THEN "none" ELSE "closed"]
        /\ \A c \in Clients : \E n \in 0 .. Len(up[c]) : up'[c] = Prefix(up[c], n)
    BY <1>10, DestroyEffect
  <2>2. state' = state /\ input' = input /\ got' = got /\ dropped' = dropped
    BY <1>10, ApartFrame
  <2>3. ASSUME NEW c \in Clients PROVE Ends(c)'
    <3>1. Ends(c) /\ pipe_end'[c] = IF pipe_end[c] = "none" THEN "none" ELSE "closed"
      BY <2>1 DEF EndsAgree
    <3>2. up[c] = <<>> => up'[c] = <<>>
      BY <2>1, EmptySeq DEF Prefix
    <3>3. QED
      BY <2>1, <2>2, <3>1, <3>2 DEF Ends
  <2>4. QED
    BY <2>3 DEF EndsAgree
<1>11. CASE UNCHANGED vars
  BY <1>11, EndsSame DEF vars, sockets, pipeVars, threadVars, connVars, EndsAgree
<1>12. QED
  BY <1>1, <1>3, <1>4, <1>5, <1>6, <1>7, <1>8, <1>9, <1>10, <1>11, Steps, Zenon DEF AtSlot

-----------------------------------------------------------------------------
(* The counters *)

Counted(conn) ==
    /\ conn.count_in_queue = Len(conn.output_queue)
    /\ conn.bytes_in_queue = SizeOf(conn.output_queue)
    /\ conn.output_queue # <<>> => SizeOf(conn.output_queue) < buffer_bytes /\ use_params

(* The counters of a slot describe its queue, which there is only with     *)
(* bentpipe_Params and which stays below buffer_bytes.                     *)
QueuesAreCounted == \A i \in Slots : Counted(conns[i])

LEMMA CountedSame ==
    ASSUME NEW conn, Counted(conn), NEW x, SameQueue(x, conn), use_params' = use_params,
           buffer_bytes' = buffer_bytes
    PROVE  /\ x.count_in_queue = Len(x.output_queue)
           /\ x.bytes_in_queue = SizeOf(x.output_queue)
           /\ x.output_queue # <<>> => SizeOf(x.output_queue) < buffer_bytes' /\ use_params'
BY DEF Counted, SameQueue

LEMMA QueuesSame ==
    ASSUME QueuesAreCounted, use_params' = use_params, buffer_bytes' = buffer_bytes,
           \A i \in Slots : SameQueue(conns'[i], conns[i])
    PROVE  QueuesAreCounted'
<1>1. SUFFICES ASSUME NEW i \in Slots PROVE Counted(conns[i])'
  BY DEF QueuesAreCounted
<1>2. Counted(conns[i]) /\ SameQueue(conns'[i], conns[i])
  BY DEF QueuesAreCounted
<1>3. QED
  BY <1>2, CountedSame DEF Counted

LEMMA CountedEnqueued ==
    ASSUME NEW conn \in SlotType, Counted(conn), NEW pbuff \in Seq(Units) \ {<<>>}, NEW fate \in Waits,
           NEW x, Enqueued(x, conn, pbuff, fate)
    PROVE  /\ x.count_in_queue = Len(x.output_queue)
           /\ x.bytes_in_queue = SizeOf(x.output_queue)
           /\ SizeOf(x.output_queue) < buffer_bytes
<1> DEFINE w == [pbuff |-> pbuff, wait |-> fate]
<1>1. conn.output_queue \in Seq(Waiting) /\ w \in Waiting /\ w.pbuff = pbuff
  BY SlotFields DEF Waiting
<1>2. x.output_queue = conn.output_queue \o <<w>>
  BY DEF Enqueued
<1> HIDE DEF w
<1>3. <<w>> \in Seq(Waiting) /\ Len(<<w>>) = 1 /\ SizeOf(<<w>>) = Len(pbuff)
  BY <1>1, SizeFacts
<1>4. SizeOf(x.output_queue) = SizeOf(conn.output_queue) + Len(pbuff)
  BY <1>1, <1>2, <1>3, SizeFacts
<1>5. Len(x.output_queue) = Len(conn.output_queue) + 1
  BY <1>1, <1>2, <1>3, ConcatProperties
<1>6. Len(pbuff) \in Nat /\ SizeOf(conn.output_queue) \in Nat
  BY <1>1, SizeFacts, ElementsOf
<1>7. Len(pbuff) + SizeOf(conn.output_queue) < buffer_bytes
  BY DEF Enqueued, Counted
<1>8. SizeOf(x.output_queue) < buffer_bytes
  <2>1. SizeOf(conn.output_queue) + Len(pbuff) = Len(pbuff) + SizeOf(conn.output_queue)
    BY <1>6
  <2>2. QED
    BY <1>4, <1>7, <2>1, Zenon
<1>9. QED
  BY <1>4, <1>5, <1>8 DEF Enqueued, Counted

LEMMA CountedDequeued ==
    ASSUME NEW conn \in SlotType, Counted(conn), NEW n \in 0 .. Len(conn.output_queue), buffer_bytes \in Nat,
           NEW x,
           /\ x.output_queue = Rest(conn.output_queue, n)
           /\ x.bytes_in_queue = conn.bytes_in_queue - SizeOf(Prefix(conn.output_queue, n))
           /\ x.count_in_queue = conn.count_in_queue - n
    PROVE  Counted(x)
<1> DEFINE q == conn.output_queue
           p == Prefix(q, n)
           r == Rest(q, n)
<1>1. q \in Seq(Waiting)
  BY SlotFields
<1>2. p \in Seq(Waiting) /\ r \in Seq(Waiting) /\ Len(r) = Len(q) - n /\ q = p \o r
  BY <1>1, CutElements, CutConcat, ZenonT(60)
<1> HIDE DEF p, r
<1>3. SizeOf(q) = SizeOf(p) + SizeOf(r) /\ SizeOf(p) \in Nat /\ SizeOf(r) \in Nat /\ SizeOf(q) \in Nat
  BY <1>1, <1>2, SizeFacts
<1>4. x.bytes_in_queue = SizeOf(r) /\ x.count_in_queue = Len(r) /\ x.output_queue = r
  <2>1. conn.bytes_in_queue = SizeOf(q) /\ conn.count_in_queue = Len(q)
    BY DEF Counted
  <2>2. x.bytes_in_queue = SizeOf(q) - SizeOf(p) /\ x.count_in_queue = Len(q) - n /\ x.output_queue = r
    BY <2>1 DEF p, r
  <2>3. QED
    BY <1>2, <1>3, <2>2
<1>5. r # <<>> => q # <<>>
  <2>1. SUFFICES ASSUME q = <<>> PROVE r = <<>>
    OBVIOUS
  <2>2. Len(r) = 0
    BY <1>1, <1>2, <2>1, EmptySeq, ElementsOf
  <2>3. QED
    BY <1>2, <2>2, EmptySeq
<1>6. q # <<>> => SizeOf(q) < buffer_bytes /\ use_params
  BY Zenon DEF Counted
<1>7. r # <<>> => SizeOf(r) < buffer_bytes
  BY <1>3, <1>5, <1>6
<1>8. QED
  BY <1>4, <1>5, <1>6, <1>7, Zenon DEF Counted

LEMMA QueuesKept ==
    ASSUME Typed, QueuesAreCounted, [Next]_vars
    PROVE  QueuesAreCounted'
<1>1. /\ \A i \in Slots : conns[i] \in SlotType
      /\ buffer_bytes \in Nat
  BY DEF Typed, PipeTyped
<1>2. ASSUME NEW c \in Clients, AtClient(c), Idle PROVE QueuesAreCounted'
  BY <1>2, IdleFrame, QueuesSame DEF SameQueue
<1>3. ASSUME NEW i \in Slots, UNCHANGED <<use_params, buffer_bytes>>, OnlySlot(i), SameQueue(conns'[i], conns[i])
      PROVE  QueuesAreCounted'
  BY <1>3, QueuesSame DEF OnlySlot, SameQueue
<1>4. ASSUME NEW c \in Clients, Listener(c) PROVE QueuesAreCounted'
  <2>1. UNCHANGED <<use_params, buffer_bytes>>
    BY <1>4, ListenerEffect
  <2>2. \/ conns' = conns
        \/ \E i \in Slots : OnlySlot(i) /\ SameQueue(conns'[i], conns[i])
    BY <1>4, ListenerEffect
  <2>3. QED
    BY <1>3, <2>1, <2>2, QueuesSame DEF SameQueue
<1>5. ASSUME NEW i \in Slots, ConnError(i) PROVE QueuesAreCounted'
  <2>1. /\ UNCHANGED <<use_params, buffer_bytes>> /\ OnlySlot(i)
        /\ conns'[i].output_queue = conns[i].output_queue
        /\ conns'[i].bytes_in_queue = conns[i].bytes_in_queue
        /\ conns'[i].count_in_queue = conns[i].count_in_queue
    BY <1>5, ConnErrorEffect
  <2>2. ASSUME NEW j \in Slots PROVE Counted(conns[j])'
    <3>1. /\ conns'[j].output_queue = conns[j].output_queue
          /\ conns'[j].bytes_in_queue = conns[j].bytes_in_queue
          /\ conns'[j].count_in_queue = conns[j].count_in_queue
      BY <2>1 DEF OnlySlot
    <3>2. Counted(conns[j])
      BY DEF QueuesAreCounted
    <3>3. QED
      BY <2>1, <3>1, <3>2 DEF Counted
  <2>3. QED
    BY <2>2 DEF QueuesAreCounted
<1>6. ASSUME NEW i \in Slots, ConnRead(i) PROVE QueuesAreCounted'
  BY <1>3, <1>6, ConnReadEffect
<1>7. ASSUME NEW i \in Slots, SingleRead(i) PROVE QueuesAreCounted'
  <2>1. use_params' = use_params /\ buffer_bytes' = buffer_bytes
    BY <1>7, SingleReadEffect
  <2>2. PICK length : ReadsAs(i, length)
    BY <1>7, SingleReadEffect
  <2> DEFINE p == Prefix(conns[i].input, HeaderSize + length)
  <2>3. CASE Refuses(i, length)
    BY <2>1, <2>3, QueuesSame DEF Refuses, SameQueue
  <2>4. CASE Awaits(i, length)
    BY <1>3, <2>1, <2>4 DEF Awaits
  <2>5. CASE Takes(i, length) /\ ~ use_params /\ Reflects(i, p)
    BY <1>3, <2>1, <2>5 DEF Takes, Reflects
  <2>6. CASE Takes(i, length) /\ use_params /\ Delays_(i, p)
    <3>1. conns[i].input \in Seq(Units)
      BY <1>1, SlotFields
    <3>2. HeaderSize + length \in 1 .. Len(conns[i].input) /\ SameQueue(conns'[i], conns[i])
      BY <2>6 DEF Takes
    <3>3. HeaderSize + length \in 0 .. Len(conns[i].input)
      BY <3>1, <3>2, ElementsOf
    <3>4. p \in Seq(Units) /\ Len(p) = HeaderSize + length
      BY <3>1, <3>3, CutElements
    <3>5. p # <<>>
      BY <3>2, <3>4, EmptySeq
    <3> HIDE DEF p
    <3>6. ASSUME NEW j \in Slots PROVE Counted(conns[j])'
      <4>1. Counted(conns[j]) /\ conns[j] \in SlotType
        BY <1>1 DEF QueuesAreCounted
      <4>2. CASE SameQueue(conns'[j], conns[j])
        BY <2>1, <4>1, <4>2, CountedSame DEF Counted
      <4>3. CASE ~ SameQueue(conns'[j], conns[j])
        <5>1. PICK fate \in Delays : Enqueued(conns'[j], conns[j], p, fate)
          BY <2>6, <3>2, <4>3 DEF Delays_, SameQueue
        <5>2. fate \in Waits
          BY Numbered
        <5>3. /\ conns'[j].count_in_queue = Len(conns'[j].output_queue)
              /\ conns'[j].bytes_in_queue = SizeOf(conns'[j].output_queue)
              /\ SizeOf(conns'[j].output_queue) < buffer_bytes
          BY <3>4, <3>5, <4>1, <5>1, <5>2, CountedEnqueued
        <5>4. QED
          BY <2>1, <2>6, <5>3, Zenon DEF Counted
      <4>4. QED
        BY <4>2, <4>3
    <3>7. QED
      BY <3>6 DEF QueuesAreCounted
  <2>7. QED
    BY <2>2, <2>3, <2>4, <2>5, <2>6, Zenon DEF ReadsAs
<1>8. ASSUME NEW i \in Slots, Timer(i) PROVE QueuesAreCounted'
  <2> DEFINE n == Due(conns[i].output_queue)
  <2>1. /\ use_params' = use_params /\ buffer_bytes' = buffer_bytes /\ OnlySlot(i)
        /\ conns'[i].output_queue = Rest(conns[i].output_queue, n)
        /\ conns'[i].bytes_in_queue = conns[i].bytes_in_queue - SizeOf(Prefix(conns[i].output_queue, n))
        /\ conns'[i].count_in_queue = conns[i].count_in_queue - n
    BY <1>8, TimerEffect
  <2>2. n \in 0 .. Len(conns[i].output_queue)
    BY <1>1, SlotFields, DueType
  <2> HIDE DEF n
  <2>3. \A j \in Slots : Counted(conns[j])
    BY DEF QueuesAreCounted
  <2>4. Counted(conns'[i])
    BY <1>1, <2>1, <2>2, <2>3, CountedDequeued
  <2>5. Counted(conns[i])'
    BY <2>1, <2>4 DEF Counted
  <2>6. ASSUME NEW j \in Slots, j # i PROVE Counted(conns[j])'
    <3>1. conns'[j] = conns[j] /\ Counted(conns[j])
      BY <2>1, <2>3, <2>6 DEF OnlySlot
    <3>2. QED
      BY <2>1, <3>1 DEF Counted
  <2>7. QED
    BY <2>5, <2>6 DEF QueuesAreCounted
<1>9. CASE AtThread
  <2>1. conns' = conns
    BY <1>9, ThreadFrame
  <2>2. CASE Params
    <3>1. ~ use_params
      BY <2>2 DEF Params
    <3>2. \A i \in Slots : Counted(conns[i]) /\ conns[i].output_queue = <<>>
      BY <3>1 DEF QueuesAreCounted, Counted
    <3>3. QED
      BY <2>1, <3>2 DEF QueuesAreCounted, Counted
  <2>3. CASE ~ Params
    <3>1. use_params' = use_params /\ buffer_bytes' = buffer_bytes
      BY <1>9, <2>3, Zenon DEF AtThread, KeepAlive, RunEnds, StartWaits, StopWaits, Start, Stop, slotVars
    <3>2. QED
      BY <2>1, <3>1, QueuesSame DEF SameQueue
  <2>4. QED
    BY <2>2, <2>3
<1>10. CASE Tick
  <2>1. /\ use_params' = use_params /\ buffer_bytes' = buffer_bytes
        /\ \A i \in Slots : /\ conns'[i].bytes_in_queue = conns[i].bytes_in_queue
                            /\ conns'[i].count_in_queue = conns[i].count_in_queue
                            /\ conns'[i].output_queue = Aged(conns[i].output_queue)
    BY <1>10, TickEffect
  <2>2. ASSUME NEW i \in Slots PROVE Counted(conns[i])'
    <3> DEFINE q == conns[i].output_queue
    <3>1. q \in Seq(Waiting)
      BY <1>1, SlotFields
    <3>2. Len(Aged(q)) = Len(q) /\ SizeOf(Aged(q)) = SizeOf(q) /\ (q = <<>> => Aged(q) = <<>>)
      <4>1. Len(Aged(q)) = Len(q) /\ Packets(Aged(q)) = Packets(q) /\ Aged(q) \in Seq(Waiting)
        BY <3>1, AgedQueue
      <4>2. q = <<>> => Aged(q) = <<>>
        BY <3>1, <4>1, EmptySeq
      <4>3. QED
        BY <4>1, <4>2 DEF SizeOf
    <3>3. Counted(conns[i])
      BY DEF QueuesAreCounted
    <3>4. QED
      BY <2>1, <3>2, <3>3 DEF Counted
  <2>3. QED
    BY <2>2 DEF QueuesAreCounted
<1>11. CASE Destroy
  <2>1. conns' = [i \in Slots |-> NewConn]
    BY <1>11, DestroyEffect
  <2>2. ASSUME NEW i \in Slots PROVE Counted(conns[i])'
    BY <2>1, SizeFacts, EmptySeq DEF Counted, NewConn
  <2>3. QED
    BY <2>2 DEF QueuesAreCounted
<1>12. CASE UNCHANGED vars
  <2>1. conns' = conns /\ use_params' = use_params /\ buffer_bytes' = buffer_bytes
    BY <1>12 DEF vars, pipeVars, slotVars
  <2>2. QED
    BY <2>1, QueuesSame DEF SameQueue
<1>13. QED
  BY <1>2, <1>4, <1>5, <1>6, <1>7, <1>8, <1>9, <1>10, <1>11, <1>12, Steps, Zenon DEF AtSlot

-----------------------------------------------------------------------------
(* What holds whatever the constants are *)

Base == Typed /\ ThreadIsKnown /\ SlotsAreUsed /\ EndsAgree /\ QueuesAreCounted

LEMMA BaseInit == Init => Base
<1>1. SUFFICES ASSUME Init PROVE Base
  OBVIOUS
<1>2. /\ conns = [i \in Slots |-> NewConn] /\ conn_count = 0 /\ reading = 0 /\ router = "none"
      /\ ~ startup_running /\ caller = "created"
  BY <1>1 DEF Init, PipeInit
<1>3. \A i \in Slots : /\ conns[i].client_fd = None /\ conns[i].input = <<>> /\ conns[i].output_queue = <<>>
                       /\ conns[i].bytes_in_queue = 0 /\ conns[i].count_in_queue = 0
  BY <1>2 DEF NewConn
<1>4. /\ client_end = [c \in Clients |-> "new"] /\ pipe_end = [c \in Clients |-> "none"]
      /\ up = [c \in Clients |-> <<>>] /\ state = [c \in Clients |-> "new"]
      /\ input = [c \in Clients |-> <<>>] /\ got = [c \in Clients |-> <<>>]
      /\ dropped = [c \in Clients |-> <<>>]
  BY <1>1 DEF Init, SocketInit, ConnectorInit
<1>5. ThreadIsKnown
  BY <1>2 DEF ThreadIsKnown
<1>6. SlotsAreUsed
  <2>1. InUse = {}
    BY <1>3 DEF InUse
  <2>2. conn_count = Cardinality(InUse)
    BY <1>2, <2>1, FS_EmptySet
  <2>3. OneSlotEach /\ UnusedIsEmpty
    BY <1>3 DEF OneSlotEach, UnusedIsEmpty
  <2>4. OpenHasSlot
    BY <1>3, <1>4, Constants DEF OpenHasSlot
  <2>5. QED
    BY <2>2, <2>3, <2>4 DEF SlotsAreUsed
<1>7. EndsAgree
  BY <1>2, <1>4 DEF EndsAgree, Ends
<1>8. QueuesAreCounted
  BY <1>3, SizeFacts, EmptySeq DEF QueuesAreCounted, Counted
<1>9. QED
  BY <1>1, <1>5, <1>6, <1>7, <1>8, InitTyped DEF Base

LEMMA BaseKept == Base /\ [Next]_vars => Base'
BY TypedStep, ThreadKept, SlotsKept, EndsKept, QueuesKept DEF Base

LEMMA AlwaysBase == Spec => []Base
<1>1. QED
  BY BaseInit, BaseKept, PTL DEF Spec

(* Every variable keeps its type, whatever the pipe and the connections    *)
(* do: the count of clients stays within conns[MAX_CONN], the queue of a   *)
(* slot below buffer_bytes, and a length that is kept is the length of     *)
(* some message.                                                           *)
THEOREM LocalPipeTypes == Spec => []TypeOK
<1>1. Base => TypeOK
  <2>1. SUFFICES ASSUME Base PROVE TypeOK
    OBVIOUS
  <2>2. SocketsTyped /\ ConnectorTyped /\ PipeTyped
    BY <2>1 DEF Base, Typed
  <2>3. SocketTypeOK
    <3>1. \A c \in Clients : pipe_end[c] = "none" => client_end[c] = "new"
      BY <2>1 DEF Base, EndsAgree, Ends
    <3>2. QED
      BY <2>2, <3>1 DEF SocketsTyped, SocketTypeOK
  <2>4. conn_count \in 0 .. MaxConn
    BY <2>1, InUseFinite DEF Base, SlotsAreUsed
  <2>5. ASSUME NEW i \in Slots
        PROVE  /\ conns[i].client_fd \in Clients \cup {None}
               /\ conns[i].msg_length \in Lengths \cup {0}
               /\ conns[i].bytes_in_queue \in Nat
               /\ conns[i].count_in_queue \in 0 .. conns[i].bytes_in_queue
               /\ conns[i].bytes_in_queue = 0 \/ conns[i].bytes_in_queue < buffer_bytes
               /\ conns[i].timer_event \in Waits \cup {Off}
               /\ \A k \in DOMAIN conns[i].output_queue : conns[i].output_queue[k].wait \in Waits
    <3> DEFINE q == conns[i].output_queue
    <3>1. conns[i] \in SlotType
      BY <2>2 DEF PipeTyped
    <3>2. q \in Seq(Waiting)
      BY <3>1, SlotFields
    <3>3. /\ conns[i].count_in_queue = Len(q) /\ conns[i].bytes_in_queue = SizeOf(q)
          /\ q # <<>> => SizeOf(q) < buffer_bytes
      BY <2>1, Zenon DEF Base, QueuesAreCounted, Counted
    <3>4. Len(q) \in Nat /\ SizeOf(q) \in Nat /\ Len(q) <= SizeOf(q) /\ (q = <<>> => SizeOf(q) = 0)
      BY <3>2, SizeFacts, SizeBounds, ElementsOf
    <3>5. \A k \in DOMAIN q : q[k].wait \in Waits
      <4>1. \A k \in DOMAIN q : q[k] \in Waiting
        BY <3>2, ElementsOf
      <4>2. QED
        BY <4>1 DEF Waiting
    <3>6. /\ conns[i].client_fd \in Clients \cup {None} /\ conns[i].msg_length \in Lengths \cup {0}
          /\ conns[i].timer_event \in Waits \cup {Off}
      BY <3>1, SlotFields
    <3> HIDE DEF q
    <3>7. /\ conns[i].bytes_in_queue \in Nat
          /\ conns[i].count_in_queue \in 0 .. conns[i].bytes_in_queue
          /\ conns[i].bytes_in_queue = 0 \/ conns[i].bytes_in_queue < buffer_bytes
      BY <3>3, <3>4
    <3>8. QED
      BY <3>5, <3>6, <3>7, Zenon DEF q
  <2>6. DOMAIN conns = Slots
    BY <2>2 DEF PipeTyped
  <2>7. PipeTypeOK
    BY <2>2, <2>4, <2>5, <2>6, Zenon DEF PipeTypeOK, PipeTyped
  <2>8. QED
    BY <2>2, <2>3, <2>7, Zenon DEF TypeOK, ConnectorTyped
<1>2. QED
  BY <1>1, AlwaysBase, PTL

(* The counters that bent_pipe.c keeps by hand say what they stand for, in *)
(* every state: conn_count is the number of slots in use, a client has a   *)
(* slot as long as its socket is open and never two, and the counters of a *)
(* queue are its length and its size, which is below buffer_bytes.         *)
THEOREM LocalPipeCounts == Spec => []CountsAgree
<1>1. Base => CountsAgree
  <2>1. SUFFICES ASSUME Base PROVE CountsAgree
    OBVIOUS
  <2>2. conn_count = Cardinality({i \in Slots : conns[i].client_fd # None})
    BY <2>1 DEF Base, SlotsAreUsed, InUse
  <2>3. ASSUME NEW c \in Clients
        PROVE  Cardinality(SlotOf(c)) = IF pipe_end[c] = "open" THEN 1 ELSE 0
    <3>1. pipe_end[c] = "open" <=> \E i \in Slots : conns[i].client_fd = c
      BY <2>1 DEF Base, SlotsAreUsed, OpenHasSlot
    <3>2. CASE pipe_end[c] = "open"
      <4>1. PICK i \in Slots : conns[i].client_fd = c
        BY <3>1, <3>2
      <4>2. \A j \in Slots : conns[j].client_fd = c => j = i
        BY <2>1, <4>1, Constants DEF Base, SlotsAreUsed, OneSlotEach
      <4>3. SlotOf(c) = {i}
        BY <4>1, <4>2 DEF SlotOf
      <4>4. QED
        BY <3>2, <4>3, FS_Singleton
    <3>3. CASE pipe_end[c] # "open"
      <4>1. SlotOf(c) = {}
        BY <3>1, <3>3 DEF SlotOf
      <4>2. QED
        BY <3>3, <4>1, FS_EmptySet
    <3>4. QED
      BY <3>2, <3>3
  <2>4. ASSUME NEW i \in Slots
        PROVE  LET queue == conns[i].output_queue IN
                 /\ conns[i].count_in_queue = Len(queue)
                 /\ conns[i].bytes_in_queue = SizeOf(queue)
                 /\ queue # <<>> => SizeOf(queue) < buffer_bytes
    BY <2>1, Zenon DEF Base, QueuesAreCounted, Counted
  <2>5. QED
    BY <2>2, <2>3, <2>4, Zenon DEF CountsAgree
<1>2. QED
  BY <1>1, AlwaysBase, PTL

-----------------------------------------------------------------------------
(* What a step does to the queue of a slot *)

Keeps(j) == /\ SameQueue(conns'[j], conns[j])
            /\ conns'[j].client_fd = conns[j].client_fd \/ conns[j].client_fd = None

Releases(j) == /\ conns'[j].output_queue = conns[j].output_queue
               /\ conns'[j].timer_event = Off /\ conns'[j].client_fd = None
               /\ conns[j].client_fd \in Clients /\ client_end[conns[j].client_fd] = "closed"

Grows(j, i, length) ==
    /\ Finds(conns[i], length) /\ Takes(i, length) /\ j \in Others(i) /\ reading = i
    /\ \E fate \in Delays : Enqueued(conns'[j], conns[j], Prefix(conns[i].input, HeaderSize + length), fate)
    /\ conns'[j].client_fd = conns[j].client_fd

Shrinks(j) == LET queue == conns[j].output_queue IN
    /\ conns'[j].output_queue = Rest(queue, Due(queue))
    /\ conns'[j].timer_event = TimerSet(Rest(queue, Due(queue)))
    /\ conns'[j].client_fd = conns[j].client_fd

Ages(j) == /\ conns'[j].output_queue = Aged(conns[j].output_queue)
           /\ conns'[j].timer_event = Sooner(conns[j].timer_event)
           /\ conns'[j].client_fd = conns[j].client_fd

QueueStep(j) == \/ Keeps(j) \/ Releases(j) \/ Shrinks(j) \/ Ages(j) \/ conns'[j] = NewConn
                \/ \E i \in Slots : \E length : Grows(j, i, length)

LEMMA KeptOnly ==
    ASSUME NEW i \in Slots, OnlySlot(i), NEW j \in Slots, j # i
    PROVE  Keeps(j)
BY DEF OnlySlot, Keeps, SameQueue

LEMMA KeptAll ==
    ASSUME conns' = conns, NEW j \in Slots
    PROVE  Keeps(j)
BY DEF Keeps, SameQueue

LEMMA QueueSteps ==
    ASSUME Typed, [Next]_vars, NEW j \in Slots
    PROVE  QueueStep(j)
<1>1. ASSUME NEW c \in Clients, AtClient(c), Idle PROVE Keeps(j)
  BY <1>1, IdleFrame, KeptAll
<1>2. ASSUME NEW c \in Clients, Listener(c) PROVE Keeps(j)
  <2>1. CASE conns' = conns
    BY <2>1, KeptAll
  <2>2. CASE conns' # conns
    <3>1. PICK i \in Slots : conns[i].client_fd = None /\ OnlySlot(i) /\ SameQueue(conns'[i], conns[i])
      BY <1>2, <2>2, ListenerEffect
    <3>2. CASE j = i
      BY <3>1, <3>2 DEF Keeps
    <3>3. QED
      BY <3>1, <3>2, KeptOnly
  <2>3. QED
    BY <2>1, <2>2
<1>3. ASSUME NEW i \in Slots, ConnError(i) PROVE Keeps(j) \/ Releases(j)
  <2>1. CASE j = i
    BY <1>3, <2>1, ConnErrorEffect DEF Releases
  <2>2. CASE j # i
    BY <1>3, <2>2, ConnErrorEffect, KeptOnly
  <2>3. QED
    BY <2>1, <2>2
<1>4. ASSUME NEW i \in Slots, ConnRead(i) PROVE Keeps(j)
  <2>1. CASE j = i
    BY <1>4, <2>1, ConnReadEffect DEF Keeps
  <2>2. CASE j # i
    BY <1>4, <2>2, ConnReadEffect, KeptOnly
  <2>3. QED
    BY <2>1, <2>2
<1>5. ASSUME NEW i \in Slots, SingleRead(i) PROVE Keeps(j) \/ \E length : Grows(j, i, length)
  <2>1. PICK length : ReadsAs(i, length)
    BY <1>5, SingleReadEffect
  <2> DEFINE p == Prefix(conns[i].input, HeaderSize + length)
  <2>2. CASE Refuses(i, length)
    BY <2>2, KeptAll DEF Refuses
  <2>3. CASE Awaits(i, length)
    <3>1. Keeps(i)
      BY <2>3 DEF Awaits, Keeps
    <3>2. QED
      BY <2>3, <3>1, KeptOnly DEF Awaits
  <2>4. CASE Takes(i, length) /\ Reflects(i, p)
    <3>1. Keeps(i)
      BY <2>4 DEF Takes, Keeps
    <3>2. QED
      BY <2>4, <3>1, KeptOnly DEF Reflects
  <2>5. CASE Takes(i, length) /\ Delays_(i, p)
    <3>1. Keeps(i)
      BY <2>5 DEF Takes, Keeps
    <3>2. CASE j # i /\ conns'[j] # conns[j]
      <4>1. /\ SameEnd(conns'[j], conns[j]) /\ j \in Others(i)
            /\ \E fate \in Delays : Enqueued(conns'[j], conns[j], p, fate)
        BY <2>5, <3>2 DEF Delays_
      <4>2. Finds(conns[i], length) /\ reading = i
        BY <1>5, <2>1, SingleReadEffect DEF ReadsAs
      <4>3. conns'[j].client_fd = conns[j].client_fd
        BY <4>1, Zenon DEF SameEnd
      <4>4. Grows(j, i, length)
        BY <2>5, <4>1, <4>2, <4>3, Zenon DEF Grows
      <4>5. QED
        BY <4>4
    <3>3. CASE j # i /\ conns'[j] = conns[j]
      BY <3>3 DEF Keeps, SameQueue
    <3>4. QED
      BY <3>1, <3>2, <3>3
  <2>6. QED
    BY <2>1, <2>2, <2>3, <2>4, <2>5, Zenon DEF ReadsAs
<1>6. ASSUME NEW i \in Slots, Timer(i) PROVE Keeps(j) \/ Shrinks(j)
  <2>1. CASE j = i
    BY <1>6, <2>1, TimerEffect DEF Shrinks, SameEnd
  <2>2. CASE j # i
    BY <1>6, <2>2, TimerEffect, KeptOnly
  <2>3. QED
    BY <2>1, <2>2
<1>7. ASSUME AtThread PROVE Keeps(j)
  BY <1>7, ThreadFrame, KeptAll
<1>8. CASE Tick
  BY <1>8, TickEffect DEF QueueStep, Ages, SameEnd
<1>9. CASE Destroy
  BY <1>9, DestroyEffect DEF QueueStep
<1>10. ASSUME UNCHANGED vars PROVE Keeps(j)
  BY <1>10, KeptAll DEF vars, pipeVars, slotVars
<1>11. QED
  BY <1>1, <1>2, <1>3, <1>4, <1>5, <1>6, <1>7, <1>8, <1>9, <1>10, Steps, Zenon DEF AtSlot, QueueStep

-----------------------------------------------------------------------------
(* The timers *)

(* A timer that is set is set to the deadline of the head of its queue. *)
TimersTellHeads ==
    \A i \in Slots : conns[i].timer_event # Off =>
        conns[i].output_queue # <<>> /\ conns[i].timer_event = conns[i].output_queue[1].wait

LEMMA HeadStays ==
    ASSUME NEW S, NEW s \in Seq(S), NEW t \in Seq(S), s # <<>>
    PROVE  s \o t # <<>> /\ (s \o t)[1] = s[1]
<1>1. Len(s) \in Nat /\ Len(t) \in Nat /\ Len(s) # 0
  BY EmptySeq, ElementsOf
<1>2. Len(s \o t) = Len(s) + Len(t) /\ (s \o t)[1] = s[1]
  BY <1>1, ConcatElements
<1>3. Len(s \o t) # 0
  BY <1>1, <1>2
<1>4. QED
  BY <1>2, <1>3, EmptySeq

LEMMA TimersKept ==
    ASSUME Typed, QueuesAreCounted, TimersTellHeads, [Next]_vars
    PROVE  TimersTellHeads'
<1>1. SUFFICES ASSUME NEW j \in Slots, conns'[j].timer_event # Off
               PROVE  conns'[j].output_queue # <<>> /\ conns'[j].timer_event = conns'[j].output_queue[1].wait
  BY DEF TimersTellHeads
<1> DEFINE queue == conns[j].output_queue
<1>2. /\ conns[j] \in SlotType /\ queue \in Seq(Waiting)
      /\ conns[j].timer_event \in Waits \cup {Off} /\ Len(queue) \in Nat
  BY SlotFields, ElementsOf DEF Typed, PipeTyped
<1>3. conns[j].timer_event # Off => queue # <<>> /\ conns[j].timer_event = queue[1].wait
  BY DEF TimersTellHeads
<1>4. CASE Keeps(j)
  BY <1>1, <1>3, <1>4 DEF Keeps, SameQueue
<1>5. CASE Releases(j)
  BY <1>1, <1>5 DEF Releases
<1>6. CASE Shrinks(j)
  BY <1>1, <1>6 DEF Shrinks, TimerSet
<1>7. CASE Ages(j)
  <2>1. conns[j].timer_event # Off
    BY <1>1, <1>7, Numbered DEF Ages
  <2>2. 1 \in 1 .. Len(queue)
    BY <1>2, <1>3, <2>1, EmptySeq
  <2>3. Len(Aged(queue)) = Len(queue) /\ Aged(queue)[1].wait = Sooner(queue[1].wait)
    BY <1>2, <2>2, AgedQueue
  <2>4. Aged(queue) # <<>>
    BY <2>2, <2>3, EmptySeq
  <2>5. QED
    BY <1>3, <1>7, <2>1, <2>3, <2>4 DEF Ages
<1>8. CASE conns'[j] = NewConn
  BY <1>1, <1>8 DEF NewConn
<1>9. CASE \E i \in Slots : \E length : Grows(j, i, length)
  <2>1. PICK i \in Slots : \E length : Grows(j, i, length)
    BY <1>9
  <2>2. PICK length : Grows(j, i, length)
    BY <2>1
  <2> DEFINE p == Prefix(conns[i].input, HeaderSize + length)
  <2>3. PICK fate \in Delays : Enqueued(conns'[j], conns[j], p, fate)
    BY <2>2 DEF Grows
  <2>4. p \in Seq(Units) /\ p # <<>>
    <3>1. conns[i].input \in Seq(Units) /\ HeaderSize + length \in 1 .. Len(conns[i].input)
      BY <2>2, SlotFields DEF Grows, Takes, Typed, PipeTyped
    <3>2. HeaderSize + length \in 0 .. Len(conns[i].input)
      BY <3>1, ElementsOf
    <3>3. p \in Seq(Units) /\ Len(p) = HeaderSize + length
      BY <3>1, <3>2, CutElements
    <3>4. QED
      BY <3>1, <3>3, EmptySeq
  <2> HIDE DEF p
  <2> DEFINE w == [pbuff |-> p, wait |-> fate]
  <2>5. w \in Waiting /\ w.wait = fate
    BY <2>4, Numbered DEF Waiting
  <2>6. /\ conns'[j].output_queue = queue \o <<w>>
        /\ conns'[j].timer_event = IF conns[j].count_in_queue = 0 THEN fate ELSE conns[j].timer_event
    BY <2>3 DEF Enqueued
  <2> HIDE DEF w
  <2>7. conns[j].count_in_queue = Len(queue)
    BY DEF QueuesAreCounted, Counted
  <2>8. <<w>> \in Seq(Waiting) /\ <<w>> # <<>> /\ <<w>>[1] = w
    BY <2>5
  <2>9. CASE Len(queue) = 0
    <3>1. queue = <<>>
      BY <1>2, <2>9, EmptySeq
    <3>2. queue \o <<w>> = <<w>>
      BY <2>8, <3>1, ConcatEmptySeq
    <3>3. QED
      BY <2>5, <2>6, <2>7, <2>8, <2>9, <3>2
  <2>10. CASE Len(queue) # 0
    <3>1. queue # <<>>
      BY <2>10, EmptySeq
    <3> HIDE DEF queue
    <3>2. queue \o <<w>> # <<>> /\ (queue \o <<w>>)[1] = queue[1]
      BY <1>2, <2>8, <3>1, HeadStays
    <3>3. conns[j].timer_event # Off
      BY <1>1, <2>6, <2>7, <2>10
    <3>4. QED
      BY <1>3, <2>6, <2>7, <2>10, <3>2, <3>3
  <2>11. QED
    BY <2>9, <2>10
<1>10. QED
  BY <1>4, <1>5, <1>6, <1>7, <1>8, <1>9, QueueSteps, Zenon DEF QueueStep

(* Nobody sends to a connection that may close. *)
OneWay == \A c \in Closers : Senders \subseteq {c}

OnlySendersSend ==
    /\ \A c \in Clients : down[c] # <<>> => c \in Senders
    /\ \A i \in Slots : conns[i].input # <<>> => conns[i].client_fd \in Senders

(* Only a client that does not close has packets waiting for it, and its   *)
(* timer is set.                                                           *)
QueuesAreTimed ==
    \A i \in Slots : conns[i].output_queue # <<>> =>
        conns[i].timer_event # Off /\ conns[i].client_fd \notin Closers \cup {None}

LEMMA SendersSame ==
    ASSUME OnlySendersSend, down' = down,
           \A i \in Slots : conns'[i].input # <<>> =>
              conns[i].input # <<>> /\ conns'[i].client_fd = conns[i].client_fd
    PROVE  OnlySendersSend'
BY DEF OnlySendersSend

LEMMA SendersKept ==
    ASSUME Typed, UnusedIsEmpty, OnlySendersSend, [Next]_vars
    PROVE  OnlySendersSend'
<1>1. /\ down \in [Clients -> Seq(Units)]
      /\ \A i \in Slots : conns[i] \in SlotType /\ conns[i].input \in Seq(Units)
  BY SlotFields DEF Typed, SocketsTyped, PipeTyped
<1>2. ASSUME NEW c \in Clients, AtClient(c), Idle PROVE OnlySendersSend'
  <2>1. conns' = conns
    BY <1>2, IdleFrame
  <2>2. \A d \in Clients : down'[d] # <<>> => d \in Senders
    <3>1. CASE DowncallRead(c)
      BY <3>1, DowncallEffect DEF OnlySendersSend, DowncallRead
    <3>2. CASE Closer(c)
      BY <3>2, CloserEffect DEF OnlySendersSend
    <3>3. CASE ~ DowncallRead(c) /\ ~ Closer(c)
      <4>1. down' = down
        BY <1>2, <3>3, Zenon DEF AtClient, Opener, OpenerFails, UpcallConnected, UpcallError, Arrive, UpcallRead,
                                 Pause, sockets
      <4>2. QED
        BY <4>1 DEF OnlySendersSend
    <3>4. QED
      BY <3>1, <3>2, <3>3
  <2>3. QED
    BY <2>1, <2>2 DEF OnlySendersSend
<1>3. ASSUME NEW c \in Clients, Listener(c) PROVE OnlySendersSend'
  <2>1. down' = down
    BY <1>3, ListenerEffect
  <2>2. CASE conns' = conns
    BY <2>1, <2>2, SendersSame
  <2>3. CASE conns' # conns
    <3>1. PICK i \in Slots : conns[i].client_fd = None /\ OnlySlot(i) /\ conns'[i].input = conns[i].input
      BY <1>3, <2>3, ListenerEffect
    <3>2. conns'[i].input = <<>>
      BY <3>1 DEF UnusedIsEmpty
    <3>3. QED
      BY <2>1, <3>1, <3>2, SendersSame DEF OnlySlot
  <2>4. QED
    BY <2>2, <2>3
<1>4. ASSUME NEW i \in Slots, ConnError(i) PROVE OnlySendersSend'
  <2>1. /\ OnlySlot(i) /\ conns'[i].input = <<>>
        /\ down' = [down EXCEPT ![conns[i].client_fd] = <<>>]
    BY <1>4, ConnErrorEffect
  <2>2. QED
    BY <1>1, <2>1 DEF OnlySendersSend, OnlySlot
<1>5. ASSUME NEW i \in Slots, ConnRead(i) PROVE OnlySendersSend'
  <2>1. PICK c \in Clients : c = conns[i].client_fd
    BY <1>5, ConnReadEffect
  <2>2. PICK n \in 1 .. Len(down[c]) : down' = [down EXCEPT ![c] = Rest(down[c], n)]
    BY <1>5, <2>1, ConnReadEffect
  <2>3. down[c] # <<>>
    BY <2>2, EmptySeq
  <2>4. c \in Senders
    BY <2>3 DEF OnlySendersSend
  <2>5. OnlySlot(i) /\ conns'[i].client_fd = c
    BY <1>5, <2>1, ConnReadEffect
  <2>6. \A d \in Clients : d # c => down'[d] = down[d]
    BY <1>1, <2>2
  <2>7. QED
    BY <2>4, <2>5, <2>6 DEF OnlySendersSend, OnlySlot
<1>6. ASSUME NEW i \in Slots, SingleRead(i) PROVE OnlySendersSend'
  <2>1. down' = down
    BY <1>6, SingleReadEffect
  <2>2. PICK length : ReadsAs(i, length)
    BY <1>6, SingleReadEffect
  <2>3. CASE Refuses(i, length)
    BY <2>1, <2>3, SendersSame DEF Refuses
  <2>4. CASE Awaits(i, length)
    BY <2>1, <2>4, SendersSame DEF Awaits, OnlySlot
  <2>5. CASE Takes(i, length)
    <3>1. conns[i].input # <<>> /\ conns'[i].client_fd = conns[i].client_fd
      BY <2>5, EmptySeq DEF Takes
    <3>2. \A j \in Slots : j # i => SameEnd(conns'[j], conns[j])
      BY <2>2, <2>5 DEF ReadsAs, Refuses, Awaits, Delays_, Reflects, OnlySlot, SameEnd
    <3>3. QED
      BY <2>1, <3>1, <3>2, SendersSame DEF SameEnd
  <2>6. QED
    BY <2>2, <2>3, <2>4, <2>5, Zenon DEF ReadsAs
<1>7. ASSUME NEW i \in Slots, Timer(i) PROVE OnlySendersSend'
  <2>1. down' = down /\ OnlySlot(i) /\ SameEnd(conns'[i], conns[i])
    BY <1>7, TimerEffect
  <2>2. QED
    BY <2>1, SendersSame DEF OnlySlot, SameEnd
<1>8. CASE AtThread
  <2>1. down' = down /\ conns' = conns
    BY <1>8, ThreadFrame DEF sockets
  <2>2. QED
    BY <2>1, SendersSame
<1>9. CASE Tick
  <2>1. down' = down /\ \A i \in Slots : SameEnd(conns'[i], conns[i])
    BY <1>9, TickEffect DEF sockets
  <2>2. QED
    BY <2>1, SendersSame DEF SameEnd
<1>10. CASE Destroy
  <2>1. down' = [c \in Clients |-> <<>>] /\ conns' = [i \in Slots |-> NewConn]
    BY <1>10, DestroyEffect
  <2>2. QED
    BY <2>1 DEF OnlySendersSend, NewConn
<1>11. CASE UNCHANGED vars
  <2>1. down' = down /\ conns' = conns
    BY <1>11 DEF vars, sockets, pipeVars, slotVars
  <2>2. QED
    BY <2>1, SendersSame
<1>12. QED
  BY <1>2, <1>3, <1>4, <1>5, <1>6, <1>7, <1>8, <1>9, <1>10, <1>11, Steps, Zenon DEF AtSlot

LEMMA TimedKept ==
    ASSUME OneWay, Base, OnlySendersSend, QueuesAreTimed, [Next]_vars
    PROVE  QueuesAreTimed'
<1>0. Typed /\ QueuesAreCounted /\ EndsAgree
  BY DEF Base
<1>1. SUFFICES ASSUME NEW j \in Slots, conns'[j].output_queue # <<>>
               PROVE  conns'[j].timer_event # Off /\ conns'[j].client_fd \notin Closers \cup {None}
  BY DEF QueuesAreTimed
<1> DEFINE queue == conns[j].output_queue
<1>2. /\ conns[j] \in SlotType /\ queue \in Seq(Waiting)
      /\ conns[j].timer_event \in Waits \cup {Off} /\ Len(queue) \in Nat
  BY <1>0, SlotFields, ElementsOf DEF Typed, PipeTyped
<1>3. queue # <<>> => conns[j].timer_event # Off /\ conns[j].client_fd \notin Closers \cup {None}
  BY DEF QueuesAreTimed
<1>4. CASE Keeps(j)
  BY <1>1, <1>3, <1>4 DEF Keeps, SameQueue
<1>5. CASE Releases(j)
  <2>1. conns[j].client_fd \in Closers
    BY <1>0, <1>5 DEF Releases, EndsAgree, Ends
  <2>2. QED
    BY <1>1, <1>3, <1>5, <2>1 DEF Releases
<1>6. CASE Shrinks(j)
  <2>1. PICK n \in 0 .. Len(queue) : n = Due(queue)
    BY <1>2, DueType
  <2> DEFINE r == Rest(queue, n)
  <2>2. r \in Seq(Waiting) /\ Len(r) = Len(queue) - n
    BY <1>2, <2>1, CutElements
  <2>3. r # <<>> /\ conns'[j].timer_event = TimerSet(r) /\ conns'[j].client_fd = conns[j].client_fd
    BY <1>1, <1>6, <2>1 DEF Shrinks
  <2> HIDE DEF r
  <2>4. 1 \in 1 .. Len(r)
    BY <2>2, <2>3, EmptySeq, ElementsOf
  <2>5. r[1] \in Waiting
    BY <2>2, <2>4, ElementsOf
  <2>6. r[1].wait # Off
    BY <2>5, Numbered DEF Waiting
  <2>7. queue # <<>>
    BY <1>2, <2>1, <2>2, <2>4, EmptySeq
  <2>8. QED
    BY <1>3, <2>3, <2>6, <2>7 DEF TimerSet
<1>7. CASE Ages(j)
  <2>1. queue # <<>>
    <3>1. Aged(<<>>) = <<>>
      BY EmptySeq, AgedQueue
    <3>2. QED
      BY <1>1, <1>7, <3>1 DEF Ages
  <2>2. conns[j].timer_event \in Waits
    BY <1>2, <1>3, <2>1
  <2>3. Sooner(conns[j].timer_event) # Off
    BY <2>2, Numbered
  <2>4. QED
    BY <1>3, <1>7, <2>1, <2>3 DEF Ages
<1>8. CASE conns'[j] = NewConn
  BY <1>1, <1>8 DEF NewConn
<1>9. CASE \E i \in Slots : \E length : Grows(j, i, length)
  <2>1. PICK i \in Slots : \E length : Grows(j, i, length)
    BY <1>9
  <2>2. PICK length : Grows(j, i, length)
    BY <2>1
  <2>3. PICK fate \in Delays : Enqueued(conns'[j], conns[j], Prefix(conns[i].input, HeaderSize + length), fate)
    BY <2>2 DEF Grows
  <2>4. conns'[j].timer_event = IF conns[j].count_in_queue = 0 THEN fate ELSE conns[j].timer_event
    BY <2>3 DEF Enqueued
  <2>5. conns[j].count_in_queue = Len(queue)
    BY <1>0 DEF QueuesAreCounted, Counted
  <2>6. Len(queue) # 0 => queue # <<>>
    BY EmptySeq
  <2>7. fate # Off
    BY Numbered
  <2>8. conns'[j].timer_event # Off
    BY <1>3, <2>4, <2>5, <2>6, <2>7
  <2>9. /\ conns[j].client_fd # None /\ conns[j].client_fd # conns[i].client_fd
        /\ conns'[j].client_fd = conns[j].client_fd
    BY <2>2 DEF Grows, Others
  <2>10. conns[i].client_fd \in Senders
    <3>1. conns[i].input # <<>>
      BY <2>2, EmptySeq DEF Grows, Takes
    <3>2. QED
      BY <3>1 DEF OnlySendersSend
  <2>11. conns[j].client_fd \notin Closers
    BY <2>9, <2>10 DEF OneWay
  <2>12. QED
    BY <2>8, <2>9, <2>11
<1>10. QED
  BY <1>0, <1>4, <1>5, <1>6, <1>7, <1>8, <1>9, QueueSteps, Zenon DEF QueueStep

(* A timer that runs is the timer of what is first in the queue: timer_cb  *)
(* never finds the queue empty, and never runs before or after the         *)
(* deadline of what it finds there.                                        *)
THEOREM LocalPipeTimers == Spec => []TimersTellHeads
<1>1. Init => TimersTellHeads
  BY DEF Init, PipeInit, NewConn, TimersTellHeads
<1>2. Base /\ TimersTellHeads /\ [Next]_vars => TimersTellHeads'
  BY TimersKept DEF Base
<1>3. QED
  BY <1>1, <1>2, AlwaysBase, PTL DEF Spec

(* When nobody sends to a connection that may close, every queue that is   *)
(* not empty has its timer set, to the deadline of its head, so that no    *)
(* packet waits for a timer that is not running.                           *)
THEOREM LocalPipeHeads ==
    ASSUME OneWay
    PROVE  Spec => []HeadIsTimed
<1>1. Init => OnlySendersSend /\ QueuesAreTimed
  BY DEF Init, SocketInit, PipeInit, NewConn, OnlySendersSend, QueuesAreTimed
<1>2. Base /\ OnlySendersSend /\ QueuesAreTimed /\ [Next]_vars => OnlySendersSend' /\ QueuesAreTimed'
  BY SendersKept, TimedKept DEF Base, SlotsAreUsed
<1>3. QueuesAreTimed /\ TimersTellHeads => HeadIsTimed
  BY DEF QueuesAreTimed, TimersTellHeads, HeadIsTimed
<1>4. Spec => [](OnlySendersSend /\ QueuesAreTimed)
  BY <1>1, <1>2, AlwaysBase, PTL DEF Spec
<1>5. QED
  BY <1>3, <1>4, LocalPipeTimers, PTL

-----------------------------------------------------------------------------
(* Frames *)

(* Less than the message it begins with *)
Part(s) == Len(s) > 0 => Len(s) < Place(s[1])

(* What is written to the pipe *)
DownFrames(c) ==
    /\ From(c, down[c])
    /\ pipe_end[c] \in {"none", "backlog"} => Whole(down[c])
    /\ client_end[c] = "closed" => down[c] = <<>>

(* What the pipe has written *)
UpFrames(c) == Stream(FromPipe(c)) /\ (caller # "done" => Whole(FromPipe(c)))

(* What is on its way to a slot *)
Inbound(i) == conns[i].input \o down[conns[i].client_fd]

SlotFrames(i) ==
    /\ conns[i].client_fd # None => Whole(Inbound(i)) /\ From(conns[i].client_fd, conns[i].input)
    /\ conns[i].msg_length # 0 =>
          Len(conns[i].input) > 0 /\ conns[i].msg_length = Body[conns[i].input[1][2]]
    /\ reading # i => Part(conns[i].input)

DownKept  == \A c \in Clients : DownFrames(c)
UpKept    == \A c \in Clients : UpFrames(c)
SlotsFull == \A i \in Slots : SlotFrames(i)
QueuesCarry == \A i \in Slots : Carries(conns[i].output_queue)

(* Streams of whole messages in every direction, and in every queue *)
FramesKept == DownKept /\ UpKept /\ SlotsFull /\ QueuesCarry

LEMMA Shift ==
    ASSUME NEW S, NEW s \in Seq(S), NEW d \in Seq(S), NEW n \in 0 .. Len(d)
    PROVE  (s \o Prefix(d, n)) \o Rest(d, n) = s \o d
<1> DEFINE p == Prefix(d, n)
           r == Rest(d, n)
<1>1. p \in Seq(S) /\ r \in Seq(S) /\ d = p \o r
  BY CutElements, CutConcat
<1> HIDE DEF p, r
<1>2. Associates(s, p, r)
  BY <1>1, ConcatAssociates
<1>3. QED
  BY <1>1, <1>2, Zenon DEF Associates, p, r

LEMMA NothingIsPart == \A s : Len(s) = 0 => Part(s)
BY DEF Part

(* What single_read goes by is the length of the message it stands at. *)
LEMMA FoundLength ==
    ASSUME Typed, NEW i \in Slots, SlotFrames(i), conns[i].client_fd \in Clients,
           NEW length, Finds(conns[i], length)
    PROVE  /\ Stream(conns[i].input)
           /\ \/ length = 0 /\ Len(conns[i].input) < HeaderSize
              \/ /\ Len(conns[i].input) > 0 /\ length = Body[conns[i].input[1][2]]
                 /\ HeaderSize + length = Place(conns[i].input[1]) /\ length > 0
<1> DEFINE s == conns[i].input
           d == down[conns[i].client_fd]
<1>1. s \in Seq(Units) /\ d \in Seq(Units) /\ Len(s) \in Nat
  BY SlotFields, ElementsOf DEF Typed, PipeTyped, SocketsTyped
<1>2. conns[i].client_fd # None
  BY Constants
<1>3. Stream(s \o d)
  BY <1>2 DEF SlotFrames, Inbound, Whole
<1>4. Stream(s)
  <2> HIDE DEF s, d
  <2>1. QED
    BY <1>1, <1>3, StreamHead
<1>5. ASSUME Len(s) > 0, length = Body[s[1][2]]
      PROVE  HeaderSize + length = Place(s[1]) /\ length > 0
  <2>1. s[1][2] \in Number
    BY <1>1, <1>4, <1>5, FirstMessage
  <2>2. QED
    BY <1>5, <2>1, Constants DEF Place
<1>6. CASE conns[i].msg_length # 0 /\ length = conns[i].msg_length
  BY <1>4, <1>5, <1>6 DEF SlotFrames
<1>7. CASE Len(s) >= HeaderSize /\ length \in HeaderLengths(s)
  <2>1. Len(s) > 0
    BY <1>1, <1>7, Constants
  <2>2. HeaderLengths(s) = {Body[s[1][2]]}
    BY <1>1, <1>4, <2>1, FirstMessage
  <2>3. QED
    BY <1>4, <1>5, <1>7, <2>1, <2>2
<1>8. CASE Len(s) < HeaderSize /\ length = 0
  BY <1>4, <1>8
<1>9. QED
  BY <1>6, <1>7, <1>8 DEF Finds

(* It takes a whole message of its client off the input. *)
TakesMessage(i, length, m) ==
    /\ m[1] = conns[i].client_fd
    /\ conns[i].input = MessageUnits(m[1], m[2]) \o conns'[i].input
    /\ Prefix(conns[i].input, HeaderSize + length) = MessageUnits(m[1], m[2])

LEMMA TakenMessage ==
    ASSUME Typed, NEW i \in Slots, SlotFrames(i), conns[i].client_fd \in Clients,
           NEW length, Finds(conns[i], length), Takes(i, length)
    PROVE  \E m \in Message : TakesMessage(i, length, m)
<1> DEFINE s == conns[i].input
           m == <<s[1][1], s[1][2]>>
           z == Place(s[1])
<1>1. s \in Seq(Units) /\ Len(s) \in Nat
  BY SlotFields, ElementsOf DEF Typed, PipeTyped
<1>2. Stream(s) /\ HeaderSize + length = z /\ Len(s) > 0
  BY FoundLength DEF Takes
<1>3. z \in 1 .. Len(s) /\ conns'[i].input = Rest(s, z)
  BY <1>2 DEF Takes
<1>4. z <= Len(s)
  BY <1>1, <1>3
<1>5. s[1] \in Units /\ s[1][1] \in Clients /\ s[1][2] \in Number
  BY <1>1, <1>2, FirstMessage
<1>6. Prefix(s, z) = MessageUnits(s[1][1], s[1][2])
  BY <1>1, <1>2, <1>4, FirstMessage
<1>7. s = MessageUnits(s[1][1], s[1][2]) \o Rest(s, z)
  BY <1>1, <1>2, <1>4, CutMessage
<1>8. s[1][1] = conns[i].client_fd
  <2>1. conns[i].client_fd # None
    BY Constants
  <2>2. From(conns[i].client_fd, s)
    BY <2>1 DEF SlotFrames
  <2>3. 1 \in 1 .. Len(s)
    BY <1>1, <1>2
  <2>4. QED
    BY <2>2, <2>3 DEF From
<1>9. m \in Message /\ m[1] = s[1][1] /\ m[2] = s[1][2]
  BY <1>5 DEF Message
<1> HIDE DEF m, z
<1>10. TakesMessage(i, length, m)
  BY <1>2, <1>3, <1>6, <1>7, <1>8, <1>9 DEF TakesMessage
<1>11. QED
  BY <1>9, <1>10

-----------------------------------------------------------------------------
(* The queues *)

LEMMA CarriesOne ==
    ASSUME NEW m \in Message, NEW w \in Waiting, w.pbuff = MessageUnits(m[1], m[2])
    PROVE  <<w>> \in Seq(Waiting) /\ Carries(<<w>>)
BY DEF Carries

LEMMA CarriesNothing == Carries(<<>>)
BY EmptySeq DEF Carries

LEMMA CarriesCut ==
    ASSUME NEW queue \in Seq(Waiting), Carries(queue), NEW n \in 0 .. Len(queue)
    PROVE  /\ Prefix(queue, n) \in Seq(Waiting) /\ Carries(Prefix(queue, n))
           /\ Rest(queue, n) \in Seq(Waiting) /\ Carries(Rest(queue, n))
<1> DEFINE p == Prefix(queue, n)
           r == Rest(queue, n)
<1>1. p \in Seq(Waiting) /\ r \in Seq(Waiting) /\ queue = p \o r
  BY CutElements, CutConcat
<1> HIDE DEF p, r
<1>2. Carries(p) /\ Carries(r)
  BY <1>1, CarriesConcat
<1>3. QED
  BY <1>1, <1>2 DEF p, r

LEMMA ReadersAreConnected ==
    ASSUME Typed, ThreadIsKnown, NEW i \in Slots, reading = i
    PROVE  conns[i].client_fd \in Clients /\ caller # "done" /\ router = "running"
<1>1. router = "running" /\ conns[i].client_fd # None
  BY SlotIsNotZero DEF ThreadIsKnown
<1>2. conns[i].client_fd \in Clients \cup {None}
  BY SlotFields DEF Typed, PipeTyped
<1>3. QED
  BY <1>1, <1>2 DEF ThreadIsKnown

LEMMA CarryKept ==
    ASSUME Typed, ThreadIsKnown, SlotsFull, QueuesCarry, [Next]_vars
    PROVE  QueuesCarry'
<1>1. SUFFICES ASSUME NEW j \in Slots PROVE Carries(conns'[j].output_queue)
  BY DEF QueuesCarry, Carries
<1> DEFINE queue == conns[j].output_queue
<1>2. conns[j] \in SlotType /\ queue \in Seq(Waiting) /\ Carries(queue)
  BY SlotFields DEF Typed, PipeTyped, QueuesCarry
<1>3. CASE Keeps(j)
  BY <1>2, <1>3 DEF Keeps, SameQueue
<1>4. CASE Releases(j)
  BY <1>2, <1>4 DEF Releases
<1>5. CASE Shrinks(j)
  <2>1. PICK n \in 0 .. Len(queue) : n = Due(queue)
    BY <1>2, DueType
  <2>2. conns'[j].output_queue = Rest(queue, n)
    BY <1>5, <2>1 DEF Shrinks
  <2> HIDE DEF queue
  <2>3. QED
    BY <1>2, <2>2, CarriesCut
<1>6. CASE Ages(j)
  <2>1. conns'[j].output_queue = Aged(queue)
    BY <1>6 DEF Ages
  <2> HIDE DEF queue
  <2>2. Len(Aged(queue)) = Len(queue) /\ \A k \in 1 .. Len(queue) : Aged(queue)[k].pbuff = queue[k].pbuff
    BY <1>2, AgedQueue
  <2>3. Carries(Aged(queue))
    BY <1>2, <2>2 DEF Carries
  <2>4. QED
    BY <2>1, <2>3
<1>7. CASE conns'[j] = NewConn
  BY <1>7, CarriesNothing DEF NewConn
<1>8. CASE \E i \in Slots : \E length : Grows(j, i, length)
  <2>1. PICK i \in Slots : \E length : Grows(j, i, length)
    BY <1>8
  <2>2. PICK length : Grows(j, i, length)
    BY <2>1
  <2>3. conns[i].client_fd \in Clients /\ SlotFrames(i) /\ Finds(conns[i], length) /\ Takes(i, length)
    BY <2>2, ReadersAreConnected DEF Grows, SlotsFull
  <2>4. PICK m \in Message : TakesMessage(i, length, m)
    BY <2>3, TakenMessage
  <2> DEFINE p == MessageUnits(m[1], m[2])
  <2>5. PICK fate \in Delays : Enqueued(conns'[j], conns[j], p, fate)
    BY <2>2, <2>4 DEF Grows, TakesMessage
  <2>6. p \in Seq(Units) /\ p # <<>>
    BY MessageUnitsType, MessageIsWhole DEF Message
  <2> HIDE DEF p
  <2> DEFINE w == [pbuff |-> p, wait |-> fate]
  <2>7. w \in Waiting /\ w.pbuff = p
    BY <2>6, Numbered DEF Waiting
  <2>8. conns'[j].output_queue = queue \o <<w>>
    BY <2>5 DEF Enqueued
  <2> HIDE DEF w, queue
  <2>9. <<w>> \in Seq(Waiting) /\ Carries(<<w>>)
    BY <2>7, CarriesOne DEF p
  <2>10. Carries(queue \o <<w>>)
    BY <1>2, <2>9, CarriesConcat
  <2>11. QED
    BY <2>8, <2>10
<1>9. QED
  BY <1>3, <1>4, <1>5, <1>6, <1>7, <1>8, QueueSteps, Zenon DEF QueueStep

-----------------------------------------------------------------------------
(* What is written to the pipe *)

LEMMA DownSame ==
    ASSUME NEW c \in Clients, DownFrames(c), down'[c] = down[c],
           pipe_end'[c] \in {"none", "backlog"} => pipe_end[c] \in {"none", "backlog"},
           client_end'[c] = "closed" => client_end[c] = "closed" \/ down[c] = <<>>
    PROVE  DownFrames(c)'
BY DEF DownFrames, From

LEMMA DownOfClient ==
    ASSUME Graceful, Typed, EndsAgree, DownKept, NEW c \in Clients, AtClient(c)
    PROVE  DownKept'
<1>1. /\ client_end \in [Clients -> {"new", "connecting", "connected", "closed"}]
      /\ pipe_end \in [Clients -> {"none", "backlog", "open", "closed"}]
      /\ down \in [Clients -> Seq(Units)]
      /\ Ends(c) /\ \A d \in Clients : DownFrames(d)
  BY DEF Typed, SocketsTyped, EndsAgree, DownKept
<1>2. CASE Opener(c)
  <2>1. /\ client_end[c] = "new" /\ client_end' = [client_end EXCEPT ![c] = "connecting"]
        /\ pipe_end' = [pipe_end EXCEPT ![c] = "backlog"] /\ down' = down
    BY <1>2 DEF Opener
  <2>2. pipe_end[c] = "none"
    BY <1>1, <2>1 DEF Ends
  <2>3. DownFrames(c)'
    BY <1>1, <2>1, <2>2, DownSame
  <2>4. ASSUME NEW d \in Clients, d # c PROVE DownFrames(d)'
    BY <1>1, <2>1, <2>4, DownSame
  <2>5. QED
    BY <2>3, <2>4 DEF DownKept
<1>3. CASE UpcallConnected(c)
  <2>1. /\ client_end' = [client_end EXCEPT ![c] = "connected"] /\ pipe_end' = pipe_end /\ down' = down
    BY <1>3 DEF UpcallConnected
  <2>2. ASSUME NEW d \in Clients PROVE DownFrames(d)'
    <3>1. client_end'[d] = "closed" => client_end[d] = "closed"
      BY <1>1, <2>1
    <3>2. QED
      BY <1>1, <2>1, <3>1, DownSame
  <2>3. QED
    BY <2>2 DEF DownKept
<1>4. CASE Closer(c)
  <2>1. /\ down[c] = <<>> /\ pipe_end' = pipe_end /\ client_end' = [client_end EXCEPT ![c] = "closed"]
    BY <1>4 DEF Closer
  <2>2. down' = down
    BY <1>4, <2>1, CloserEffect
  <2>3. ASSUME NEW d \in Clients PROVE DownFrames(d)'
    <3>1. client_end'[d] = "closed" => client_end[d] = "closed" \/ down[d] = <<>>
      BY <1>1, <2>1
    <3>2. QED
      BY <1>1, <2>1, <2>2, <3>1, DownSame
  <2>4. QED
    BY <2>3 DEF DownKept
<1>5. CASE DowncallRead(c)
  <2>1. client_end' = client_end /\ pipe_end' = pipe_end /\ state[c] \in {"open", "paused"}
    BY <1>5 DEF DowncallRead
  <2>2. PICK n \in Number : down'[c] = down[c] \o MessageUnits(c, n)
    BY <1>5, DowncallEffect
  <2>3. \A d \in Clients : d # c => down'[d] = down[d]
    BY <1>5, DowncallEffect
  <2> DEFINE s == down[c]
             t == MessageUnits(c, n)
  <2>4. s \in Seq(Units) /\ t \in Seq(Units) /\ From(c, s) /\ From(c, t) /\ Whole(t) /\ Stream(t)
    BY <1>1, MessageUnitsType, MessageIsWhole, FromMessage DEF DownFrames, Whole
  <2> HIDE DEF s, t
  <2>5. From(c, s \o t)
    BY <2>4, FromConcat
  <2>6. Whole(s) => Whole(s \o t)
    BY <2>4, StreamConcat
  <2>7. client_end[c] # "closed"
    BY <1>1, <2>1 DEF Ends
  <2>8. pipe_end[c] \in {"none", "backlog"} => Whole(s)
    BY <1>1 DEF DownFrames, s
  <2>9. down'[c] = s \o t
    BY <2>2 DEF s, t
  <2>10. DownFrames(c)'
    <3>1. pipe_end'[c] \in {"none", "backlog"} => Whole(s \o t)
      BY <2>1, <2>6, <2>8
    <3>2. client_end'[c] # "closed"
      BY <2>1, <2>7
    <3>3. QED
      BY <2>5, <2>9, <3>1, <3>2 DEF DownFrames, From, Whole, Stream
  <2>11. ASSUME NEW d \in Clients, d # c PROVE DownFrames(d)'
    BY <1>1, <2>1, <2>3, <2>11, DownSame
  <2>12. QED
    BY <2>10, <2>11 DEF DownKept
<1>6. CASE OpenerFails(c) \/ UpcallError(c) \/ Arrive(c) \/ UpcallRead(c) \/ Pause(c)
  <2>1. UNCHANGED <<client_end, pipe_end, down>>
    BY <1>6, Zenon DEF OpenerFails, UpcallError, Arrive, UpcallRead, Pause, sockets
  <2>2. QED
    BY <1>1, <2>1, DownSame DEF DownKept
<1>7. QED
  BY <1>2, <1>3, <1>4, <1>5, <1>6, Zenon DEF AtClient

LEMMA DownStep ==
    ASSUME Graceful, Base, DownKept, [Next]_vars
    PROVE  DownKept'
<1>1. /\ Typed /\ EndsAgree /\ SlotsAreUsed
      /\ pipe_end \in [Clients -> {"none", "backlog", "open", "closed"}]
      /\ down \in [Clients -> Seq(Units)] /\ \A d \in Clients : DownFrames(d)
  BY DEF Base, Typed, SocketsTyped, DownKept
<1>2. ASSUME NEW c \in Clients, AtClient(c) PROVE DownKept'
  BY <1>1, <1>2, DownOfClient
<1>3. ASSUME UNCHANGED <<client_end, pipe_end, down>> PROVE DownKept'
  BY <1>1, <1>3, DownSame DEF DownKept
<1>4. ASSUME NEW c \in Clients, Listener(c) PROVE DownKept'
  <2>1. client_end' = client_end /\ down' = down /\ pipe_end' \in {pipe_end, [pipe_end EXCEPT ![c] = "open"]}
    BY <1>1, <1>4, ListenerEffect
  <2>2. ASSUME NEW d \in Clients PROVE DownFrames(d)'
    <3>1. pipe_end'[d] \in {"none", "backlog"} => pipe_end[d] \in {"none", "backlog"}
      BY <1>1, <2>1
    <3>2. QED
      BY <1>1, <2>1, <3>1, DownSame
  <2>3. QED
    BY <2>2 DEF DownKept
<1>5. ASSUME NEW i \in Slots, ConnError(i) PROVE DownKept'
  <2>1. PICK c \in Clients : c = conns[i].client_fd
    BY <1>1, <1>5, ConnErrorEffect
  <2>2. /\ client_end' = client_end /\ pipe_end' = [pipe_end EXCEPT ![c] = "closed"]
        /\ down' = [down EXCEPT ![c] = <<>>]
    BY <1>1, <1>5, <2>1, ConnErrorEffect
  <2>3. down'[c] = <<>> /\ pipe_end'[c] = "closed"
        /\ \A d \in Clients : d # c => down'[d] = down[d] /\ pipe_end'[d] = pipe_end[d]
    BY <1>1, <2>2
  <2>4. DownFrames(c)'
    BY <2>3, FromNothing DEF DownFrames, From
  <2>5. ASSUME NEW d \in Clients, d # c PROVE DownFrames(d)'
    BY <1>1, <2>2, <2>3, <2>5, DownSame
  <2>6. QED
    BY <2>4, <2>5 DEF DownKept
<1>6. ASSUME NEW i \in Slots, ConnRead(i) PROVE DownKept'
  <2>1. PICK c \in Clients : c = conns[i].client_fd
    BY <1>1, <1>6, ConnReadEffect
  <2>2. PICK n \in 1 .. Len(down[c]) : down' = [down EXCEPT ![c] = Rest(down[c], n)]
    BY <1>1, <1>6, <2>1, ConnReadEffect
  <2>3. client_end' = client_end /\ pipe_end' = pipe_end
    BY <1>1, <1>6, ConnReadEffect
  <2> DEFINE s == down[c]
             p == Prefix(s, n)
             r == Rest(s, n)
  <2>4. s \in Seq(Units) /\ From(c, s) /\ n \in 0 .. Len(s) /\ s # <<>>
    BY <1>1, <2>2, EmptySeq, ElementsOf DEF DownFrames
  <2>5. down'[c] = r /\ \A d \in Clients : d # c => down'[d] = down[d]
    BY <1>1, <2>2
  <2>6. p \in Seq(Units) /\ r \in Seq(Units) /\ s = p \o r
    <3> HIDE DEF s
    <3>1. QED
      BY <2>4, CutElements, CutConcat
  <2> HIDE DEF p, r
  <2>7. From(c, r)
    BY <2>4, <2>6, FromConcat
  <2>8. pipe_end[c] = "open"
    BY <1>1, <2>1 DEF SlotsAreUsed, OpenHasSlot
  <2>9. client_end[c] # "closed"
    BY <1>1, <2>4 DEF DownFrames
  <2>10. DownFrames(c)'
    BY <2>3, <2>5, <2>7, <2>8, <2>9 DEF DownFrames, From
  <2>11. ASSUME NEW d \in Clients, d # c PROVE DownFrames(d)'
    BY <1>1, <2>3, <2>5, <2>11, DownSame
  <2>12. QED
    BY <2>10, <2>11 DEF DownKept
<1>7. ASSUME NEW i \in Slots, SingleRead(i) \/ Timer(i) PROVE DownKept'
  <2>1. UNCHANGED <<client_end, pipe_end, down>>
    BY <1>1, <1>7, SingleReadEffect, TimerEffect
  <2>2. QED
    BY <1>3, <2>1
<1>8. CASE AtThread \/ Tick
  <2>1. UNCHANGED <<client_end, pipe_end, down>>
    BY <1>1, <1>8, ThreadFrame, TickEffect DEF sockets
  <2>2. QED
    BY <1>3, <2>1
<1>9. CASE Destroy
  <2>1. down' = [c \in Clients |-> <<>>]
    BY <1>1, <1>9, DestroyEffect
  <2>2. ASSUME NEW c \in Clients PROVE DownFrames(c)'
    BY <2>1, FromNothing, EmptyIsWhole DEF DownFrames, From
  <2>3. QED
    BY <2>2 DEF DownKept
<1>10. CASE UNCHANGED vars
  BY <1>3, <1>10 DEF vars, sockets
<1>11. QED
  BY <1>2, <1>4, <1>5, <1>6, <1>7, <1>8, <1>9, <1>10, Steps, Zenon DEF AtSlot

-----------------------------------------------------------------------------
(* What the pipe has written *)

LEMMA UpSame ==
    ASSUME NEW c \in Clients, UpFrames(c), FromPipe(c)' = FromPipe(c), caller' # "done" => caller # "done"
    PROVE  UpFrames(c)'
BY DEF UpFrames, Whole, Stream, Framed, BeginsMessage

LEMMA UpEmpty ==
    ASSUME NEW c \in Clients, FromPipe(c)' = <<>>
    PROVE  UpFrames(c)'
BY EmptyIsWhole DEF UpFrames, Whole, Stream, Framed, BeginsMessage

LEMMA FromPipeType ==
    ASSUME Typed, NEW c \in Clients
    PROVE  input[c] \in Seq(Units) /\ up[c] \in Seq(Units) /\ FromPipe(c) \in Seq(Units)
<1>1. input[c] \in Seq(Units) /\ up[c] \in Seq(Units)
  BY DEF Typed, SocketsTyped, ConnectorTyped
<1>2. QED
  BY <1>1, ConcatProperties DEF FromPipe

(* The message that the connector takes off its input *)
DeliversMessage(c, m) ==
    /\ FromPipe(c) = MessageUnits(m[1], m[2]) \o FromPipe(c)'
    /\ \/ state[c] = "open" /\ got'[c] = Append(got[c], m) /\ dropped'[c] = dropped[c]
       \/ state[c] # "open" /\ got'[c] = got[c] /\ dropped'[c] = Append(dropped[c], m)

LEMMA DeliveredMessage ==
    ASSUME Typed, Typed', NEW c \in Clients, UpFrames(c), NEW length, Delivers(c, length), up' = up
    PROVE  \E m \in Message : DeliversMessage(c, m)
<1> DEFINE s == input[c]
           t == up[c]
           z == Place(s[1])
           r == Rest(s, z)
           m == <<s[1][1], s[1][2]>>
           u == MessageUnits(s[1][1], s[1][2])
<1>1. s \in Seq(Units) /\ t \in Seq(Units) /\ Len(s) \in Nat
  BY FromPipeType, ElementsOf
<1>2. Stream(s)
  <2>1. Stream(s \o t)
    BY DEF UpFrames, FromPipe
  <2> HIDE DEF s, t
  <2>2. QED
    BY <1>1, <2>1, StreamHead
<1>3. Len(s) >= HeaderSize /\ length \in HeaderLengths(s) /\ HeaderSize + length \in 1 .. Len(s)
  BY DEF Delivers
<1>4. Len(s) > 0
  BY <1>1, <1>3, Constants
<1>5. HeaderLengths(s) = {Body[s[1][2]]} /\ s[1][1] \in Clients /\ s[1][2] \in Number
  BY <1>1, <1>2, <1>4, FirstMessage
<1>6. HeaderSize + length = z
  BY <1>3, <1>5 DEF Place
<1>7. z <= Len(s)
  BY <1>1, <1>3, <1>6
<1>8. s = u \o r /\ r \in Seq(Units)
  BY <1>1, <1>2, <1>4, <1>7, CutMessage
<1>9. u \in Seq(Units)
  BY <1>5, MessageUnitsType
<1>10. input'[c] = r /\ up'[c] = t
  BY <1>6 DEF Delivers
<1>11. m \in Message /\ u = MessageUnits(m[1], m[2])
  BY <1>5 DEF Message
<1>12. \/ state[c] = "open" /\ got'[c] = Append(got[c], m) /\ dropped'[c] = dropped[c]
       \/ state[c] # "open" /\ got'[c] = got[c] /\ dropped'[c] = Append(dropped[c], m)
  BY Zenon DEF Delivers
<1>13. FromPipe(c) = s \o t /\ FromPipe(c)' = r \o t
  BY <1>10, Zenon DEF FromPipe
<1> HIDE DEF s, t, r, u, m, z
<1>14. Associates(u, r, t)
  BY <1>1, <1>8, <1>9, ConcatAssociates
<1>15. FromPipe(c) = u \o FromPipe(c)'
  BY <1>8, <1>13, <1>14, Zenon DEF Associates
<1>16. DeliversMessage(c, m)
  BY <1>11, <1>12, <1>15, Zenon DEF DeliversMessage
<1>17. QED
  BY <1>11, <1>16

LEMMA UpAfter ==
    ASSUME Typed', NEW c \in Clients, UpFrames(c), NEW m \in Message,
           FromPipe(c) = MessageUnits(m[1], m[2]) \o FromPipe(c)', caller' = caller
    PROVE  UpFrames(c)'
<1> DEFINE u == MessageUnits(m[1], m[2])
           t == FromPipe(c)'
<1>1. m[1] \in Clients /\ m[2] \in Number
  BY DEF Message
<1>2. t \in Seq(Units)
  <2>1. input'[c] \in Seq(Units) /\ up'[c] \in Seq(Units)
    BY DEF Typed, SocketsTyped, ConnectorTyped
  <2>2. QED
    BY <2>1, ConcatProperties DEF FromPipe
<1>3. Stream(u \o t) /\ (caller # "done" => Whole(u \o t))
  BY DEF UpFrames
<1> HIDE DEF t
<1>4. Stream(t) /\ (Whole(u \o t) => Whole(t))
  BY <1>1, <1>2, <1>3, StreamAfter
<1>5. Stream(t) /\ (caller' # "done" => Whole(t))
  BY <1>3, <1>4
<1>6. QED
  BY <1>5 DEF UpFrames, t, Whole, Stream, Framed, BeginsMessage

LEMMA UpWritten ==
    ASSUME Typed, NEW c \in Clients, UpFrames(c), NEW p \in Seq(Units), Whole(p), caller # "done",
           up'[c] = up[c] \o p, input'[c] = input[c]
    PROVE  FromPipe(c)' = FromPipe(c) \o p /\ UpFrames(c)'
<1> DEFINE s == FromPipe(c)
<1>1. input[c] \in Seq(Units) /\ up[c] \in Seq(Units) /\ s \in Seq(Units)
  BY FromPipeType
<1>2. Associates(input[c], up[c], p)
  BY <1>1, ConcatAssociates
<1>3. FromPipe(c)' = s \o p
  BY <1>2, Zenon DEF Associates, FromPipe
<1>4. Whole(s) /\ Stream(p)
  BY DEF UpFrames, Whole
<1>5. Whole(s \o p)
  BY <1>1, <1>4, StreamConcat
<1> HIDE DEF s
<1>6. Stream(s \o p) /\ Whole(s \o p)
  BY <1>5 DEF Whole
<1>7. UpFrames(c)'
  BY <1>3, <1>6 DEF UpFrames, Whole, Stream, Framed, BeginsMessage
<1>8. QED
  BY <1>3, <1>7 DEF s

LEMMA UpOfClient ==
    ASSUME Typed, Typed', UpKept, NEW c \in Clients, AtClient(c), Idle
    PROVE  UpKept'
<1>1. caller' = caller /\ \A d \in Clients : UpFrames(d)
  BY IdleFrame DEF UpKept
<1>2. ASSUME NEW d \in Clients, up'[d] = up[d], input'[d] = input[d] PROVE UpFrames(d)'
  BY <1>1, <1>2, UpSame DEF FromPipe
<1>3. CASE Arrive(c)
  <2>1. /\ input'[c] \o up'[c] = input[c] \o up[c]
        /\ \A d \in Clients : d # c => input'[d] = input[d] /\ up'[d] = up[d]
    BY <1>3, ArriveEffect
  <2>2. UpFrames(c)'
    BY <1>1, <2>1, UpSame DEF FromPipe
  <2>3. QED
    BY <1>2, <2>1, <2>2 DEF UpKept
<1>4. CASE UpcallRead(c)
  <2>1. up' = up
    BY <1>4 DEF UpcallRead, sockets
  <2>2. CASE input' = input
    BY <1>2, <2>1, <2>2 DEF UpKept
  <2>3. CASE input' # input
    <3>1. PICK length : Delivers(c, length)
      BY <1>4, <2>3, UpcallReadEffect
    <3>2. PICK m \in Message : DeliversMessage(c, m)
      BY <1>1, <2>1, <3>1, DeliveredMessage
    <3>3. UpFrames(c)'
      BY <1>1, <3>2, UpAfter DEF DeliversMessage
    <3>4. \A d \in Clients : d # c => input'[d] = input[d]
      BY <3>1 DEF Delivers
    <3>5. QED
      BY <1>2, <2>1, <3>3, <3>4 DEF UpKept
  <2>4. QED
    BY <2>2, <2>3
<1>5. CASE Closer(c)
  <2>1. /\ up'[c] = <<>> /\ input'[c] = <<>>
        /\ \A d \in Clients : d # c => up'[d] = up[d] /\ input'[d] = input[d]
    BY <1>5, CloserEffect
  <2>2. <<>> \o <<>> = <<>>
    BY EmptySeq, ConcatEmptySeq
  <2>3. UpFrames(c)'
    BY <2>1, <2>2, UpEmpty DEF FromPipe
  <2>4. QED
    BY <1>2, <2>1, <2>3 DEF UpKept
<1>6. CASE Opener(c) \/ OpenerFails(c) \/ UpcallConnected(c) \/ UpcallError(c) \/ DowncallRead(c) \/ Pause(c)
  <2>1. up' = up /\ input' = input
    BY <1>6, Zenon DEF Opener, OpenerFails, UpcallConnected, UpcallError, DowncallRead, Pause, sockets, connVars
  <2>2. QED
    BY <1>2, <2>1 DEF UpKept
<1>7. QED
  BY <1>3, <1>4, <1>5, <1>6, Zenon DEF AtClient

LEMMA UpStep ==
    ASSUME Base, Base', SlotsFull, QueuesCarry, UpKept, [Next]_vars
    PROVE  UpKept'
<1>1. Typed /\ Typed' /\ ThreadIsKnown /\ \A d \in Clients : UpFrames(d)
  BY DEF Base, UpKept
<1>2. ASSUME NEW c \in Clients, AtClient(c), Idle PROVE UpKept'
  BY <1>1, <1>2, UpOfClient
<1>3. ASSUME up' = up, input' = input, caller' # "done" => caller # "done" PROVE UpKept'
  BY <1>1, <1>3, UpSame DEF UpKept, FromPipe
<1>4. ASSUME NEW c \in Clients, Listener(c), Apart PROVE UpKept'
  BY <1>1, <1>3, <1>4, ListenerEffect, ApartFrame DEF threadVars
<1>5. ASSUME NEW i \in Slots, ConnError(i) \/ ConnRead(i), Apart PROVE UpKept'
  <2>1. UNCHANGED <<up, caller>>
    BY <1>1, <1>5, ConnErrorEffect, ConnReadEffect DEF threadVars
  <2>2. QED
    BY <1>3, <1>5, <2>1, ApartFrame
<1>6. ASSUME NEW i \in Slots, SingleRead(i), Apart PROVE UpKept'
  <2>1. caller' = caller /\ reading = i /\ input' = input
    BY <1>1, <1>6, SingleReadEffect, ApartFrame DEF threadVars
  <2>2. conns[i].client_fd \in Clients /\ caller # "done" /\ SlotFrames(i)
    BY <1>1, <2>1, ReadersAreConnected DEF SlotsFull
  <2>3. PICK length : ReadsAs(i, length)
    BY <1>1, <1>6, SingleReadEffect
  <2>4. CASE up' = up
    BY <1>3, <2>1, <2>4
  <2>5. CASE up' # up
    <3>1. Takes(i, length) /\ Finds(conns[i], length) /\ Reflects(i, Prefix(conns[i].input, HeaderSize + length))
      BY <2>3, <2>5, Zenon DEF ReadsAs, Refuses, Awaits, Delays_
    <3>2. PICK m \in Message : TakesMessage(i, length, m)
      BY <1>1, <2>2, <3>1, TakenMessage
    <3> DEFINE p == MessageUnits(m[1], m[2])
    <3>3. p \in Seq(Units) /\ Whole(p)
      BY MessageUnitsType, MessageIsWhole DEF Message
    <3>4. \A d \in Clients : ReflectWrites(d, i, p)
      BY <3>1, <3>2 DEF Reflects, TakesMessage
    <3> HIDE DEF p
    <3>5. ASSUME NEW d \in Clients PROVE UpFrames(d)'
      <4>1. CASE up'[d] = up[d]
        BY <1>1, <2>1, <4>1, UpSame DEF FromPipe
      <4>2. CASE up'[d] = up[d] \o p
        BY <1>1, <2>1, <2>2, <3>3, <4>2, UpWritten
      <4>3. QED
        BY <3>4, <4>1, <4>2 DEF ReflectWrites
    <3>6. QED
      BY <3>5 DEF UpKept
  <2>6. QED
    BY <2>4, <2>5
<1>7. ASSUME NEW i \in Slots, Timer(i), Apart PROVE UpKept'
  <2>1. caller' = caller /\ input' = input /\ router = "running"
    BY <1>1, <1>7, TimerEffect, ApartFrame DEF threadVars, PipeCalm
  <2>2. caller # "done"
    BY <1>1, <2>1 DEF ThreadIsKnown
  <2> DEFINE q == conns[i].output_queue
             p == Packets(Prefix(q, Due(q)))
  <2>3. q \in Seq(Waiting) /\ Carries(q)
    BY <1>1, SlotFields DEF Typed, PipeTyped, QueuesCarry
  <2>4. \A c \in Clients : TimerWrites(c, i)
    BY <1>1, <1>7, TimerEffect
  <2>5. \A c \in Clients : up'[c] = up[c] \/ up'[c] = up[c] \o p
    BY <2>4, Zenon DEF TimerWrites
  <2>6. p \in Seq(Units) /\ Whole(p)
    <3>1. PICK n \in 0 .. Len(q) : n = Due(q)
      BY <2>3, DueType
    <3> HIDE DEF q
    <3>2. Prefix(q, n) \in Seq(Waiting) /\ Carries(Prefix(q, n))
      BY <2>3, CarriesCut
    <3>3. QED
      BY <3>1, <3>2, PacketsWhole, PacketsFacts
  <2> HIDE DEF p
  <2>7. ASSUME NEW d \in Clients PROVE UpFrames(d)'
    <3>1. CASE up'[d] = up[d]
      BY <1>1, <2>1, <3>1, UpSame DEF FromPipe
    <3>2. CASE up'[d] = up[d] \o p
      BY <1>1, <2>1, <2>2, <2>6, <3>2, UpWritten
    <3>3. QED
      BY <2>5, <3>1, <3>2
  <2>8. QED
    BY <2>7 DEF UpKept
<1>8. CASE AtThread /\ Apart
  <2>1. up' = up /\ input' = input
    BY <1>8, ThreadFrame, ApartFrame DEF sockets
  <2>2. caller' # "done" => caller # "done"
    BY <1>8 DEF AtThread, KeepAlive, RunEnds, StartWaits, StopWaits, Params, Start, Stop, Signal, Signalled, threadVars
  <2>3. QED
    BY <1>3, <2>1, <2>2
<1>9. CASE Tick /\ Apart
  <2>1. up' = up /\ input' = input /\ caller' = caller
    BY <1>1, <1>9, TickEffect, ApartFrame DEF sockets, threadVars
  <2>2. QED
    BY <1>3, <2>1
<1>10. CASE Destroy /\ Apart
  <2>1. caller' = "done" /\ input' = input /\ \A c \in Clients : \E n \in 0 .. Len(up[c]) : up'[c] = Prefix(up[c], n)
    BY <1>1, <1>10, DestroyEffect, ApartFrame
  <2>2. ASSUME NEW c \in Clients PROVE UpFrames(c)'
    <3>1. PICK n \in 0 .. Len(up[c]) : up'[c] = Prefix(up[c], n)
      BY <2>1
    <3> DEFINE s == input[c]
               p == Prefix(up[c], n)
               r == Rest(up[c], n)
    <3>2. s \in Seq(Units) /\ up[c] \in Seq(Units) /\ Stream(s \o up[c])
      BY <1>1, FromPipeType DEF UpFrames, FromPipe
    <3>3. p \in Seq(Units) /\ r \in Seq(Units)
      BY <3>2, CutElements
    <3>4. (s \o p) \o r = s \o up[c]
      BY <3>2, Shift
    <3>5. FromPipe(c)' = s \o p
      BY <2>1, <3>1 DEF FromPipe
    <3> HIDE DEF s, p, r
    <3>6. s \o p \in Seq(Units)
      BY <3>2, <3>3, ConcatProperties
    <3>7. Stream(s \o p)
      BY <3>2, <3>3, <3>4, <3>6, StreamHead
    <3>8. QED
      BY <2>1, <3>5, <3>7 DEF UpFrames, Stream, Framed, BeginsMessage
  <2>3. QED
    BY <2>2 DEF UpKept
<1>11. CASE UNCHANGED vars
  BY <1>3, <1>11 DEF vars, sockets, connVars, pipeVars, threadVars
<1>12. QED
  BY <1>2, <1>4, <1>5, <1>6, <1>7, <1>8, <1>9, <1>10, <1>11, Steps, Zenon DEF AtSlot

-----------------------------------------------------------------------------
(* What is on its way to a slot *)

LEMMA SlotFramesNext ==
    ASSUME NEW i \in Slots,
           conns'[i].client_fd # None =>
              /\ Whole(conns'[i].input \o down'[conns'[i].client_fd])
              /\ From(conns'[i].client_fd, conns'[i].input),
           conns'[i].msg_length # 0 =>
              Len(conns'[i].input) > 0 /\ conns'[i].msg_length = Body[conns'[i].input[1][2]],
           reading' # i => Part(conns'[i].input)
    PROVE  SlotFrames(i)'
BY DEF SlotFrames, Inbound, Whole, Stream, Framed, BeginsMessage, From, Part, Place

LEMMA SlotFramesSame ==
    ASSUME NEW i \in Slots, SlotFrames(i), SameEnd(conns'[i], conns[i]),
           conns[i].client_fd # None => down'[conns[i].client_fd] = down[conns[i].client_fd],
           reading' # i => reading # i
    PROVE  SlotFrames(i)'
BY SlotFramesNext DEF SlotFrames, Inbound, SameEnd

LEMMA AllSlotsSame ==
    ASSUME SlotsFull, down' = down, reading' = reading,
           \A j \in Slots : SameEnd(conns'[j], conns[j])
    PROVE  SlotsFull'
<1>1. ASSUME NEW j \in Slots PROVE SlotFrames(j)'
  BY SlotFramesSame DEF SlotsFull
<1>2. QED
  BY <1>1 DEF SlotsFull

LEMMA SlotsOfClient ==
    ASSUME Graceful, Typed, SlotsFull, NEW c \in Clients, AtClient(c), Idle
    PROVE  SlotsFull'
<1>1. conns' = conns /\ reading' = reading
  BY IdleFrame
<1>2. CASE down' = down
  BY <1>1, <1>2, AllSlotsSame DEF SameEnd
<1>3. CASE DowncallRead(c)
  <2>1. PICK n \in Number : down'[c] = down[c] \o MessageUnits(c, n)
    BY <1>3, DowncallEffect
  <2>2. \A d \in Clients : d # c => down'[d] = down[d]
    BY <1>3, DowncallEffect
  <2>3. ASSUME NEW j \in Slots PROVE SlotFrames(j)'
    <3>1. SlotFrames(j) /\ conns[j].client_fd \in Clients \cup {None} /\ conns[j].input \in Seq(Units)
      BY SlotFields DEF SlotsFull, Typed, PipeTyped
    <3>2. CASE conns[j].client_fd # c
      BY <1>1, <2>2, <3>1, <3>2, SlotFramesSame DEF SameEnd
    <3>3. CASE conns[j].client_fd = c
      <4> DEFINE s == conns[j].input
                 d == down[c]
                 t == MessageUnits(c, n)
      <4>1. s \in Seq(Units) /\ d \in Seq(Units) /\ t \in Seq(Units) /\ Whole(t)
        BY <3>1, MessageUnitsType, MessageIsWhole DEF Typed, SocketsTyped
      <4>2. Whole(s \o d) /\ From(c, s)
        BY <3>1, <3>3, Constants DEF SlotFrames, Inbound
      <4> HIDE DEF s, d, t
      <4>3. Associates(s, d, t) /\ s \o d \in Seq(Units)
        BY <4>1, ConcatAssociates, ConcatProperties
      <4>4. Whole((s \o d) \o t)
        BY <4>1, <4>2, <4>3, StreamConcat DEF Whole
      <4>5. Whole(s \o (d \o t))
        BY <4>3, <4>4, Zenon DEF Associates
      <4>6. Whole(conns[j].input \o down'[c])
        BY <2>1, <4>5 DEF s, d, t
      <4>7. From(c, conns[j].input)
        BY <4>2 DEF s
      <4>8. /\ conns[j].msg_length # 0 =>
                  Len(conns[j].input) > 0 /\ conns[j].msg_length = Body[conns[j].input[1][2]]
            /\ reading # j => Part(conns[j].input)
        BY <3>1, Zenon DEF SlotFrames
      <4>9. QED
        BY <1>1, <3>3, <4>6, <4>7, <4>8, SlotFramesNext
    <3>4. QED
      BY <3>2, <3>3
  <2>4. QED
    BY <2>3 DEF SlotsFull
<1>4. down' = down \/ DowncallRead(c)
  <2>1. CASE Closer(c)
    BY <2>1, CloserEffect DEF Closer
  <2>2. CASE Opener(c) \/ OpenerFails(c) \/ UpcallConnected(c) \/ UpcallError(c) \/ Arrive(c)
             \/ UpcallRead(c) \/ Pause(c)
    BY <2>2, Zenon DEF Opener, OpenerFails, UpcallConnected, UpcallError, Arrive, UpcallRead, Pause, sockets
  <2>3. QED
    BY <2>1, <2>2, Zenon DEF AtClient
<1>5. QED
  BY <1>2, <1>3, <1>4

(* A slot is taken: nothing was left in it, and what waits for it begins   *)
(* with a message.                                                         *)
LEMMA SlotsOfListener ==
    ASSUME Base, DownKept, SlotsFull, NEW c \in Clients, Listener(c)
    PROVE  SlotsFull'
<1>1. Typed /\ down' = down /\ reading' = reading /\ pipe_end[c] = "backlog"
  BY ListenerEffect DEF Base
<1>2. CASE conns' = conns
  BY <1>1, <1>2, AllSlotsSame DEF SameEnd
<1>3. CASE conns' # conns
  <2>1. PICK i \in Slots : /\ conns[i].client_fd = None /\ conns'[i].client_fd = c /\ OnlySlot(i)
                           /\ conns'[i].input = conns[i].input /\ conns'[i].msg_length = conns[i].msg_length
    BY <1>1, <1>3, ListenerEffect
  <2>2. conns[i].input = <<>> /\ Len(conns[i].input) = 0
    BY <2>1, EmptySeq DEF Base, SlotsAreUsed, UnusedIsEmpty
  <2>3. SlotFrames(i) /\ DownFrames(c) /\ down[c] \in Seq(Units)
    BY <1>1 DEF SlotsFull, DownKept, Typed, SocketsTyped
  <2>4. conns[i].msg_length = 0
    BY <2>2, <2>3 DEF SlotFrames
  <2>5. <<>> \o down[c] = down[c] /\ Whole(down[c])
    BY <1>1, <2>3, ConcatEmptySeq DEF DownFrames
  <2>6. Whole(conns'[i].input \o down'[c]) /\ From(c, conns'[i].input) /\ Part(conns'[i].input)
    BY <1>1, <2>1, <2>2, <2>5, FromNothing, NothingIsPart
  <2>7. SlotFrames(i)'
    BY <2>1, <2>4, <2>6, SlotFramesNext
  <2>8. ASSUME NEW j \in Slots, j # i PROVE SlotFrames(j)'
    <3>1. SameEnd(conns'[j], conns[j])
      BY <2>1, <2>8 DEF OnlySlot, SameEnd
    <3>2. QED
      BY <1>1, <3>1, SlotFramesSame DEF SlotsFull
  <2>9. QED
    BY <2>7, <2>8 DEF SlotsFull
<1>4. QED
  BY <1>2, <1>3

(* The other slots serve other clients. *)
LEMMA OtherSlots ==
    ASSUME Typed, OneSlotEach, SlotsFull, NEW i \in Slots, conns[i].client_fd \in Clients, OnlySlot(i),
           \A d \in Clients : d # conns[i].client_fd => down'[d] = down[d],
           NEW j \in Slots, j # i, reading' # j => reading # j
    PROVE  SlotFrames(j)'
<1>1. SameEnd(conns'[j], conns[j])
  BY DEF OnlySlot, SameEnd
<1>2. conns[j].client_fd \in Clients \cup {None}
  BY SlotFields DEF Typed, PipeTyped
<1>3. conns[j].client_fd # None => conns[j].client_fd # conns[i].client_fd
  BY DEF OneSlotEach
<1>4. conns[j].client_fd # None => down'[conns[j].client_fd] = down[conns[j].client_fd]
  BY <1>2, <1>3
<1>5. QED
  BY <1>1, <1>4, SlotFramesSame DEF SlotsFull

(* A client that has gone had sent everything, and everything was read. *)
LEMMA NothingInbound ==
    ASSUME Base, DownKept, SlotsFull, NEW i \in Slots, ConnError(i)
    PROVE  Len(conns[i].input) = 0 /\ down[conns[i].client_fd] = <<>>
<1>1. Typed
  BY DEF Base
<1>2. PICK c \in Clients : c = conns[i].client_fd
  BY <1>1, ConnErrorEffect
<1>3. client_end[c] = "closed" /\ reading = 0
  BY <1>1, <1>2, ConnErrorEffect DEF PipeCalm
<1> DEFINE s == conns[i].input
<1>4. s \in Seq(Units) /\ SlotFrames(i) /\ down[c] = <<>> /\ Len(s) \in Nat
  BY <1>1, <1>3, SlotFields, ElementsOf DEF Typed, PipeTyped, SlotsFull, DownKept, DownFrames
<1>5. Whole(s) /\ Part(s)
  <2>1. Whole(s \o down[c])
    BY <1>2, <1>4, Constants DEF SlotFrames, Inbound
  <2>2. s \o <<>> = s
    BY <1>4, ConcatEmptySeq
  <2>3. Part(s)
    BY <1>3, <1>4, SlotIsNotZero DEF SlotFrames
  <2>4. QED
    BY <1>4, <2>1, <2>2, <2>3
<1>6. Len(s) = 0
  <2> HIDE DEF s
  <2>1. SUFFICES ASSUME Len(s) > 0 PROVE FALSE
    BY <1>4
  <2>2. Place(s[1]) <= Len(s) /\ Len(s) < Place(s[1]) /\ Place(s[1]) \in Nat
    BY <1>4, <1>5, <2>1, WholeHolds, FirstMessage DEF Part, Whole
  <2>3. QED
    BY <1>4, <2>2
<1>7. QED
  BY <1>2, <1>4, <1>6

LEMMA SlotsOfError ==
    ASSUME Base, DownKept, SlotsFull, NEW i \in Slots, ConnError(i)
    PROVE  SlotsFull'
<1>1. Typed /\ OneSlotEach /\ SlotFrames(i)
  BY DEF Base, SlotsAreUsed, SlotsFull
<1>2. PICK c \in Clients : c = conns[i].client_fd
  BY <1>1, ConnErrorEffect
<1>3. /\ OnlySlot(i) /\ conns'[i].client_fd = None /\ conns'[i].input = <<>>
      /\ conns'[i].msg_length = conns[i].msg_length /\ reading = 0 /\ reading' = 0
      /\ down' = [down EXCEPT ![c] = <<>>]
  BY <1>1, <1>2, ConnErrorEffect DEF PipeCalm
<1>4. conns'[i].msg_length = 0
  BY <1>1, <1>3, NothingInbound DEF SlotFrames
<1>5. SlotFrames(i)'
  <2>1. Part(conns'[i].input)
    BY <1>3, NothingIsPart, EmptySeq
  <2>2. QED
    BY <1>3, <1>4, <2>1, SlotFramesNext
<1>6. \A d \in Clients : d # conns[i].client_fd => down'[d] = down[d]
  BY <1>1, <1>2, <1>3 DEF Typed, SocketsTyped
<1>7. ASSUME NEW j \in Slots, j # i PROVE SlotFrames(j)'
  <2>1. conns[i].client_fd \in Clients /\ (reading' # j => reading # j)
    BY <1>2, <1>3
  <2>2. QED
    BY <1>1, <1>3, <1>6, <1>7, <2>1, OtherSlots
<1>8. QED
  BY <1>5, <1>7 DEF SlotsFull

(* What is read of a client is still on its way to the slot. *)
LEMMA SlotsOfRead ==
    ASSUME Base, DownKept, SlotsFull, NEW i \in Slots, ConnRead(i)
    PROVE  SlotsFull'
<1>1. Typed /\ OneSlotEach
  BY DEF Base, SlotsAreUsed
<1>2. PICK c \in Clients : c = conns[i].client_fd
  BY <1>1, ConnReadEffect
<1>3. /\ OnlySlot(i) /\ conns'[i].client_fd = c /\ conns'[i].msg_length = conns[i].msg_length
      /\ reading = 0 /\ reading' = i
  BY <1>1, <1>2, ConnReadEffect DEF PipeCalm
<1>4. PICK n \in 1 .. Len(down[c]) : /\ conns'[i].input = conns[i].input \o Prefix(down[c], n)
                                     /\ down' = [down EXCEPT ![c] = Rest(down[c], n)]
  BY <1>1, <1>2, ConnReadEffect
<1> DEFINE s == conns[i].input
           d == down[c]
           p == Prefix(d, n)
           r == Rest(d, n)
<1>5. s \in Seq(Units) /\ d \in Seq(Units) /\ n \in 0 .. Len(d)
  BY <1>1, <1>4, SlotFields, ElementsOf DEF Typed, PipeTyped, SocketsTyped
<1>6. /\ Whole(s \o d) /\ From(c, s) /\ From(c, d)
      /\ conns[i].msg_length # 0 => Len(s) > 0 /\ conns[i].msg_length = Body[s[1][2]]
  BY <1>2, Constants DEF SlotsFull, SlotFrames, Inbound, DownKept, DownFrames
<1>7. down'[c] = r /\ \A e \in Clients : e # c => down'[e] = down[e]
  BY <1>1, <1>4 DEF Typed, SocketsTyped
<1> HIDE DEF s, d
<1>8. p \in Seq(Units) /\ r \in Seq(Units) /\ d = p \o r /\ (s \o p) \o r = s \o d
  BY <1>5, CutElements, CutConcat, Shift, ZenonT(60)
<1>9. conns'[i].input = s \o p
  BY <1>4 DEF s, d
<1> HIDE DEF p, r
<1>10. Whole((s \o p) \o r) /\ From(c, s \o p)
  BY <1>5, <1>6, <1>8, FromConcat
<1>11. conns[i].msg_length # 0 => Len(s \o p) > 0 /\ conns[i].msg_length = Body[(s \o p)[1][2]]
  <2>1. SUFFICES ASSUME conns[i].msg_length # 0
                 PROVE  Len(s \o p) > 0 /\ conns[i].msg_length = Body[(s \o p)[1][2]]
    OBVIOUS
  <2>2. s # <<>>
    BY <1>6, <2>1, EmptySeq
  <2>3. (s \o p)[1] = s[1] /\ s \o p # <<>> /\ s \o p \in Seq(Units)
    BY <1>5, <1>8, <2>2, HeadStays, ConcatProperties
  <2>4. Len(s \o p) > 0
    BY <2>3, EmptySeq
  <2>5. QED
    BY <1>6, <2>1, <2>3, <2>4
<1>12. SlotFrames(i)'
  BY <1>3, <1>7, <1>9, <1>10, <1>11, SlotFramesNext
<1>13. ASSUME NEW j \in Slots, j # i PROVE SlotFrames(j)'
  <2>1. /\ conns[i].client_fd \in Clients /\ (reading' # j => reading # j)
        /\ \A e \in Clients : e # conns[i].client_fd => down'[e] = down[e]
    BY <1>2, <1>3, <1>7, SlotIsNotZero
  <2>2. QED
    BY <1>1, <1>3, <1>13, <2>1, OtherSlots
<1>14. QED
  BY <1>12, <1>13 DEF SlotsFull

(* single_read keeps the length of the message it stands at, or takes that *)
(* message.                                                                *)
LEMMA SlotsOfSingleRead ==
    ASSUME Base, SlotsFull, NEW i \in Slots, SingleRead(i)
    PROVE  SlotsFull'
<1>1. Typed /\ ThreadIsKnown /\ SlotFrames(i)
  BY DEF Base, SlotsFull
<1>2. reading = i /\ down' = down
  BY <1>1, SingleReadEffect
<1>3. PICK c \in Clients : c = conns[i].client_fd
  BY <1>1, <1>2, ReadersAreConnected
<1>4. PICK length : ReadsAs(i, length)
  BY <1>1, SingleReadEffect
<1> DEFINE s == conns[i].input
           d == down[c]
<1>5. s \in Seq(Units) /\ d \in Seq(Units) /\ Len(s) \in Nat
  BY <1>1, SlotFields, ElementsOf DEF Typed, PipeTyped, SocketsTyped
<1>6. Whole(s \o d) /\ From(c, s)
  BY <1>1, <1>3, Constants DEF SlotFrames, Inbound
<1>7. /\ Stream(s)
      /\ \/ length = 0 /\ Len(s) < HeaderSize
         \/ /\ Len(s) > 0 /\ length = Body[s[1][2]]
            /\ HeaderSize + length = Place(s[1]) /\ length > 0
  BY <1>1, <1>3, <1>4, FoundLength DEF ReadsAs
<1>8. ASSUME NEW j \in Slots, j # i, SameEnd(conns'[j], conns[j]) PROVE SlotFrames(j)'
  BY <1>2, <1>8, SlotFramesSame DEF SlotsFull
<1>9. CASE Refuses(i, length)
  BY <1>2, <1>9, AllSlotsSame DEF Refuses, SameEnd
<1>10. CASE Awaits(i, length)
  <2>1. /\ Len(s) < HeaderSize + length /\ conns'[i].client_fd = c /\ conns'[i].input = s
        /\ conns'[i].msg_length = length /\ OnlySlot(i)
    BY <1>3, <1>10 DEF Awaits
  <2>2. length # 0 => Len(s) > 0 /\ length = Body[s[1][2]]
    BY <1>7
  <2> HIDE DEF s, d
  <2>3. Part(s)
    <3>1. SUFFICES ASSUME Len(s) > 0 PROVE Len(s) < Place(s[1])
      BY DEF Part
    <3>2. Place(s[1]) \in Nat /\ Place(s[1]) > HeaderSize
      BY <1>5, <1>7, <3>1, FirstMessage
    <3>3. QED
      BY <1>5, <1>7, <2>1, <3>2, Constants
  <2>4. down'[c] = d
    BY <1>2 DEF d
  <2>5. SlotFrames(i)'
    BY <1>6, <2>1, <2>2, <2>3, <2>4, SlotFramesNext
  <2>6. \A j \in Slots : j # i => SameEnd(conns'[j], conns[j])
    BY <2>1 DEF OnlySlot, SameEnd
  <2>7. QED
    BY <1>8, <2>5, <2>6 DEF SlotsFull
<1>11. CASE /\ Takes(i, length)
            /\ IF use_params THEN Delays_(i, Prefix(s, HeaderSize + length))
               ELSE Reflects(i, Prefix(s, HeaderSize + length))
  <2>1. PICK m \in Message : TakesMessage(i, length, m)
    BY <1>1, <1>3, <1>4, <1>11, TakenMessage DEF ReadsAs
  <2> DEFINE u == MessageUnits(m[1], m[2])
             r == conns'[i].input
  <2>2. m[1] = c /\ m[2] \in Number /\ u \in Seq(Units) /\ s = u \o r
    BY <1>3, <2>1, MessageUnitsType DEF TakesMessage, Message
  <2>3. r \in Seq(Units)
    <3>1. conns'[i] \in SlotType
      BY <1>11 DEF Takes
    <3>2. QED
      BY <3>1, SlotFields
  <2>4. r = Rest(s, HeaderSize + length) /\ HeaderSize + length \in 0 .. Len(s)
    BY <1>5, <1>11 DEF Takes
  <2> HIDE DEF s, d, r
  <2>5. Len(r) = Len(s) - (HeaderSize + length)
    BY <1>5, <2>4, CutElements
  <2>6. Associates(u, r, d) /\ r \o d \in Seq(Units)
    BY <1>5, <2>2, <2>3, ConcatAssociates, ConcatProperties
  <2>7. Whole(u \o (r \o d)) /\ From(c, r)
    BY <1>5, <1>6, <2>2, <2>3, <2>6, FromConcat DEF Associates
  <2>8. Whole(r \o d)
    BY <2>2, <2>6, <2>7, StreamAfter DEF Whole
  <2>9. reading' # i => Part(r)
    <3>1. SUFFICES ASSUME reading' # i PROVE Len(r) = 0
      BY NothingIsPart
    <3>2. ~ (Len(s) > HeaderSize + length) /\ HeaderSize + length \in 1 .. Len(s)
      BY <1>11, <3>1 DEF Takes, s
    <3>3. QED
      BY <1>5, <2>5, <3>2
  <2>10. conns'[i].client_fd = c /\ conns'[i].msg_length = 0 /\ conns'[i].input = r /\ down'[c] = d
    BY <1>2, <1>3, <1>11 DEF Takes, r, d
  <2>11. SlotFrames(i)'
    BY <2>7, <2>8, <2>9, <2>10, SlotFramesNext
  <2>12. \A j \in Slots : j # i => SameEnd(conns'[j], conns[j])
    BY <1>11 DEF Delays_, Reflects, OnlySlot, SameEnd
  <2>13. QED
    BY <1>8, <2>11, <2>12 DEF SlotsFull
<1>12. QED
  BY <1>4, <1>9, <1>10, <1>11 DEF ReadsAs

LEMMA SlotsStep ==
    ASSUME Graceful, Base, DownKept, SlotsFull, [Next]_vars
    PROVE  SlotsFull'
<1>1. Typed
  BY DEF Base
<1>2. ASSUME NEW c \in Clients, AtClient(c), Idle PROVE SlotsFull'
  BY <1>1, <1>2, SlotsOfClient
<1>3. ASSUME NEW c \in Clients, Listener(c) PROVE SlotsFull'
  BY <1>3, SlotsOfListener
<1>4. ASSUME NEW i \in Slots, AtSlot(i) PROVE SlotsFull'
  <2>1. CASE Timer(i)
    <3>1. down' = down /\ reading' = reading /\ OnlySlot(i) /\ SameEnd(conns'[i], conns[i])
      BY <1>1, <2>1, TimerEffect
    <3>2. \A j \in Slots : SameEnd(conns'[j], conns[j])
      BY <3>1 DEF OnlySlot, SameEnd
    <3>3. QED
      BY <3>1, <3>2, AllSlotsSame
  <2>2. QED
    BY <1>4, <2>1, SlotsOfError, SlotsOfRead, SlotsOfSingleRead, Zenon DEF AtSlot
<1>5. CASE AtThread
  <2>1. down' = down /\ reading' = reading /\ conns' = conns
    BY <1>5, ThreadFrame DEF sockets
  <2>2. QED
    BY <2>1, AllSlotsSame DEF SameEnd
<1>6. CASE Tick
  <2>1. down' = down /\ reading' = reading /\ \A j \in Slots : SameEnd(conns'[j], conns[j])
    BY <1>1, <1>6, TickEffect DEF sockets
  <2>2. QED
    BY <2>1, AllSlotsSame
<1>7. CASE Destroy
  <2>1. conns' = [i \in Slots |-> NewConn]
    BY <1>1, <1>7, DestroyEffect
  <2>2. ASSUME NEW i \in Slots PROVE SlotFrames(i)'
    <3>1. conns'[i].client_fd = None /\ conns'[i].msg_length = 0 /\ conns'[i].input = <<>>
      BY <2>1 DEF NewConn
    <3>2. Part(conns'[i].input)
      BY <3>1, NothingIsPart, EmptySeq
    <3>3. QED
      BY <3>1, <3>2, SlotFramesNext
  <2>3. QED
    BY <2>2 DEF SlotsFull
<1>8. CASE UNCHANGED vars
  BY <1>8, AllSlotsSame DEF vars, sockets, pipeVars, slotVars, SameEnd
<1>9. QED
  BY <1>2, <1>3, <1>4, <1>5, <1>6, <1>7, <1>8, Steps, Zenon

LEMMA FramesInit == Init => FramesKept
<1>1. SUFFICES ASSUME Init PROVE FramesKept
  OBVIOUS
<1>2. /\ \A c \in Clients : down[c] = <<>> /\ up[c] = <<>> /\ input[c] = <<>>
      /\ \A i \in Slots : conns[i] = NewConn
  BY <1>1 DEF Init, SocketInit, ConnectorInit, PipeInit
<1>3. <<>> \o <<>> = <<>>
  BY EmptySeq, ConcatEmptySeq
<1>4. DownKept /\ UpKept
  BY <1>2, <1>3, EmptyIsWhole, FromNothing DEF DownKept, UpKept, DownFrames, UpFrames, FromPipe
<1>5. ASSUME NEW i \in Slots PROVE SlotFrames(i) /\ Carries(conns[i].output_queue)
  <2>1. /\ conns[i].client_fd = None /\ conns[i].msg_length = 0 /\ conns[i].input = <<>>
        /\ conns[i].output_queue = <<>>
    BY <1>2 DEF NewConn
  <2>2. Part(<<>>) /\ Carries(<<>>)
    BY NothingIsPart, CarriesNothing, EmptySeq
  <2>3. QED
    BY <2>1, <2>2 DEF SlotFrames
<1>6. QED
  BY <1>4, <1>5 DEF FramesKept, SlotsFull, QueuesCarry

LEMMA AlwaysFrames ==
    ASSUME Graceful
    PROVE  Spec => [](Base /\ FramesKept)
<1>1. Init => Base /\ FramesKept
  BY BaseInit, FramesInit
<1>2. Base /\ FramesKept /\ [Next]_vars => (Base /\ FramesKept)'
  <2>1. SUFFICES ASSUME Base, FramesKept, [Next]_vars PROVE (Base /\ FramesKept)'
    OBVIOUS
  <2>2. DownKept /\ UpKept /\ SlotsFull /\ QueuesCarry /\ Typed /\ ThreadIsKnown
    BY <2>1, Zenon DEF FramesKept, Base
  <2>3. Base'
    BY <2>1, BaseKept
  <2>4. DownKept' /\ SlotsFull' /\ QueuesCarry' /\ UpKept'
    BY <2>1, <2>2, <2>3, DownStep, SlotsStep, CarryKept, UpStep
  <2>5. QED
    BY <2>3, <2>4, Zenon DEF FramesKept
<1>3. QED
  BY <1>1, <1>2, PTL DEF Spec

(* The slot of a client *)
LEMMA SlotOfClient ==
    ASSUME OneSlotEach, NEW c \in Clients, NEW i \in Slots, conns[i].client_fd = c
    PROVE  /\ i \in SlotOf(c) /\ SlotOf(c) # {}
           /\ FromClient(c) = Inbound(i) /\ Queued(c) = Packets(conns[i].output_queue)
<1>1. c # None
  BY Constants
<1>2. i \in SlotOf(c)
  BY DEF SlotOf
<1>3. \A j \in SlotOf(c) : j = i
  BY <1>1 DEF SlotOf, OneSlotEach
<1>4. (CHOOSE j \in SlotOf(c) : TRUE) = i
  BY <1>2, <1>3
<1>5. SlotOf(c) # {}
  BY <1>2
<1>6. QED
  BY <1>2, <1>4, <1>5 DEF FromClient, Queued, Inbound

LEMMA NoSlotOfClient ==
    ASSUME NEW c, \A i \in Slots : conns[i].client_fd # c
    PROVE  SlotOf(c) = {} /\ FromClient(c) = <<>> \o down[c] /\ Queued(c) = <<>>
<1>1. SlotOf(c) = {}
  BY DEF SlotOf
<1>2. QED
  BY <1>1 DEF FromClient, Queued

LEMMA QueuedWhole ==
    ASSUME Base, FramesKept, NEW c \in Clients
    PROVE  Queued(c) \in Seq(Units) /\ Whole(Queued(c))
<1>1. Typed /\ OneSlotEach
  BY DEF Base, SlotsAreUsed
<1>2. CASE \E i \in Slots : conns[i].client_fd = c
  <2>1. PICK i \in Slots : conns[i].client_fd = c
    BY <1>2
  <2> DEFINE q == conns[i].output_queue
  <2>2. q \in Seq(Waiting) /\ Carries(q)
    BY <1>1, SlotFields DEF Typed, PipeTyped, FramesKept, QueuesCarry
  <2>3. Queued(c) = Packets(q)
    BY <1>1, <2>1, SlotOfClient
  <2> HIDE DEF q
  <2>4. QED
    BY <2>2, <2>3, PacketsWhole, PacketsFacts
<1>3. CASE ~ \E i \in Slots : conns[i].client_fd = c
  BY <1>3, NoSlotOfClient, EmptyIsWhole, EmptySeq
<1>4. QED
  BY <1>2, <1>3

LEMMA FramesWhole == Base /\ FramesKept => FramesAreWhole
<1>1. SUFFICES ASSUME Base, FramesKept, NEW c \in Clients
               PROVE  /\ Framed(FromPipe(c)) /\ BeginsMessage(FromPipe(c))
                      /\ Framed(Queued(c))   /\ BeginsMessage(Queued(c))
                      /\ \A i \in SlotOf(c) :
                            /\ Framed(FromClient(c)) /\ BeginsMessage(FromClient(c))
                            /\ conns[i].msg_length # 0 =>
                                  /\ FromClient(c) # <<>>
                                  /\ conns[i].msg_length = Body[FromClient(c)[1][2]]
  BY DEF FramesAreWhole
<1>2. Framed(FromPipe(c)) /\ BeginsMessage(FromPipe(c))
  BY <1>1 DEF FramesKept, UpKept, UpFrames, Stream
<1>3. Framed(Queued(c)) /\ BeginsMessage(Queued(c))
  BY <1>1, QueuedWhole DEF Whole, Stream
<1>4. ASSUME NEW i \in SlotOf(c)
      PROVE  /\ Framed(FromClient(c)) /\ BeginsMessage(FromClient(c))
             /\ conns[i].msg_length # 0 =>
                   FromClient(c) # <<>> /\ conns[i].msg_length = Body[FromClient(c)[1][2]]
  <2>1. i \in Slots /\ conns[i].client_fd = c /\ c # None
    BY Constants DEF SlotOf
  <2>2. FromClient(c) = Inbound(i)
    BY <1>1, <2>1, SlotOfClient DEF Base, SlotsAreUsed
  <2>3. SlotFrames(i)
    BY <1>1, <2>1 DEF FramesKept, SlotsFull
  <2>4. Framed(Inbound(i)) /\ BeginsMessage(Inbound(i))
    BY <2>1, <2>3 DEF SlotFrames, Whole, Stream
  <2> DEFINE s == conns[i].input
             d == down[c]
  <2>5. s \in Seq(Units) /\ d \in Seq(Units) /\ Inbound(i) = s \o d
    BY <1>1, <2>1, SlotFields DEF Base, Typed, PipeTyped, SocketsTyped, Inbound
  <2>6. conns[i].msg_length # 0 => Inbound(i) # <<>> /\ conns[i].msg_length = Body[Inbound(i)[1][2]]
    <3>1. SUFFICES ASSUME conns[i].msg_length # 0
                   PROVE  Inbound(i) # <<>> /\ conns[i].msg_length = Body[Inbound(i)[1][2]]
      OBVIOUS
    <3>2. Len(s) > 0 /\ conns[i].msg_length = Body[s[1][2]]
      BY <2>3, <3>1 DEF SlotFrames
    <3> HIDE DEF s, d
    <3>3. s # <<>>
      BY <3>2, EmptySeq
    <3>4. s \o d # <<>> /\ (s \o d)[1] = s[1]
      BY <2>5, <3>3, HeadStays
    <3>5. QED
      BY <2>5, <3>2, <3>4
  <2>7. QED
    BY <2>2, <2>4, <2>6
<1>5. QED
  BY <1>2, <1>3, <1>4

(* FramesAreWhole, when a connection closes only after the pipe has read   *)
(* what it wrote: wherever the library cuts the streams into reads, and    *)
(* whoever had a slot before, single_read and the connector's read         *)
(* callback look for a header only where a message begins, and a length    *)
(* that the pipe keeps is that of the message at the head of its input.    *)
THEOREM LocalPipeFrames ==
    ASSUME Graceful
    PROVE  Spec => []FramesAreWhole
<1>1. Spec => [](Base /\ FramesKept)
  BY AlwaysFrames
<1>2. Base /\ FramesKept => FramesAreWhole
  BY FramesWhole
<1>3. QED
  BY <1>1, <1>2, PTL

-----------------------------------------------------------------------------
(* Orders *)

(* Numbers that rise to no more than w, and that count up to w *)
Rises(s, w) ==
    /\ \A k \in 1 .. Len(s) : s[k] <= w
    /\ \A j, k \in 1 .. Len(s) : j < k => s[j] < s[k]

RunsTo(s, w) == \A k \in 1 .. Len(s) : s[k] = (w - Len(s)) + k

(* What is left when the middle is taken out still rises. *)
LEMMA RisesWithout ==
    ASSUME NEW s \in Seq(Number), NEW t \in Seq(Number), NEW u \in Seq(Number), NEW w,
           Rises(s \o (t \o u), w)
    PROVE  Rises(s \o u, w)
<1> DEFINE v == t \o u
           x == s \o v
           y == s \o u
           l == Len(s)
           m == Len(t)
           n == Len(u)
<1>1. l \in Nat /\ m \in Nat /\ n \in Nat
  BY ElementsOf
<1>2. v \in Seq(Number) /\ Len(v) = m + n /\ \A i \in 1 .. n : v[m + i] = u[i]
  BY ConcatElements
<1> HIDE DEF v
<1>3. /\ x \in Seq(Number) /\ Len(x) = l + (m + n) /\ \A i \in 1 .. l : x[i] = s[i]
      /\ \A i \in 1 .. m + n : x[l + i] = v[i]
  <2>1. Joins(x, s, v, Number)
    BY <1>2, ConcatJoins
  <2> HIDE DEF x
  <2>2. QED
    BY <1>2, <2>1 DEF Joins
<1>4. /\ y \in Seq(Number) /\ Len(y) = l + n /\ \A i \in 1 .. l : y[i] = s[i]
      /\ \A i \in 1 .. n : y[l + i] = u[i]
  BY ConcatElements
<1>5. /\ \A k \in 1 .. Len(x) : x[k] <= w
      /\ \A j, k \in 1 .. Len(x) : j < k => x[j] < x[k]
  <2>1. Rises(x, w)
    BY DEF v
  <2> HIDE DEF x
  <2>2. QED
    BY <2>1 DEF Rises
<1> HIDE DEF x, y, l, m, n
<1> DEFINE at(k) == IF k <= l THEN k ELSE k + m
<1>6. ASSUME NEW k \in 1 .. l + n
      PROVE  at(k) \in 1 .. Len(x) /\ y[k] = x[at(k)]
  <2>1. CASE k <= l
    BY <1>1, <1>3, <1>4, <2>1
  <2>2. CASE k > l
    <3> DEFINE i == k - l
    <3>1. i \in 1 .. n /\ k = l + i /\ m + i \in 1 .. m + n /\ k + m = l + (m + i) /\ ~ (k <= l)
      BY <1>1, <2>2
    <3> HIDE DEF i
    <3>2. y[k] = u[i] /\ x[k + m] = v[m + i] /\ v[m + i] = u[i]
      BY <1>2, <1>3, <1>4, <3>1
    <3>3. at(k) = k + m /\ k + m \in 1 .. Len(x)
      BY <1>1, <1>3, <3>1
    <3>4. QED
      BY <3>2, <3>3
  <2>3. QED
    BY <1>1, <2>1, <2>2
<1>7. \A j, k \in 1 .. l + n : j < k => at(j) < at(k)
  BY <1>1
<1> HIDE DEF at
<1>8. \A k \in 1 .. Len(y) : y[k] <= w
  BY <1>4, <1>5, <1>6
<1>9. \A j, k \in 1 .. Len(y) : j < k => y[j] < y[k]
  BY <1>4, <1>5, <1>6, <1>7
<1>10. QED
  BY <1>8, <1>9 DEF Rises, y

LEMMA LinesMore ==
    ASSUME NEW s \in Seq(Number), NEW w \in Number, w - 1 \in Nat
    PROVE  /\ Rises(s, w - 1) => Rises(s \o <<w>>, w)
           /\ RunsTo(s, w - 1) => RunsTo(s \o <<w>>, w)
<1> DEFINE t == <<w>>
           x == s \o t
           l == Len(s)
<1>1. t \in Seq(Number) /\ Len(t) = 1 /\ t[1] = w /\ l \in Nat /\ w \in Int
  BY ElementsOf, Constants DEF Number
<1> HIDE DEF t
<1>2. /\ Len(x) = l + 1 /\ \A i \in 1 .. l : x[i] = s[i]
      /\ \A i \in 1 .. 1 : x[l + i] = t[i]
  <2>1. Joins(x, s, t, Number)
    BY <1>1, ConcatJoins
  <2> HIDE DEF x
  <2>2. QED
    BY <1>1, <2>1 DEF Joins
<1>3. \A i \in 1 .. l : s[i] \in Int
  BY ElementsOf, Constants DEF Number
<1> HIDE DEF x, l
<1>4. x[l + 1] = w
  BY <1>1, <1>2
<1>5. ASSUME NEW k \in 1 .. l + 1 PROVE k \in 1 .. l \/ k = l + 1
  BY <1>1
<1>6. ASSUME \A k \in 1 .. l : s[k] <= w - 1, \A j, k \in 1 .. l : j < k => s[j] < s[k]
      PROVE  Rises(x, w)
  <2>1. \A k \in 1 .. l : x[k] < w
    BY <1>1, <1>2, <1>3, <1>6
  <2>2. \A k \in 1 .. l + 1 : x[k] <= w
    BY <1>1, <1>2, <1>3, <1>4, <1>5, <2>1
  <2>3. \A j, k \in 1 .. l + 1 : j < k => x[j] < x[k]
    <3>1. SUFFICES ASSUME NEW j \in 1 .. l + 1, NEW k \in 1 .. l + 1, j < k PROVE x[j] < x[k]
      OBVIOUS
    <3>2. j \in 1 .. l
      BY <1>1, <3>1
    <3>3. QED
      BY <1>1, <1>2, <1>4, <1>5, <1>6, <2>1, <3>1, <3>2
  <2>4. QED
    BY <1>2, <2>2, <2>3 DEF Rises
<1>7. ASSUME \A k \in 1 .. l : s[k] = ((w - 1) - l) + k PROVE RunsTo(x, w)
  <2>1. \A k \in 1 .. l + 1 : x[k] = (w - (l + 1)) + k
    BY <1>1, <1>2, <1>3, <1>4, <1>5, <1>7
  <2>2. QED
    BY <1>2, <2>1 DEF RunsTo
<1>8. QED
  BY <1>6, <1>7 DEF Rises, RunsTo, x, t, l

LEMMA RunsRest ==
    ASSUME NEW s \in Seq(Number), NEW t \in Seq(Number), NEW w \in Nat, RunsTo(s \o t, w)
    PROVE  RunsTo(t, w)
<1> DEFINE x == s \o t
           l == Len(s)
           m == Len(t)
<1>1. /\ Len(x) = l + m /\ \A i \in 1 .. m : x[l + i] = t[i]
      /\ l \in Nat /\ m \in Nat
  BY ElementsOf, ConcatElements
<1>2. \A k \in 1 .. Len(x) : x[k] = (w - Len(x)) + k
  BY DEF RunsTo
<1> HIDE DEF x, l, m
<1>3. ASSUME NEW i \in 1 .. m PROVE t[i] = (w - m) + i
  <2>1. l + i \in 1 .. Len(x) /\ (w - (l + m)) + (l + i) = (w - m) + i
    BY <1>1
  <2>2. QED
    BY <1>1, <1>2, <2>1
<1>4. QED
  BY <1>3 DEF RunsTo, m

LEMMA RisesAlone ==
    ASSUME NEW s \in Seq(Number), NEW w
    PROVE  /\ Rises(s, w) => \A k \in 1 .. Len(s) - 1 : s[k] < s[k + 1]
           /\ RunsTo(s, w) /\ w \in Nat => /\ \A k \in 1 .. Len(s) - 1 : s[k] + 1 = s[k + 1]
                                           /\ s # <<>> => s[Len(s)] = w
<1>1. Len(s) \in Nat /\ (s # <<>> => Len(s) > 0)
  BY ElementsOf, EmptySeq
<1>2. ASSUME NEW k \in 1 .. Len(s) - 1 PROVE k \in 1 .. Len(s) /\ k + 1 \in 1 .. Len(s) /\ k < k + 1
  BY <1>1
<1>3. Rises(s, w) => \A k \in 1 .. Len(s) - 1 : s[k] < s[k + 1]
  BY <1>2 DEF Rises
<1>4. ASSUME RunsTo(s, w), w \in Nat
      PROVE  /\ \A k \in 1 .. Len(s) - 1 : s[k] + 1 = s[k + 1]
             /\ s # <<>> => s[Len(s)] = w
  <2>1. \A k \in 1 .. Len(s) : s[k] = (w - Len(s)) + k
    BY <1>4 DEF RunsTo
  <2>2. \A k \in 1 .. Len(s) - 1 : s[k] + 1 = s[k + 1]
    BY <1>1, <1>2, <1>4, <2>1
  <2>3. s # <<>> => s[Len(s)] = w
    BY <1>1, <1>4, <2>1
  <2>4. QED
    BY <2>2, <2>3
<1>5. QED
  BY <1>3, <1>4

-----------------------------------------------------------------------------
(* Lines *)

(* The messages of a that b has, or that the pipe has for b *)
Had(a, b) == Numbers(got[b] \o dropped[b], a)

Sent(a, b) == (Had(a, b) \o Begun(FromPipe(b), a)) \o Begun(Queued(b), a)

(* The messages that a has written and the pipe has not taken *)
Coming(a) == Begun(FromClient(a), a)

Line(a, b) == Sent(a, b) \o Coming(a)

(* The messages of a that are queued in a slot, whoever has it *)
Left(a, i) == Begun(Packets(conns[i].output_queue), a)

SlotLine(a, i) == Left(a, i) \o Coming(a)

LineIsOk(a, b) ==
    Rises(Line(a, b), wrote[a]) /\ (use_params \/ RunsTo(Line(a, b), wrote[a]))

ClientLines(b) ==
    state[b] # "closed" => Sent(b, b) = <<>> /\ \A a \in Clients \ {b} : LineIsOk(a, b)

SlotLines(i) ==
    \A a \in Clients : /\ Rises(SlotLine(a, i), wrote[a])
                       /\ pipe_end[a] \in {"none", "backlog"} => Left(a, i) = <<>>

(* What a wrote stands in order between a and every other client.  A slot  *)
(* keeps its queue for the next client, so the same is said of the slots;  *)
(* a client finds nothing of its own there.                                *)
LinesRise ==
    caller # "done" => (\A b \in Clients : ClientLines(b)) /\ (\A i \in Slots : SlotLines(i))

(* A step does nothing to the line from a to b, or a writes, or the pipe   *)
(* takes the next message of a for b, or loses it.                         *)
LineGoes(a, b) ==
    \/ Sent(a, b)' = Sent(a, b) /\ Coming(a)' = Coming(a) /\ wrote'[a] = wrote[a]
    \/ \E n \in Number : /\ Sent(a, b)' = Sent(a, b) /\ Coming(a)' = Coming(a) \o <<n>>
                          /\ n = wrote'[a] /\ n = wrote[a] + 1
    \/ \E n \in Number : /\ Sent(a, b)' = Sent(a, b) \o <<n>> /\ Coming(a) = <<n>> \o Coming(a)'
                          /\ wrote'[a] = wrote[a]
    \/ use_params /\ Sent(a, b)' = Sent(a, b)

LinesGo ==
    caller' # "done" =>
        \A b \in Clients : pipe_end[b] = "open" /\ state'[b] # "closed" =>
            \A a \in Clients \ {b} : LineGoes(a, b)

LinesTyped ==
    /\ \A c \in Clients : FromClient(c) \in Seq(Units) /\ Queued(c) \in Seq(Units) /\ FromPipe(c) \in Seq(Units)
    /\ \A a \in Clients : Coming(a) \in Seq(Number) /\ wrote[a] \in Nat
    /\ \A a, b \in Clients : /\ Had(a, b) \in Seq(Number) /\ Sent(a, b) \in Seq(Number)
                             /\ Line(a, b) \in Seq(Number)
    /\ \A a \in Clients, i \in Slots : Left(a, i) \in Seq(Number) /\ SlotLine(a, i) \in Seq(Number)

LEMMA LineTypes == Typed => LinesTyped
<1>1. SUFFICES ASSUME Typed PROVE LinesTyped
  OBVIOUS
<1>2. ASSUME NEW c \in Clients
      PROVE  FromClient(c) \in Seq(Units) /\ Queued(c) \in Seq(Units) /\ FromPipe(c) \in Seq(Units)
  <2>1. FromPipe(c) \in Seq(Units) /\ down[c] \in Seq(Units)
    BY <1>1, FromPipeType DEF Typed, SocketsTyped
  <2>2. CASE SlotOf(c) = {}
    <3>1. Queued(c) = <<>> /\ FromClient(c) = <<>> \o down[c]
      BY <2>2 DEF Queued, FromClient
    <3>2. QED
      BY <2>1, <3>1, EmptySeq, ConcatEmptySeq
  <2>3. CASE SlotOf(c) # {}
    <3>1. PICK i \in Slots : i = CHOOSE j \in SlotOf(c) : TRUE
      BY <2>3 DEF SlotOf
    <3>2. FromClient(c) = conns[i].input \o down[c] /\ Queued(c) = Packets(conns[i].output_queue)
      BY <2>3, <3>1 DEF FromClient, Queued
    <3>3. conns[i].input \in Seq(Units) /\ conns[i].output_queue \in Seq(Waiting)
      BY <1>1, SlotFields DEF Typed, PipeTyped
    <3>4. QED
      BY <2>1, <3>2, <3>3, PacketsFacts, ConcatProperties
  <2>4. QED
    BY <2>1, <2>2, <2>3
<1>3. ASSUME NEW a \in Clients PROVE Coming(a) \in Seq(Number) /\ wrote[a] \in Nat
  <2>1. FromClient(a) \in Seq(Units) /\ wrote[a] \in 0 .. Len(Body)
    BY <1>1, <1>2 DEF Typed, ConnectorTyped
  <2>2. wrote[a] \in Nat
    BY <2>1, Constants
  <2>3. QED
    BY <2>1, <2>2, BegunFacts DEF Coming
<1>4. ASSUME NEW a \in Clients, NEW b \in Clients
      PROVE  Had(a, b) \in Seq(Number) /\ Sent(a, b) \in Seq(Number) /\ Line(a, b) \in Seq(Number)
  <2>1. got[b] \o dropped[b] \in Seq(Message)
    BY <1>1, ConcatProperties DEF Typed, ConnectorTyped
  <2>2. Had(a, b) \in Seq(Number)
    BY <2>1, NumbersFacts DEF Had
  <2>3. Begun(FromPipe(b), a) \in Seq(Number) /\ Begun(Queued(b), a) \in Seq(Number)
    BY <1>2, BegunFacts
  <2>4. Sent(a, b) \in Seq(Number)
    <3> DEFINE x == Had(a, b) \o Begun(FromPipe(b), a)
    <3>1. x \in Seq(Number)
      BY <2>2, <2>3, ConcatProperties
    <3> HIDE DEF x
    <3>2. x \o Begun(Queued(b), a) \in Seq(Number)
      BY <2>3, <3>1, ConcatProperties
    <3>3. QED
      BY <3>2 DEF Sent, x
  <2>5. QED
    BY <1>3, <2>2, <2>4, ConcatProperties DEF Line
<1>5. ASSUME NEW a \in Clients, NEW i \in Slots
      PROVE  Left(a, i) \in Seq(Number) /\ SlotLine(a, i) \in Seq(Number)
  <2>1. conns[i].output_queue \in Seq(Waiting)
    BY <1>1, SlotFields DEF Typed, PipeTyped
  <2>2. Left(a, i) \in Seq(Number)
    BY <2>1, PacketsFacts, BegunFacts DEF Left
  <2>3. QED
    BY <1>3, <2>2, ConcatProperties DEF SlotLine
<1>6. QED
  BY <1>2, <1>3, <1>4, <1>5 DEF LinesTyped

LEMMA NextLineTypes == Typed' => LinesTyped'
BY LineTypes, PTL

(* InOrder says of the lines what LinesRise says. *)
LEMMA LinesInOrder == Base /\ LinesRise => InOrder
<1>1. SUFFICES ASSUME Base, LinesRise, NEW b \in Clients, state[b] # "closed", caller # "done"
               PROVE  /\ Numbers(got[b] \o dropped[b] \o Messages(FromPipe(b) \o Queued(b)), b) = <<>>
                      /\ \A a \in Senders \ {b} : LET numbers == Between(a, b) IN
                            /\ \A k \in 1..Len(numbers) - 1 :
                                  IF use_params THEN numbers[k] < numbers[k + 1]
                                  ELSE numbers[k] + 1 = numbers[k + 1]
                            /\ (pipe_end[b] = "open" /\ state[a] # "closed" /\ numbers # <<>> /\ ~ use_params)
                                  => Last(numbers) = wrote[a]
  BY DEF InOrder
<1>2. Typed /\ LinesTyped
  BY <1>1, LineTypes DEF Base
<1>3. Sent(b, b) = <<>> /\ \A a \in Clients \ {b} : LineIsOk(a, b)
  BY <1>1 DEF LinesRise, ClientLines
<1> DEFINE g == got[b] \o dropped[b]
           p == FromPipe(b)
           q == Queued(b)
<1>4. g \in Seq(Message) /\ p \in Seq(Units) /\ q \in Seq(Units)
  BY <1>2, ConcatProperties DEF Typed, ConnectorTyped, LinesTyped
<1>5. \A a : Sent(a, b) = (Numbers(g, a) \o Begun(p, a)) \o Begun(q, a)
  BY DEF Sent, Had
<1> HIDE DEF g, p, q
<1>6. ASSUME NEW a, NEW u \in Seq(Units)
      PROVE  Numbers(g \o Messages(u), a) = Numbers(g, a) \o Begun(u, a)
  <2>1. Messages(u) \in Seq(Message)
    BY MessagesFacts
  <2>2. QED
    BY <1>4, <2>1, NumbersFacts DEF Begun
<1>7. ASSUME NEW a
      PROVE  Numbers(g \o Messages(p \o q), a) = Sent(a, b)
  <2> DEFINE x == Numbers(g, a)
             y == Begun(p, a)
             z == Begun(q, a)
  <2>1. p \o q \in Seq(Units) /\ x \in Seq(Number) /\ y \in Seq(Number) /\ z \in Seq(Number)
    BY <1>4, ConcatProperties, NumbersFacts, BegunFacts
  <2>2. Numbers(g \o Messages(p \o q), a) = x \o Begun(p \o q, a) /\ Begun(p \o q, a) = y \o z
    BY <1>4, <1>6, <2>1, BegunFacts
  <2>3. Sent(a, b) = (x \o y) \o z
    BY <1>5
  <2> HIDE DEF x, y, z
  <2>4. Associates(x, y, z)
    BY <2>1, ConcatAssociates
  <2>5. QED
    BY <2>2, <2>3, <2>4, Zenon DEF Associates
<1>8. Numbers(got[b] \o dropped[b] \o Messages(FromPipe(b) \o Queued(b)), b) = <<>>
  BY <1>3, <1>7 DEF g, p, q
<1>9. ASSUME NEW a \in Clients \ {b} PROVE Between(a, b) = Line(a, b)
  <2> DEFINE f == FromClient(a)
             u == p \o q
             x == Numbers(g, a)
             y == Begun(u, a)
             z == Begun(f, a)
  <2>1. f \in Seq(Units) /\ u \in Seq(Units)
    BY <1>2, <1>4, ConcatProperties DEF LinesTyped
  <2>2. Line(a, b) = Sent(a, b) \o z /\ Sent(a, b) = Numbers(g \o Messages(u), a)
    BY <1>7 DEF Line, Coming
  <2>3. Between(a, b) = Numbers(g \o Messages(u \o f), a)
    BY DEF Between, g, p, q
  <2> HIDE DEF f, u
  <2>4. x \in Seq(Number) /\ y \in Seq(Number) /\ z \in Seq(Number) /\ u \o f \in Seq(Units)
    BY <1>4, <2>1, ConcatProperties, NumbersFacts, BegunFacts
  <2>5. Numbers(g \o Messages(u \o f), a) = x \o Begun(u \o f, a) /\ Begun(u \o f, a) = y \o z
        /\ Numbers(g \o Messages(u), a) = x \o y
    BY <1>6, <2>1, <2>4, BegunFacts
  <2> HIDE DEF x, y, z
  <2>6. Associates(x, y, z)
    BY <2>4, ConcatAssociates
  <2>7. QED
    BY <2>2, <2>3, <2>5, <2>6, Zenon DEF Associates
<1>10. ASSUME NEW a \in Clients \ {b}
       PROVE  /\ \A k \in 1..Len(Between(a, b)) - 1 :
                    IF use_params THEN Between(a, b)[k] < Between(a, b)[k + 1]
                    ELSE Between(a, b)[k] + 1 = Between(a, b)[k + 1]
              /\ (pipe_end[b] = "open" /\ state[a] # "closed" /\ Between(a, b) # <<>> /\ ~ use_params)
                    => Last(Between(a, b)) = wrote[a]
  <2> DEFINE s == Line(a, b)
  <2>1. Between(a, b) = s /\ s \in Seq(Number) /\ wrote[a] \in Nat
    BY <1>2, <1>9 DEF LinesTyped
  <2>2. Rises(s, wrote[a]) /\ (use_params \/ RunsTo(s, wrote[a]))
    BY <1>3 DEF LineIsOk
  <2> HIDE DEF s
  <2>3. Last(s) = s[Len(s)]
    BY DEF Last
  <2>4. /\ Rises(s, wrote[a]) => \A k \in 1 .. Len(s) - 1 : s[k] < s[k + 1]
        /\ RunsTo(s, wrote[a]) => /\ \A k \in 1 .. Len(s) - 1 : s[k] + 1 = s[k + 1]
                                  /\ s # <<>> => s[Len(s)] = wrote[a]
    BY <2>1, RisesAlone
  <2>5. /\ \A k \in 1 .. Len(s) - 1 :
              IF use_params THEN s[k] < s[k + 1] ELSE s[k] + 1 = s[k + 1]
        /\ s # <<>> /\ ~ use_params => Last(s) = wrote[a]
    BY <2>2, <2>3, <2>4
  <2>6. QED
    BY <2>1, <2>5
<1>11. Senders \ {b} \subseteq Clients \ {b}
  BY ConnectorAssumption
<1>12. QED
  BY <1>8, <1>10, <1>11

(* What a client and a slot hold after a step *)
LEMMA NextSlotOfClient ==
    ASSUME OneSlotEach', NEW c \in Clients, NEW i \in Slots, conns'[i].client_fd = c
    PROVE  /\ FromClient(c)' = conns'[i].input \o down'[c]
           /\ Queued(c)' = Packets(conns'[i].output_queue)
<1>1. c # None
  BY Constants
<1>2. i \in SlotOf(c)'
  BY DEF SlotOf
<1>3. \A j \in SlotOf(c)' : j = i
  BY <1>1 DEF SlotOf, OneSlotEach
<1>4. (CHOOSE j \in SlotOf(c)' : TRUE) = i
  BY <1>2, <1>3
<1>5. SlotOf(c)' # {}
  BY <1>2
<1>6. QED
  BY <1>2, <1>4, <1>5 DEF FromClient, Queued

LEMMA NextNoSlot ==
    ASSUME NEW c, \A i \in Slots : conns'[i].client_fd # c
    PROVE  FromClient(c)' = <<>> \o down'[c] /\ Queued(c)' = <<>>
<1>1. SlotOf(c)' = {}
  BY DEF SlotOf
<1>2. QED
  BY <1>1 DEF FromClient, Queued

LEMMA SameClients ==
    ASSUME \A i \in Slots : conns'[i].client_fd = conns[i].client_fd, NEW c
    PROVE  /\ (\A i \in Slots : conns'[i].input = conns[i].input) /\ down'[c] = down[c]
                 => FromClient(c)' = FromClient(c)
           /\ (\A i \in Slots : Packets(conns'[i].output_queue) = Packets(conns[i].output_queue))
                 => Queued(c)' = Queued(c)
<1>1. SlotOf(c)' = SlotOf(c)
  BY DEF SlotOf
<1>2. CASE SlotOf(c) = {}
  BY <1>1, <1>2 DEF FromClient, Queued
<1>3. CASE SlotOf(c) # {}
  <2>1. PICK i \in Slots : i = CHOOSE j \in SlotOf(c) : TRUE
    BY <1>3 DEF SlotOf
  <2>2. /\ FromClient(c) = conns[i].input \o down[c] /\ Queued(c) = Packets(conns[i].output_queue)
        /\ FromClient(c)' = conns'[i].input \o down'[c] /\ Queued(c)' = Packets(conns'[i].output_queue)
    BY <1>1, <1>3, <2>1 DEF FromClient, Queued
  <2>3. QED
    BY <2>2
<1>4. QED
  BY <1>2, <1>3

(* A line that loses something *)
Drops(s, t) == s = t \/ \E x \in Seq(Number) : s = x \o t

LEMMA DropsRises ==
    ASSUME NEW l \in Seq(Number), NEW s \in Seq(Number), NEW t \in Seq(Number), NEW u \in Seq(Number), NEW w,
           Drops(s, t), Rises(l \o (s \o u), w)
    PROVE  Rises(l \o (t \o u), w)
<1>1. CASE s = t
  BY <1>1
<1>2. CASE \E x \in Seq(Number) : s = x \o t
  <2>1. PICK x \in Seq(Number) : s = x \o t
    BY <1>2
  <2> DEFINE v == t \o u
  <2>2. v \in Seq(Number) /\ Associates(x, t, u)
    BY <2>1, ConcatAssociates, ConcatProperties
  <2>3. s \o u = x \o v
    BY <2>1, <2>2, Zenon DEF Associates
  <2> HIDE DEF v
  <2>4. Rises(l \o (x \o v), w)
    BY <2>3
  <2>5. Rises(l \o v, w)
    BY <2>1, <2>2, <2>4, RisesWithout
  <2>6. QED
    BY <2>5 DEF v
<1>3. QED
  BY <1>1, <1>2 DEF Drops

LEMMA DropsNothing ==
    ASSUME NEW s \in Seq(Number), NEW t \in Seq(Number), Drops(s, t), s = <<>>
    PROVE  t = <<>>
<1>1. CASE s = t
  BY <1>1
<1>2. CASE \E x \in Seq(Number) : s = x \o t
  <2>1. PICK x \in Seq(Number) : s = x \o t
    BY <1>2
  <2>2. Len(s) = Len(x) + Len(t) /\ Len(s) = 0 /\ Len(x) \in Nat /\ Len(t) \in Nat
    BY <2>1, ConcatProperties, EmptySeq, ElementsOf
  <2>3. Len(t) = 0
    BY <2>2
  <2>4. QED
    BY <2>3, EmptySeq
<1>3. QED
  BY <1>1, <1>2 DEF Drops

LEMMA SlotDrops ==
    ASSUME LinesTyped, LinesTyped', NEW a \in Clients, NEW i \in Slots,
           Rises(SlotLine(a, i), wrote[a]), wrote'[a] = wrote[a],
           Coming(a)' = Coming(a), Drops(Left(a, i), Left(a, i)')
    PROVE  Rises(SlotLine(a, i)', wrote'[a])
<1> DEFINE s == Left(a, i)
           t == Left(a, i)'
           u == Coming(a)
<1>1. s \in Seq(Number) /\ t \in Seq(Number) /\ u \in Seq(Number)
  BY DEF LinesTyped
<1>2. Rises(s \o u, wrote[a]) /\ Drops(s, t)
  BY DEF SlotLine
<1>3. SlotLine(a, i)' = t \o u
  BY DEF SlotLine
<1> HIDE DEF s, t, u
<1>4. <<>> \in Seq(Number) /\ s \o u \in Seq(Number) /\ t \o u \in Seq(Number)
  BY <1>1, EmptySeq, ConcatProperties
<1>5. <<>> \o (s \o u) = s \o u /\ <<>> \o (t \o u) = t \o u
  BY <1>4, ConcatEmptySeq
<1>6. Rises(<<>> \o (t \o u), wrote[a])
  BY <1>1, <1>2, <1>4, <1>5, DropsRises
<1>7. QED
  BY <1>3, <1>5, <1>6

(* A step after which nothing more is written or taken, and every client   *)
(* that is not closed has what it had.                                     *)
Quiet ==
    /\ caller' # "done" => caller # "done"
    /\ \A a \in Clients : Coming(a)' = Coming(a) /\ wrote'[a] = wrote[a]
    /\ use_params => use_params'
    /\ \A a \in Clients : pipe_end'[a] \in {"none", "backlog"} => pipe_end[a] \in {"none", "backlog"}
    /\ \A b \in Clients : state'[b] # "closed" => state[b] # "closed"

LEMMA QuietClient ==
    ASSUME Quiet, LinesRise, caller' # "done", NEW b \in Clients,
           state'[b] # "closed" => \A a \in Clients : Sent(a, b)' = Sent(a, b)
    PROVE  ClientLines(b)'
<1>1. SUFFICES ASSUME state'[b] # "closed"
               PROVE  Sent(b, b)' = <<>> /\ \A a \in Clients \ {b} : LineIsOk(a, b)'
  BY DEF ClientLines
<1>2. Sent(b, b) = <<>> /\ \A a \in Clients \ {b} : LineIsOk(a, b)
  BY <1>1 DEF Quiet, LinesRise, ClientLines
<1>3. \A a \in Clients : Sent(a, b)' = Sent(a, b)
  BY <1>1
<1>4. ASSUME NEW a \in Clients \ {b} PROVE LineIsOk(a, b)'
  <2>1. Line(a, b)' = Line(a, b) /\ wrote'[a] = wrote[a] /\ (use_params => use_params')
    BY <1>3 DEF Line, Quiet
  <2>2. LineIsOk(a, b)
    BY <1>2
  <2>3. QED
    BY <2>1, <2>2 DEF LineIsOk, Rises, RunsTo
<1>5. QED
  BY <1>2, <1>3, <1>4

LEMMA QuietSlot ==
    ASSUME Quiet, LinesRise, LinesTyped, LinesTyped', caller' # "done", NEW i \in Slots,
           \A a \in Clients : Drops(Left(a, i), Left(a, i)')
    PROVE  SlotLines(i)'
<1>1. SlotLines(i)
  BY DEF Quiet, LinesRise
<1>2. ASSUME NEW a \in Clients
      PROVE  /\ Rises(SlotLine(a, i)', wrote'[a])
             /\ pipe_end'[a] \in {"none", "backlog"} => Left(a, i)' = <<>>
  <2>1. Rises(SlotLine(a, i), wrote[a]) /\ (pipe_end[a] \in {"none", "backlog"} => Left(a, i) = <<>>)
    BY <1>1 DEF SlotLines
  <2>2. Rises(SlotLine(a, i)', wrote'[a])
    BY <2>1, SlotDrops DEF Quiet
  <2>3. Left(a, i) \in Seq(Number) /\ Left(a, i)' \in Seq(Number)
    BY DEF LinesTyped
  <2>4. pipe_end'[a] \in {"none", "backlog"} => Left(a, i)' = <<>>
    BY <2>1, <2>3, DropsNothing DEF Quiet
  <2>5. QED
    BY <2>2, <2>4
<1>3. QED
  BY <1>2 DEF SlotLines, Rises

LEMMA QuietStep ==
    ASSUME Quiet, LinesRise, LinesTyped, LinesTyped',
           \A b \in Clients : state'[b] # "closed" => \A a \in Clients : Sent(a, b)' = Sent(a, b),
           \A i \in Slots : \A a \in Clients : Drops(Left(a, i), Left(a, i)')
    PROVE  LinesRise' /\ LinesGo
<1>1. ASSUME caller' # "done"
      PROVE  (\A b \in Clients : ClientLines(b)') /\ (\A i \in Slots : SlotLines(i)')
  BY <1>1, QuietClient, QuietSlot
<1>2. LinesRise'
  BY <1>1 DEF LinesRise
<1>3. LinesGo
  BY DEF LinesGo, LineGoes, Quiet
<1>4. QED
  BY <1>2, <1>3

-----------------------------------------------------------------------------
(* Steps after which every line is as it was *)

LEMMA SentSame ==
    ASSUME NEW b \in Clients, FromPipe(b)' = FromPipe(b), Queued(b)' = Queued(b),
           got'[b] = got[b], dropped'[b] = dropped[b]
    PROVE  \A a \in Clients : Sent(a, b)' = Sent(a, b)
BY DEF Sent, Had

(* What goes up was read off what the pipe has written. *)
LEMMA HadMore ==
    ASSUME Typed, NEW c \in Clients, Ends(c), NEW m \in Message, NEW a,
           \/ state[c] = "open" /\ got'[c] = Append(got[c], m) /\ dropped'[c] = dropped[c]
           \/ state[c] # "open" /\ got'[c] = got[c] /\ dropped'[c] = Append(dropped[c], m)
    PROVE  Had(a, c)' = Had(a, c) \o Begun(MessageUnits(m[1], m[2]), a)
<1> DEFINE g == got[c]
           d == dropped[c]
           t == <<m>>
           h == g \o d
<1>1. g \in Seq(Message) /\ d \in Seq(Message) /\ t \in Seq(Message) /\ h \in Seq(Message)
  BY ConcatProperties DEF Typed, ConnectorTyped
<1>2. got'[c] \o dropped'[c] = h \o t
  <2>1. CASE state[c] = "open"
    <3>1. d = <<>>
      BY <2>1 DEF Ends
    <3>2. g \o <<>> = g /\ (g \o t) \o <<>> = g \o t
      BY <1>1, ConcatEmptySeq, ConcatProperties
    <3>3. got'[c] = g \o t /\ dropped'[c] = d
      BY <1>1, <2>1, AppendIsJoin
    <3>4. QED
      BY <3>1, <3>2, <3>3, Zenon
  <2>2. CASE state[c] # "open"
    <3>1. got'[c] = g /\ dropped'[c] = d \o t
      BY <1>1, <2>2, AppendIsJoin
    <3> HIDE DEF g, d, t
    <3>2. Associates(g, d, t)
      BY <1>1, ConcatAssociates
    <3>3. QED
      BY <3>1, <3>2, Zenon DEF Associates
  <2>3. QED
    BY <2>1, <2>2
<1>3. Begun(MessageUnits(m[1], m[2]), a) = Numbers(t, a)
  <2>1. m[1] \in Clients /\ m[2] \in Number
    BY DEF Message
  <2>2. Numbers(t, a) = IF m[1] = a THEN <<m[2]>> ELSE <<>>
    BY NumbersFacts
  <2>3. QED
    BY <2>1, <2>2, BegunMessage
<1>4. Had(a, c) = Numbers(h, a) /\ Had(a, c)' = Numbers(h \o t, a)
  BY <1>2 DEF Had
<1> HIDE DEF h, t
<1>5. Numbers(h \o t, a) = Numbers(h, a) \o Numbers(t, a)
  BY <1>1, NumbersFacts
<1>6. QED
  BY <1>3, <1>4, <1>5, Zenon

LEMMA SentDelivered ==
    ASSUME Typed, LinesTyped, LinesTyped', NEW c \in Clients, Ends(c), NEW m \in Message,
           DeliversMessage(c, m), Queued(c)' = Queued(c), NEW a \in Clients
    PROVE  Sent(a, c)' = Sent(a, c)
<1> DEFINE u == MessageUnits(m[1], m[2])
           p == FromPipe(c)
           r == FromPipe(c)'
           h == Had(a, c)
           x == Begun(u, a)
           y == Begun(r, a)
<1>1. p \in Seq(Units) /\ r \in Seq(Units) /\ h \in Seq(Number)
  BY DEF LinesTyped
<1>2. u \in Seq(Units)
  BY MessageUnitsType DEF Message
<1>3. p = u \o r
  BY DEF DeliversMessage
<1>4. Had(a, c)' = h \o x
  BY HadMore DEF DeliversMessage
<1>5. Sent(a, c) = (h \o Begun(p, a)) \o Begun(Queued(c), a)
      /\ Sent(a, c)' = ((h \o x) \o y) \o Begun(Queued(c), a)
  BY <1>4 DEF Sent
<1> HIDE DEF p, r, u
<1>6. x \in Seq(Number) /\ y \in Seq(Number) /\ Begun(p, a) = x \o y
  BY <1>1, <1>2, <1>3, BegunFacts
<1> HIDE DEF h, x, y
<1>7. Associates(h, x, y)
  BY <1>1, <1>6, ConcatAssociates
<1>8. QED
  BY <1>5, <1>6, <1>7, Zenon DEF Associates

LEMMA SameLeft ==
    ASSUME NEW i \in Slots, conns'[i].output_queue = conns[i].output_queue
    PROVE  \A a \in Clients : Drops(Left(a, i), Left(a, i)')
BY DEF Left, Drops

LEMMA QuietOfClient ==
    ASSUME Graceful, Typed, EndsAgree, NEW c \in Clients, AtClient(c), ~ DowncallRead(c), Idle
    PROVE  Quiet
<1>1. conns' = conns /\ use_params' = use_params /\ caller' = caller
  BY IdleFrame
<1>2. /\ state \in [Clients -> {"new", "open", "paused", "closed"}]
      /\ pipe_end \in [Clients -> {"none", "backlog", "open", "closed"}] /\ Ends(c)
  BY DEF Typed, ConnectorTyped, SocketsTyped, EndsAgree
<1>3. down' = down
  <2>1. CASE Closer(c)
    BY <2>1, CloserEffect DEF Closer
  <2>2. CASE Opener(c) \/ OpenerFails(c) \/ UpcallConnected(c) \/ UpcallError(c) \/ Arrive(c)
             \/ UpcallRead(c) \/ Pause(c)
    BY <2>2, Zenon DEF Opener, OpenerFails, UpcallConnected, UpcallError, Arrive, UpcallRead, Pause, sockets
  <2>3. QED
    BY <2>1, <2>2, Zenon DEF AtClient
<1>4. wrote' = wrote
  BY Zenon DEF AtClient, Opener, OpenerFails, UpcallConnected, UpcallError, Arrive, UpcallRead, Pause, Closer,
               connVars
<1>5. \A a \in Clients : Coming(a)' = Coming(a)
  BY <1>1, <1>3, SameClients DEF Coming
<1>6. \A a \in Clients : pipe_end'[a] \in {"none", "backlog"} => pipe_end[a] \in {"none", "backlog"}
  <2>1. CASE Opener(c)
    BY <1>2, <2>1 DEF Opener, Ends
  <2>2. CASE ~ Opener(c)
    <3>1. pipe_end' = pipe_end
      BY <2>2, Zenon DEF AtClient, OpenerFails, UpcallConnected, UpcallError, Arrive, UpcallRead, Pause, Closer,
                         sockets
    <3>2. QED
      BY <3>1
  <2>3. QED
    BY <2>1, <2>2
<1>7. \A b \in Clients : state'[b] # "closed" => state[b] # "closed"
  <2>1. CASE Opener(c)
    BY <1>2, <2>1 DEF Opener, Ends
  <2>2. CASE Pause(c)
    BY <1>2, <2>2 DEF Pause
  <2>3. CASE Closer(c)
    BY <1>2, <2>3 DEF Closer
  <2>4. CASE OpenerFails(c) \/ UpcallConnected(c) \/ UpcallError(c) \/ Arrive(c) \/ UpcallRead(c)
    <3>1. state' = state
      BY <2>4, Zenon DEF OpenerFails, UpcallConnected, UpcallError, Arrive, UpcallRead, connVars
    <3>2. QED
      BY <3>1
  <2>5. QED
    BY <2>1, <2>2, <2>3, <2>4, Zenon DEF AtClient
<1>8. QED
  BY <1>1, <1>4, <1>5, <1>6, <1>7 DEF Quiet

LEMMA LinesOfClient ==
    ASSUME Graceful, Base, Base', FramesKept, LinesRise, NEW c \in Clients, AtClient(c), ~ DowncallRead(c), Idle
    PROVE  LinesRise' /\ LinesGo
<1>1. Typed /\ Typed' /\ EndsAgree /\ LinesTyped /\ LinesTyped' /\ UpFrames(c) /\ Ends(c)
  BY LineTypes, NextLineTypes DEF Base, EndsAgree, FramesKept, UpKept
<1>2. Quiet
  BY <1>1, QuietOfClient
<1>3. conns' = conns
  BY IdleFrame
<1>4. \A b \in Clients : Queued(b)' = Queued(b)
  BY <1>3, SameClients
<1>5. \A i \in Slots : \A a \in Clients : Drops(Left(a, i), Left(a, i)')
  BY <1>3, SameLeft
<1>6. ASSUME NEW b \in Clients, FromPipe(b)' = FromPipe(b), got'[b] = got[b], dropped'[b] = dropped[b]
      PROVE  \A a \in Clients : Sent(a, b)' = Sent(a, b)
  BY <1>4, <1>6, SentSame
<1>7. ASSUME NEW b \in Clients, state'[b] # "closed"
      PROVE  \A a \in Clients : Sent(a, b)' = Sent(a, b)
  <2>1. CASE Arrive(c)
    <3>1. FromPipe(b)' = FromPipe(b)
      BY <1>1, <2>1, ArriveEffect DEF FromPipe
    <3>2. got' = got /\ dropped' = dropped
      BY <2>1 DEF Arrive
    <3>3. QED
      BY <1>6, <3>1, <3>2
  <2>2. CASE UpcallRead(c)
    <3>1. up' = up
      BY <2>2 DEF UpcallRead, sockets
    <3>2. CASE UNCHANGED <<input, got, dropped>>
      <4>1. FromPipe(b)' = FromPipe(b)
        BY <3>1, <3>2 DEF FromPipe
      <4>2. QED
        BY <1>6, <3>2, <4>1
    <3>3. CASE \E length : Delivers(c, length)
      <4>1. PICK length : Delivers(c, length)
        BY <3>3
      <4>2. CASE b # c
        <5>1. FromPipe(b)' = FromPipe(b) /\ got'[b] = got[b] /\ dropped'[b] = dropped[b]
          BY <3>1, <4>1, <4>2 DEF Delivers, FromPipe
        <5>2. QED
          BY <1>6, <5>1
      <4>3. CASE b = c
        <5>1. PICK m \in Message : DeliversMessage(c, m)
          BY <1>1, <3>1, <4>1, DeliveredMessage
        <5>2. QED
          BY <1>1, <1>4, <4>3, <5>1, SentDelivered
      <4>4. QED
        BY <4>2, <4>3
    <3>4. QED
      BY <1>1, <2>2, <3>2, <3>3, UpcallReadEffect
  <2>3. CASE Closer(c)
    <3>1. b # c
      BY <1>1, <1>7, <2>3, CloserEffect
    <3>2. FromPipe(b)' = FromPipe(b)
      BY <1>1, <2>3, <3>1, CloserEffect DEF FromPipe
    <3>3. got' = got /\ dropped' = dropped
      BY <2>3 DEF Closer
    <3>4. QED
      BY <1>6, <3>2, <3>3
  <2>4. CASE Opener(c) \/ OpenerFails(c) \/ UpcallConnected(c) \/ UpcallError(c) \/ Pause(c)
    <3>1. up' = up /\ input' = input /\ got' = got /\ dropped' = dropped
      BY <2>4, Zenon DEF Opener, OpenerFails, UpcallConnected, UpcallError, Pause, sockets, connVars
    <3>2. FromPipe(b)' = FromPipe(b)
      BY <3>1 DEF FromPipe
    <3>3. QED
      BY <1>6, <3>1, <3>2
  <2>5. QED
    BY <2>1, <2>2, <2>3, <2>4, Zenon DEF AtClient
<1>8. QED
  BY <1>1, <1>2, <1>5, <1>7, QuietStep

(* A step of the pipe that neither writes to a client nor takes anything   *)
LEMMA LinesOfPipe ==
    ASSUME Typed, LinesTyped, LinesTyped', LinesRise, Apart,
           caller' # "done" => caller # "done", use_params => use_params',
           \A a \in Clients : pipe_end'[a] \in {"none", "backlog"} => pipe_end[a] \in {"none", "backlog"},
           \A c \in Clients : FromClient(c)' = FromClient(c),
           \A c \in Clients : state[c] # "closed" => \A a \in Clients : Sent(a, c)' = Sent(a, c),
           \A i \in Slots : \A a \in Clients : Drops(Left(a, i), Left(a, i)')
    PROVE  LinesRise' /\ LinesGo
<1>1. wrote' = wrote /\ state' = state
  BY ApartFrame
<1>2. Quiet
  BY <1>1 DEF Quiet, Coming
<1>3. QED
  BY <1>1, <1>2, QuietStep

LEMMA SentApart ==
    ASSUME Apart, NEW c \in Clients, up'[c] = up[c], Queued(c)' = Queued(c)
    PROVE  \A a \in Clients : Sent(a, c)' = Sent(a, c)
<1>1. FromPipe(c)' = FromPipe(c) /\ got'[c] = got[c] /\ dropped'[c] = dropped[c]
  BY ApartFrame DEF FromPipe
<1>2. QED
  BY <1>1, SentSame

LEMMA LinesAlone ==
    ASSUME Typed, LinesTyped, LinesTyped', LinesRise, Apart,
           caller' # "done" => caller # "done", use_params => use_params',
           pipe_end' = pipe_end, up' = up, down' = down,
           \A i \in Slots : /\ conns'[i].client_fd = conns[i].client_fd /\ conns'[i].input = conns[i].input
                            /\ Packets(conns'[i].output_queue) = Packets(conns[i].output_queue)
    PROVE  LinesRise' /\ LinesGo
<1>1. \A c \in Clients : FromClient(c)' = FromClient(c) /\ Queued(c)' = Queued(c)
  BY SameClients
<1>2. \A c \in Clients : \A a \in Clients : Sent(a, c)' = Sent(a, c)
  BY <1>1, SentApart
<1>3. \A i \in Slots : \A a \in Clients : Drops(Left(a, i), Left(a, i)')
  BY DEF Left, Drops
<1>4. QED
  BY <1>1, <1>2, <1>3, LinesOfPipe

LEMMA LinesOfError ==
    ASSUME Base, Base', FramesKept, LinesRise, NEW i \in Slots, ConnError(i), Apart
    PROVE  LinesRise' /\ LinesGo
<1>1. Typed /\ OneSlotEach /\ OneSlotEach' /\ LinesTyped /\ LinesTyped' /\ DownKept /\ SlotsFull /\ EndsAgree
  BY LineTypes, NextLineTypes DEF Base, SlotsAreUsed, FramesKept
<1>2. PICK e \in Clients : e = conns[i].client_fd
  BY <1>1, ConnErrorEffect
<1>3. /\ client_end[e] = "closed" /\ OnlySlot(i) /\ conns'[i].client_fd = None
      /\ conns'[i].output_queue = conns[i].output_queue
      /\ up' = up /\ use_params' = use_params /\ caller' = caller
      /\ pipe_end' = [pipe_end EXCEPT ![e] = "closed"] /\ down' = [down EXCEPT ![e] = <<>>]
  BY <1>1, <1>2, ConnErrorEffect DEF threadVars
<1>4. Len(conns[i].input) = 0 /\ down[e] = <<>> /\ conns[i].input \in Seq(Units)
  BY <1>1, <1>2, NothingInbound, SlotFields DEF Typed, PipeTyped
<1>5. down' = down
  BY <1>1, <1>3, <1>4 DEF Typed, SocketsTyped
<1>6. state[e] = "closed"
  BY <1>1, <1>3 DEF EndsAgree, Ends
<1>7. ASSUME NEW c \in Clients, c # e
      PROVE  FromClient(c)' = FromClient(c) /\ Queued(c)' = Queued(c)
  <2>1. CASE \E j \in Slots : conns[j].client_fd = c
    <3>1. PICK j \in Slots : conns[j].client_fd = c
      BY <2>1
    <3>2. conns'[j] = conns[j]
      BY <1>2, <1>3, <1>7, <3>1 DEF OnlySlot
    <3>3. FromClient(c)' = conns'[j].input \o down'[c] /\ Queued(c)' = Packets(conns'[j].output_queue)
      BY <1>1, <3>1, <3>2, NextSlotOfClient
    <3>4. FromClient(c) = conns[j].input \o down[c] /\ Queued(c) = Packets(conns[j].output_queue)
      BY <1>1, <3>1, SlotOfClient DEF Inbound
    <3>5. QED
      BY <1>5, <3>2, <3>3, <3>4
  <2>2. CASE ~ \E j \in Slots : conns[j].client_fd = c
    <3>1. \A j \in Slots : conns'[j].client_fd # c
      BY <1>3, <2>2, Constants DEF OnlySlot
    <3>2. QED
      BY <1>5, <2>2, <3>1, NextNoSlot, NoSlotOfClient
  <2>3. QED
    BY <2>1, <2>2
<1>8. FromClient(e)' = FromClient(e)
  <2>1. \A j \in Slots : conns'[j].client_fd # e
    BY <1>1, <1>2, <1>3, Constants DEF OnlySlot, OneSlotEach
  <2>2. FromClient(e)' = <<>> \o <<>>
    BY <1>4, <1>5, <2>1, NextNoSlot
  <2>3. FromClient(e) = conns[i].input \o <<>> /\ conns[i].input = <<>>
    BY <1>1, <1>2, <1>4, SlotOfClient, EmptySeq DEF Inbound
  <2>4. QED
    BY <2>2, <2>3
<1>9. \A c \in Clients : state[c] # "closed" => \A a \in Clients : Sent(a, c)' = Sent(a, c)
  BY <1>3, <1>6, <1>7, SentApart
<1>10. \A j \in Slots : conns'[j].output_queue = conns[j].output_queue
  BY <1>3 DEF OnlySlot
<1>11. \A a \in Clients : pipe_end'[a] \in {"none", "backlog"} => pipe_end[a] \in {"none", "backlog"}
  BY <1>1, <1>3 DEF Typed, SocketsTyped
<1>12. \A j \in Slots : \A a \in Clients : Drops(Left(a, j), Left(a, j)')
  BY <1>10, SameLeft
<1>13. QED
  BY <1>1, <1>3, <1>7, <1>8, <1>9, <1>11, <1>12, LinesOfPipe

LEMMA LinesOfRead ==
    ASSUME Base, Base', LinesRise, NEW i \in Slots, ConnRead(i), Apart
    PROVE  LinesRise' /\ LinesGo
<1>1. Typed /\ OneSlotEach /\ OneSlotEach' /\ LinesTyped /\ LinesTyped'
  BY LineTypes, NextLineTypes DEF Base, SlotsAreUsed
<1>2. PICK e \in Clients : e = conns[i].client_fd
  BY <1>1, ConnReadEffect
<1>3. /\ OnlySlot(i) /\ conns'[i].client_fd = e /\ SameQueue(conns'[i], conns[i])
      /\ up' = up /\ use_params' = use_params /\ caller' = caller /\ pipe_end' = pipe_end
  BY <1>1, <1>2, ConnReadEffect DEF threadVars
<1>4. PICK n \in 1 .. Len(down[e]) : /\ conns'[i].input = conns[i].input \o Prefix(down[e], n)
                                     /\ down' = [down EXCEPT ![e] = Rest(down[e], n)]
  BY <1>1, <1>2, ConnReadEffect
<1>5. \A j \in Slots : /\ conns'[j].client_fd = conns[j].client_fd
                       /\ conns'[j].output_queue = conns[j].output_queue
  BY <1>2, <1>3 DEF OnlySlot, SameQueue
<1>6. conns[i].input \in Seq(Units) /\ down[e] \in Seq(Units) /\ n \in 0 .. Len(down[e])
  BY <1>1, <1>4, SlotFields, ElementsOf DEF Typed, PipeTyped, SocketsTyped
<1>7. down'[e] = Rest(down[e], n) /\ \A c \in Clients : c # e => down'[c] = down[c]
  BY <1>1, <1>4 DEF Typed, SocketsTyped
<1>8. FromClient(e)' = FromClient(e)
  <2>1. FromClient(e)' = (conns[i].input \o Prefix(down[e], n)) \o Rest(down[e], n)
    BY <1>1, <1>3, <1>4, <1>7, NextSlotOfClient
  <2>2. FromClient(e) = conns[i].input \o down[e]
    BY <1>1, <1>2, SlotOfClient DEF Inbound
  <2>3. QED
    BY <1>6, <2>1, <2>2, Shift
<1>9. ASSUME NEW c \in Clients, c # e PROVE FromClient(c)' = FromClient(c)
  <2>1. CASE \E j \in Slots : conns[j].client_fd = c
    <3>1. PICK j \in Slots : conns[j].client_fd = c
      BY <2>1
    <3>2. conns'[j] = conns[j]
      BY <1>2, <1>3, <1>9, <3>1 DEF OnlySlot
    <3>3. FromClient(c)' = conns'[j].input \o down'[c] /\ FromClient(c) = conns[j].input \o down[c]
      BY <1>1, <3>1, <3>2, NextSlotOfClient, SlotOfClient DEF Inbound
    <3>4. QED
      BY <1>7, <1>9, <3>2, <3>3
  <2>2. CASE ~ \E j \in Slots : conns[j].client_fd = c
    BY <1>5, <1>7, <1>9, <2>2, NextNoSlot, NoSlotOfClient
  <2>3. QED
    BY <2>1, <2>2
<1>10. \A c \in Clients : Queued(c)' = Queued(c)
  BY <1>5, SameClients
<1>11. \A c \in Clients : state[c] # "closed" => \A a \in Clients : Sent(a, c)' = Sent(a, c)
  BY <1>3, <1>10, SentApart
<1>12. \A j \in Slots : \A a \in Clients : Drops(Left(a, j), Left(a, j)')
  BY <1>5, SameLeft
<1>13. QED
  BY <1>1, <1>3, <1>8, <1>9, <1>11, <1>12, LinesOfPipe

Regroups(h, f, x, y) == (h \o (f \o x)) \o y = (h \o f) \o (x \o y)

LEMMA Regroup ==
    ASSUME NEW S, NEW h \in Seq(S), NEW f \in Seq(S), NEW x \in Seq(S), NEW y \in Seq(S)
    PROVE  Regroups(h, f, x, y)
<1> DEFINE g == h \o f
<1>1. g \in Seq(S) /\ Associates(h, f, x)
  BY ConcatAssociates, ConcatProperties
<1>2. h \o (f \o x) = g \o x
  BY <1>1, Zenon DEF Associates
<1> HIDE DEF g
<1>3. Associates(g, x, y)
  BY <1>1, ConcatAssociates
<1>4. QED
  BY <1>2, <1>3, Zenon DEF Regroups, Associates, g

(* What was queued is written: it stays between what is written and what   *)
(* is queued.                                                              *)
LEMMA LinesOfTimer ==
    ASSUME Base, Base', LinesRise, NEW i \in Slots, Timer(i), Apart
    PROVE  LinesRise' /\ LinesGo
<1>1. Typed /\ OneSlotEach /\ OneSlotEach' /\ LinesTyped /\ LinesTyped' /\ EndsAgree
  BY LineTypes, NextLineTypes DEF Base, SlotsAreUsed
<1> DEFINE q == conns[i].output_queue
<1>2. q \in Seq(Waiting)
  BY <1>1, SlotFields DEF Typed, PipeTyped
<1>3. PICK n \in 0 .. Len(q) : n = Due(q)
  BY <1>2, DueType
<1> DEFINE p == Packets(Prefix(q, n))
           r == Packets(Rest(q, n))
<1>4. /\ OnlySlot(i) /\ SameEnd(conns'[i], conns[i]) /\ conns'[i].output_queue = Rest(q, n)
      /\ down' = down /\ use_params' = use_params /\ caller' = caller /\ pipe_end' = pipe_end
  BY <1>1, <1>3, TimerEffect DEF threadVars
<1>5. \A c \in Clients : TimerWrites(c, i)
  BY <1>1, TimerEffect
<1>6. /\ \A c \in Clients : c # conns[i].client_fd => up'[c] = up[c]
      /\ \A c \in Clients : c = conns[i].client_fd /\ client_end[c] # "closed" => up'[c] = up[c] \o p
  BY <1>3, <1>5 DEF TimerWrites
<1>7. p \in Seq(Units) /\ r \in Seq(Units) /\ Packets(q) = p \o r
  <2> DEFINE x == Prefix(q, n)
             y == Rest(q, n)
  <2> HIDE DEF q
  <2>1. x \in Seq(Waiting) /\ y \in Seq(Waiting) /\ q = x \o y
    BY <1>2, CutElements, CutConcat
  <2> HIDE DEF x, y
  <2>2. Packets(x) \in Seq(Units) /\ Packets(y) \in Seq(Units) /\ Packets(q) = Packets(x) \o Packets(y)
    BY <2>1, PacketsFacts
  <2>3. QED
    BY <2>2 DEF x, y
<1>8. Packets(conns'[i].output_queue) = r
  BY <1>4
<1> HIDE DEF p, r
<1>9. \A c \in Clients : FromClient(c)' = FromClient(c)
  BY <1>4, SameClients DEF OnlySlot, SameEnd
<1>10. ASSUME NEW c \in Clients, state[c] # "closed", c = conns[i].client_fd, NEW a \in Clients
       PROVE  Sent(a, c)' = Sent(a, c)
  <2> DEFINE h == Had(a, c)
             f == Begun(FromPipe(c), a)
             x == Begun(p, a)
             y == Begun(r, a)
  <2>1. client_end[c] # "closed"
    BY <1>1, <1>10 DEF EndsAgree, Ends
  <2>2. up'[c] = up[c] \o p /\ input'[c] = input[c]
    BY <1>6, <1>10, <2>1, ApartFrame
  <2>3. input[c] \in Seq(Units) /\ up[c] \in Seq(Units) /\ FromPipe(c) \in Seq(Units)
    BY <1>1, FromPipeType
  <2>4. FromPipe(c)' = FromPipe(c) \o p
    <3>1. Associates(input[c], up[c], p)
      BY <1>7, <2>3, ConcatAssociates
    <3>2. QED
      BY <2>2, <3>1, Zenon DEF Associates, FromPipe
  <2>5. Begun(FromPipe(c) \o p, a) = f \o x /\ Begun(p \o r, a) = x \o y
        /\ f \in Seq(Number) /\ x \in Seq(Number) /\ y \in Seq(Number)
    BY <1>7, <2>3, BegunFacts
  <2>6. Queued(c) = p \o r
    BY <1>1, <1>7, <1>10, SlotOfClient
  <2>7. Queued(c)' = r
    BY <1>1, <1>4, <1>8, <1>10, NextSlotOfClient DEF SameEnd
  <2>8. Had(a, c)' = h /\ h \in Seq(Number)
    BY <1>1, ApartFrame DEF Had, LinesTyped
  <2>9. Sent(a, c) = (h \o f) \o (x \o y)
    BY <2>5, <2>6, Zenon DEF Sent
  <2>10. Sent(a, c)' = (h \o (f \o x)) \o y
    BY <2>4, <2>5, <2>7, <2>8 DEF Sent
  <2> HIDE DEF h, f, x, y
  <2>11. Regroups(h, f, x, y)
    BY <2>5, <2>8, Regroup
  <2>12. QED
    BY <2>9, <2>10, <2>11, Zenon DEF Regroups
<1>11. ASSUME NEW c \in Clients, c # conns[i].client_fd PROVE \A a \in Clients : Sent(a, c)' = Sent(a, c)
  <2>1. Queued(c)' = Queued(c)
    <3>1. CASE \E j \in Slots : conns[j].client_fd = c
      <4>1. PICK j \in Slots : conns[j].client_fd = c
        BY <3>1
      <4>2. conns'[j] = conns[j]
        BY <1>4, <1>11, <4>1 DEF OnlySlot
      <4>3. QED
        BY <1>1, <4>1, <4>2, NextSlotOfClient, SlotOfClient
    <3>2. CASE ~ \E j \in Slots : conns[j].client_fd = c
      <4>1. \A j \in Slots : conns'[j].client_fd # c
        BY <1>4, <3>2 DEF OnlySlot, SameEnd
      <4>2. QED
        BY <3>2, <4>1, NextNoSlot, NoSlotOfClient
    <3>3. QED
      BY <3>1, <3>2
  <2>2. QED
    BY <1>6, <1>11, <2>1, SentApart
<1>12. ASSUME NEW j \in Slots, NEW a \in Clients PROVE Drops(Left(a, j), Left(a, j)')
  <2>1. CASE j = i
    <3>1. Left(a, i) = Begun(p \o r, a) /\ Left(a, i)' = Begun(r, a)
      BY <1>7, <1>8 DEF Left
    <3>2. Begun(p \o r, a) = Begun(p, a) \o Begun(r, a) /\ Begun(p, a) \in Seq(Number)
      BY <1>7, BegunFacts
    <3>3. QED
      BY <2>1, <3>1, <3>2 DEF Drops
  <2>2. CASE j # i
    <3>1. conns'[j].output_queue = conns[j].output_queue
      BY <1>4, <2>2 DEF OnlySlot
    <3>2. QED
      BY <3>1, SameLeft
  <2>3. QED
    BY <2>1, <2>2
<1>13. \A c \in Clients : state[c] # "closed" => \A a \in Clients : Sent(a, c)' = Sent(a, c)
  BY <1>10, <1>11
<1>14. QED
  BY <1>1, <1>4, <1>9, <1>12, <1>13, LinesOfPipe

(* A client that is accepted finds what was left in its slot. *)
LEMMA LinesOfListener ==
    ASSUME Base, Base', LinesRise, NEW c \in Clients, Listener(c), Apart
    PROVE  LinesRise' /\ LinesGo
<1>1. /\ Typed /\ OneSlotEach /\ OneSlotEach' /\ OpenHasSlot /\ UnusedIsEmpty
      /\ LinesTyped /\ LinesTyped' /\ EndsAgree /\ QueuesAreCounted
  BY LineTypes, NextLineTypes DEF Base, SlotsAreUsed
<1>2. /\ pipe_end[c] = "backlog" /\ client_end' = client_end /\ down' = down /\ up' = up
      /\ use_params' = use_params /\ caller' = caller
  BY <1>1, ListenerEffect DEF threadVars
<1>3. CASE conns' = conns /\ pipe_end' = pipe_end
  BY <1>1, <1>2, <1>3, LinesAlone
<1>4. CASE ~ (conns' = conns /\ pipe_end' = pipe_end)
  <2>1. PICK i \in Slots : /\ conns[i].client_fd = None /\ conns'[i].client_fd = c /\ OnlySlot(i)
                           /\ SameQueue(conns'[i], conns[i]) /\ conns'[i].input = conns[i].input
    BY <1>1, <1>4, ListenerEffect
  <2>2. pipe_end' = [pipe_end EXCEPT ![c] = "open"]
    BY <1>1, <1>4, ListenerEffect
  <2>3. conns[i].input = <<>>
    BY <1>1, <2>1 DEF UnusedIsEmpty
  <2>4. \A j \in Slots : conns[j].client_fd # c
    BY <1>1, <1>2 DEF OpenHasSlot
  <2>5. FromClient(c)' = FromClient(c) /\ Queued(c) = <<>> /\ Queued(c)' = Packets(conns[i].output_queue)
    <3>1. FromClient(c)' = <<>> \o down[c] /\ Queued(c)' = Packets(conns[i].output_queue)
      BY <1>1, <1>2, <2>1, <2>3, NextSlotOfClient, ZenonT(60) DEF SameQueue
    <3>2. FromClient(c) = <<>> \o down[c] /\ Queued(c) = <<>>
      BY <2>4, NoSlotOfClient
    <3>3. QED
      BY <3>1, <3>2
  <2>6. ASSUME NEW b \in Clients, b # c PROVE FromClient(b)' = FromClient(b) /\ Queued(b)' = Queued(b)
    <3>1. CASE \E j \in Slots : conns[j].client_fd = b
      <4>1. PICK j \in Slots : conns[j].client_fd = b
        BY <3>1
      <4>2. conns'[j] = conns[j]
        BY <2>1, <4>1, Constants DEF OnlySlot
      <4>3. QED
        BY <1>1, <1>2, <4>1, <4>2, NextSlotOfClient, SlotOfClient, ZenonT(60) DEF Inbound
    <3>2. CASE ~ \E j \in Slots : conns[j].client_fd = b
      <4>1. \A j \in Slots : conns'[j].client_fd # b
        BY <2>1, <2>6, <3>2 DEF OnlySlot
      <4>2. QED
        BY <1>2, <3>2, <4>1, NextNoSlot, NoSlotOfClient
    <3>3. QED
      BY <3>1, <3>2
  <2>7. Quiet
    <3>1. \A a \in Clients : Coming(a)' = Coming(a)
      BY <2>5, <2>6 DEF Coming
    <3>2. \A a \in Clients : pipe_end'[a] \in {"none", "backlog"} => pipe_end[a] \in {"none", "backlog"}
      BY <1>1, <2>2 DEF Typed, SocketsTyped
    <3>3. wrote' = wrote /\ state' = state
      BY ApartFrame
    <3>4. QED
      BY <1>2, <3>1, <3>2, <3>3 DEF Quiet
  <2>14. LinesGo
    <3>1. SUFFICES ASSUME NEW b \in Clients, pipe_end[b] = "open" PROVE \A a \in Clients : LineGoes(a, b)
      BY DEF LinesGo
    <3>2. b # c
      BY <1>2, <3>1
    <3>3. \A a \in Clients : Sent(a, b)' = Sent(a, b)
      BY <1>2, <2>6, <3>2, SentApart
    <3>4. QED
      BY <2>7, <3>3 DEF Quiet, LineGoes
  <2>8. SUFFICES ASSUME caller' # "done"
                 PROVE  (\A b \in Clients : ClientLines(b)') /\ (\A j \in Slots : SlotLines(j)')
    BY <2>14 DEF LinesRise
  <2>9. \A j \in Slots : conns'[j].output_queue = conns[j].output_queue
    BY <2>1 DEF OnlySlot, SameQueue
  <2>10. \A j \in Slots : SlotLines(j)'
    BY <1>1, <2>7, <2>8, <2>9, SameLeft, QuietSlot
  <2>11. ASSUME NEW b \in Clients, b # c PROVE ClientLines(b)'
    <3>1. \A a \in Clients : Sent(a, b)' = Sent(a, b)
      BY <1>2, <2>6, <2>11, SentApart
    <3>2. QED
      BY <2>7, <2>8, <3>1, QuietClient
  <2>12. ClientLines(c)'
    <3>1. SUFFICES ASSUME state'[c] # "closed"
                   PROVE  Sent(c, c)' = <<>> /\ \A a \in Clients \ {c} : LineIsOk(a, c)'
      BY DEF ClientLines
    <3>2. up[c] = <<>> /\ input[c] = <<>> /\ got[c] = <<>> /\ dropped[c] = <<>>
      BY <1>1, <1>2 DEF EndsAgree, Ends
    <3>3. /\ state[c] # "closed" /\ caller # "done" /\ wrote' = wrote
          /\ got'[c] = <<>> /\ dropped'[c] = <<>> /\ up'[c] = <<>> /\ input'[c] = <<>>
      BY <1>2, <2>8, <3>1, <3>2, ApartFrame
    <3>4. <<>> \o <<>> = <<>>
      BY EmptySeq, ConcatEmptySeq
    <3>5. FromPipe(c) = <<>> /\ FromPipe(c)' = <<>>
      BY <3>2, <3>3, <3>4 DEF FromPipe
    <3>6. ASSUME NEW a \in Clients PROVE Sent(a, c) = <<>> /\ Sent(a, c)' = Left(a, i)
      <4>1. Numbers(<<>>, a) = <<>> /\ Begun(<<>>, a) = <<>>
        BY NumbersFacts, BegunFacts
      <4>2. Had(a, c) = <<>> /\ Had(a, c)' = <<>>
        BY <3>2, <3>3, <3>4, <4>1 DEF Had
      <4>3. Left(a, i) \in Seq(Number) /\ <<>> \o Left(a, i) = Left(a, i)
        BY <1>1, ConcatEmptySeq DEF LinesTyped
      <4>4. Sent(a, c) = <<>>
        BY <2>5, <3>4, <3>5, <4>1, <4>2 DEF Sent
      <4>5. Sent(a, c)' = <<>> \o Left(a, i)
        BY <2>5, <3>4, <3>5, <4>1, <4>2 DEF Sent, Left
      <4>6. QED
        BY <4>3, <4>4, <4>5
    <3>7. SlotLines(i) /\ ClientLines(c)
      BY <3>3 DEF LinesRise
    <3>8. Sent(c, c)' = <<>>
      BY <1>2, <3>6, <3>7 DEF SlotLines
    <3>9. ASSUME NEW a \in Clients \ {c} PROVE LineIsOk(a, c)'
      <4>1. Coming(a)' = Coming(a)
        BY <2>7 DEF Quiet
      <4>2. Line(a, c)' = SlotLine(a, i) /\ wrote'[a] = wrote[a] /\ use_params' = use_params
        BY <1>2, <3>3, <3>6, <4>1 DEF Line, SlotLine
      <4>3. Rises(SlotLine(a, i), wrote[a])
        BY <3>7 DEF SlotLines
      <4>4. use_params \/ RunsTo(SlotLine(a, i), wrote[a])
        <5>1. SUFFICES ASSUME ~ use_params PROVE RunsTo(SlotLine(a, i), wrote[a])
          OBVIOUS
        <5>2. conns[i].output_queue = <<>>
          BY <1>1, <5>1 DEF QueuesAreCounted, Counted
        <5>3. Left(a, i) = <<>>
          BY <5>2, PacketsFacts, BegunFacts DEF Left
        <5>4. LineIsOk(a, c) /\ Line(a, c) = SlotLine(a, i)
          BY <3>3, <3>6, <3>7, <5>3 DEF ClientLines, Line, SlotLine
        <5>5. QED
          BY <5>1, <5>4 DEF LineIsOk
      <4>5. QED
        BY <4>2, <4>3, <4>4 DEF LineIsOk, Rises, RunsTo
    <3>10. QED
      BY <3>8, <3>9
  <2>13. QED
    BY <2>10, <2>11, <2>12
<1>5. QED
  BY <1>3, <1>4

-----------------------------------------------------------------------------
(* Steps at which a line moves *)

LEMMA LineGrows ==
    ASSUME NEW s \in Seq(Number), NEW t \in Seq(Number), NEW n \in Number, n - 1 \in Nat
    PROVE  /\ Rises(s \o t, n - 1) => Rises(s \o (t \o <<n>>), n)
           /\ RunsTo(s \o t, n - 1) => RunsTo(s \o (t \o <<n>>), n)
<1> DEFINE u == <<n>>
           v == s \o t
<1>1. u \in Seq(Number) /\ v \in Seq(Number)
  BY ConcatProperties
<1>2. /\ Rises(v, n - 1) => Rises(v \o <<n>>, n)
      /\ RunsTo(v, n - 1) => RunsTo(v \o <<n>>, n)
  <2> HIDE DEF v
  <2>1. QED
    BY <1>1, LinesMore
<1> HIDE DEF u
<1>3. Associates(s, t, u)
  BY <1>1, ConcatAssociates
<1>4. v \o <<n>> = s \o (t \o <<n>>)
  BY <1>3, Zenon DEF Associates, u, v
<1>5. QED
  BY <1>2, <1>4, Zenon DEF v

(* The next message of c is written at the end of every line from c. *)
LEMMA LinesOfDowncall ==
    ASSUME Base, Base', LinesRise, NEW c \in Clients, DowncallRead(c), Idle
    PROVE  LinesRise' /\ LinesGo
<1>1. Typed /\ OneSlotEach /\ OneSlotEach' /\ LinesTyped /\ LinesTyped'
  BY LineTypes, NextLineTypes DEF Base, SlotsAreUsed
<1>2. PICK n \in Number : /\ n = wrote'[c] /\ n = wrote[c] + 1 /\ down'[c] = down[c] \o MessageUnits(c, n)
                          /\ \A d \in Clients : d # c => down'[d] = down[d] /\ wrote'[d] = wrote[d]
  BY <1>1, DowncallEffect
<1>3. /\ conns' = conns /\ use_params' = use_params /\ caller' = caller
      /\ pipe_end' = pipe_end /\ up' = up /\ input' = input /\ got' = got /\ dropped' = dropped /\ state' = state
  BY IdleFrame DEF DowncallRead
<1>4. n - 1 \in Nat /\ wrote[c] = n - 1
  <2> DEFINE w == wrote[c]
  <2>1. w \in Nat /\ n = w + 1
    BY <1>1, <1>2 DEF LinesTyped
  <2> HIDE DEF w
  <2>2. n - 1 \in Nat /\ w = n - 1
    BY <2>1
  <2>3. QED
    BY <2>2 DEF w
<1> DEFINE u == MessageUnits(c, n)
<1>5. u \in Seq(Units) /\ Begun(u, c) = <<n>>
  BY MessageUnitsType, BegunMessage
<1> HIDE DEF u
<1>6. FromClient(c)' = FromClient(c) \o u
  <2>1. down[c] \in Seq(Units) /\ down'[c] = down[c] \o u
    BY <1>1, <1>2 DEF Typed, SocketsTyped, u
  <2>2. ASSUME NEW s \in Seq(Units), FromClient(c) = s \o down[c], FromClient(c)' = s \o down'[c]
        PROVE  FromClient(c)' = FromClient(c) \o u
    <3>1. Associates(s, down[c], u)
      BY <1>5, <2>1, ConcatAssociates
    <3>2. QED
      BY <2>1, <2>2, <3>1, Zenon DEF Associates
  <2>3. CASE \E j \in Slots : conns[j].client_fd = c
    <3>1. PICK j \in Slots : conns[j].client_fd = c
      BY <2>3
    <3>2. FromClient(c) = conns[j].input \o down[c] /\ FromClient(c)' = conns[j].input \o down'[c]
      BY <1>1, <1>3, <3>1, SlotOfClient, NextSlotOfClient DEF Inbound
    <3>3. conns[j].input \in Seq(Units)
      BY <1>1, SlotFields DEF Typed, PipeTyped
    <3>4. QED
      BY <2>2, <3>2, <3>3
  <2>4. CASE ~ \E j \in Slots : conns[j].client_fd = c
    <3>1. FromClient(c) = <<>> \o down[c] /\ FromClient(c)' = <<>> \o down'[c] /\ <<>> \in Seq(Units)
      BY <1>3, <2>4, NoSlotOfClient, NextNoSlot, EmptySeq
    <3>2. QED
      BY <2>2, <3>1
  <2>5. QED
    BY <2>3, <2>4
<1>7. Coming(c)' = Coming(c) \o <<n>>
  <2>1. FromClient(c) \in Seq(Units)
    BY <1>1 DEF LinesTyped
  <2>2. Begun(FromClient(c) \o u, c) = Begun(FromClient(c), c) \o Begun(u, c)
    BY <1>5, <2>1, BegunFacts
  <2>3. QED
    BY <1>5, <1>6, <2>2 DEF Coming
<1>8. \A a \in Clients : a # c => Coming(a)' = Coming(a) /\ wrote'[a] = wrote[a]
  BY <1>2, <1>3, SameClients DEF Coming
<1>9. /\ \A a, b \in Clients : Sent(a, b)' = Sent(a, b)
      /\ \A a \in Clients, i \in Slots : Left(a, i)' = Left(a, i)
  <2>1. \A b \in Clients : Queued(b)' = Queued(b) /\ FromPipe(b)' = FromPipe(b)
    BY <1>3, SameClients DEF FromPipe
  <2>2. \A b \in Clients : \A a \in Clients : Sent(a, b)' = Sent(a, b)
    BY <1>3, <2>1, SentSame
  <2>3. QED
    BY <1>3, <2>2 DEF Left
<1>17. LinesGo
  <2>1. ASSUME NEW a \in Clients, NEW b \in Clients PROVE LineGoes(a, b)
    <3>1. CASE a = c
      BY <1>2, <1>7, <1>9, <3>1 DEF LineGoes
    <3>2. CASE a # c
      BY <1>8, <1>9, <3>2 DEF LineGoes
    <3>3. QED
      BY <3>1, <3>2
  <2>2. QED
    BY <2>1 DEF LinesGo
<1>10. SUFFICES ASSUME caller' # "done"
                PROVE  (\A b \in Clients : ClientLines(b)') /\ (\A i \in Slots : SlotLines(i)')
  BY <1>17 DEF LinesRise
<1>11. (\A b \in Clients : ClientLines(b)) /\ (\A i \in Slots : SlotLines(i))
  BY <1>3, <1>10 DEF LinesRise
<1>12. ASSUME NEW a \in Clients, NEW b \in Clients, LineIsOk(a, b) PROVE LineIsOk(a, b)'
  <2>1. CASE a = c
    <3>1. Line(a, b)' = Sent(a, b) \o (Coming(a) \o <<n>>) /\ Line(a, b) = Sent(a, b) \o Coming(a)
      BY <1>7, <1>9, <2>1 DEF Line
    <3>2. Sent(a, b) \in Seq(Number) /\ Coming(a) \in Seq(Number)
      BY <1>1 DEF LinesTyped
    <3>3. Rises(Line(a, b), n - 1) /\ (use_params \/ RunsTo(Line(a, b), n - 1))
      BY <1>4, <1>12, <2>1 DEF LineIsOk
    <3>4. Rises(Line(a, b)', n) /\ (use_params \/ RunsTo(Line(a, b)', n))
      BY <1>4, <3>1, <3>2, <3>3, LineGrows
    <3>5. QED
      BY <1>2, <1>3, <2>1, <3>4 DEF LineIsOk, Rises, RunsTo
  <2>2. CASE a # c
    <3>1. Line(a, b)' = Line(a, b)
      BY <1>8, <1>9, <2>2 DEF Line
    <3>2. QED
      BY <1>3, <1>8, <1>12, <2>2, <3>1 DEF LineIsOk, Rises, RunsTo
  <2>3. QED
    BY <2>1, <2>2
<1>13. ASSUME NEW b \in Clients PROVE ClientLines(b)'
  BY <1>3, <1>9, <1>11, <1>12 DEF ClientLines
<1>14. ASSUME NEW i \in Slots, NEW a \in Clients
       PROVE  /\ Rises(SlotLine(a, i)', wrote'[a])
              /\ pipe_end'[a] \in {"none", "backlog"} => Left(a, i)' = <<>>
  <2>1. Rises(SlotLine(a, i), wrote[a]) /\ (pipe_end[a] \in {"none", "backlog"} => Left(a, i) = <<>>)
    BY <1>11 DEF SlotLines
  <2>2. CASE a = c
    <3>1. SlotLine(a, i)' = Left(a, i) \o (Coming(a) \o <<n>>) /\ SlotLine(a, i) = Left(a, i) \o Coming(a)
      BY <1>7, <1>9, <2>2 DEF SlotLine
    <3>2. Left(a, i) \in Seq(Number) /\ Coming(a) \in Seq(Number)
      BY <1>1 DEF LinesTyped
    <3>3. Rises(SlotLine(a, i)', n)
      BY <1>4, <2>1, <2>2, <3>1, <3>2, LineGrows
    <3>4. QED
      BY <1>2, <1>3, <1>9, <2>1, <2>2, <3>3
  <2>3. CASE a # c
    BY <1>3, <1>8, <1>9, <2>1, <2>3 DEF SlotLine
  <2>4. QED
    BY <2>2, <2>3
<1>15. \A i \in Slots : SlotLines(i)'
  BY <1>14 DEF SlotLines, Rises
<1>16. QED
  BY <1>13, <1>15

(* A number that goes from the head of what comes to the end of what is    *)
(* sent, or is lost                                                        *)
LEMMA LineMoves ==
    ASSUME NEW s \in Seq(Number), NEW n \in Number, NEW u \in Seq(Number), NEW w,
           NEW t, t = s \/ t = s \o <<n>>
    PROVE  /\ Rises(s \o (<<n>> \o u), w) => Rises(t \o u, w)
           /\ RunsTo(s \o (<<n>> \o u), w) /\ w \in Nat /\ (t = s \o <<n>> \/ s = <<>>) => RunsTo(t \o u, w)
<1> DEFINE m == <<n>>
<1>1. m \in Seq(Number)
  OBVIOUS
<1> HIDE DEF m
<1>2. Associates(s, m, u)
  BY <1>1, ConcatAssociates
<1>3. CASE t = s \o m
  <2>1. t \o u = s \o (m \o u)
    BY <1>2, <1>3, Zenon DEF Associates
  <2>2. QED
    BY <2>1 DEF m
<1>4. CASE t = s /\ t # s \o m
  <2>1. Rises(s \o (m \o u), w) => Rises(s \o u, w)
    BY <1>1, RisesWithout
  <2>2. ASSUME RunsTo(s \o (m \o u), w), w \in Nat, s = <<>> PROVE RunsTo(s \o u, w)
    <3> DEFINE v == m \o u
    <3>1. v \in Seq(Number) /\ <<>> \o v = v /\ <<>> \o u = u
      BY <1>1, ConcatProperties, ConcatEmptySeq
    <3> HIDE DEF v
    <3>2. RunsTo(v, w)
      BY <2>2, <3>1 DEF v
    <3>3. RunsTo(u, w)
      BY <1>1, <2>2, <3>2, RunsRest DEF v
    <3>4. QED
      BY <2>2, <3>1, <3>3
  <2>3. QED
    BY <1>4, <2>1, <2>2 DEF m
<1>5. QED
  BY <1>3, <1>4 DEF m

(* The pipe takes the next message of e. *)
TakesNumber(e, n) ==
    /\ caller' = caller /\ wrote' = wrote /\ state' = state
    /\ use_params' = use_params /\ pipe_end' = pipe_end /\ pipe_end[e] = "open"
    /\ Coming(e) = <<n>> \o Coming(e)'
    /\ \A a \in Clients : a # e => Coming(a)' = Coming(a)

GivesNumber(e, n, b) ==
    /\ \A a \in Clients : a # e => Sent(a, b)' = Sent(a, b)
    /\ \/ /\ Sent(e, b)' = Sent(e, b)
          /\ e = b \/ use_params \/ (Sent(e, b) = <<>> /\ pipe_end[b] # "open")
       \/ Sent(e, b)' = Sent(e, b) \o <<n>> /\ e # b

KeepsNumber(e, n, i) ==
    /\ \A a \in Clients : a # e => Left(a, i)' = Left(a, i)
    /\ Left(e, i)' = Left(e, i) \/ Left(e, i)' = Left(e, i) \o <<n>>

LEMMA LinesTaken ==
    ASSUME LinesTyped, LinesTyped', LinesRise, NEW e \in Clients, NEW n \in Number, TakesNumber(e, n),
           \A b \in Clients : state[b] # "closed" => GivesNumber(e, n, b),
           \A i \in Slots : KeepsNumber(e, n, i)
    PROVE  LinesRise' /\ LinesGo
<1>8. LinesGo
  <2>1. SUFFICES ASSUME NEW b \in Clients, pipe_end[b] = "open", state'[b] # "closed", NEW a \in Clients \ {b}
                 PROVE  LineGoes(a, b)
    BY DEF LinesGo
  <2>2. GivesNumber(e, n, b)
    BY <2>1 DEF TakesNumber
  <2>3. CASE a # e
    BY <2>2, <2>3 DEF TakesNumber, GivesNumber, LineGoes
  <2>4. CASE a = e
    <3>1. \/ Sent(e, b)' = Sent(e, b) /\ use_params
          \/ Sent(e, b)' = Sent(e, b) \o <<n>>
      BY <2>1, <2>2, <2>4 DEF GivesNumber
    <3>2. QED
      BY <2>4, <3>1 DEF TakesNumber, LineGoes
  <2>5. QED
    BY <2>3, <2>4
<1>1. SUFFICES ASSUME caller' # "done"
               PROVE  (\A b \in Clients : ClientLines(b)') /\ (\A i \in Slots : SlotLines(i)')
  BY <1>8 DEF LinesRise
<1>2. (\A b \in Clients : ClientLines(b)) /\ (\A i \in Slots : SlotLines(i))
  BY <1>1 DEF TakesNumber, LinesRise
<1>3. /\ wrote'[e] = wrote[e] /\ wrote[e] \in Nat /\ use_params' = use_params
      /\ Coming(e)' \in Seq(Number) /\ Coming(e) = <<n>> \o Coming(e)'
      /\ \A a \in Clients : wrote'[a] = wrote[a]
  BY DEF TakesNumber, LinesTyped
<1>4. ASSUME NEW b \in Clients PROVE ClientLines(b)'
  <2>1. SUFFICES ASSUME state'[b] # "closed"
                 PROVE  Sent(b, b)' = <<>> /\ \A a \in Clients \ {b} : LineIsOk(a, b)'
    BY DEF ClientLines
  <2>2. state[b] # "closed" /\ GivesNumber(e, n, b)
    BY <2>1 DEF TakesNumber
  <2>3. Sent(b, b) = <<>> /\ \A a \in Clients \ {b} : LineIsOk(a, b)
    BY <1>2, <2>2 DEF ClientLines
  <2>4. Sent(b, b)' = <<>>
    BY <2>2, <2>3 DEF GivesNumber
  <2>5. ASSUME NEW a \in Clients \ {b}, a # e PROVE LineIsOk(a, b)'
    <3>1. Line(a, b)' = Line(a, b)
      BY <2>2, <2>5 DEF Line, GivesNumber, TakesNumber
    <3>2. LineIsOk(a, b)
      BY <2>3
    <3>3. QED
      BY <1>3, <3>1, <3>2 DEF LineIsOk, Rises, RunsTo
  <2>6. ASSUME e # b PROVE LineIsOk(e, b)'
    <3> DEFINE s == Sent(e, b)
               t == Sent(e, b)'
               u == Coming(e)'
               w == wrote[e]
    <3>1. s \in Seq(Number)
      BY DEF LinesTyped
    <3>2. (t = s \/ t = s \o <<n>>) /\ (use_params \/ t = s \o <<n>> \/ s = <<>>)
      BY <2>2, <2>6 DEF GivesNumber
    <3>3. Rises(s \o (<<n>> \o u), w) /\ (use_params \/ RunsTo(s \o (<<n>> \o u), w))
      BY <1>3, <2>3, <2>6 DEF LineIsOk, Line
    <3>4. Line(e, b)' = t \o u
      BY DEF Line
    <3> HIDE DEF s, t, u, w
    <3>5. w \in Nat /\ u \in Seq(Number)
      BY <1>3 DEF w, u
    <3>6. Rises(t \o u, w)
      BY <3>1, <3>2, <3>3, <3>5, LineMoves
    <3>7. use_params \/ RunsTo(t \o u, w)
      BY <3>1, <3>2, <3>3, <3>5, LineMoves
    <3>8. QED
      BY <1>3, <3>4, <3>6, <3>7 DEF LineIsOk, Rises, RunsTo, w
  <2>7. QED
    BY <2>4, <2>5, <2>6
<1>5. ASSUME NEW i \in Slots, NEW a \in Clients
      PROVE  /\ Rises(SlotLine(a, i)', wrote'[a])
             /\ pipe_end'[a] \in {"none", "backlog"} => Left(a, i)' = <<>>
  <2>1. Rises(SlotLine(a, i), wrote[a]) /\ (pipe_end[a] \in {"none", "backlog"} => Left(a, i) = <<>>)
    BY <1>2 DEF SlotLines
  <2>2. KeepsNumber(e, n, i)
    OBVIOUS
  <2>3. CASE a # e
    BY <1>3, <2>1, <2>2, <2>3 DEF KeepsNumber, TakesNumber, SlotLine
  <2>4. CASE a = e
    <3> DEFINE s == Left(e, i)
               t == Left(e, i)'
               u == Coming(e)'
               w == wrote[e]
    <3>1. s \in Seq(Number)
      BY DEF LinesTyped
    <3>2. t = s \/ t = s \o <<n>>
      BY <2>2 DEF KeepsNumber
    <3>3. Rises(s \o (<<n>> \o u), w)
      BY <1>3, <2>1, <2>4 DEF SlotLine
    <3>4. SlotLine(e, i)' = t \o u
      BY DEF SlotLine
    <3> HIDE DEF s, t, u, w
    <3>5. Rises(t \o u, w)
      BY <1>3, <3>1, <3>2, <3>3, LineMoves DEF u
    <3>6. pipe_end'[e] = "open"
      BY DEF TakesNumber
    <3>7. QED
      BY <1>3, <2>4, <3>4, <3>5, <3>6 DEF w
  <2>5. QED
    BY <2>3, <2>4
<1>6. \A i \in Slots : SlotLines(i)'
  BY <1>5 DEF SlotLines, Rises
<1>7. QED
  BY <1>4, <1>6

(* A message that is written to a client, or queued behind what is queued  *)
(* for it, is at the end of what is sent.                                  *)
LEMMA SentGrows ==
    ASSUME Typed, LinesTyped, Apart, NEW b \in Clients, NEW m \in Seq(Units),
           \/ up'[b] = up[b] /\ Queued(b)' = Queued(b) \o m
           \/ up'[b] = up[b] \o m /\ Queued(b) = <<>> /\ Queued(b)' = <<>>,
           NEW a \in Clients
    PROVE  Sent(a, b)' = Sent(a, b) \o Begun(m, a)
<1> DEFINE h == Had(a, b)
           f == Begun(FromPipe(b), a)
           q == Begun(Queued(b), a)
           x == Begun(m, a)
           g == h \o f
<1>1. /\ FromPipe(b) \in Seq(Units) /\ Queued(b) \in Seq(Units) /\ h \in Seq(Number)
      /\ f \in Seq(Number) /\ q \in Seq(Number) /\ x \in Seq(Number)
  BY BegunFacts DEF LinesTyped
<1>2. Had(a, b)' = h /\ input'[b] = input[b] /\ input[b] \in Seq(Units) /\ up[b] \in Seq(Units)
  BY ApartFrame, FromPipeType DEF Had
<1>3. Sent(a, b) = g \o q
  BY DEF Sent
<1>4. g \in Seq(Number)
  BY <1>1, ConcatProperties
<1>5. CASE up'[b] = up[b] /\ Queued(b)' = Queued(b) \o m
  <2>1. FromPipe(b)' = FromPipe(b)
    BY <1>2, <1>5 DEF FromPipe
  <2>2. Begun(Queued(b) \o m, a) = q \o x
    BY <1>1, BegunFacts
  <2>3. Sent(a, b)' = g \o (q \o x)
    BY <1>2, <1>5, <2>1, <2>2 DEF Sent
  <2> HIDE DEF g, q, x
  <2>4. Associates(g, q, x)
    BY <1>1, <1>4, ConcatAssociates
  <2>5. QED
    BY <1>3, <2>3, <2>4, Zenon DEF Associates, x
<1>6. CASE up'[b] = up[b] \o m /\ Queued(b) = <<>> /\ Queued(b)' = <<>>
  <2>1. FromPipe(b)' = FromPipe(b) \o m
    <3>1. Associates(input[b], up[b], m)
      BY <1>2, ConcatAssociates
    <3>2. QED
      BY <1>2, <1>6, <3>1, Zenon DEF Associates, FromPipe
  <2>2. Begun(FromPipe(b) \o m, a) = f \o x
    BY <1>1, BegunFacts
  <2>3. q = <<>> /\ Begun(<<>>, a) = <<>>
    BY <1>6, BegunFacts
  <2>4. Sent(a, b)' = (h \o (f \o x)) \o <<>> /\ Sent(a, b) = g \o <<>>
    BY <1>2, <1>3, <1>6, <2>1, <2>2, <2>3 DEF Sent
  <2>5. g = h \o f
    OBVIOUS
  <2> HIDE DEF h, f, x, g
  <2>6. Associates(h, f, x)
    BY <1>1, ConcatAssociates
  <2>7. h \o (f \o x) = g \o x
    BY <2>5, <2>6, Zenon DEF Associates
  <2>8. g \o <<>> = g /\ (g \o x) \o <<>> = g \o x
    <3>1. g \o x \in Seq(Number)
      BY <1>1, <1>4, ConcatProperties
    <3>2. QED
      BY <1>4, <3>1, ConcatEmptySeq
  <2>9. QED
    BY <2>4, <2>7, <2>8 DEF x
<1>7. QED
  BY <1>5, <1>6

(* What happens to a queue when m is reflected from the slot i *)
QueueGrows(i, m, j) ==
    /\ conns'[j].client_fd = conns[j].client_fd
    /\ \/ Packets(conns'[j].output_queue) = Packets(conns[j].output_queue)
       \/ /\ Packets(conns'[j].output_queue) = Packets(conns[j].output_queue) \o m
          /\ j \in Others(i)

LEMMA QueueGrowsOf ==
    ASSUME Typed, NEW i \in Slots, NEW length, ReadsAs(i, length), Takes(i, length),
           NEW m \in Seq(Units) \ {<<>>}, m = Prefix(conns[i].input, HeaderSize + length), NEW j \in Slots
    PROVE  QueueGrows(i, m, j)
<1>1. conns[j] \in SlotType /\ conns[j].output_queue \in Seq(Waiting)
  BY SlotFields DEF Typed, PipeTyped
<1>2. CASE j = i
  BY <1>2 DEF Takes, SameQueue, QueueGrows
<1>3. CASE j # i /\ conns'[j] = conns[j]
  BY <1>3 DEF QueueGrows
<1>4. CASE /\ j \in Others(i) /\ SameEnd(conns'[j], conns[j])
           /\ \E fate \in Delays : Enqueued(conns'[j], conns[j], m, fate)
  <2>1. PICK fate \in Delays : Enqueued(conns'[j], conns[j], m, fate)
    BY <1>4
  <2> DEFINE q == conns[j].output_queue
             w == [pbuff |-> m, wait |-> fate]
  <2>2. conns'[j].output_queue = q \o <<w>>
    BY <2>1 DEF Enqueued
  <2>3. w \in Waiting /\ w.pbuff = m
    BY Numbered DEF Waiting
  <2> HIDE DEF w, q
  <2>4. <<w>> \in Seq(Waiting) /\ Packets(<<w>>) = m
    BY <2>3, PacketsFacts
  <2>5. Packets(q \o <<w>>) = Packets(q) \o Packets(<<w>>)
    BY <1>1, <2>4, PacketsFacts DEF q
  <2>6. Packets(conns'[j].output_queue) = Packets(q) \o m
    BY <2>2, <2>4, <2>5
  <2>7. QED
    BY <1>4, <2>6 DEF QueueGrows, SameEnd, q
<1>5. Refuses(i, length) \/ Awaits(i, length) \/ (IF use_params THEN Delays_(i, m) ELSE Reflects(i, m))
  BY Zenon DEF ReadsAs
<1>6. ~ Refuses(i, length) /\ ~ Awaits(i, length)
  <2>1. Len(conns[i].input) \in Nat /\ HeaderSize + length \in 1 .. Len(conns[i].input) /\ ~ Refused(conns[i], length)
    BY SlotFields, ElementsOf DEF Typed, PipeTyped, Takes
  <2>2. ~ (Len(conns[i].input) < HeaderSize + length)
    BY <2>1
  <2>3. QED
    BY <2>1, <2>2, Zenon DEF Refuses, Awaits
<1>7. CASE Delays_(i, m)
  BY <1>2, <1>3, <1>4, <1>7 DEF Delays_
<1>8. CASE Reflects(i, m)
  BY <1>2, <1>3, <1>8 DEF Reflects, OnlySlot
<1>9. QED
  BY <1>5, <1>6, <1>7, <1>8

(* Nothing is sent yet to a client without a slot. *)
LEMMA NothingSent ==
    ASSUME Typed, OpenHasSlot, EndsAgree, caller # "done", NEW b \in Clients, state[b] # "closed",
           \A j \in Slots : conns[j].client_fd # b, NEW a
    PROVE  Sent(a, b) = <<>>
<1>1. pipe_end[b] \in {"none", "backlog", "open", "closed"} /\ pipe_end[b] # "open"
  BY DEF Typed, SocketsTyped, OpenHasSlot
<1>2. pipe_end[b] \in {"none", "backlog"}
  BY <1>1 DEF EndsAgree, Ends
<1>3. up[b] = <<>> /\ input[b] = <<>> /\ got[b] = <<>> /\ dropped[b] = <<>>
  BY <1>2 DEF EndsAgree, Ends
<1>4. <<>> \o <<>> = <<>>
  BY EmptySeq, ConcatEmptySeq
<1>5. Numbers(<<>>, a) = <<>> /\ Begun(<<>>, a) = <<>>
  BY NumbersFacts, BegunFacts
<1>6. Queued(b) = <<>>
  BY NoSlotOfClient
<1>7. FromPipe(b) = <<>> /\ Had(a, b) = <<>>
  BY <1>3, <1>4, <1>5 DEF FromPipe, Had
<1>8. QED
  BY <1>4, <1>5, <1>6, <1>7 DEF Sent

(* The message that single_read takes *)
TakesUnits(i, length, e, n, m) ==
    /\ e \in Clients /\ n \in Number /\ e = conns[i].client_fd
    /\ m \in Seq(Units) \ {<<>>} /\ m = Prefix(conns[i].input, HeaderSize + length)
    /\ conns[i].input = m \o conns'[i].input
    /\ \A a : Begun(m, a) = IF e = a THEN <<n>> ELSE <<>>

LEMMA UnitsTaken ==
    ASSUME Typed, NEW i \in Slots, SlotFrames(i), conns[i].client_fd \in Clients,
           NEW length, ReadsAs(i, length), Takes(i, length)
    PROVE  \E e, n, m : TakesUnits(i, length, e, n, m)
<1>1. PICK m \in Message : TakesMessage(i, length, m)
  BY TakenMessage DEF ReadsAs
<1> DEFINE u == MessageUnits(m[1], m[2])
<1>2. m[1] \in Clients /\ m[2] \in Number
  BY DEF Message
<1>3. u \in Seq(Units) /\ u # <<>> /\ \A a : Begun(u, a) = IF m[1] = a THEN <<m[2]>> ELSE <<>>
  BY <1>2, MessageUnitsType, MessageIsWhole, BegunMessage
<1>4. /\ m[1] = conns[i].client_fd /\ conns[i].input = u \o conns'[i].input
      /\ u = Prefix(conns[i].input, HeaderSize + length)
  BY <1>1 DEF TakesMessage
<1> HIDE DEF u
<1>5. TakesUnits(i, length, m[1], m[2], u)
  BY <1>2, <1>3, <1>4 DEF TakesUnits
<1>6. QED
  BY <1>5

LEMMA LinesOfTaken ==
    ASSUME Base, Base', FramesKept, LinesRise, NEW i \in Slots, SingleRead(i), Apart,
           NEW length, ReadsAs(i, length), Takes(i, length),
           IF use_params THEN Delays_(i, Prefix(conns[i].input, HeaderSize + length))
           ELSE Reflects(i, Prefix(conns[i].input, HeaderSize + length))
    PROVE  LinesRise' /\ LinesGo
<1>1. /\ Typed /\ ThreadIsKnown /\ OneSlotEach /\ OneSlotEach' /\ OpenHasSlot /\ EndsAgree
      /\ QueuesAreCounted /\ QueuesAreCounted' /\ LinesTyped /\ LinesTyped' /\ SlotFrames(i)
  BY LineTypes, NextLineTypes DEF Base, SlotsAreUsed, FramesKept, SlotsFull
<1>2. /\ reading = i /\ down' = down /\ pipe_end' = pipe_end /\ use_params' = use_params /\ caller' = caller
  BY <1>1, SingleReadEffect DEF threadVars
<1>3. conns[i].client_fd \in Clients /\ caller # "done"
  BY <1>1, <1>2, ReadersAreConnected
<1>4. PICK e, n, m : TakesUnits(i, length, e, n, m)
  BY <1>1, <1>3, UnitsTaken
<1>5. /\ e \in Clients /\ n \in Number /\ e = conns[i].client_fd /\ m \in Seq(Units) \ {<<>>}
      /\ conns[i].input = m \o conns'[i].input
      /\ Begun(m, e) = <<n>> /\ \A a : a # e => Begun(m, a) = <<>>
  BY <1>4 DEF TakesUnits
<1>6. m = Prefix(conns[i].input, HeaderSize + length)
  BY <1>4 DEF TakesUnits
<1>7. IF use_params THEN Delays_(i, m) ELSE Reflects(i, m)
  BY <1>6
<1>8. \A j \in Slots : QueueGrows(i, m, j)
  BY <1>1, <1>5, <1>6, QueueGrowsOf
<1>9. \A j \in Slots : conns'[j].client_fd = conns[j].client_fd
  BY <1>8 DEF QueueGrows
<1>10. Coming(e) = <<n>> \o Coming(e)'
  <2> DEFINE r == conns'[i].input
             d == down[e]
  <2>1. FromClient(e) = (m \o r) \o d /\ FromClient(e)' = r \o d
    BY <1>1, <1>2, <1>5, <1>9, SlotOfClient, NextSlotOfClient DEF Inbound
  <2>2. r \in Seq(Units) /\ d \in Seq(Units)
    <3>1. conns'[i] \in SlotType
      BY DEF Takes
    <3>2. QED
      BY <1>1, <1>5, <3>1, SlotFields DEF Typed, SocketsTyped
  <2> HIDE DEF r, d
  <2>3. Associates(m, r, d) /\ r \o d \in Seq(Units)
    BY <1>5, <2>2, ConcatAssociates, ConcatProperties
  <2>4. FromClient(e) = m \o (r \o d)
    BY <2>1, <2>3, Zenon DEF Associates
  <2>5. Begun(m \o (r \o d), e) = Begun(m, e) \o Begun(r \o d, e)
    BY <1>5, <2>3, BegunFacts
  <2>6. QED
    BY <1>5, <2>1, <2>4, <2>5 DEF Coming
<1>11. ASSUME NEW a \in Clients, a # e PROVE Coming(a)' = Coming(a)
  <2>1. CASE \E j \in Slots : conns[j].client_fd = a
    <3>1. PICK j \in Slots : conns[j].client_fd = a
      BY <2>1
    <3>2. conns'[j].input = conns[j].input
      BY <1>5, <1>7, <1>11, <3>1 DEF Delays_, Reflects, OnlySlot, SameEnd
    <3>3. FromClient(a)' = FromClient(a)
      BY <1>1, <1>2, <1>9, <3>1, <3>2, SlotOfClient, NextSlotOfClient, ZenonT(60) DEF Inbound
    <3>4. QED
      BY <3>3 DEF Coming
  <2>2. CASE ~ \E j \in Slots : conns[j].client_fd = a
    <3>1. FromClient(a)' = FromClient(a)
      BY <1>2, <1>9, <2>2, NoSlotOfClient, NextNoSlot
    <3>2. QED
      BY <3>1 DEF Coming
  <2>3. QED
    BY <2>1, <2>2
<1>12. pipe_end[e] = "open"
  BY <1>1, <1>5 DEF OpenHasSlot
<1>13. TakesNumber(e, n)
  BY <1>2, <1>10, <1>11, <1>12, ApartFrame DEF TakesNumber
<1>14. ASSUME NEW j \in Slots PROVE KeepsNumber(e, n, j)
  <2> DEFINE p == Packets(conns[j].output_queue)
  <2>1. p \in Seq(Units)
    BY <1>1, SlotFields, PacketsFacts DEF Typed, PipeTyped
  <2>2. Packets(conns'[j].output_queue) = p \/ Packets(conns'[j].output_queue) = p \o m
    BY <1>8 DEF QueueGrows
  <2>3. ASSUME NEW a \in Clients
        PROVE  Begun(p \o m, a) = Begun(p, a) \o Begun(m, a) /\ Begun(p, a) \o <<>> = Begun(p, a)
    <3> HIDE DEF p
    <3>1. Begun(p, a) \in Seq(Number)
      BY <2>1, BegunFacts
    <3>2. QED
      BY <1>5, <2>1, <3>1, BegunFacts, ConcatEmptySeq
  <2>4. \A a \in Clients : Left(a, j) = Begun(p, a) /\ Left(a, j)' \in {Begun(p, a), Begun(p \o m, a)}
    BY <2>2 DEF Left
  <2> HIDE DEF p
  <2>5. QED
    BY <1>5, <2>3, <2>4 DEF KeepsNumber
<1>15. ASSUME NEW b \in Clients, up'[b] = up[b], Queued(b)' = Queued(b),
              e = b \/ use_params \/ (Sent(e, b) = <<>> /\ pipe_end[b] # "open")
       PROVE  GivesNumber(e, n, b)
  BY <1>5, <1>15, SentApart DEF GivesNumber
<1>16. ASSUME NEW b \in Clients, e # b,
              \/ up'[b] = up[b] /\ Queued(b)' = Queued(b) \o m
              \/ up'[b] = up[b] \o m /\ Queued(b) = <<>> /\ Queued(b)' = <<>>
       PROVE  GivesNumber(e, n, b)
  <2>1. \A a \in Clients : Sent(a, b)' = Sent(a, b) \o Begun(m, a)
    BY <1>1, <1>5, <1>16, SentGrows
  <2>2. \A a \in Clients : Sent(a, b) \o <<>> = Sent(a, b)
    BY <1>1, ConcatEmptySeq DEF LinesTyped
  <2>3. QED
    BY <1>5, <1>16, <2>1, <2>2 DEF GivesNumber
<1>17. ASSUME NEW b \in Clients, state[b] # "closed" PROVE GivesNumber(e, n, b)
  <2>1. CASE \E j \in Slots : conns[j].client_fd = b
    <3>1. PICK j \in Slots : conns[j].client_fd = b
      BY <2>1
    <3>2. Queued(b) = Packets(conns[j].output_queue) /\ Queued(b)' = Packets(conns'[j].output_queue)
      BY <1>1, <1>9, <3>1, SlotOfClient, NextSlotOfClient
    <3>3. QueueGrows(i, m, j)
      BY <1>8
    <3>4. CASE b = e
      <4>1. up'[b] = up[b]
        BY <1>5, <1>7, <3>4 DEF Delays_, Reflects, ReflectWrites, Others
      <4>2. j \notin Others(i)
        BY <1>5, <3>1, <3>4 DEF Others
      <4>3. QED
        BY <1>15, <3>2, <3>3, <3>4, <4>1, <4>2 DEF QueueGrows
    <3>5. CASE b # e /\ use_params
      <4>1. up'[b] = up[b]
        BY <1>7, <3>5 DEF Delays_
      <4>2. Queued(b)' = Queued(b) \/ Queued(b)' = Queued(b) \o m
        BY <3>2, <3>3 DEF QueueGrows
      <4>3. QED
        BY <1>15, <1>16, <3>5, <4>1, <4>2
    <3>6. CASE b # e /\ ~ use_params
      <4>1. client_end[b] # "closed"
        BY <1>1, <1>17 DEF EndsAgree, Ends
      <4>2. j \in Others(i)
        BY <1>5, <3>1, <3>6, Constants DEF Others
      <4>3. up'[b] = up[b] \o m
        BY <1>7, <3>1, <3>6, <4>1, <4>2 DEF Reflects, ReflectWrites
      <4>4. conns[j].output_queue = <<>> /\ conns'[j].output_queue = <<>>
        BY <1>1, <1>2, <3>6 DEF QueuesAreCounted, Counted
      <4>5. Queued(b) = <<>> /\ Queued(b)' = <<>>
        BY <3>2, <4>4, PacketsFacts
      <4>6. QED
        BY <1>16, <3>6, <4>3, <4>5
    <3>7. QED
      BY <3>4, <3>5, <3>6
  <2>2. CASE ~ \E j \in Slots : conns[j].client_fd = b
    <3>1. Sent(e, b) = <<>>
      BY <1>1, <1>3, <1>17, <2>2, NothingSent
    <3>2. up'[b] = up[b]
      BY <1>7, <2>2 DEF Delays_, Reflects, ReflectWrites, Others
    <3>3. Queued(b)' = Queued(b)
      BY <1>9, <2>2, NoSlotOfClient, NextNoSlot
    <3>4. pipe_end[b] # "open"
      BY <1>1, <2>2 DEF OpenHasSlot
    <3>5. QED
      BY <1>15, <3>1, <3>2, <3>3, <3>4
  <2>3. QED
    BY <2>1, <2>2
<1>18. QED
  BY <1>1, <1>5, <1>13, <1>14, <1>17, LinesTaken

LEMMA LinesOfSingleRead ==
    ASSUME Base, Base', FramesKept, LinesRise, NEW i \in Slots, SingleRead(i), Apart
    PROVE  LinesRise' /\ LinesGo
<1>1. Typed /\ LinesTyped /\ LinesTyped'
  BY LineTypes, NextLineTypes DEF Base
<1>2. /\ down' = down /\ pipe_end' = pipe_end /\ use_params' = use_params /\ caller' = caller
  BY <1>1, SingleReadEffect DEF threadVars
<1>3. PICK length : ReadsAs(i, length)
  BY <1>1, SingleReadEffect
<1>4. CASE Refuses(i, length)
  BY <1>1, <1>2, <1>4, LinesAlone DEF Refuses
<1>5. CASE Awaits(i, length)
  <2>1. up' = up /\ \A j \in Slots : /\ conns'[j].client_fd = conns[j].client_fd
                                     /\ conns'[j].input = conns[j].input
                                     /\ conns'[j].output_queue = conns[j].output_queue
    BY <1>5 DEF Awaits, OnlySlot, SameQueue
  <2>2. QED
    BY <1>1, <1>2, <2>1, LinesAlone
<1>6. CASE /\ Takes(i, length)
           /\ IF use_params THEN Delays_(i, Prefix(conns[i].input, HeaderSize + length))
              ELSE Reflects(i, Prefix(conns[i].input, HeaderSize + length))
  BY <1>3, <1>6, LinesOfTaken
<1>7. QED
  BY <1>3, <1>4, <1>5, <1>6, Zenon DEF ReadsAs

-----------------------------------------------------------------------------
(* Every step *)

LEMMA ThreadGoesOn ==
    ASSUME Typed, AtThread
    PROVE  /\ caller' # "done" => caller # "done"
           /\ use_params => use_params'
<1>1. caller = "done" => Signal = "done"
  BY DEF Signal, Signalled
<1>2. CASE KeepAlive \/ RunEnds
  BY <1>1, <1>2 DEF KeepAlive, RunEnds, slotVars
<1>3. CASE StartWaits \/ StopWaits \/ Start \/ Stop
  BY <1>3 DEF StartWaits, StopWaits, Start, Stop, slotVars
<1>4. CASE Params
  BY <1>4 DEF Params, threadVars
<1>5. QED
  BY <1>2, <1>3, <1>4, Zenon DEF AtThread

LEMMA LinesStep ==
    ASSUME Graceful, Base, Base', FramesKept, LinesRise, [Next]_vars
    PROVE  LinesRise' /\ LinesGo
<1>1. Typed /\ LinesTyped /\ LinesTyped'
  BY LineTypes, NextLineTypes DEF Base
<1>2. ASSUME NEW c \in Clients, AtClient(c), Idle PROVE LinesRise' /\ LinesGo
  <2>1. CASE DowncallRead(c)
    BY <1>2, <2>1, LinesOfDowncall
  <2>2. CASE ~ DowncallRead(c)
    BY <1>2, <2>2, LinesOfClient
  <2>3. QED
    BY <2>1, <2>2
<1>3. ASSUME NEW c \in Clients, Listener(c), Apart PROVE LinesRise' /\ LinesGo
  BY <1>3, LinesOfListener
<1>4. ASSUME NEW i \in Slots, AtSlot(i), Apart PROVE LinesRise' /\ LinesGo
  BY <1>4, LinesOfError, LinesOfRead, LinesOfSingleRead, LinesOfTimer, Zenon DEF AtSlot
<1>5. CASE AtThread /\ Apart
  <2>1. pipe_end' = pipe_end /\ up' = up /\ down' = down /\ conns' = conns
    BY <1>5, ThreadFrame DEF sockets
  <2>2. QED
    BY <1>1, <1>5, <2>1, ThreadGoesOn, LinesAlone
<1>6. CASE Tick /\ Apart
  <2>1. /\ pipe_end' = pipe_end /\ up' = up /\ down' = down
        /\ use_params' = use_params /\ caller' = caller
    BY <1>1, <1>6, TickEffect DEF sockets, threadVars
  <2>2. \A i \in Slots : /\ conns'[i].client_fd = conns[i].client_fd /\ conns'[i].input = conns[i].input
                         /\ conns'[i].output_queue = Aged(conns[i].output_queue)
    BY <1>1, <1>6, TickEffect DEF SameEnd
  <2>3. \A i \in Slots : Packets(Aged(conns[i].output_queue)) = Packets(conns[i].output_queue)
    BY <1>1, SlotFields, AgedQueue DEF Typed, PipeTyped
  <2>4. QED
    BY <1>1, <1>6, <2>1, <2>2, <2>3, LinesAlone
<1>7. CASE Destroy /\ Apart
  BY <1>7 DEF Destroy, LinesRise, LinesGo
<1>8. CASE UNCHANGED vars
  <2>1. UNCHANGED connVars /\ UNCHANGED <<pipe_end, up, down, conns, use_params, caller>>
    BY <1>8 DEF vars, sockets, pipeVars, slotVars, threadVars
  <2>2. QED
    BY <1>1, <2>1, LinesAlone DEF Apart
<1>9. QED
  BY <1>2, <1>3, <1>4, <1>5, <1>6, <1>7, <1>8, Steps, Zenon

LEMMA LinesInit == Init => LinesRise
<1>1. SUFFICES ASSUME Init PROVE LinesRise
  OBVIOUS
<1>2. /\ \A c \in Clients : /\ down[c] = <<>> /\ up[c] = <<>> /\ input[c] = <<>>
                            /\ got[c] = <<>> /\ dropped[c] = <<>>
      /\ \A i \in Slots : conns[i] = NewConn
  BY <1>1 DEF Init, SocketInit, ConnectorInit, PipeInit
<1>3. <<>> \o <<>> = <<>> /\ Len(<<>>) = 0
  BY EmptySeq, ConcatEmptySeq
<1>4. \A i \in Slots : conns[i].client_fd = None /\ conns[i].output_queue = <<>>
  BY <1>2 DEF NewConn
<1>5. ASSUME NEW a \in Clients
      PROVE  /\ Coming(a) = <<>> /\ \A b \in Clients : Sent(a, b) = <<>>
             /\ \A i \in Slots : Left(a, i) = <<>>
  <2>1. Numbers(<<>>, a) = <<>> /\ Begun(<<>>, a) = <<>> /\ Packets(<<>>) = <<>>
    BY NumbersFacts, BegunFacts, PacketsFacts
  <2>2. \A b \in Clients : FromClient(b) = <<>> \o down[b] /\ Queued(b) = <<>>
    BY <1>4, NoSlotOfClient, Constants
  <2>3. \A b \in Clients : FromPipe(b) = <<>> /\ Had(a, b) = <<>>
    BY <1>2, <1>3, <2>1 DEF FromPipe, Had
  <2>4. QED
    BY <1>2, <1>3, <1>4, <2>1, <2>2, <2>3 DEF Coming, Sent, Left
<1>6. \A w : Rises(<<>>, w) /\ RunsTo(<<>>, w)
  BY <1>3 DEF Rises, RunsTo
<1>7. (\A b \in Clients : ClientLines(b)) /\ (\A i \in Slots : SlotLines(i))
  BY <1>3, <1>5, <1>6 DEF ClientLines, SlotLines, LineIsOk, Line, SlotLine
<1>8. QED
  BY <1>7 DEF LinesRise

LEMMA AlwaysLines ==
    ASSUME Graceful
    PROVE  Spec => [](Base /\ FramesKept /\ LinesRise)
<1>1. Spec => [](Base /\ FramesKept)
  BY AlwaysFrames
<1>2. Init => LinesRise
  BY LinesInit
<1>3. Base /\ FramesKept /\ LinesRise /\ [Next]_vars /\ Base' => LinesRise'
  BY LinesStep
<1>4. QED
  BY <1>1, <1>2, <1>3, PTL DEF Spec

(* InOrder, when a connection closes only after the pipe has read what it  *)
(* wrote: what goes up a connection keeps the order in which each of the   *)
(* others wrote, holds nothing twice and nothing of its own, through reads *)
(* that cut the stream anywhere, through queues with delays and losses,    *)
(* through pauses of the receivers and through slots that are used again   *)
(* with what was queued in them.  Without delays and losses there is no    *)
(* gap behind the first message of a sender; that what comes down does go  *)
(* up is LocalPipeDelivers.                                                *)
THEOREM LocalPipeOrder ==
    ASSUME Graceful
    PROVE  Spec => []InOrder
<1>1. Spec => [](Base /\ FramesKept /\ LinesRise)
  BY AlwaysLines
<1>2. Base /\ LinesRise => InOrder
  BY LinesInOrder
<1>3. QED
  BY <1>1, <1>2, PTL

-----------------------------------------------------------------------------
(* What is sent to a client stays sent, and what comes of another is sent  *)

(* The elements of sequences *)
LEMMA ToSetConcat ==
    ASSUME NEW S, NEW s \in Seq(S), NEW t \in Seq(S)
    PROVE  ToSet(s \o t) = ToSet(s) \cup ToSet(t)
<1> DEFINE u == s \o t
           m == Len(s)
           n == Len(t)
<1>1. /\ m \in Nat /\ n \in Nat /\ DOMAIN s = 1 .. m /\ DOMAIN t = 1 .. n
      /\ u \in Seq(S) /\ Len(u) = m + n
      /\ \A i \in 1 .. m : u[i] = s[i]
      /\ \A i \in 1 .. n : u[m + i] = t[i]
      /\ \A k \in 1 .. m + n : k \in 1 .. m \/ \E i \in 1 .. n : k = m + i
  BY ConcatElements, ElementsOf
<1> HIDE DEF u
<1>2. DOMAIN u = 1 .. m + n
  BY <1>1, ElementsOf
<1> HIDE DEF m, n
<1>3. ASSUME NEW x \in ToSet(u) PROVE x \in ToSet(s) \cup ToSet(t)
  <2>1. PICK k \in 1 .. m + n : x = u[k]
    BY <1>2 DEF ToSet
  <2>2. CASE k \in 1 .. m
    BY <1>1, <2>1, <2>2 DEF ToSet
  <2>3. CASE \E i \in 1 .. n : k = m + i
    BY <1>1, <2>1, <2>3 DEF ToSet
  <2>4. QED
    BY <1>1, <2>1, <2>2, <2>3
<1>4. ASSUME NEW x \in ToSet(s) PROVE x \in ToSet(u)
  <2>1. PICK k \in 1 .. m : x = s[k]
    BY <1>1 DEF ToSet
  <2>2. k \in 1 .. m + n
    BY <1>1
  <2>3. QED
    BY <1>1, <1>2, <2>1, <2>2 DEF ToSet
<1>5. ASSUME NEW x \in ToSet(t) PROVE x \in ToSet(u)
  <2>1. PICK k \in 1 .. n : x = t[k]
    BY <1>1 DEF ToSet
  <2>2. m + k \in 1 .. m + n
    BY <1>1
  <2>3. QED
    BY <1>1, <1>2, <2>1, <2>2 DEF ToSet
<1>6. QED
  BY <1>3, <1>4, <1>5 DEF u

LEMMA ToSetOne == ToSet(<<>>) = {} /\ \A x : ToSet(<<x>>) = {x}
<1>1. ToSet(<<>>) = {}
  BY DEF ToSet
<1>2. ASSUME NEW x PROVE ToSet(<<x>>) = {x}
  <2>1. DOMAIN <<x>> = {1}
    OBVIOUS
  <2>2. QED
    BY <2>1 DEF ToSet
<1>3. QED
  BY <1>1, <1>2

LEMMA ElementsFlattened ==
    ASSUME NEW S, NEW s \in Seq(Seq(S)), NEW x
    PROVE  x \in ToSet(FlattenSeq(s)) <=> \E k \in 1 .. Len(s) : x \in ToSet(s[k])
<1>1. PICK f : Gathers(f, s, S)
  BY FlattenGathers DEF Gathered
<1> DEFINE n == Len(s)
           Upto(k) == \E i \in 1 .. k : x \in ToSet(s[i])
           Good == {k \in Nat : k <= n => (x \in ToSet(f[k]) <=> Upto(k))}
<1>2. n \in Nat /\ \A k \in 1 .. n : s[k] \in Seq(S)
  BY ElementsOf
<1>3. /\ f \in [0 .. n -> Seq(S)] /\ f[0] = <<>>
      /\ \A k \in 1 .. n : f[k] = f[k - 1] \o s[k]
      /\ FlattenSeq(s) = f[n]
  BY <1>1 DEF Gathers
<1> HIDE DEF n
<1>4. 0 \in Good
  <2>1. ~ Upto(0)
    OBVIOUS
  <2>2. QED
    BY <1>3, <2>1, ToSetOne
<1>5. ASSUME NEW k \in Nat, k \in Good PROVE k + 1 \in Good
  <2>1. SUFFICES ASSUME k + 1 <= n PROVE x \in ToSet(f[k + 1]) <=> Upto(k + 1)
    OBVIOUS
  <2>2. k \in 0 .. n /\ k + 1 \in 1 .. n /\ k <= n /\ (k + 1) - 1 = k
    BY <1>2, <2>1
  <2>3. f[k + 1] = f[k] \o s[k + 1] /\ f[k] \in Seq(S) /\ s[k + 1] \in Seq(S)
    BY <1>2, <1>3, <2>2
  <2>4. ToSet(f[k + 1]) = ToSet(f[k]) \cup ToSet(s[k + 1])
    BY <2>3, ToSetConcat
  <2>5. x \in ToSet(f[k]) <=> Upto(k)
    BY <1>5, <2>2
  <2>6. Upto(k + 1) <=> Upto(k) \/ x \in ToSet(s[k + 1])
    <3>1. 1 .. k + 1 = (1 .. k) \cup {k + 1}
      OBVIOUS
    <3>2. QED
      BY <3>1, Zenon
  <2>7. QED
    BY <2>4, <2>5, <2>6
<1>6. Nat \subseteq Good
  <2> HIDE DEF Good
  <2>1. QED
    BY <1>4, <1>5, InductionOnSet
<1>7. x \in ToSet(f[n]) <=> Upto(n)
  BY <1>2, <1>6
<1>8. QED
  BY <1>3, <1>7, Zenon DEF n

LEMMA GatherSet ==
    ASSUME NEW A, NEW B, NEW s \in Seq(A), NEW g, MapsTo(g, A, Seq(B)), NEW x
    PROVE  x \in ToSet(Gather(s, g)) <=> \E y \in ToSet(s) : x \in ToSet(g[y])
<1> DEFINE i == Images(s, g)
<1>1. AreImages(i, s, g, Seq(B))
  BY ImagesAre
<1> HIDE DEF i
<1>2. i \in Seq(Seq(B)) /\ Len(i) = Len(s) /\ \A k \in 1 .. Len(s) : i[k] = g[s[k]]
  BY <1>1 DEF AreImages
<1>3. x \in ToSet(FlattenSeq(i)) <=> \E k \in 1 .. Len(i) : x \in ToSet(i[k])
  BY <1>2, ElementsFlattened
<1>4. x \in ToSet(FlattenSeq(i)) <=> \E k \in 1 .. Len(s) : x \in ToSet(g[s[k]])
  BY <1>2, <1>3
<1>5. ToSet(s) = {s[k] : k \in 1 .. Len(s)}
  BY ElementsOf DEF ToSet
<1>6. (\E y \in ToSet(s) : x \in ToSet(g[y])) <=> \E k \in 1 .. Len(s) : x \in ToSet(g[s[k]])
  BY <1>5, Zenon
<1>7. QED
  BY <1>4, <1>6, Zenon DEF Gather, i

(* The sets of numbers of NothingIsLost are those of the lines. *)
LEMMA MessagesSet ==
    ASSUME NEW s \in Seq(Units), NEW m
    PROVE  m \in ToSet(Messages(s)) <=> \E u \in ToSet(s) : u[3] = 1 /\ m = <<u[1], u[2]>>
<1>1. m \in ToSet(Messages(s)) <=> \E u \in ToSet(s) : m \in ToSet(heads[u])
  BY Maps, MessagesGather, GatherSet
<1>2. \A u \in ToSet(s) : u \in Units
  BY ElementsOf DEF ToSet
<1>3. \A u \in ToSet(s) : ToSet(heads[u]) = IF u[3] = 1 THEN {<<u[1], u[2]>>} ELSE {}
  BY <1>2, ToSetOne DEF heads
<1>4. QED
  BY <1>1, <1>3

LEMMA NumbersSet ==
    ASSUME NEW s \in Seq(Message), NEW a, NEW n
    PROVE  n \in ToSet(Numbers(s, a)) <=> \E m \in ToSet(s) : m[1] = a /\ n = m[2]
<1>1. n \in ToSet(Numbers(s, a)) <=> \E m \in ToSet(s) : n \in ToSet(own(a)[m])
  BY Maps, NumbersGather, GatherSet
<1>2. \A m \in ToSet(s) : m \in Message
  BY ElementsOf DEF ToSet
<1>3. \A m \in ToSet(s) : ToSet(own(a)[m]) = IF m[1] = a THEN {m[2]} ELSE {}
  BY <1>2, ToSetOne DEF own
<1>4. QED
  BY <1>1, <1>3

LEMMA BegunSet ==
    ASSUME NEW s \in Seq(Units), NEW a
    PROVE  ToSet(Begun(s, a)) = BegunIn(s, a)
<1>1. Messages(s) \in Seq(Message)
  BY MessagesFacts
<1>2. \A n : n \in ToSet(Begun(s, a)) <=> \E m \in ToSet(Messages(s)) : m[1] = a /\ n = m[2]
  BY <1>1, NumbersSet DEF Begun
<1>3. \A m : m \in ToSet(Messages(s)) <=> \E u \in ToSet(s) : u[3] = 1 /\ m = <<u[1], u[2]>>
  BY MessagesSet
<1>4. \A n : n \in ToSet(Begun(s, a)) <=> \E u \in ToSet(s) : u[1] = a /\ u[3] = 1 /\ n = u[2]
  <2>1. ASSUME NEW n, NEW m \in ToSet(Messages(s)), m[1] = a, n = m[2]
        PROVE  \E u \in ToSet(s) : u[1] = a /\ u[3] = 1 /\ n = u[2]
    <3>1. PICK u \in ToSet(s) : u[3] = 1 /\ m = <<u[1], u[2]>>
      BY <1>3
    <3>2. m[1] = u[1] /\ m[2] = u[2]
      BY <3>1
    <3>3. QED
      BY <2>1, <3>1, <3>2
  <2>2. ASSUME NEW n, NEW u \in ToSet(s), u[1] = a, u[3] = 1, n = u[2]
        PROVE  \E m \in ToSet(Messages(s)) : m[1] = a /\ n = m[2]
    <3> DEFINE m == <<u[1], u[2]>>
    <3>1. m[1] = a /\ m[2] = n
      BY <2>2
    <3>2. m \in ToSet(Messages(s))
      BY <1>3, <2>2
    <3>3. QED
      BY <3>1, <3>2
  <2>3. QED
    BY <1>2, <2>1, <2>2
<1>5. \A n : n \in BegunIn(s, a) <=> \E u \in ToSet(s) : u[1] = a /\ u[3] = 1 /\ n = u[2]
  BY DEF BegunIn
<1>6. QED
  BY <1>4, <1>5

LEMMA QueueSet ==
    ASSUME NEW q \in Seq(Waiting), NEW a
    PROVE  ToSet(Begun(Packets(q), a)) = UNION {BegunIn(w.pbuff, a) : w \in ToSet(q)}
<1>1. Packets(q) \in Seq(Units)
  BY PacketsFacts
<1>2. \A u : u \in ToSet(Packets(q)) <=> \E w \in ToSet(q) : u \in ToSet(pbuffs[w])
  BY Maps, PacketsGather, GatherSet
<1>3. \A w \in ToSet(q) : pbuffs[w] = w.pbuff
  BY ElementsOf DEF ToSet, pbuffs
<1>4. \A u : u \in ToSet(Packets(q)) <=> \E w \in ToSet(q) : u \in ToSet(w.pbuff)
  BY <1>2, <1>3
<1>5. ToSet(Begun(Packets(q), a)) = BegunIn(Packets(q), a)
  BY <1>1, BegunSet
<1> DEFINE p == Packets(q)
<1> HIDE DEF p
<1>6. \A s, n : n \in BegunIn(s, a) <=> \E u \in ToSet(s) : u[1] = a /\ u[3] = 1 /\ n = u[2]
  BY DEF BegunIn
<1>7. \A n : n \in BegunIn(p, a) <=> \E w \in ToSet(q) : n \in BegunIn(w.pbuff, a)
  BY <1>4, <1>6 DEF p
<1>8. QED
  BY <1>5, <1>7 DEF p

LEMMA LineSets ==
    Typed /\ OneSlotEach =>
        \A a, b \in Clients : Passed(a, b) = ToSet(Sent(a, b)) /\ Untaken(a) = ToSet(Coming(a))
<1>1. SUFFICES ASSUME Typed, OneSlotEach, NEW a \in Clients, NEW b \in Clients
               PROVE  Passed(a, b) = ToSet(Sent(a, b)) /\ Untaken(a) = ToSet(Coming(a))
  OBVIOUS
<1>2. LinesTyped
  BY <1>1, LineTypes
<1> DEFINE g == got[b] \o dropped[b]
           h == Had(a, b)
           f == Begun(FromPipe(b), a)
           q == Begun(Queued(b), a)
<1>3. /\ g \in Seq(Message) /\ FromPipe(b) \in Seq(Units) /\ FromClient(a) \in Seq(Units)
      /\ h \in Seq(Number) /\ f \in Seq(Number) /\ q \in Seq(Number)
  BY <1>1, <1>2, ConcatProperties, BegunFacts DEF LinesTyped, Typed, ConnectorTyped
<1>4. Untaken(a) = ToSet(Coming(a))
  BY <1>3, BegunSet DEF Untaken, Coming
<1>5. {m[2] : m \in {x \in ToSet(g) : x[1] = a}} = ToSet(h)
  <2> DEFINE s == {m[2] : m \in {x \in ToSet(g) : x[1] = a}}
  <2>1. \A n : n \in s <=> \E m \in ToSet(g) : m[1] = a /\ n = m[2]
    OBVIOUS
  <2>2. h = Numbers(g, a)
    BY DEF Had
  <2> HIDE DEF s, g, h
  <2>3. \A n : n \in ToSet(h) <=> \E m \in ToSet(g) : m[1] = a /\ n = m[2]
    BY <1>3, <2>2, NumbersSet
  <2>4. QED
    BY <2>1, <2>3 DEF s, g
<1>6. BegunIn(FromPipe(b), a) = ToSet(f)
  BY <1>3, BegunSet
<1>7. UNION {BegunIn(w.pbuff, a) : w \in WaitingFor(b)} = ToSet(q)
  <2>1. CASE \E i \in Slots : conns[i].client_fd = b
    <3>1. PICK i \in Slots : conns[i].client_fd = b
      BY <2>1
    <3>2. i \in SlotOf(b) /\ Queued(b) = Packets(conns[i].output_queue)
      BY <1>1, <3>1, SlotOfClient
    <3>3. SlotOf(b) = {i}
      BY <1>1, <3>1, <3>2, Constants DEF SlotOf, OneSlotEach
    <3>4. WaitingFor(b) = ToSet(conns[i].output_queue)
      BY <3>3 DEF WaitingFor
    <3>5. conns[i].output_queue \in Seq(Waiting)
      BY <1>1, SlotFields DEF Typed, PipeTyped
    <3>6. QED
      BY <3>2, <3>4, <3>5, QueueSet
  <2>2. CASE ~ \E i \in Slots : conns[i].client_fd = b
    <3>1. SlotOf(b) = {} /\ Queued(b) = <<>>
      BY <2>2, NoSlotOfClient
    <3>2. WaitingFor(b) = {}
      BY <3>1 DEF WaitingFor
    <3>3. ToSet(q) = {}
      BY <3>1, BegunFacts, ToSetOne
    <3>4. QED
      BY <3>2, <3>3
  <2>3. QED
    BY <2>1, <2>2
<1>8. ToSet(Sent(a, b)) = (ToSet(h) \cup ToSet(f)) \cup ToSet(q)
  <2> DEFINE s == h \o f
  <2>1. Sent(a, b) = s \o q
    BY DEF Sent
  <2> HIDE DEF h, f, q
  <2>2. s \in Seq(Number) /\ ToSet(s) = ToSet(h) \cup ToSet(f)
    BY <1>3, ConcatProperties, ToSetConcat
  <2> HIDE DEF s
  <2>3. ToSet(s \o q) = ToSet(s) \cup ToSet(q)
    BY <1>3, <2>2, ToSetConcat
  <2>4. QED
    BY <2>1, <2>2, <2>3
<1>9. Passed(a, b) = (ToSet(h) \cup ToSet(f)) \cup ToSet(q)
  BY <1>5, <1>6, <1>7 DEF Passed
<1>10. QED
  BY <1>4, <1>8, <1>9

LEMMA NextLineSets ==
    Typed' /\ OneSlotEach' =>
        \A a, b \in Clients : Passed(a, b)' = ToSet(Sent(a, b)') /\ Untaken(a)' = ToSet(Coming(a)')
<1> DEFINE Same == \A a, b \in Clients : Passed(a, b) = ToSet(Sent(a, b)) /\ Untaken(a) = ToSet(Coming(a))
<1>1. Typed /\ OneSlotEach => Same
  BY LineSets
<1>2. (Typed /\ OneSlotEach => Same)'
  BY <1>1, PTL
<1>3. QED
  BY <1>2

(* What NothingIsLost says of a step, a and b *)
LosesNothing(a, b) ==
    /\ Passed(a, b) \subseteq Passed(a, b)'
    /\ ~ use_params => (Passed(a, b) \cup Untaken(a))'
                        = Passed(a, b) \cup Untaken(a) \cup wrote[a] + 1 .. wrote'[a]

LEMMA LineLosesNothing ==
    ASSUME LinesTyped, LinesTyped', NEW a \in Clients, NEW b \in Clients, LineGoes(a, b),
           Passed(a, b) = ToSet(Sent(a, b)), Untaken(a) = ToSet(Coming(a)),
           Passed(a, b)' = ToSet(Sent(a, b)'), Untaken(a)' = ToSet(Coming(a)')
    PROVE  LosesNothing(a, b)
<1> DEFINE s == Sent(a, b)
           t == Coming(a)
           x == Sent(a, b)'
           y == Coming(a)'
<1>1. /\ s \in Seq(Number) /\ t \in Seq(Number) /\ x \in Seq(Number) /\ y \in Seq(Number)
      /\ wrote[a] \in Nat /\ wrote'[a] \in Nat
  BY DEF LinesTyped
<1>2. \A n \in Number : <<n>> \in Seq(Number) /\ ToSet(<<n>>) = {n}
  BY ToSetOne
<1>3. SUFFICES /\ ToSet(s) \subseteq ToSet(x)
               /\ ~ use_params => ToSet(x) \cup ToSet(y) = ToSet(s) \cup ToSet(t) \cup wrote[a] + 1 .. wrote'[a]
  BY DEF LosesNothing
<1>4. CASE x = s /\ y = t /\ wrote'[a] = wrote[a]
  <2>1. wrote[a] + 1 .. wrote'[a] = {}
    BY <1>1, <1>4
  <2>2. QED
    BY <1>4, <2>1
<1>5. CASE \E n \in Number : x = s /\ y = t \o <<n>> /\ n = wrote'[a] /\ n = wrote[a] + 1
  <2>1. PICK n \in Number : x = s /\ y = t \o <<n>> /\ n = wrote'[a] /\ n = wrote[a] + 1
    BY <1>5
  <2>2. wrote[a] + 1 .. wrote'[a] = {n}
    BY <1>1, <2>1
  <2> DEFINE m == <<n>>
  <2>5. m \in Seq(Number) /\ ToSet(m) = {n} /\ y = t \o m
    BY <1>2, <2>1
  <2> HIDE DEF s, t, x, y, m
  <2>3. ToSet(y) = ToSet(t) \cup {n}
    BY <1>1, <2>5, ToSetConcat
  <2>4. QED
    BY <2>1, <2>2, <2>3
<1>6. CASE \E n \in Number : x = s \o <<n>> /\ t = <<n>> \o y /\ wrote'[a] = wrote[a]
  <2>1. PICK n \in Number : x = s \o <<n>> /\ t = <<n>> \o y /\ wrote'[a] = wrote[a]
    BY <1>6
  <2>2. wrote[a] + 1 .. wrote'[a] = {}
    BY <1>1, <2>1
  <2> DEFINE m == <<n>>
  <2>5. m \in Seq(Number) /\ ToSet(m) = {n} /\ x = s \o m /\ t = m \o y
    BY <1>2, <2>1
  <2> HIDE DEF s, t, x, y, m
  <2>3. ToSet(x) = ToSet(s) \cup {n} /\ ToSet(t) = {n} \cup ToSet(y)
    BY <1>1, <2>5, ToSetConcat
  <2>4. QED
    BY <2>2, <2>3
<1>7. CASE use_params /\ x = s
  BY <1>7
<1>8. QED
  BY <1>4, <1>5, <1>6, <1>7 DEF LineGoes

(* NothingIsLost, when a connection closes only after the pipe has read    *)
(* what it wrote: a message that comes down one connection goes up every   *)
(* other that the pipe has accepted, however the streams are cut and       *)
(* whichever of them are paused, and what has been passed on is never lost *)
(* again, also through a queue with delays.                                *)
THEOREM LocalPipeDelivers ==
    ASSUME Graceful
    PROVE  Spec => NothingIsLost
<1> DEFINE Inv  == Base /\ FramesKept /\ LinesRise
           Step == \A b \in Clients : pipe_end[b] = "open" /\ state'[b] # "closed" /\ caller' # "done" =>
                      \A a \in Senders \ {b} : LosesNothing(a, b)
<1>1. Spec => []Inv
  BY AlwaysLines
<1>2. Inv /\ Inv' /\ [Next]_vars => Step
  <2>1. SUFFICES ASSUME Inv, Inv', [Next]_vars, NEW b \in Clients, NEW a \in Senders \ {b},
                        pipe_end[b] = "open", state'[b] # "closed", caller' # "done"
                 PROVE  LosesNothing(a, b)
    OBVIOUS
  <2>2. a \in Clients \ {b}
    BY ConnectorAssumption
  <2>3. LinesGo
    BY <2>1, LinesStep
  <2>4. LineGoes(a, b)
    BY <2>1, <2>2, <2>3 DEF LinesGo
  <2>5. Typed /\ Typed' /\ OneSlotEach /\ OneSlotEach'
    BY <2>1 DEF Base, SlotsAreUsed
  <2>6. LinesTyped /\ LinesTyped'
    BY <2>5, LineTypes, NextLineTypes
  <2>7. /\ Passed(a, b) = ToSet(Sent(a, b)) /\ Untaken(a) = ToSet(Coming(a))
        /\ Passed(a, b)' = ToSet(Sent(a, b)') /\ Untaken(a)' = ToSet(Coming(a)')
    BY <2>2, <2>5, LineSets, NextLineSets
  <2>8. QED
    BY <2>2, <2>4, <2>6, <2>7, LineLosesNothing
<1>3. NothingIsLost <=> [][Step]_vars
  BY DEF NothingIsLost, LosesNothing
<1>4. QED
  BY <1>1, <1>2, <1>3, PTL DEF Spec

-----------------------------------------------------------------------------
(* What the process aborts of *)

(* While nobody starts the pipe again, killme is set only by a stop, and   *)
(* the thread runs from the return of Start to Stop.                       *)
StopsAreAsked ==
    /\ router = "leaving" => killme
    /\ killme => caller \in {"stopping", "asleep_stop", "stopped", "done"}
    /\ caller = "started" => startup_running

LEMMA StopsStep ==
    ASSUME ~ MayRestart, ThreadIsKnown, StopsAreAsked, AtThread
    PROVE  StopsAreAsked'
<1>1. Signal = (IF caller = "asleep_start" THEN "starting"
                ELSE IF caller = "asleep_stop" THEN "stopping" ELSE caller)
  BY DEF Signal, Signalled
<1>2. CASE KeepAlive
  <2>1. killme' = killme
    BY <1>2 DEF KeepAlive
  <2>2. CASE startup_running' = TRUE /\ caller' = Signal /\ router' = router
    BY <1>1, <2>1, <2>2 DEF StopsAreAsked
  <2>3. CASE killme /\ router' = "leaving" /\ startup_running' = startup_running /\ caller' = caller
    BY <2>1, <2>3 DEF StopsAreAsked
  <2>4. QED
    BY <1>2, <2>2, <2>3 DEF KeepAlive
<1>3. CASE RunEnds
  <2>1. router = "leaving" /\ router' = "none" /\ killme' = killme /\ caller' = Signal
    BY <1>3 DEF RunEnds
  <2>2. killme /\ caller \in {"stopping", "asleep_stop", "stopped", "done"}
    BY <2>1 DEF StopsAreAsked
  <2>3. QED
    BY <1>1, <2>1, <2>2 DEF StopsAreAsked
<1>4. CASE StartWaits
  <2>1. /\ caller = "starting" /\ caller' = (IF startup_running THEN "started" ELSE "asleep_start")
        /\ UNCHANGED <<router, startup_running, killme>>
    BY <1>4 DEF StartWaits
  <2>2. QED
    BY <2>1 DEF StopsAreAsked
<1>5. CASE StopWaits
  <2>1. /\ caller = "stopping" /\ caller' = (IF startup_running THEN "asleep_stop" ELSE "stopped")
        /\ UNCHANGED <<router, startup_running, killme>>
    BY <1>5 DEF StopWaits
  <2>2. QED
    BY <2>1 DEF StopsAreAsked
<1>6. CASE Params
  <2>1. UNCHANGED <<router, startup_running, killme, caller>>
    BY <1>6 DEF Params, threadVars
  <2>2. QED
    BY <2>1 DEF StopsAreAsked
<1>7. CASE Start
  <2>1. caller = "created" /\ caller' = "starting" /\ router' = "running" /\ killme' = killme
    BY <1>7 DEF Start
  <2>2. QED
    BY <2>1 DEF StopsAreAsked
<1>8. CASE Stop
  <2>1. /\ router' = router /\ startup_running' = startup_running
        /\ \/ killme' = TRUE /\ caller' = "stopping"
           \/ killme' = killme /\ caller' = caller
    BY <1>8 DEF Stop
  <2>2. QED
    BY <2>1 DEF StopsAreAsked
<1>9. QED
  BY <1>2, <1>3, <1>4, <1>5, <1>6, <1>7, <1>8, Zenon DEF AtThread

LEMMA StopsKept ==
    ASSUME ~ MayRestart, Typed, ThreadIsKnown, StopsAreAsked, [Next]_vars
    PROVE  StopsAreAsked'
<1>1. ASSUME UNCHANGED threadVars PROVE StopsAreAsked'
  BY <1>1 DEF StopsAreAsked, threadVars
<1>2. ASSUME NEW c \in Clients, (AtClient(c) /\ Idle) \/ Listener(c) PROVE StopsAreAsked'
  BY <1>1, <1>2, ListenerEffect DEF Idle, pipeVars
<1>3. ASSUME NEW i \in Slots, AtSlot(i) PROVE StopsAreAsked'
  <2>1. UNCHANGED threadVars
    BY <1>3, Zenon DEF AtSlot, ConnError, ConnRead, SingleRead, Timer
  <2>2. QED
    BY <1>1, <2>1
<1>4. CASE Tick
  BY <1>1, <1>4, TickEffect
<1>5. CASE Destroy
  <2>1. /\ caller' = "done" /\ UNCHANGED <<router, startup_running, killme>>
    BY <1>5, DestroyEffect
  <2>2. QED
    BY <2>1 DEF StopsAreAsked
<1>6. CASE UNCHANGED vars
  BY <1>1, <1>6 DEF vars, pipeVars
<1>7. QED
  BY <1>2, <1>3, <1>4, <1>5, <1>6, StopsStep, Steps, Zenon

(* The clients whose sockets are open are as many as the slots in use.     *)
LEMMA OpenAreCounted ==
    ASSUME Typed, SlotsAreUsed
    PROVE  Cardinality({c \in Clients : pipe_end[c] = "open"}) = conn_count
<1> DEFINE C == {c \in Clients : pipe_end[c] = "open"}
           f == [i \in InUse |-> conns[i].client_fd]
<1>1. \A i \in InUse : i \in Slots /\ conns[i].client_fd \in Clients /\ conns[i].client_fd # None
  BY SlotFields DEF InUse, Typed, PipeTyped
<1>2. \A i \in InUse : pipe_end[conns[i].client_fd] = "open"
  BY <1>1 DEF SlotsAreUsed, OpenHasSlot
<1>3. f \in [InUse -> C]
  BY <1>1, <1>2
<1>4. \A i, j \in InUse : f[i] = f[j] => i = j
  BY <1>1 DEF SlotsAreUsed, OneSlotEach
<1>5. \A c \in C : \E i \in InUse : f[i] = c
  <2>1. SUFFICES ASSUME NEW c \in C PROVE \E i \in InUse : f[i] = c
    OBVIOUS
  <2>2. PICK i \in Slots : conns[i].client_fd = c
    BY DEF SlotsAreUsed, OpenHasSlot
  <2>3. i \in InUse
    BY <2>2, Constants DEF InUse
  <2>4. QED
    BY <2>2, <2>3
<1> HIDE DEF f, C
<1>6. f \in Bijection(InUse, C)
  <2>1. IsInjective(f)
    BY <1>3, <1>4 DEF IsInjective
  <2>2. f \in Injection(InUse, C)
    BY <1>3, <2>1 DEF Injection
  <2>3. f \in Surjection(InUse, C)
    BY <1>3, <1>5 DEF Surjection
  <2>4. QED
    BY <2>2, <2>3 DEF Bijection
<1>7. ExistsBijection(InUse, C)
  BY <1>6 DEF ExistsBijection
<1>8. Cardinality(C) = Cardinality(InUse)
  BY <1>7, InUseFinite, FS_Bijection
<1>9. QED
  BY <1>8 DEF SlotsAreUsed, C

(* single_read found the header of a message that it does not take. *)
TooLong(i) ==
    /\ reading = i /\ conns[i].input # <<>>
    /\ conns[i].input[1][3] = 1 /\ Body[conns[i].input[1][2]] >= MsgLimit

(* A message that is taken has the length that its header says, and what   *)
(* is refused is the header of a message that is too long.                 *)
LEMMA ReadsAbort ==
    ASSUME Typed, ThreadIsKnown, SlotsFull, NEW i \in Slots, SingleRead(i)
    PROVE  trap' = None \/ (trap' = "single_read" /\ TooLong(i)')
<1>1. trap = None /\ reading = i
  BY SingleReadEffect
<1>2. PICK length : ReadsAs(i, length)
  BY SingleReadEffect
<1>3. conns[i].client_fd \in Clients /\ SlotFrames(i) /\ Finds(conns[i], length)
  BY <1>1, <1>2, ReadersAreConnected DEF SlotsFull, ReadsAs
<1> DEFINE s == conns[i].input
           p == Prefix(s, HeaderSize + length)
<1>4. s \in Seq(Units) /\ Len(s) \in Nat
  BY SlotFields, ElementsOf DEF Typed, PipeTyped
<1>5. CASE Refuses(i, length)
  <2>1. conns[i].msg_length = 0 /\ Len(s) >= HeaderSize /\ length \notin 1 .. MsgLimit - 1
    BY <1>5 DEF Refuses, Refused
  <2>2. s # <<>> /\ Len(s) > 0
    BY <1>4, <2>1, Constants, EmptySeq
  <2>3. Stream(s) /\ length = Body[s[1][2]] /\ length > 0
    BY <1>3, <1>4, <2>1, Constants, FoundLength
  <2>4. s[1][3] = 1
    BY <2>2, <2>3 DEF Stream, BeginsMessage
  <2>5. length \in Nat /\ MsgLimit \in Nat
    BY <1>2, Numbered, PipeAssumption DEF ReadsAs
  <2>7. length >= MsgLimit
    BY <2>1, <2>3, <2>5
  <2>6. QED
    BY <1>1, <1>5, <2>2, <2>3, <2>4, <2>7 DEF Refuses, TooLong
<1>6. CASE Awaits(i, length)
  BY <1>1, <1>6 DEF Awaits
<1>7. CASE Takes(i, length) /\ (IF use_params THEN Delays_(i, p) ELSE Reflects(i, p))
  <2>1. CASE use_params
    BY <1>1, <1>7, <2>1 DEF Delays_
  <2>2. CASE ~ use_params
    <3>1. PICK m \in Message : TakesMessage(i, length, m)
      BY <1>3, <1>7, TakenMessage
    <3>2. p = MessageUnits(m[1], m[2]) /\ m[1] \in Clients /\ m[2] \in Number
      BY <3>1 DEF TakesMessage, Message
    <3>3. HeaderLengths(p) = {Body[m[2]]} /\ Len(p) = HeaderSize + Body[m[2]]
      <4>1. Body[m[2]] \in Nat /\ HeaderSize \in Nat \ {0}
        BY <3>2, Constants
      <4>2. Len(p) = HeaderSize + Body[m[2]] /\ p[1] = <<m[1], m[2], 1>>
        BY <3>2, <4>1 DEF MessageUnits
      <4>3. QED
        BY <4>2 DEF HeaderLengths
    <3>4. PICK l \in HeaderLengths(p) :
             trap' = IF Others(i) # {} /\ l + HeaderSize # Len(p) THEN "reflect" ELSE None
      BY <1>7, <2>2 DEF Reflects
    <3>5. l = Body[m[2]] /\ l \in Nat /\ HeaderSize \in Nat
      BY <3>2, <3>3, <3>4, Constants
    <3>6. QED
      BY <3>3, <3>4, <3>5
  <2>3. QED
    BY <2>1, <2>2
<1>8. QED
  BY <1>2, <1>5, <1>6, <1>7 DEF ReadsAs

(* After an abort nothing happens.                                         *)
LEMMA AbortIsLast ==
    ASSUME [Next]_vars, trap # None
    PROVE  UNCHANGED vars
<1>1. ASSUME NEW c \in Clients PROVE ~ AtClient(c) /\ ~ Listener(c)
  BY Zenon DEF AtClient, Opener, OpenerFails, UpcallConnected, UpcallError, Arrive, UpcallRead,
               DowncallRead, Pause, Closer, Calm, Listener, PipeCalm
<1>2. ASSUME NEW i \in Slots PROVE ~ AtSlot(i)
  BY Zenon DEF AtSlot, ConnError, ConnRead, SingleRead, Timer, PipeCalm
<1>3. ~ AtThread /\ ~ Tick /\ ~ Destroy
  BY Zenon DEF AtThread, KeepAlive, RunEnds, StartWaits, StopWaits, Params, Start, Stop, Tick, Destroy, PipeCalm
<1>4. QED
  BY <1>1, <1>2, <1>3, Steps, Zenon

LEMMA AbortStep ==
    ASSUME Base, SlotsFull, MayRestart \/ StopsAreAsked, [Next]_vars, AbortsHaveCauses
    PROVE  AbortsHaveCauses'
<1>1. Typed /\ ThreadIsKnown /\ SlotsAreUsed
  BY DEF Base
<1>2. CASE UNCHANGED vars
  BY <1>2 DEF vars, sockets, pipeVars, slotVars, threadVars, AbortsHaveCauses
<1>3. ASSUME trap' = None PROVE AbortsHaveCauses'
  BY <1>3 DEF AbortsHaveCauses
<1>4. ASSUME trap = None, Connector PROVE AbortsHaveCauses'
  <2>1. PICK c \in Clients : \/ Listening /\ Opener(c)
                             \/ ~ Listening /\ OpenerFails(c)
                             \/ ConnectorCallback(c)
                             \/ FromAbove(c)
    BY <1>4 DEF Connector
  <2>2. CASE ~ Listening /\ OpenerFails(c)
    <3>1. trap' = "connector_Fwd_Local_Opener" /\ caller = "done" /\ caller' = caller
      BY <1>4, <2>2 DEF OpenerFails, Listening, Connector, pipeVars, threadVars
    <3>2. QED
      BY <3>1 DEF AbortsHaveCauses
  <2>3. CASE Opener(c) \/ ConnectorCallback(c) \/ FromAbove(c)
    <3>1. trap' = trap
      BY <2>3, Zenon DEF Opener, ConnectorCallback, FromAbove, UpcallConnected, UpcallError, Arrive,
                         UpcallRead, DowncallRead, Pause, Closer
    <3>2. QED
      BY <1>3, <1>4, <3>1
  <2>4. QED
    BY <2>1, <2>2, <2>3
<1>5. ASSUME trap = None, NEW c \in Clients, Listener(c) PROVE AbortsHaveCauses'
  <2>1. CASE trap' = trap
    BY <1>3, <1>5, <2>1
  <2>2. CASE trap' # trap
    <3>1. /\ pipe_end' = pipe_end /\ pipe_end[c] = "backlog"
          /\ \/ trap' = "listener_cb" /\ conn_count = MaxConn
             \/ conn_count # MaxConn /\ InUse = Slots
      BY <1>1, <1>5, <2>2, ListenerEffect
    <3>4. Cardinality(Slots) = MaxConn
      BY FS_Interval, Constants DEF Slots
    <3>5. trap' = "listener_cb" /\ conn_count = MaxConn
      BY <1>1, <3>1, <3>4 DEF SlotsAreUsed
    <3>2. Cardinality({d \in Clients : pipe_end[d] = "open"}) = MaxConn
      BY <1>1, <3>1, <3>5, OpenAreCounted
    <3>3. QED
      BY <3>1, <3>2, <3>5 DEF AbortsHaveCauses
  <2>3. QED
    BY <2>1, <2>2
<1>6. ASSUME trap = None, NEW i \in Slots, AtSlot(i) PROVE AbortsHaveCauses'
  <2>1. CASE ConnError(i)
    <3>1. PICK events \in Reports :
             trap' = IF events = {"EOF", "Error"} THEN "deallocate_connection" ELSE None
      BY <2>1 DEF ConnError
    <3>2. QED
      BY <1>3, <3>1 DEF AbortsHaveCauses
  <2>2. CASE SingleRead(i)
    <3>1. CASE trap' = None
      BY <1>3, <3>1
    <3>2. CASE trap' = "single_read" /\ TooLong(i)'
      BY <3>2 DEF TooLong, AbortsHaveCauses
    <3>3. QED
      BY <1>1, <2>2, <3>1, <3>2, ReadsAbort
  <2>3. CASE ConnRead(i) \/ Timer(i)
    BY <1>1, <1>3, <1>6, <2>3, ConnReadEffect, TimerEffect
  <2>4. QED
    BY <1>6, <2>1, <2>2, <2>3 DEF AtSlot
<1>7. ASSUME trap = None, AtThread PROVE AbortsHaveCauses'
  <2>1. CASE Stop
    <3>1. caller = "started" /\ (trap' = trap \/ (trap' = "bentpipe_Stop" /\ ~ startup_running))
      BY <2>1, Zenon DEF Stop
    <3>2. trap' = trap \/ (trap' = "bentpipe_Stop" /\ MayRestart)
      BY <3>1 DEF StopsAreAsked
    <3>3. QED
      BY <1>3, <1>7, <3>2 DEF AbortsHaveCauses
  <2>2. CASE KeepAlive \/ RunEnds \/ StartWaits \/ StopWaits \/ Params \/ Start
    <3>1. trap' = trap
      BY <2>2, Zenon DEF KeepAlive, RunEnds, StartWaits, StopWaits, Params, Start
    <3>2. QED
      BY <1>3, <1>7, <3>1
  <2>3. QED
    BY <1>7, <2>1, <2>2, Zenon DEF AtThread
<1>8. ASSUME trap = None, Tick \/ Destroy PROVE AbortsHaveCauses'
  BY <1>1, <1>3, <1>8, TickEffect, DestroyEffect
<1>9. CASE trap = None /\ Next
  <2>1. CASE Connector
    BY <1>4, <1>9, <2>1
  <2>2. CASE Pipe
    <3>1. \/ \E c \in Clients : Listener(c)
          \/ \E i \in Slots : AtSlot(i)
          \/ AtThread \/ Tick \/ Destroy
      BY <2>2, Zenon DEF Pipe, PipeNext, PipeCallback, CallerStep, AtSlot, AtThread
    <3>2. QED
      BY <1>5, <1>6, <1>7, <1>8, <1>9, <3>1, Zenon
  <2>3. QED
    BY <1>9, <2>1, <2>2 DEF Next
<1>10. QED
  BY <1>2, <1>9, AbortIsLast, Zenon

(* AbortsHaveCauses, when a connection closes only after the pipe has read *)
(* what it wrote: no cut of a stream, delay, loss or reuse of a slot makes *)
(* single_read or reflect find a length that is not that of the message it *)
(* is about, for all sizes of header and bodies, so the assertions on it   *)
(* fail only for a message of MsgLimit bytes or more.  The slots run out   *)
(* only when each serves a client and one more has come, and Stop finds no *)
(* thread only after a second Start.                                       *)
THEOREM LocalPipeAborts ==
    ASSUME Graceful
    PROVE  Spec => []AbortsHaveCauses
<1>1. Spec => [](Base /\ FramesKept)
  BY AlwaysFrames
<1>2. Spec => [](MayRestart \/ StopsAreAsked)
  <2>1. CASE MayRestart
    BY <2>1, PTL
  <2>2. CASE ~ MayRestart
    <3>1. Init => StopsAreAsked
      BY DEF Init, PipeInit, StopsAreAsked
    <3>2. Base /\ StopsAreAsked /\ [Next]_vars => StopsAreAsked'
      BY <2>2, StopsKept DEF Base
    <3>3. QED
      BY <3>1, <3>2, AlwaysBase, PTL DEF Spec
  <2>3. QED
    BY <2>1, <2>2
<1>3. Init => AbortsHaveCauses
  BY DEF Init, SocketInit, AbortsHaveCauses
<1>4. Base /\ FramesKept /\ (MayRestart \/ StopsAreAsked) /\ AbortsHaveCauses /\ [Next]_vars => AbortsHaveCauses'
  BY AbortStep DEF FramesKept
<1>5. QED
  BY <1>1, <1>2, <1>3, <1>4, PTL DEF Spec
=============================================================================
