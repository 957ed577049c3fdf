--------------------------- MODULE LlmStreamProofs ---------------------------
(***************************************************************************)
(* Theorems about LlmStream, for every sequence of lines, however the      *)
(* gateway cuts them into reads and the tags into atoms.                   *)
(*                                                                         *)
(* 1. Recursive functions on sequences: they exist, and what a selection   *)
(*    or a flattening gives of two sequences in a row.                     *)
(* 2. The loop of splitByThinkTags over one delta: a split ends on the     *)
(*    side where the text ends, says of each kind what the reference shows *)
(*    of that side, and drops nothing but tags.                            *)
(* 3. The reference of a text that has grown by one delta.                 *)
(* 4. The invariant of the generator: what it has yielded, its half tags   *)
(*    aside, is what it was sent, and as long as no delta ended within a   *)
(*    tag it lies on the side of the reference.                            *)
(* 5. The reply that is saved: what the chunks are joined to, trimmed, is  *)
(*    the content that the reference shows, trimmed.                       *)
(***************************************************************************)
EXTENDS LlmStream, SequenceTheorems, WellFoundedInduction, TLAPS

\* What stands in for an induction.
LEMMA LeastNat ==
  ASSUME NEW S \in SUBSET Nat, S # {}
  PROVE  \E i \in S : \A k \in S : i <= k
<1>1. PICK i \in S : \A k \in S : ~(<<k, i>> \in OpToRel(<, Nat))
  BY NatLessThanWellFounded, WFMin
<1>2. \A k \in S : ~(k < i)
  BY <1>1 DEF OpToRel
<1> QED BY <1>2

\* f goes from base by the steps g.
Goes(f, n, base, g) == f[0] = base /\ \A i \in 1..n : f[i] = g[<<i, f[i - 1]>>]

LEMMA RecExists ==
  ASSUME NEW n \in Nat, NEW T, NEW base \in T, NEW g \in [(1..n) \X T -> T]
  PROVE  \E f \in [0..n -> T] : Goes(f, n, base, g)
<1> DEFINE Upto(k) == \E f \in [0..k -> T] : Goes(f, k, base, g)
           Bad == {k \in 0..n : ~Upto(k)}
<1> SUFFICES ASSUME Bad # {} PROVE FALSE
  <2>1. n \in 0..n
    OBVIOUS
  <2> QED
    BY <2>1
<1>1. PICK i \in Bad : \A k \in Bad : i <= k
  <2>1. Bad \in SUBSET Nat
    OBVIOUS
  <2> QED
    BY <2>1, LeastNat
<1>2. i # 0
  <2> DEFINE f == [k \in 0..0 |-> base]
  <2>1. f \in [0..0 -> T] /\ f[0] = base /\ 1..0 = {}
    OBVIOUS
  <2> HIDE DEF f
  <2>2. Upto(0)
    BY <2>1 DEF Goes
  <2> QED
    BY <1>1, <2>2
<1>3. i \in Nat /\ i - 1 \in 0..n /\ i \in 1..n /\ ~(i <= i - 1)
  BY <1>1, <1>2
<1>4. i - 1 \notin Bad
  <2> HIDE DEF Bad
  <2> QED
    BY <1>1, <1>3
<1>5. PICK h \in [0..(i - 1) -> T] : Goes(h, i - 1, base, g)
  BY <1>3, <1>4
<1> HIDE DEF Bad
<1> DEFINE f == [k \in 0..i |-> IF k = i THEN g[<<i, h[i - 1]>>] ELSE h[k]]
<1>6. g[<<i, h[i - 1]>>] \in T
  BY <1>3
<1>7. f \in [0..i -> T]
  BY <1>3, <1>6
<1>8. ASSUME NEW k \in 0..(i - 1) PROVE f[k] = h[k]
  <2>1. k \in 0..i /\ k # i
    BY <1>3
  <2> QED
    BY <2>1
<1>9. f[i] = g[<<i, f[i - 1]>>]
  BY <1>3, <1>8
<1> HIDE DEF f
<1>10. ASSUME NEW k \in 1..i PROVE f[k] = g[<<k, f[k - 1]>>]
  <2>1. CASE k = i
    BY <1>9, <2>1
  <2>2. CASE k # i
    <3>1. k \in 1..(i - 1) /\ k \in 0..(i - 1) /\ k - 1 \in 0..(i - 1)
      BY <1>3, <2>2
    <3> QED
      BY <1>5, <1>8, <3>1 DEF Goes
  <2> QED
    BY <2>1, <2>2
<1>11. f[0] = base
  BY <1>3, <1>5, <1>8 DEF Goes
<1>12. Upto(i)
  BY <1>7, <1>10, <1>11 DEF Goes
<1> QED
  BY <1>1, <1>12 DEF Bad

\* What holds at 0 and from each number to the next, up to n, holds up to n.
LEMMA UpTo ==
  ASSUME NEW n \in Nat, NEW P, 0 \in P, \A k \in 1..n : k - 1 \in P => k \in P
  PROVE  \A k \in 0..n : k \in P
<1> DEFINE Bad == {k \in 0..n : k \notin P}
<1> SUFFICES ASSUME Bad # {} PROVE FALSE
  OBVIOUS
<1>1. PICK i \in Bad : \A k \in Bad : i <= k
  <2>1. Bad \in SUBSET Nat
    OBVIOUS
  <2> QED
    BY <2>1, LeastNat
<1>2. i # 0
  BY <1>1
<1>3. i \in 1..n /\ i - 1 \in 0..n /\ ~(i <= i - 1)
  BY <1>2
<1>4. i - 1 \in P
  BY <1>1, <1>3
<1> QED
  BY <1>1, <1>3, <1>4

\* f[k] is the first k of some sequences one after the other.
Flat(f, seqs) == f[0] = <<>> /\ \A i \in 1..Len(seqs) : f[i] = f[i - 1] \o seqs[i]

LEMMA FlatExists ==
  ASSUME NEW X, NEW seqs \in Seq(Seq(X))
  PROVE  \E f \in [0..Len(seqs) -> Seq(X)] : Flat(f, seqs)
<1> DEFINE n == Len(seqs)
           T == Seq(X)
           g == [at \in (1..n) \X T |-> at[2] \o seqs[at[1]]]
<1>1. n \in Nat /\ <<>> \in T /\ \A i \in 1..n : seqs[i] \in T
  OBVIOUS
<1>2. \A t, u \in T : t \o u \in T
  OBVIOUS
<1> HIDE DEF T
<1>3. g \in [(1..n) \X T -> T]
  BY <1>1, <1>2
<1>4. \A i \in 1..n, t \in T : g[<<i, t>>] = t \o seqs[i]
  OBVIOUS
<1> HIDE DEF g
<1> HIDE DEF n
<1>5. PICK f \in [0..n -> T] : Goes(f, n, <<>>, g)
  BY <1>1, <1>3, RecExists
<1>6. \A i \in 1..n : i - 1 \in 0..n
  BY <1>1
<1>7. \A i \in 1..n : f[i] = f[i - 1] \o seqs[i]
  BY <1>4, <1>5, <1>6 DEF Goes
<1>8. Flat(f, seqs)
  BY <1>5, <1>7 DEF Goes, Flat, n
<1> QED
  BY <1>8 DEF T, n

\* Two of them agree as far as their sequences do.
Agree(s, t, n) == \A i \in 1..n : i \in 1..Len(s) /\ i \in 1..Len(t) /\ s[i] = t[i]

LEMMA FlatAgree ==
  ASSUME NEW f, NEW h, NEW s, NEW t, NEW n \in Nat, Flat(f, s), Flat(h, t), Agree(s, t, n)
  PROVE  f[n] = h[n]
<1> DEFINE P == {i \in 0..n : f[i] = h[i]}
<1>1. 0 \in P
  BY DEF Flat
<1>2. ASSUME NEW k \in 1..n, k - 1 \in P PROVE k \in P
  <2>1. f[k - 1] = h[k - 1] /\ k \in 0..n
    BY <1>2
  <2>2. f[k] = f[k - 1] \o s[k] /\ h[k] = h[k - 1] \o t[k] /\ s[k] = t[k]
    BY DEF Flat, Agree
  <2> QED
    BY <2>1, <2>2
<1> HIDE DEF P
<1>3. \A k \in 0..n : k \in P
  BY <1>1, <1>2, UpTo
<1> QED
  BY <1>3 DEF P

LEMMA FlatIs ==
  ASSUME NEW X, NEW seqs \in Seq(Seq(X)), NEW f \in [0..Len(seqs) -> Seq(X)], Flat(f, seqs)
  PROVE  FlattenSeq(seqs) = f[Len(seqs)]
<1> DEFINE n == Len(seqs)
           Goal(fl) == fl = [i \in 1..n |-> IF i = 1 THEN seqs[i] ELSE fl[i - 1] \o seqs[i]]
<1>1. n \in Nat /\ \A i \in 1..n : seqs[i] \in Seq(X)
  OBVIOUS
<1>2. CASE n = 0
  <2>1. seqs = <<>>
    BY <1>2
  <2> QED
    BY <1>2, <2>1 DEF FlattenSeq, Flat
<1>3. CASE n # 0
  <2> DEFINE fl0 == [i \in 1..n |-> f[i]]
  <2>0. n \in 1..n
    BY <1>1, <1>3
  <2>1. f[1] = seqs[1]
    <3>1. 1 \in 1..n /\ 1 - 1 = 0
      BY <1>1, <1>3
    <3>2. f[1] = <<>> \o seqs[1] /\ seqs[1] \in Seq(X)
      BY <1>1, <3>1 DEF Flat
    <3> HIDE DEF n
    <3> QED
      BY <3>2
  <2>2. \A i \in 1..n : i # 1 => i - 1 \in 1..n /\ f[i] = f[i - 1] \o seqs[i]
    <3>1. \A i \in 1..n : i # 1 => i - 1 \in 1..n
      BY <1>1
    <3>2. \A i \in 1..n : f[i] = f[i - 1] \o seqs[i]
      BY DEF Flat
    <3> HIDE DEF n
    <3> QED
      BY <3>1, <3>2
  <2> HIDE DEF n
  <2>3. \A i \in 1..n : f[i] = IF i = 1 THEN seqs[i] ELSE fl0[i - 1] \o seqs[i]
    BY <2>1, <2>2
  <2>4. Goal(fl0)
    BY <2>3
  <2> DEFINE fl == CHOOSE h : Goal(h)
  <2>5. Goal(fl)
    <3> HIDE DEF Goal, fl0
    <3> QED
      BY <2>4
  <2> HIDE DEF fl0
  <2>6. FlattenSeq(seqs) = fl[n]
    BY <1>3 DEF FlattenSeq, n
  <2> HIDE DEF fl
  <2>7. \A i \in 1..n : fl[i] = IF i = 1 THEN seqs[i] ELSE fl[i - 1] \o seqs[i]
    BY <2>5
  <2> HIDE DEF Goal
  <2> DEFINE P == {i \in 0..n : i = 0 \/ fl[i] = f[i]}
  <2>8. 0 \in P
    BY <1>1
  <2>9. ASSUME NEW k \in 1..n, k - 1 \in P PROVE k \in P
    <3>1. k \in 0..n
      BY <1>1
    <3>2. CASE k = 1
      BY <2>1, <2>7, <3>1, <3>2
    <3>3. CASE k # 1
      <4>1. k - 1 # 0 /\ fl[k - 1] = f[k - 1]
        BY <2>9, <3>3
      <4> QED
        BY <2>2, <2>7, <3>1, <3>3, <4>1, ZenonT(30)
    <3> QED
      BY <3>2, <3>3
  <2> HIDE DEF P
  <2>10. \A k \in 0..n : k \in P
    BY <1>1, <2>8, <2>9, UpTo
  <2>11. n \in 0..n
    BY <1>1
  <2>12. fl[n] = f[n]
    BY <1>3, <2>10, <2>11 DEF P
  <2> QED
    BY <2>6, <2>12 DEF n
<1> QED
  BY <1>2, <1>3

\* FlattenSeq from left to right.
LEMMA FlattenFacts ==
  ASSUME NEW X, NEW seqs \in Seq(Seq(X)), NEW t \in Seq(X)
  PROVE  /\ FlattenSeq(<<>>) = <<>>
         /\ FlattenSeq(seqs) \in Seq(X)
         /\ FlattenSeq(Append(seqs, t)) = FlattenSeq(seqs) \o t
<1>1. FlattenSeq(<<>>) = <<>>
  BY DEF FlattenSeq
<1> DEFINE n == Len(seqs)
           more == Append(seqs, t)
<1>2. /\ n \in Nat /\ more \in Seq(Seq(X)) /\ Len(more) = n + 1 /\ more[n + 1] = t
      /\ \A i \in 1..n : more[i] = seqs[i]
  <2> DEFINE Y == Seq(X)
  <2>1. seqs \in Seq(Y) /\ t \in Y
    OBVIOUS
  <2> HIDE DEF Y
  <2>2. /\ n \in Nat /\ more \in Seq(Y) /\ Len(more) = n + 1 /\ more[n + 1] = t
        /\ \A i \in 1..n : more[i] = seqs[i]
    BY <2>1
  <2> QED
    BY <2>2 DEF Y
<1> HIDE DEF more
<1>3. PICK f \in [0..n -> Seq(X)] : Flat(f, seqs)
  BY FlatExists
<1>4. PICK h \in [0..(n + 1) -> Seq(X)] : Flat(h, more)
  BY <1>2, FlatExists
<1>5. FlattenSeq(seqs) = f[n]
  BY <1>3, FlatIs
<1>6. FlattenSeq(more) = h[n + 1]
  BY <1>2, <1>4, FlatIs
<1>7. Agree(seqs, more, n)
  BY <1>2 DEF Agree
<1>8. f[n] = h[n]
  <2>1. n \in Nat /\ Flat(f, seqs) /\ Flat(h, more)
    BY <1>2, <1>3, <1>4
  <2> HIDE DEF n
  <2> QED
    BY <1>7, <2>1, FlatAgree
<1>9. h[n + 1] = h[n] \o t
  <2>1. n + 1 \in 1..(n + 1) /\ (n + 1) - 1 = n
    BY <1>2
  <2> HIDE DEF n
  <2> QED
    BY <1>2, <1>4, <2>1 DEF Flat
<1>10. f[n] \in Seq(X)
  <2>1. n \in 0..n
    BY <1>2
  <2> HIDE DEF n
  <2> QED
    BY <1>3, <2>1, Zenon
<1> HIDE DEF n
<1>11. FlattenSeq(more) = FlattenSeq(seqs) \o t
  BY <1>5, <1>6, <1>8, <1>9, Zenon
<1> QED
  BY <1>1, <1>5, <1>10, <1>11, Zenon DEF more

\* A sequence without its last elements grows by one.
LEMMA PrefixGrows ==
  ASSUME NEW X, NEW s \in Seq(X)
  PROVE  /\ SubSeq(s, 1, 0) = <<>> /\ SubSeq(s, 1, Len(s)) = s
         /\ \A k \in 1..Len(s) : /\ SubSeq(s, 1, k - 1) \in Seq(X) /\ Len(SubSeq(s, 1, k - 1)) = k - 1
                                 /\ s[k] \in X
                                 /\ SubSeq(s, 1, k) = Append(SubSeq(s, 1, k - 1), s[k])
<1>1. SubSeq(s, 1, 0) = <<>>
  BY SubSeqEmpty
<1>2. SubSeq(s, 1, Len(s)) = s
  BY SubSeqFull
<1>3. ASSUME NEW k \in 1..Len(s)
      PROVE  /\ SubSeq(s, 1, k - 1) \in Seq(X) /\ Len(SubSeq(s, 1, k - 1)) = k - 1
             /\ s[k] \in X
             /\ SubSeq(s, 1, k) = Append(SubSeq(s, 1, k - 1), s[k])
  <2>1. Len(s) \in Nat /\ 1 \in 1..Len(s) /\ k \in 1..Len(s) /\ s[k] \in X
    OBVIOUS
  <2>2. SubSeq(s, 1, k) = SubSeq(s, 1, k - 1) \o <<s[k]>>
    BY <2>1, SubSeqRecursiveSecond
  <2>3. \A i \in 1..(k - 1) : s[i] \in X
    OBVIOUS
  <2>4. SubSeq(s, 1, k - 1) \in Seq(X) /\ Len(SubSeq(s, 1, k - 1)) = IF 1 <= k - 1 THEN k - 1 - 1 + 1 ELSE 0
    BY <2>1, <2>3, SubSeqProperties
  <2>5. Append(SubSeq(s, 1, k - 1), s[k]) = SubSeq(s, 1, k - 1) \o <<s[k]>>
    BY <2>1, <2>4, AppendIsConcat
  <2> QED
    BY <2>1, <2>2, <2>4, <2>5
<1> QED
  BY <1>1, <1>2, <1>3

LEMMA Associates ==
  ASSUME NEW X, NEW a \in Seq(X), NEW b \in Seq(X), NEW c \in Seq(X)
  PROVE  a \o (b \o c) = (a \o b) \o c
BY ConcatAssociative, SMTT(30)

LEMMA FlattenCat ==
  ASSUME NEW X, NEW s \in Seq(Seq(X)), NEW t \in Seq(Seq(X))
  PROVE  FlattenSeq(s \o t) = FlattenSeq(s) \o FlattenSeq(t)
<1> DEFINE Y == Seq(X)
           n == Len(t)
           u(k) == SubSeq(t, 1, k)
           P == {k \in 0..n : /\ u(k) \in Seq(Y)
                              /\ FlattenSeq(s \o u(k)) = FlattenSeq(s) \o FlattenSeq(u(k))}
<1>1. s \in Seq(Y) /\ t \in Seq(Y) /\ n \in Nat
  OBVIOUS
<1>2. FlattenSeq(s) \in Y /\ FlattenSeq(<<>>) = <<>> /\ <<>> \in Seq(Y) /\ <<>> \in Y
  BY FlattenFacts
<1>3. ASSUME NEW a \in Y, NEW b \in Y, NEW c \in Y
      PROVE  a \o (b \o c) = (a \o b) \o c /\ a \o b \in Y
  <2>1. a \o (b \o c) = (a \o b) \o c
    BY Associates, SMTT(30)
  <2>2. a \o b \in Y
    BY ConcatProperties
  <2> QED
    BY <2>1, <2>2
<1>4. \A a \in Y : a \o <<>> = a
  BY ConcatEmptySeq
<1>5. ASSUME NEW a \in Seq(Y), NEW b \in Y
      PROVE  FlattenSeq(Append(a, b)) = FlattenSeq(a) \o b /\ FlattenSeq(a) \in Y
  BY FlattenFacts
<1> HIDE DEF Y
<1>6. u(0) = <<>> /\ u(n) = t
  BY <1>1, PrefixGrows
<1>7. \A k \in 1..n : u(k) = Append(u(k - 1), t[k]) /\ t[k] \in Y
  BY <1>1, PrefixGrows
<1> HIDE DEF u
<1>8. s \o <<>> = s
  BY <1>1, ConcatEmptySeq
<1>9. ASSUME NEW a \in Seq(Y), NEW b \in Y
      PROVE  /\ s \o Append(a, b) = Append(s \o a, b)
             /\ s \o a \in Seq(Y) /\ Append(a, b) \in Seq(Y)
  <2>1. /\ s \in Seq(Y) /\ <<b>> \in Seq(Y) /\ s \o a \in Seq(Y) /\ Append(a, b) \in Seq(Y)
    BY <1>1
  <2>2. Append(a, b) = a \o <<b>> /\ Append(s \o a, b) = (s \o a) \o <<b>>
    BY <2>1, AppendIsConcat
  <2> QED
    BY <2>1, <2>2, ConcatAssociative
<1>10. 0 \in P
  <2>1. FlattenSeq(s) \o <<>> = FlattenSeq(s)
    BY <1>2, <1>4
  <2>2. FlattenSeq(s \o <<>>) = FlattenSeq(s) \o FlattenSeq(<<>>)
    BY <1>2, <1>8, <2>1, Zenon
  <2>3. 0 \in 0..n
    BY <1>1
  <2> QED
    BY <1>2, <1>6, <2>2, <2>3
<1>11. ASSUME NEW k \in 1..n, k - 1 \in P PROVE k \in P
  <2>1. k \in 0..n
    BY <1>1
  <2>2. PICK a \in Seq(Y) : a = u(k - 1)
    BY <1>11
  <2>3. PICK b \in Y : b = t[k]
    BY <1>7
  <2>4. FlattenSeq(s \o a) = FlattenSeq(s) \o FlattenSeq(a)
    BY <1>11, <2>2
  <2>5. u(k) = Append(a, b)
    BY <1>7, <2>2, <2>3
  <2>6. FlattenSeq(s \o Append(a, b)) = FlattenSeq(s \o a) \o b
    BY <1>5, <1>9
  <2>7. FlattenSeq(s \o Append(a, b)) = FlattenSeq(s) \o FlattenSeq(Append(a, b))
    <3>1. FlattenSeq(s) \in Y /\ FlattenSeq(a) \in Y /\ FlattenSeq(Append(a, b)) = FlattenSeq(a) \o b
      BY <1>2, <1>5
    <3>2. (FlattenSeq(s) \o FlattenSeq(a)) \o b = FlattenSeq(s) \o (FlattenSeq(a) \o b)
      BY <1>3, <3>1, Zenon
    <3> QED
      BY <2>4, <2>6, <3>1, <3>2, Zenon
  <2>8. Append(a, b) \in Seq(Y)
    BY <1>9
  <2> QED
    BY <2>1, <2>5, <2>7, <2>8
<1> HIDE DEF P
<1>12. n \in P
  <2>1. n \in 0..n
    BY <1>1
  <2> QED
    BY <1>1, <1>10, <1>11, <2>1, UpTo
<1> QED
  BY <1>6, <1>12 DEF P

-----------------------------------------------------------------------------
At(text, places) == [i \in 1..Len(text) |-> IF i \in places THEN <<text[i]>> ELSE <<>>]

LEMMA AtFacts ==
  ASSUME NEW X, NEW s \in Seq(X), NEW P
  PROVE  At(s, P) \in Seq(Seq(X)) /\ SelectAt(s, P) = FlattenSeq(At(s, P)) /\ SelectAt(s, P) \in Seq(X)
<1> DEFINE Y == Seq(X)
<1>1. \A x \in X : <<x>> \in Y
  OBVIOUS
<1>2. <<>> \in Y /\ Len(s) \in Nat /\ \A i \in 1..Len(s) : s[i] \in X
  OBVIOUS
<1> HIDE DEF Y
<1>3. At(s, P) \in [1..Len(s) -> Y]
  BY <1>1, <1>2 DEF At
<1>4. At(s, P) \in Seq(Y)
  BY <1>2, <1>3
<1>5. SelectAt(s, P) = FlattenSeq(At(s, P))
  BY DEF SelectAt, At
<1>6. FlattenSeq(At(s, P)) \in Seq(X)
  BY <1>4, FlattenFacts, EmptySeq DEF Y
<1> QED
  BY <1>4, <1>5, <1>6 DEF Y

\* Only the places of the text matter.
LEMMA SelectSame ==
  ASSUME NEW s, NEW P, NEW Q, \A i \in 1..Len(s) : i \in P <=> i \in Q
  PROVE  SelectAt(s, P) = SelectAt(s, Q)
<1>1. At(s, P) = At(s, Q)
  BY DEF At
<1> QED
  BY <1>1 DEF SelectAt, At

Shift(places, d) == {i \in Nat : d + i \in places}

\* What is selected from two texts in a row.
LEMMA SelectCat ==
  ASSUME NEW X, NEW s \in Seq(X), NEW t \in Seq(X), NEW P
  PROVE  SelectAt(s \o t, P)
           = SelectAt(s, P) \o SelectAt(t, Shift(P, Len(s)))
<1> DEFINE Q == Shift(P, Len(s))
           Y == Seq(X)
           a == At(s, P)
           b == At(t, Q)
           c == At(s \o t, P)
<1>1. /\ Len(s) \in Nat /\ Len(t) \in Nat /\ s \o t \in Seq(X) /\ Len(s \o t) = Len(s) + Len(t)
      /\ \A i \in 1..Len(s) + Len(t) : (s \o t)[i] = IF i <= Len(s) THEN s[i] ELSE t[i - Len(s)]
  BY ConcatProperties
<1>2. a \in Seq(Y) /\ b \in Seq(Y) /\ c \in Seq(Y)
  BY <1>1, AtFacts
<1>3. SelectAt(s, P) = FlattenSeq(a) /\ SelectAt(t, Q) = FlattenSeq(b) /\ SelectAt(s \o t, P) = FlattenSeq(c)
  BY <1>1, AtFacts
<1>4. FlattenSeq(a \o b) = FlattenSeq(a) \o FlattenSeq(b)
  BY <1>2, FlattenCat
<1>5. Len(a) = Len(s) /\ Len(b) = Len(t) /\ Len(c) = Len(s) + Len(t)
  BY <1>1 DEF At
<1>6. ASSUME NEW i \in 1..Len(s) + Len(t)
      PROVE  c[i] = IF i <= Len(s) THEN a[i] ELSE b[i - Len(s)]
  <2>1. c[i] = IF i \in P THEN <<(s \o t)[i]>> ELSE <<>>
    BY <1>1 DEF At
  <2>2. CASE i <= Len(s)
    <3>1. i \in 1..Len(s)
      BY <1>1, <2>2
    <3>2. a[i] = IF i \in P THEN <<s[i]>> ELSE <<>>
      BY <3>1 DEF At
    <3> QED
      BY <1>1, <2>1, <2>2, <3>2
  <2>3. CASE ~(i <= Len(s))
    <3>1. i - Len(s) \in 1..Len(t) /\ Len(s) + (i - Len(s)) = i
      BY <1>1, <2>3
    <3>2. i - Len(s) \in Q <=> i \in P
      BY <3>1 DEF Shift
    <3>3. b[i - Len(s)] = IF i - Len(s) \in Q THEN <<t[i - Len(s)]>> ELSE <<>>
      BY <3>1 DEF At
    <3> QED
      BY <1>1, <2>1, <2>3, <3>2, <3>3
  <2> QED
    BY <2>2, <2>3
<1> HIDE DEF a, b, c, Y
<1>7. /\ a \o b \in Seq(Y) /\ Len(a \o b) = Len(a) + Len(b)
      /\ \A i \in 1..Len(a) + Len(b) : (a \o b)[i] = IF i <= Len(a) THEN a[i] ELSE b[i - Len(a)]
  BY <1>2, ConcatProperties
<1>8. Len(c) = Len(a \o b) /\ \A i \in 1..Len(c) : c[i] = (a \o b)[i]
  BY <1>5, <1>6, <1>7
<1>9. c = a \o b
  BY <1>2, <1>7, <1>8, SeqEqual
<1> QED
  BY <1>3, <1>4, <1>9

\* Nothing is selected from nothing.
LEMMA SelectNothing ==
  ASSUME NEW P
  PROVE  SelectAt(<<>>, P) = <<>>
<1>1. At(<<>>, P) = <<>>
  BY DEF At
<1>2. SelectAt(<<>>, P) = FlattenSeq(At(<<>>, P))
  BY DEF SelectAt, At
<1>3. FlattenSeq(<<>>) = <<>>
  BY DEF FlattenSeq
<1> QED
  BY <1>1, <1>2, <1>3

\* One element is selected or not.
LEMMA SelectOne ==
  ASSUME NEW X, NEW x \in X, NEW P
  PROVE  /\ 1 \in P => SelectAt(<<x>>, P) = <<x>>
         /\ 1 \notin P => SelectAt(<<x>>, P) = <<>>
<1> DEFINE Y == Seq(X)
<1>1. <<>> \in Y /\ <<x>> \in Y
  OBVIOUS
<1>2. ASSUME NEW y \in Y PROVE FlattenSeq(Append(<<>>, y)) = y /\ FlattenSeq(<<>>) = <<>>
  <2>1. <<>> \in Seq(Seq(X)) /\ y \in Seq(X)
    OBVIOUS
  <2>2. FlattenSeq(Append(<<>>, y)) = FlattenSeq(<<>>) \o y /\ FlattenSeq(<<>>) = <<>>
    BY <2>1, FlattenFacts
  <2>3. <<>> \o y = y
    BY <2>1, ConcatEmptySeq
  <2> QED
    BY <2>2, <2>3
<1>4. 1 \in P => At(<<x>>, P) = Append(<<>>, <<x>>)
  BY DEF At
<1>5. 1 \notin P => At(<<x>>, P) = Append(<<>>, <<>>)
  BY DEF At
<1>6. SelectAt(<<x>>, P) = FlattenSeq(At(<<x>>, P))
  BY DEF SelectAt, At
<1> HIDE DEF Y
<1> QED
  BY <1>1, <1>2, <1>4, <1>5, <1>6

\* What is selected from a text that has grown by one.
LEMMA SelectAppend ==
  ASSUME NEW X, NEW s \in Seq(X), NEW x \in X, NEW P
  PROVE  /\ Len(s) + 1 \in P => SelectAt(Append(s, x), P) = Append(SelectAt(s, P), x)
         /\ Len(s) + 1 \notin P => SelectAt(Append(s, x), P) = SelectAt(s, P)
<1>1. <<x>> \in Seq(X) /\ Append(s, x) = s \o <<x>> /\ Len(s) \in Nat
  BY AppendIsConcat
<1>2. SelectAt(Append(s, x), P) = SelectAt(s, P) \o SelectAt(<<x>>, Shift(P, Len(s)))
  BY <1>1, SelectCat
<1>3. 1 \in Shift(P, Len(s)) <=> Len(s) + 1 \in P
  BY DEF Shift
<1>4. SelectAt(s, P) \in Seq(X)
  BY AtFacts
<1>5. SelectAt(s, P) \o <<>> = SelectAt(s, P) /\ SelectAt(s, P) \o <<x>> = Append(SelectAt(s, P), x)
  BY <1>4, AppendIsConcat, ConcatEmptySeq
<1> QED
  BY <1>2, <1>3, <1>5, SelectOne

\* All places, or none.
LEMMA SelectAll ==
  ASSUME NEW X, NEW s \in Seq(X), NEW P
  PROVE  /\ (\A i \in 1..Len(s) : i \in P) => SelectAt(s, P) = s
         /\ (\A i \in 1..Len(s) : i \notin P) => SelectAt(s, P) = <<>>
<1> DEFINE n == Len(s)
           u(k) == SubSeq(s, 1, k)
<1>1. n \in Nat /\ u(0) = <<>> /\ u(n) = s
  BY PrefixGrows
<1>2. ASSUME NEW k \in 1..n
      PROVE  /\ u(k - 1) \in Seq(X) /\ Len(u(k - 1)) = k - 1 /\ s[k] \in X
             /\ u(k) = Append(u(k - 1), s[k])
  BY PrefixGrows
<1>3. n \in 0..n
  BY <1>1
<1> HIDE DEF u
<1>4. ASSUME \A i \in 1..n : i \in P PROVE SelectAt(s, P) = s
  <2> DEFINE A == {k \in 0..n : SelectAt(u(k), P) = u(k)}
  <2>1. 0 \in A
    BY <1>1, SelectNothing
  <2>2. ASSUME NEW k \in 1..n, k - 1 \in A PROVE k \in A
    <3>1. SelectAt(u(k), P) = Append(SelectAt(u(k - 1), P), s[k])
      <4>1. PICK v \in Seq(X) : v = u(k - 1)
        BY <1>2
      <4>2. Len(v) + 1 \in P
        BY <1>1, <1>2, <1>4, <4>1
      <4>3. SelectAt(Append(v, s[k]), P) = Append(SelectAt(v, P), s[k])
        BY <1>2, <4>2, SelectAppend
      <4> QED
        BY <1>2, <4>1, <4>3
    <3>2. SelectAt(u(k - 1), P) = u(k - 1) /\ k \in 0..n
      BY <1>1, <2>2
    <3> QED
      BY <1>2, <3>1, <3>2
  <2> HIDE DEF A
  <2>3. n \in A
    BY <1>1, <1>3, <2>1, <2>2, UpTo
  <2> QED
    BY <1>1, <2>3 DEF A
<1>5. ASSUME \A i \in 1..n : i \notin P PROVE SelectAt(s, P) = <<>>
  <2> DEFINE A == {k \in 0..n : SelectAt(u(k), P) = <<>>}
  <2>1. 0 \in A
    BY <1>1, SelectNothing
  <2>2. ASSUME NEW k \in 1..n, k - 1 \in A PROVE k \in A
    <3>1. SelectAt(u(k), P) = SelectAt(u(k - 1), P)
      <4>1. PICK v \in Seq(X) : v = u(k - 1)
        BY <1>2
      <4>2. Len(v) + 1 \notin P
        BY <1>1, <1>2, <1>5, <4>1
      <4>3. SelectAt(Append(v, s[k]), P) = SelectAt(v, P)
        BY <1>2, <4>2, SelectAppend
      <4> QED
        BY <1>2, <4>1, <4>3
    <3>2. SelectAt(u(k - 1), P) = <<>> /\ k \in 0..n
      BY <1>1, <2>2
    <3> QED
      BY <3>1, <3>2
  <2> HIDE DEF A
  <2>3. n \in A
    BY <1>1, <1>3, <2>1, <2>2, UpTo
  <2> QED
    BY <1>1, <2>3 DEF A
<1> QED
  BY <1>4, <1>5

\* A text cut in two.
LEMMA Cut ==
  ASSUME NEW X, NEW s \in Seq(X), NEW i \in 1..(Len(s) + 1), NEW k \in i..(Len(s) + 1)
  PROVE  /\ SubSeq(s, i, k - 1) \in Seq(X) /\ Len(SubSeq(s, i, k - 1)) = k - i
         /\ \A j \in 1..(k - i) : SubSeq(s, i, k - 1)[j] = s[i + j - 1]
         /\ SubSeq(s, k, Len(s)) \in Seq(X) /\ Len(SubSeq(s, k, Len(s))) = Len(s) - k + 1
         /\ SubSeq(s, i, Len(s)) = SubSeq(s, i, k - 1) \o SubSeq(s, k, Len(s))
<1>1. Len(s) \in Nat /\ i \in Int /\ k \in Int /\ k - 1 \in Int /\ k - 1 \in i - 1..Len(s)
  OBVIOUS
<1>2. SubSeq(s, i, k - 1) \o SubSeq(s, (k - 1) + 1, Len(s)) = SubSeq(s, i, Len(s))
  <2>1. Len(s) \in (k - 1)..Len(s)
    BY <1>1
  <2> QED
    BY <1>1, <2>1, ConcatAdjacentSubSeq
<1>3. (k - 1) + 1 = k
  BY <1>1
<1>4. (\A j \in i..(k - 1) : s[j] \in X) /\ (\A j \in k..Len(s) : s[j] \in X)
  OBVIOUS
<1>5. /\ SubSeq(s, i, k - 1) \in Seq(X)
      /\ Len(SubSeq(s, i, k - 1)) = IF i <= k - 1 THEN (k - 1) - i + 1 ELSE 0
      /\ \A j \in 1..(k - 1) - i + 1 : SubSeq(s, i, k - 1)[j] = s[i + j - 1]
  BY <1>1, <1>4, SubSeqProperties
<1>6. /\ SubSeq(s, k, Len(s)) \in Seq(X)
      /\ Len(SubSeq(s, k, Len(s))) = IF k <= Len(s) THEN Len(s) - k + 1 ELSE 0
  BY <1>1, <1>4, SubSeqProperties
<1>7. Len(SubSeq(s, i, k - 1)) = k - i
  BY <1>1, <1>5
<1>8. Len(SubSeq(s, k, Len(s))) = Len(s) - k + 1
  BY <1>1, <1>6
<1>9. (k - 1) - i + 1 = k - i
  BY <1>1
<1>10. \A j \in 1..(k - i) : SubSeq(s, i, k - 1)[j] = s[i + j - 1]
  BY <1>5, <1>9
<1> QED
  BY <1>2, <1>3, <1>5, <1>6, <1>7, <1>8, <1>10

From(places, k) == {i \in places : i >= k}

LEMMA SelectFrom ==
  ASSUME NEW X, NEW s \in Seq(X), NEW P \in SUBSET Nat, NEW k \in 1..(Len(s) + 1)
  PROVE  SelectAt(s, From(P, k)) = SelectAt(SubSeq(s, k, Len(s)), Shift(P, k - 1))
<1> DEFINE a == SubSeq(s, 1, k - 1)
           b == SubSeq(s, k, Len(s))
<1>1. Len(s) \in Nat /\ k \in Int /\ 1 \in 1..(Len(s) + 1) /\ k \in 1..(Len(s) + 1)
  OBVIOUS
<1>2. /\ a \in Seq(X) /\ Len(a) = k - 1 /\ b \in Seq(X) /\ Len(b) = Len(s) - k + 1
      /\ SubSeq(s, 1, Len(s)) = a \o b
  BY <1>1, Cut, ZenonT(30)
<1>3. s = a \o b
  BY <1>2, SubSeqFull
<1> HIDE DEF a, b
<1>4. SelectAt(s, From(P, k)) = SelectAt(a, From(P, k)) \o SelectAt(b, Shift(From(P, k), k - 1))
  BY <1>2, <1>3, SelectCat
<1>5. SelectAt(a, From(P, k)) = <<>>
  <2>1. \A i \in 1..Len(a) : i \notin From(P, k)
    BY <1>1, <1>2 DEF From
  <2> QED
    BY <1>2, <2>1, SelectAll
<1>6. SelectAt(b, Shift(From(P, k), k - 1)) = SelectAt(b, Shift(P, k - 1))
  <2>1. \A i \in 1..Len(b) : i \in Nat /\ (k - 1) + i >= k
    BY <1>1, <1>2
  <2>2. \A i \in 1..Len(b) : i \in Shift(From(P, k), k - 1) <=> i \in Shift(P, k - 1)
    BY <2>1 DEF Shift, From
  <2> QED
    BY <2>2, SelectSame
<1>7. SelectAt(b, Shift(P, k - 1)) \in Seq(X)
  BY <1>2, AtFacts
<1> QED
  BY <1>4, <1>5, <1>6, <1>7, ConcatEmptySeq DEF b

\* What is selected from a place on: what is selected up to another, and from there.
LEMMA SelectPart ==
  ASSUME NEW X, NEW s \in Seq(X), NEW P \in SUBSET Nat,
         NEW i \in 1..(Len(s) + 1), NEW k \in i..(Len(s) + 1)
  PROVE  SelectAt(s, From(P, i))
           = SelectAt(SubSeq(s, i, k - 1), Shift(P, i - 1)) \o SelectAt(s, From(P, k))
<1> DEFINE a == SubSeq(s, i, k - 1)
           b == SubSeq(s, k, Len(s))
<1>1. Len(s) \in Nat /\ i \in Int /\ k \in Int /\ k \in 1..(Len(s) + 1)
  OBVIOUS
<1>2. a \in Seq(X) /\ Len(a) = k - i /\ b \in Seq(X) /\ SubSeq(s, i, Len(s)) = a \o b
  BY Cut, ZenonT(30)
<1>3. SelectAt(s, From(P, i)) = SelectAt(a \o b, Shift(P, i - 1))
  BY <1>2, SelectFrom
<1>4. SelectAt(s, From(P, k)) = SelectAt(b, Shift(P, k - 1))
  BY <1>1, SelectFrom
<1> HIDE DEF a, b
<1>5. SelectAt(a \o b, Shift(P, i - 1))
        = SelectAt(a, Shift(P, i - 1)) \o SelectAt(b, Shift(Shift(P, i - 1), k - i))
  BY <1>2, SelectCat
<1>6. SelectAt(b, Shift(Shift(P, i - 1), k - i)) = SelectAt(b, Shift(P, k - 1))
  <2>1. k - i \in Nat /\ \A j \in Nat : (k - i) + j \in Nat /\ (i - 1) + ((k - i) + j) = (k - 1) + j
    BY <1>1
  <2>2. \A j \in 1..Len(b) : j \in Nat
    OBVIOUS
  <2>3. \A j \in 1..Len(b) : j \in Shift(Shift(P, i - 1), k - i) <=> j \in Shift(P, k - 1)
    BY <2>1, <2>2 DEF Shift
  <2> QED
    BY <2>3, SelectSame
<1> QED
  BY <1>3, <1>4, <1>5, <1>6 DEF a, b

-----------------------------------------------------------------------------

Mark(in) == IF in THEN "c1" ELSE "o1"

LEMMA IndexFacts ==
  ASSUME NEW c \in Seq(Atoms), NEW h, NEW i \in 1..(Len(c) + 1)
  PROVE  LET k == IndexOf(c, h, i)
         IN  \/ k = 0 /\ \A q \in Tags(c, h) : q < i
             \/ /\ k \in Tags(c, h) /\ k \in i..(Len(c) - 1)
                /\ \A q \in Tags(c, h) : q >= i => k <= q
<1> DEFINE at == {k \in Tags(c, h) : k >= i}
<1>1. Tags(c, h) \in SUBSET (1..(Len(c) - 1)) /\ Len(c) \in Nat
  BY DEF Tags
<1>2. CASE at = {}
  <2>1. IndexOf(c, h, i) = 0
    BY <1>2 DEF IndexOf
  <2> QED
    BY <1>1, <1>2, <2>1
<1>3. CASE at # {}
  <2>1. at \in SUBSET Nat
    BY <1>1
  <2>2. \E k \in at : \A l \in at : k <= l
    BY <1>3, <2>1, LeastNat
  <2> DEFINE k == CHOOSE k \in at : \A l \in at : k <= l
  <2>3. k \in at /\ \A l \in at : k <= l
    BY <2>2
  <2>4. IndexOf(c, h, i) = k
    BY <1>3 DEF IndexOf
  <2> HIDE DEF k
  <2> QED
    BY <1>1, <2>3, <2>4
<1> QED
  BY <1>2, <1>3

Letters == Atoms \cup {"r"}
Chunks == [kind : {"thinking", "content"}, text : Seq(Letters)]
Parts == [chunks : Seq(Chunks), in : BOOLEAN]

\* The end of the split: no more tag.
Over(c, in, i) == [chunks |-> Piece(c, in, i, Len(c) + 1), in |-> in]
\* The split after a tag.
More(c, in, i, k, parts) == [parts EXCEPT !.chunks = Piece(c, in, i, k) \o @]

Splits(c, f) ==
  \A i \in 1..(Len(c) + 1), in \in BOOLEAN :
    LET k == IndexOf(c, Mark(in), i)
    IN  /\ k = 0 => f[<<i, in>>] = Over(c, in, i)
        /\ k # 0 => f[<<i, in>>] = More(c, in, i, k, f[<<k + 2, ~in>>])

LEMMA PieceType ==
  ASSUME NEW c \in Seq(Atoms), NEW in \in BOOLEAN, NEW i \in 1..(Len(c) + 1),
         NEW k \in i..(Len(c) + 1)
  PROVE  Piece(c, in, i, k) \in Seq(Chunks)
<1>1. SubSeq(c, i, k - 1) \in Seq(Atoms)
  BY Cut
<1>2. SubSeq(c, i, k - 1) \in Seq(Letters)
  BY <1>1, SeqMonotonic DEF Letters
<1>3. Chunk(KindOf(in), SubSeq(c, i, k - 1)) \in Chunks
  BY <1>2 DEF Chunk, KindOf, Chunks
<1> QED
  BY <1>3 DEF Piece

LEMMA MoreType ==
  ASSUME NEW c \in Seq(Atoms), NEW in \in BOOLEAN, NEW i \in 1..(Len(c) + 1),
         NEW k \in i..(Len(c) + 1), NEW parts \in Parts
  PROVE  /\ Over(c, in, i) \in Parts
         /\ More(c, in, i, k, parts) \in Parts
         /\ More(c, in, i, k, parts).in = parts.in
         /\ More(c, in, i, k, parts).chunks = Piece(c, in, i, k) \o parts.chunks
<1>1. Len(c) + 1 \in i..(Len(c) + 1)
  OBVIOUS
<1>2. Piece(c, in, i, k) \in Seq(Chunks) /\ Piece(c, in, i, Len(c) + 1) \in Seq(Chunks)
  BY <1>1, PieceType
<1>3. /\ parts.chunks \in Seq(Chunks) /\ parts.in \in BOOLEAN
      /\ parts = [chunks |-> parts.chunks, in |-> parts.in]
  BY DEF Parts
<1>4. Piece(c, in, i, k) \o parts.chunks \in Seq(Chunks)
  <2> DEFINE X == Chunks
  <2>1. Piece(c, in, i, k) \in Seq(X) /\ parts.chunks \in Seq(X)
    BY <1>2, <1>3
  <2> HIDE DEF X
  <2>2. Piece(c, in, i, k) \o parts.chunks \in Seq(X)
    BY <2>1, ConcatProperties
  <2> QED
    BY <2>2 DEF X
<1>5. More(c, in, i, k, parts) = [chunks |-> Piece(c, in, i, k) \o parts.chunks, in |-> parts.in]
  <2> DEFINE q == Piece(c, in, i, k) \o parts.chunks
  <2>1. More(c, in, i, k, parts) = [parts EXCEPT !.chunks = q]
    BY DEF More
  <2> HIDE DEF q
  <2>2. [parts EXCEPT !.chunks = q] = [chunks |-> q, in |-> parts.in]
    BY DEF Parts
  <2> QED
    BY <2>1, <2>2 DEF q
<1> QED
  BY <1>2, <1>3, <1>4, <1>5 DEF Over, Parts

\* The loop is defined: what remains after a tag is shorter.
LEMMA SplitExists ==
  ASSUME NEW c \in Seq(Atoms)
  PROVE  \E f \in [(1..(Len(c) + 1)) \X BOOLEAN -> Parts] : Splits(c, f)
<1> DEFINE n == Len(c)
           D == (1..(n + 1)) \X BOOLEAN
           Fits(f, i, in) ==
             LET k == IndexOf(c, Mark(in), i)
             IN  /\ k = 0 => f[<<i, in>>] = Over(c, in, i)
                 /\ k # 0 => f[<<i, in>>] = More(c, in, i, k, f[<<k + 2, ~in>>])
           Upto(m) == \E f \in [D -> Parts] :
                        \A i \in 1..(n + 1), in \in BOOLEAN : i > n + 1 - m => Fits(f, i, in)
           P == {m \in 0..(n + 1) : Upto(m)}
<1>1. n \in Nat
  OBVIOUS
<1>2. 0 \in P
  <2> DEFINE f == [at \in D |-> [chunks |-> <<>>, in |-> FALSE]]
  <2>1. f \in [D -> Parts]
    BY DEF Parts
  <2>2. \A i \in 1..(n + 1) : ~(i > n + 1 - 0) /\ 0 \in 0..(n + 1)
    BY <1>1
  <2> HIDE DEF f, D, Fits
  <2>3. Upto(0)
    BY <2>1, <2>2
  <2> QED
    BY <2>2, <2>3, <1>1
<1>3. ASSUME NEW m \in 1..(n + 1), m - 1 \in P PROVE m \in P
  <2> DEFINE l == n + 2 - m
  <2>1. l \in 1..(n + 1) /\ l \in Nat /\ m \in 0..(n + 1) /\ n + 1 - (m - 1) = l
    BY <1>1
  <2> DEFINE Body(f, in) ==
               LET k == IndexOf(c, Mark(in), l)
               IN  IF k = 0 THEN Over(c, in, l) ELSE More(c, in, l, k, f[<<k + 2, ~in>>])
  <2>2. PICK f \in [D -> Parts] :
          \A i \in 1..(n + 1), in \in BOOLEAN : i > n + 1 - (m - 1) => Fits(f, i, in)
    BY <1>3
  <2> DEFINE h == [at \in D |-> IF at[1] = l THEN Body(f, at[2]) ELSE f[at]]
  <2>3. ASSUME NEW i \in 1..(n + 1), NEW in \in BOOLEAN, IndexOf(c, Mark(in), i) # 0
        PROVE  /\ IndexOf(c, Mark(in), i) \in i..(n + 1)
               /\ IndexOf(c, Mark(in), i) + 2 \in 1..(n + 1)
               /\ IndexOf(c, Mark(in), i) + 2 > i
    <3> DEFINE k == IndexOf(c, Mark(in), i)
    <3>1. k \in i..(n - 1)
      BY <2>3, IndexFacts
    <3> HIDE DEF k, n
    <3> QED
      BY <1>1, <3>1 DEF k
  <2>4. ASSUME NEW in \in BOOLEAN PROVE Body(f, in) \in Parts
    <3>1. CASE IndexOf(c, Mark(in), l) = 0
      <4>1. l \in l..(n + 1)
        BY <2>1
      <4>2. Over(c, in, l) \in Parts
        <5>1. [chunks |-> <<>>, in |-> FALSE] \in Parts
          BY DEF Parts
        <5>2. PICK parts : parts \in Parts
          BY <5>1
        <5> QED
          BY <2>1, <4>1, <5>2, MoreType
      <4> QED
        BY <3>1, <4>2
    <3>2. CASE IndexOf(c, Mark(in), l) # 0
      <4>1. <<IndexOf(c, Mark(in), l) + 2, ~in>> \in D
        BY <2>1, <2>3, <3>2
      <4>2. f[<<IndexOf(c, Mark(in), l) + 2, ~in>>] \in Parts
        BY <4>1
      <4>3. IndexOf(c, Mark(in), l) \in l..(n + 1)
        BY <2>1, <2>3, <3>2
      <4>4. More(c, in, l, IndexOf(c, Mark(in), l), f[<<IndexOf(c, Mark(in), l) + 2, ~in>>]) \in Parts
        BY <2>1, <4>2, <4>3, MoreType
      <4> QED
        BY <3>2, <4>4
    <3> QED
      BY <3>1, <3>2
  <2> HIDE DEF Body
  <2>5. h \in [D -> Parts]
    BY <2>4
  <2>6. \A i \in 1..(n + 1), in \in BOOLEAN :
          h[<<i, in>>] = IF i = l THEN Body(f, in) ELSE f[<<i, in>>]
    OBVIOUS
  <2> HIDE DEF h
  <2>7. ASSUME NEW i \in 1..(n + 1), NEW in \in BOOLEAN, i > n + 1 - m PROVE Fits(h, i, in)
    <3> DEFINE k == IndexOf(c, Mark(in), i)
    <3>1. k # 0 => h[<<k + 2, ~in>>] = f[<<k + 2, ~in>>]
      <4>1. i >= l
        BY <1>1, <2>1, <2>7
      <4>2. k # 0 => k + 2 \in 1..(n + 1) /\ k + 2 # l
        BY <2>1, <2>3, <4>1
      <4> HIDE DEF k, l
      <4> QED
        BY <2>6, <4>2
    <3>2. CASE i = l
      <4>1. h[<<i, in>>] = Body(f, in)
        BY <2>6, <3>2
      <4> QED
        BY <3>1, <3>2, <4>1 DEF Body
    <3>3. CASE i # l
      <4>1. i > n + 1 - (m - 1)
        <5>1. l = n + 2 - m /\ n \in Nat /\ m \in Int /\ i \in Int
          BY <1>1, <2>1
        <5> HIDE DEF n, l
        <5> QED
          BY <2>7, <3>3, <5>1
      <4>2. Fits(f, i, in)
        BY <2>2, <4>1
      <4>3. h[<<i, in>>] = f[<<i, in>>]
        BY <2>6, <3>3
      <4> QED
        BY <3>1, <4>2, <4>3
    <3> QED
      BY <3>2, <3>3
  <2> HIDE DEF Fits
  <2>8. Upto(m)
    BY <2>5, <2>7
  <2> QED
    BY <2>1, <2>8
<1> HIDE DEF P
<1>4. n + 1 \in P
  <2>1. n + 1 \in Nat /\ n + 1 \in 0..(n + 1)
    BY <1>1
  <2> HIDE DEF n
  <2> QED
    BY <1>2, <1>3, <2>1, UpTo
<1>5. PICK f \in [D -> Parts] :
        \A i \in 1..(n + 1), in \in BOOLEAN : i > n + 1 - (n + 1) => Fits(f, i, in)
  BY <1>4 DEF P
<1>6. \A i \in 1..(n + 1), in \in BOOLEAN : Fits(f, i, in)
  <2> HIDE DEF Fits, D
  <2>1. \A i \in 1..(n + 1) : i > n + 1 - (n + 1)
    BY <1>1
  <2> QED
    BY <1>5, <2>1
<1>7. Splits(c, f)
  BY <1>6 DEF Splits
<1> QED
  BY <1>7

Starts(c) == (1..(Len(c) + 1)) \X BOOLEAN

\* A tag that is found lies between the start and the end.
LEMMA Found ==
  ASSUME NEW c \in Seq(Atoms), NEW i \in 1..(Len(c) + 1), NEW in \in BOOLEAN,
         IndexOf(c, Mark(in), i) # 0
  PROVE  LET k == IndexOf(c, Mark(in), i)
         IN  /\ k \in Tags(c, Mark(in)) /\ k \in i..(Len(c) + 1) /\ k \in 1..Len(c) /\ k + 1 \in 1..Len(c)
             /\ k + 2 \in 1..(Len(c) + 1) /\ <<k + 2, ~in>> \in Starts(c)
             /\ \A q \in Tags(c, Mark(in)) : q >= i => k <= q
<1> DEFINE k == IndexOf(c, Mark(in), i)
<1>1. k \in Tags(c, Mark(in)) /\ k \in i..(Len(c) - 1)
  BY IndexFacts
<1>2. \A q \in Tags(c, Mark(in)) : q >= i => k <= q
  BY IndexFacts
<1>3. Len(c) \in Nat
  OBVIOUS
<1> HIDE DEF k
<1>4. k + 2 \in 1..(Len(c) + 1)
  BY <1>1, <1>3
<1>5. k \in i..(Len(c) + 1) /\ k \in 1..Len(c) /\ k + 1 \in 1..Len(c)
  BY <1>1, <1>3
<1> QED
  BY <1>1, <1>2, <1>4, <1>5 DEF k, Starts

\* A set of starts that the split stays in, and one that it carries back.
Carries(c, G, Q) ==
  \A i \in 1..(Len(c) + 1), in \in BOOLEAN :
    <<i, in>> \in G =>
      LET k == IndexOf(c, Mark(in), i)
      IN  /\ k = 0 => <<i, in>> \in Q
          /\ k # 0 => <<k + 2, ~in>> \in G /\ (<<k + 2, ~in>> \in Q => <<i, in>> \in Q)

\* The induction along a split, from the end of the text.
LEMMA AlongSplit ==
  ASSUME NEW c \in Seq(Atoms), NEW G, NEW Q, Carries(c, G, Q)
  PROVE  \A i \in 1..(Len(c) + 1), in \in BOOLEAN : <<i, in>> \in G => <<i, in>> \in Q
<1> DEFINE n == Len(c)
           P == {m \in 0..(n + 1) : \A i \in 1..(n + 1), in \in BOOLEAN :
                                      i > n + 1 - m /\ <<i, in>> \in G => <<i, in>> \in Q}
<1>1. n \in Nat
  OBVIOUS
<1>2. 0 \in P
  <2>1. 0 \in 0..(n + 1) /\ \A i \in 1..(n + 1) : ~(i > n + 1 - 0)
    BY <1>1
  <2> HIDE DEF n
  <2> QED
    BY <2>1
<1>3. ASSUME NEW m \in 1..(n + 1), m - 1 \in P PROVE m \in P
  <2>1. ASSUME NEW i \in 1..(n + 1), NEW in \in BOOLEAN, i > n + 1 - m, <<i, in>> \in G
        PROVE  <<i, in>> \in Q
    <3> DEFINE k == IndexOf(c, Mark(in), i)
    <3>1. CASE k = 0
      BY <2>1, <3>1 DEF Carries
    <3>2. CASE k # 0
      <4>1. k \in i..(n + 1) /\ k + 2 \in 1..(n + 1)
        BY <3>2, Found
      <4>2. <<k + 2, ~in>> \in G /\ (<<k + 2, ~in>> \in Q => <<i, in>> \in Q)
        BY <2>1, <3>2 DEF Carries
      <4> HIDE DEF k, n
      <4>3. k + 2 > n + 1 - (m - 1)
        BY <1>1, <2>1, <4>1
      <4>4. \A j \in 1..(n + 1), b \in BOOLEAN :
              j > n + 1 - (m - 1) /\ <<j, b>> \in G => <<j, b>> \in Q
        BY <1>3
      <4> DEFINE b == ~in
      <4>5. b \in BOOLEAN /\ <<k + 2, b>> \in G
        BY <4>2
      <4> HIDE DEF b, P
      <4>6. <<k + 2, b>> \in Q
        BY <4>1, <4>3, <4>4, <4>5
      <4> QED
        BY <4>2, <4>6 DEF b
    <3> QED
      BY <3>1, <3>2
  <2>2. m \in 0..(n + 1)
    BY <1>1
  <2> HIDE DEF n
  <2> QED
    BY <2>1, <2>2
<1> HIDE DEF P
<1>4. n + 1 \in P
  <2>1. n + 1 \in Nat /\ n + 1 \in 0..(n + 1)
    BY <1>1
  <2> HIDE DEF n
  <2> QED
    BY <1>2, <1>3, <2>1, UpTo
<1>5. ASSUME NEW i \in 1..(n + 1), NEW in \in BOOLEAN, <<i, in>> \in G PROVE <<i, in>> \in Q
  <2>1. i > n + 1 - (n + 1)
    BY <1>1
  <2> QED
    BY <1>4, <1>5, <2>1 DEF P
<1> QED
  BY <1>5

\* Split is the start of a function that follows the loop.
LEMMA SplitIs ==
  ASSUME NEW c \in Seq(Atoms), NEW in0 \in BOOLEAN
  PROVE  \E f : /\ Splits(c, f) /\ Split(c, in0) = f[<<1, in0>>]
                /\ \A at \in Starts(c) : f[at] \in Parts
<1> DEFINE D == (1..(Len(c) + 1)) \X BOOLEAN
           Body(f, at) ==
             LET k == IndexOf(c, IF at[2] THEN "c1" ELSE "o1", at[1])
             IN  IF k = 0 THEN [chunks |-> Piece(c, at[2], at[1], Len(c) + 1), in |-> at[2]]
                 ELSE [f[<<k + 2, ~at[2]>>] EXCEPT !.chunks = Piece(c, at[2], at[1], k) \o @]
           Goal(f) == f = [at \in D |-> Body(f, at)]
           g == CHOOSE f : Goal(f)
<1>1. Split(c, in0) = g[<<1, in0>>]
  BY DEF Split
<1>2. ASSUME NEW f, NEW i \in 1..(Len(c) + 1), NEW in \in BOOLEAN
      PROVE  LET k == IndexOf(c, Mark(in), i)
             IN  /\ k = 0 => Body(f, <<i, in>>) = Over(c, in, i)
                 /\ k # 0 => Body(f, <<i, in>>) = More(c, in, i, k, f[<<k + 2, ~in>>])
  BY DEF Mark, Over, More
<1>3. PICK f0 \in [D -> Parts] : Splits(c, f0)
  BY SplitExists
<1> HIDE DEF Body
<1>4. \A i \in 1..(Len(c) + 1), in \in BOOLEAN : f0[<<i, in>>] = Body(f0, <<i, in>>)
  BY <1>2, <1>3 DEF Splits
<1>5. Goal(f0)
  <2>1. \A at \in D : at = <<at[1], at[2]>> /\ at[1] \in 1..(Len(c) + 1) /\ at[2] \in BOOLEAN
    OBVIOUS
  <2>2. \A at \in D : f0[at] = Body(f0, at)
    BY <1>4, <2>1
  <2> HIDE DEF D
  <2> QED
    BY <1>3, <2>2
<1>6. Goal(g)
  <2> HIDE DEF Goal
  <2> QED
    BY <1>5
<1> HIDE DEF g
<1>7. \A i \in 1..(Len(c) + 1), in \in BOOLEAN : g[<<i, in>>] = Body(g, <<i, in>>)
  <2>1. \A at \in D : g[at] = Body(g, at)
    BY <1>6
  <2>2. \A i \in 1..(Len(c) + 1), in \in BOOLEAN : <<i, in>> \in D
    OBVIOUS
  <2> HIDE DEF D
  <2> QED
    BY <2>1, <2>2
<1>8. Splits(c, g)
  BY <1>2, <1>7 DEF Splits
<1> DEFINE Q == {at \in Starts(c) : g[at] \in Parts}
<1>9. Carries(c, Starts(c), Q)
  <2> SUFFICES ASSUME NEW i \in 1..(Len(c) + 1), NEW in \in BOOLEAN
               PROVE  LET k == IndexOf(c, Mark(in), i)
                      IN  /\ k = 0 => <<i, in>> \in Q
                          /\ k # 0 => <<k + 2, ~in>> \in Starts(c)
                                      /\ (<<k + 2, ~in>> \in Q => <<i, in>> \in Q)
    BY DEF Carries
  <2> DEFINE k == IndexOf(c, Mark(in), i)
  <2>1. <<i, in>> \in Starts(c)
    BY DEF Starts
  <2>2. Len(c) + 1 \in i..(Len(c) + 1)
    OBVIOUS
  <2>3. CASE k = 0
    <3>1. g[<<i, in>>] = Over(c, in, i)
      BY <1>8, <2>3 DEF Splits
    <3>2. Over(c, in, i) \in Parts
      <4>1. [chunks |-> <<>>, in |-> FALSE] \in Parts
        BY DEF Parts
      <4>2. PICK parts : parts \in Parts
        BY <4>1
      <4> QED
        BY <2>2, <4>2, MoreType
    <3> QED
      BY <2>1, <2>3, <3>1, <3>2
  <2>4. CASE k # 0
    <3>1. g[<<i, in>>] = More(c, in, i, k, g[<<k + 2, ~in>>])
      BY <1>8, <2>4 DEF Splits
    <3>2. k \in i..(Len(c) + 1) /\ <<k + 2, ~in>> \in Starts(c)
      BY <2>4, Found
    <3>3. ASSUME g[<<k + 2, ~in>>] \in Parts PROVE g[<<i, in>>] \in Parts
      <4>1. PICK parts \in Parts : parts = g[<<k + 2, ~in>>]
        BY <3>3
      <4>2. More(c, in, i, k, parts) \in Parts
        BY <3>2, MoreType
      <4> QED
        BY <3>1, <4>1, <4>2
    <3> QED
      BY <2>1, <2>4, <3>2, <3>3
  <2> QED
    BY <2>3, <2>4
<1> HIDE DEF Q
<1>10. ASSUME NEW at \in Starts(c) PROVE g[at] \in Parts
  <2>1. PICK i \in 1..(Len(c) + 1), in \in BOOLEAN : at = <<i, in>>
    BY DEF Starts
  <2>2. at \in Q
    BY <1>9, <2>1, AlongSplit
  <2> QED
    BY <2>2 DEF Q
<1> QED
  BY <1>1, <1>8, <1>10

\* What the chunks of some kinds say.
Saying(chunk, K) == IF chunk.kind \in K THEN chunk.text ELSE <<>>
Sayings(d, K) == [i \in 1..Len(d) |-> Saying(d[i], K)]
Text(d, K) == FlattenSeq(Sayings(d, K))

LEMMA SayingsFacts ==
  ASSUME NEW d \in Seq(Chunks), NEW K
  PROVE  /\ Sayings(d, K) \in Seq(Seq(Letters)) /\ Len(Sayings(d, K)) = Len(d)
         /\ \A i \in 1..Len(d) : Sayings(d, K)[i] = Saying(d[i], K)
<1> DEFINE Y == Seq(Letters)
<1>1. ASSUME NEW x \in Chunks PROVE Saying(x, K) \in Y
  <2>1. x.text \in Y /\ <<>> \in Y
    BY DEF Chunks
  <2> QED
    BY <2>1 DEF Saying
<1> HIDE DEF Y
<1>2. Len(d) \in Nat /\ \A i \in 1..Len(d) : d[i] \in Chunks
  OBVIOUS
<1>3. Sayings(d, K) \in [1..Len(d) -> Y]
  BY <1>1, <1>2 DEF Sayings
<1>4. Sayings(d, K) \in Seq(Y) /\ Len(Sayings(d, K)) = Len(d)
  BY <1>2, <1>3
<1>5. \A i \in 1..Len(d) : Sayings(d, K)[i] = Saying(d[i], K)
  BY DEF Sayings
<1> QED
  BY <1>4, <1>5 DEF Y

LEMMA TextFacts ==
  ASSUME NEW d \in Seq(Chunks), NEW e \in Seq(Chunks), NEW K
  PROVE  Text(d, K) \in Seq(Letters) /\ Text(d \o e, K) = Text(d, K) \o Text(e, K)
<1> DEFINE Y == Seq(Letters)
           X == Chunks
           a == Sayings(d, K)
           b == Sayings(e, K)
           f == Sayings(d \o e, K)
<1>1. d \in Seq(X) /\ e \in Seq(X)
  OBVIOUS
<1>2. d \o e \in Seq(Chunks)
  <2> HIDE DEF X
  <2>1. d \o e \in Seq(X)
    BY <1>1, ConcatProperties
  <2> QED
    BY <2>1 DEF X
<1>3. a \in Seq(Seq(Letters)) /\ b \in Seq(Seq(Letters)) /\ f \in Seq(Seq(Letters))
  BY <1>2, SayingsFacts
<1>4. FlattenSeq(a) \in Seq(Letters)
  <2>1. <<>> \in Seq(Letters)
    BY EmptySeq
  <2> QED
    BY <1>3, <2>1, FlattenFacts
<1>5. FlattenSeq(a \o b) = FlattenSeq(a) \o FlattenSeq(b)
  BY <1>3, FlattenCat
<1> HIDE DEF X
<1>6. /\ Len(d) \in Nat /\ Len(e) \in Nat /\ Len(d \o e) = Len(d) + Len(e)
      /\ \A i \in 1..Len(d) + Len(e) : (d \o e)[i] = IF i <= Len(d) THEN d[i] ELSE e[i - Len(d)]
  BY <1>1, ConcatProperties
<1>7. Len(a) = Len(d) /\ Len(b) = Len(e) /\ Len(f) = Len(d) + Len(e)
  BY <1>2, <1>6, SayingsFacts
<1>8. ASSUME NEW i \in 1..Len(d) + Len(e)
      PROVE  f[i] = IF i <= Len(d) THEN a[i] ELSE b[i - Len(d)]
  <2>1. f[i] = Saying((d \o e)[i], K)
    BY <1>2, <1>6, SayingsFacts
  <2>2. CASE i <= Len(d)
    <3>1. i \in 1..Len(d)
      BY <1>6, <2>2
    <3>2. a[i] = Saying(d[i], K)
      BY <3>1, SayingsFacts
    <3> QED
      BY <1>6, <2>1, <2>2, <3>2
  <2>3. CASE ~(i <= Len(d))
    <3>1. i - Len(d) \in 1..Len(e)
      BY <1>6, <2>3
    <3>2. b[i - Len(d)] = Saying(e[i - Len(d)], K)
      BY <3>1, SayingsFacts
    <3> QED
      BY <1>6, <2>1, <2>3, <3>2
  <2> QED
    BY <2>2, <2>3
<1>9. a \in Seq(Y) /\ b \in Seq(Y) /\ f \in Seq(Y)
  BY <1>3
<1>10. FlattenSeq(f) = Text(d \o e, K) /\ FlattenSeq(a) = Text(d, K) /\ FlattenSeq(b) = Text(e, K)
  BY DEF Text
<1> HIDE DEF a, b, f, Y
<1>11. /\ a \o b \in Seq(Y) /\ Len(a \o b) = Len(a) + Len(b)
       /\ \A i \in 1..Len(a) + Len(b) : (a \o b)[i] = IF i <= Len(a) THEN a[i] ELSE b[i - Len(a)]
  BY <1>9, ConcatProperties
<1>12. Len(f) = Len(a \o b) /\ \A i \in 1..Len(f) : f[i] = (a \o b)[i]
  BY <1>7, <1>8, <1>11
<1>13. f = a \o b
  BY <1>9, <1>11, <1>12, SeqEqual
<1> QED
  BY <1>4, <1>5, <1>10, <1>13

LEMMA TextCat ==
  ASSUME NEW K, NEW d \in Seq(Chunks), NEW e \in Seq(Chunks)
  PROVE  Text(d \o e, K) = Text(d, K) \o Text(e, K)
BY TextFacts

LEMMA TextOne ==
  ASSUME NEW x \in Chunks, NEW K
  PROVE  /\ Text(<<>>, K) = <<>>
         /\ x.kind \in K => Text(<<x>>, K) = x.text
         /\ x.kind \notin K => Text(<<x>>, K) = <<>>
<1> DEFINE Y == Seq(Letters)
<1>1. x.text \in Y /\ <<>> \in Y
  BY DEF Chunks
<1>2. Sayings(<<>>, K) = <<>> /\ FlattenSeq(<<>>) = <<>>
  BY DEF Sayings, FlattenSeq
<1>3. Saying(x, K) \in Y
  BY <1>1 DEF Saying
<1>4. Sayings(<<x>>, K) = Append(<<>>, Saying(x, K))
  BY DEF Sayings
<1>5. ASSUME NEW y \in Y PROVE FlattenSeq(Append(<<>>, y)) = y
  <2>1. <<>> \in Seq(Seq(Letters)) /\ y \in Seq(Letters)
    OBVIOUS
  <2>2. FlattenSeq(Append(<<>>, y)) = FlattenSeq(<<>>) \o y
    BY <2>1, FlattenFacts
  <2>3. <<>> \o y = y
    BY <2>1, ConcatEmptySeq
  <2> QED
    BY <1>2, <2>2, <2>3
<1> HIDE DEF Y
<1>6. Text(<<x>>, K) = Saying(x, K)
  BY <1>3, <1>4, <1>5 DEF Text
<1> QED
  BY <1>2, <1>6 DEF Text, Saying

LEMMA WithoutCat ==
  ASSUME NEW X, NEW s \in Seq(X), NEW t \in Seq(X), NEW A
  PROVE  Without(s \o t, A) = Without(s, A) \o Without(t, A)
<1> DEFINE P == {i \in 1..Len(s \o t) : (s \o t)[i] \notin A}
           Q == {i \in 1..Len(s) : s[i] \notin A}
           R == {i \in 1..Len(t) : t[i] \notin A}
<1>1. /\ Len(s) \in Nat /\ Len(t) \in Nat /\ Len(s \o t) = Len(s) + Len(t)
      /\ \A i \in 1..Len(s) + Len(t) : (s \o t)[i] = IF i <= Len(s) THEN s[i] ELSE t[i - Len(s)]
  BY ConcatProperties
<1>2. SelectAt(s \o t, P) = SelectAt(s, P) \o SelectAt(t, Shift(P, Len(s)))
  BY SelectCat
<1>3. SelectAt(s, P) = SelectAt(s, Q)
  <2>1. \A i \in 1..Len(s) : i \in P <=> i \in Q
    BY <1>1
  <2> QED
    BY <2>1, SelectSame
<1>4. SelectAt(t, Shift(P, Len(s))) = SelectAt(t, R)
  <2>1. ASSUME NEW i \in 1..Len(t) PROVE i \in Shift(P, Len(s)) <=> i \in R
    <3>1. i \in Nat /\ Len(s) + i \in 1..Len(s) + Len(t) /\ ~(Len(s) + i <= Len(s)) /\ Len(s) + i - Len(s) = i
      BY <1>1
    <3>2. (s \o t)[Len(s) + i] = t[i]
      BY <1>1, <3>1
    <3> QED
      BY <1>1, <3>1, <3>2 DEF Shift
  <2> QED
    BY <2>1, SelectSame
<1>5. Without(s, A) = SelectAt(s, Q) /\ Without(t, A) = SelectAt(t, R) /\ Without(s \o t, A) = SelectAt(s \o t, P)
  BY DEF Without
<1> QED
  BY <1>2, <1>3, <1>4, <1>5

LEMMA WithoutFacts ==
  ASSUME NEW X, NEW s \in Seq(X), NEW A
  PROVE  /\ Without(s, A) \in Seq(X) /\ Without(<<>>, A) = <<>>
         /\ (\A i \in 1..Len(s) : s[i] \notin A) => Without(s, A) = s
         /\ (\A i \in 1..Len(s) : s[i] \in A) => Without(s, A) = <<>>
<1> DEFINE Q == {i \in 1..Len(s) : s[i] \notin A}
<1>1. SelectAt(s, Q) \in Seq(X)
  BY AtFacts
<1>2. Without(<<>>, A) = <<>>
  BY SelectNothing DEF Without
<1>3. (\A i \in 1..Len(s) : s[i] \notin A) => SelectAt(s, Q) = s
  <2>1. ASSUME \A i \in 1..Len(s) : s[i] \notin A PROVE \A i \in 1..Len(s) : i \in Q
    BY <2>1
  <2> QED
    BY <2>1, SelectAll
<1>4. (\A i \in 1..Len(s) : s[i] \in A) => SelectAt(s, Q) = <<>>
  <2>1. ASSUME \A i \in 1..Len(s) : s[i] \in A PROVE \A i \in 1..Len(s) : i \notin Q
    BY <2>1
  <2> QED
    BY <2>1, SelectAll
<1> QED
  BY <1>1, <1>2, <1>3, <1>4 DEF Without

\* P holds the places from i up to k that a piece of these kinds shows.
Keeps(c, K, A, P, in, i, k) ==
  \A j \in i..(k - 1) : j \in P <=> KindOf(in) \in K /\ c[j] \notin A

LEMMA PieceText ==
  ASSUME NEW c \in Seq(Atoms), NEW in \in BOOLEAN, NEW i \in 1..(Len(c) + 1),
         NEW k \in i..(Len(c) + 1), NEW K, NEW A, NEW P \in SUBSET Nat,
         Keeps(c, K, A, P, in, i, k)
  PROVE  SelectAt(c, From(P, i))
           = Without(Text(Piece(c, in, i, k), K), A) \o SelectAt(c, From(P, k))
<1> DEFINE s == SubSeq(c, i, k - 1)
           Q == Shift(P, i - 1)
<1>1. SelectAt(c, From(P, i)) = SelectAt(s, Q) \o SelectAt(c, From(P, k))
  BY SelectPart
<1>2. s \in Seq(Atoms) /\ Len(s) = k - i /\ \A j \in 1..(k - i) : s[j] = c[i + j - 1]
  BY Cut
<1>3. ASSUME NEW j \in 1..Len(s) PROVE j \in Q <=> KindOf(in) \in K /\ s[j] \notin A
  <2>1. j \in Nat /\ (i - 1) + j \in i..(k - 1) /\ (i - 1) + j = i + j - 1
    BY <1>2
  <2>2. j \in Q <=> (i - 1) + j \in P
    BY <2>1 DEF Shift
  <2> QED
    BY <1>2, <2>1, <2>2 DEF Keeps
<1>4. s \in Seq(Letters)
  BY <1>2, SeqMonotonic DEF Letters
<1>5. Chunk(KindOf(in), s) \in Chunks
  BY <1>4 DEF Chunk, KindOf, Chunks
<1>6. Chunk(KindOf(in), s).kind = KindOf(in) /\ Chunk(KindOf(in), s).text = s
  BY DEF Chunk
<1>7. Piece(c, in, i, k) = IF i < k THEN <<Chunk(KindOf(in), s)>> ELSE <<>>
  BY DEF Piece
<1> HIDE DEF s, Q
<1>8. Without(<<>>, A) = <<>>
  BY <1>4, WithoutFacts
<1>9. CASE ~(i < k)
  <2>1. Len(s) = 0
    BY <1>2, <1>9
  <2>2. SelectAt(s, Q) = <<>>
    <3>1. \A j \in 1..Len(s) : j \notin Q
      BY <2>1
    <3> QED
      BY <1>2, <3>1, SelectAll
  <2>3. Text(Piece(c, in, i, k), K) = <<>>
    BY <1>5, <1>7, <1>9, TextOne
  <2> QED
    BY <1>1, <1>8, <2>2, <2>3
<1>10. CASE i < k /\ KindOf(in) \in K
  <2>1. Text(Piece(c, in, i, k), K) = s
    BY <1>5, <1>6, <1>7, <1>10, TextOne
  <2>2. Without(s, A) = SelectAt(s, Q)
    <3> DEFINE R == {j \in 1..Len(s) : s[j] \notin A}
    <3>1. \A j \in 1..Len(s) : j \in R <=> j \in Q
      BY <1>3, <1>10
    <3>2. SelectAt(s, R) = SelectAt(s, Q)
      BY <3>1, SelectSame
    <3> QED
      BY <3>2 DEF Without
  <2> QED
    BY <1>1, <2>1, <2>2
<1>11. CASE i < k /\ KindOf(in) \notin K
  <2>1. Text(Piece(c, in, i, k), K) = <<>>
    BY <1>5, <1>6, <1>7, <1>11, TextOne
  <2>2. SelectAt(s, Q) = <<>>
    <3>1. \A j \in 1..Len(s) : j \notin Q
      BY <1>3, <1>11
    <3> QED
      BY <1>2, <3>1, SelectAll
  <2> QED
    BY <1>1, <1>8, <2>1, <2>2
<1> QED
  BY <1>9, <1>10, <1>11

\* The starts of G, which a split stays in, and the places of P, which it shows.
Walks(c, G, K, A, P) ==
  \A i \in 1..(Len(c) + 1), in \in BOOLEAN :
    <<i, in>> \in G =>
      LET k == IndexOf(c, Mark(in), i)
      IN  /\ k = 0 => Keeps(c, K, A, P, in, i, Len(c) + 1)
          /\ k # 0 => /\ Keeps(c, K, A, P, in, i, k)
                      /\ k \notin P /\ k + 1 \notin P
                      /\ <<k + 2, ~in>> \in G

Says(f, i, in, K, A) == Without(Text(f[<<i, in>>].chunks, K), A)

LEMMA SplitText ==
  ASSUME NEW c \in Seq(Atoms), NEW f, Splits(c, f), \A at \in Starts(c) : f[at] \in Parts,
         NEW G, NEW K, NEW A, NEW P \in SUBSET Nat, Walks(c, G, K, A, P)
  PROVE  \A i \in 1..(Len(c) + 1), in \in BOOLEAN :
           <<i, in>> \in G => Says(f, i, in, K, A) = SelectAt(c, From(P, i))
<1> DEFINE n == Len(c)
           Q == {at \in Starts(c) :
                   Says(f, at[1], at[2], K, A) = SelectAt(c, From(P, at[1]))}
<1>1. n \in Nat /\ n + 1 \in 1..(n + 1)
  OBVIOUS
<1>2. ASSUME NEW i \in 1..(n + 1), NEW in \in BOOLEAN
      PROVE  <<i, in>> \in Q <=> Says(f, i, in, K, A) = SelectAt(c, From(P, i))
  BY DEF Starts
<1>3. ASSUME NEW i \in 1..(n + 1) PROVE SelectAt(c, From(P, i)) \in Seq(Atoms)
  BY AtFacts
<1> HIDE DEF Q
<1>4. ASSUME NEW i \in 1..(n + 1), NEW in \in BOOLEAN, <<i, in>> \in G,
             IndexOf(c, Mark(in), i) = 0
      PROVE  <<i, in>> \in Q
  <2>1. n + 1 \in i..(n + 1)
    BY <1>1
  <2>2. f[<<i, in>>] = Over(c, in, i)
    BY <1>4 DEF Splits
  <2>3. f[<<i, in>>].chunks = Piece(c, in, i, n + 1)
    BY <2>2 DEF Over
  <2>4. Keeps(c, K, A, P, in, i, n + 1)
    BY <1>4 DEF Walks
  <2>5. SelectAt(c, From(P, i))
          = Without(Text(Piece(c, in, i, n + 1), K), A) \o SelectAt(c, From(P, n + 1))
    <3>1. PICK e \in i..(Len(c) + 1) : e = n + 1
      BY <2>1
    <3>2. Keeps(c, K, A, P, in, i, e)
      BY <2>4, <3>1
    <3>3. SelectAt(c, From(P, i)) = Without(Text(Piece(c, in, i, e), K), A) \o SelectAt(c, From(P, e))
      BY <3>2, PieceText
    <3> QED
      BY <3>1, <3>3
  <2>6. SelectAt(c, From(P, n + 1)) = <<>>
    <3>1. \A j \in 1..n : j \notin From(P, n + 1)
      BY <1>1 DEF From
    <3> QED
      BY <3>1, SelectAll
  <2>7. Without(Text(Piece(c, in, i, n + 1), K), A) \in Seq(Letters)
    <3>1. Piece(c, in, i, n + 1) \in Seq(Chunks)
      BY <2>1, PieceType
    <3>2. Text(Piece(c, in, i, n + 1), K) \in Seq(Letters)
      BY <3>1, TextFacts
    <3> QED
      BY <3>2, WithoutFacts
  <2>8. Says(f, i, in, K, A) = SelectAt(c, From(P, i))
    BY <2>3, <2>5, <2>6, <2>7, ConcatEmptySeq DEF Says
  <2> QED
    BY <1>2, <2>8
<1>5. ASSUME NEW i \in 1..(n + 1), NEW in \in BOOLEAN, <<i, in>> \in G,
             IndexOf(c, Mark(in), i) # 0
      PROVE  LET k == IndexOf(c, Mark(in), i)
             IN  <<k + 2, ~in>> \in G /\ (<<k + 2, ~in>> \in Q => <<i, in>> \in Q)
  <2> DEFINE k == IndexOf(c, Mark(in), i)
  <2>1. /\ k \in i..(n + 1) /\ k + 2 \in 1..(n + 1) /\ <<k + 2, ~in>> \in Starts(c)
        /\ k \in 1..n
    BY <1>5, Found
  <2>2. /\ Keeps(c, K, A, P, in, i, k) /\ k \notin P /\ k + 1 \notin P
        /\ <<k + 2, ~in>> \in G
    BY <1>5 DEF Walks
  <2>3. f[<<i, in>>] = More(c, in, i, k, f[<<k + 2, ~in>>])
    BY <1>5 DEF Splits
  <2> HIDE DEF k
  <2>4. ASSUME <<k + 2, ~in>> \in Q PROVE <<i, in>> \in Q
    <3>1. PICK parts \in Parts : parts = f[<<k + 2, ~in>>]
      BY <2>1
    <3>2. f[<<i, in>>].chunks = Piece(c, in, i, k) \o parts.chunks
      <4>1. More(c, in, i, k, parts).chunks = Piece(c, in, i, k) \o parts.chunks
        BY <2>1, MoreType
      <4> QED
        BY <2>3, <3>1, <4>1
    <3>3. Piece(c, in, i, k) \in Seq(Chunks) /\ parts.chunks \in Seq(Chunks)
      BY <2>1, PieceType DEF Parts
    <3>4. /\ Text(Piece(c, in, i, k) \o parts.chunks, K)
               = Text(Piece(c, in, i, k), K) \o Text(parts.chunks, K)
          /\ Text(Piece(c, in, i, k), K) \in Seq(Letters) /\ Text(parts.chunks, K) \in Seq(Letters)
      BY <3>3, TextFacts
    <3>5. Says(f, i, in, K, A)
            = Without(Text(Piece(c, in, i, k), K), A) \o Without(Text(parts.chunks, K), A)
      <4>1. ASSUME NEW a \in Seq(Letters), NEW b \in Seq(Letters)
            PROVE  Without(a \o b, A) = Without(a, A) \o Without(b, A)
        BY WithoutCat
      <4>2. Without(Text(Piece(c, in, i, k), K) \o Text(parts.chunks, K), A)
              = Without(Text(Piece(c, in, i, k), K), A) \o Without(Text(parts.chunks, K), A)
        BY <3>4, <4>1
      <4> QED
        BY <3>2, <3>4, <4>2 DEF Says
    <3>6. Says(f, k + 2, ~in, K, A) = SelectAt(c, From(P, k + 2))
      BY <1>2, <2>1, <2>4
    <3>7. SelectAt(c, From(P, k + 2)) = SelectAt(c, From(P, k))
      <4>1. \A j \in 1..n : j \in From(P, k + 2) <=> j \in From(P, k)
        BY <2>1, <2>2 DEF From
      <4> QED
        BY <4>1, SelectSame
    <3>8. SelectAt(c, From(P, i))
            = Without(Text(Piece(c, in, i, k), K), A) \o SelectAt(c, From(P, k))
      BY <2>1, <2>2, PieceText
    <3>9. Says(f, i, in, K, A) = SelectAt(c, From(P, i))
      BY <3>1, <3>5, <3>6, <3>7, <3>8 DEF Says
    <3> QED
      BY <1>2, <3>9
  <2> QED
    BY <2>2, <2>4 DEF k
<1>6. Carries(c, G, Q)
  BY <1>4, <1>5 DEF Carries
<1>7. ASSUME NEW i \in 1..(n + 1), NEW in \in BOOLEAN, <<i, in>> \in G
      PROVE  Says(f, i, in, K, A) = SelectAt(c, From(P, i))
  BY <1>2, <1>6, <1>7, AlongSplit
<1> QED
  BY <1>7

-----------------------------------------------------------------------------

\* Where a text that starts inside (or outside) of the tags is inside.
Open(c, in0, p) ==
  \/ \E q \in Tags(c, "o1") : q < p /\ \A r \in Tags(c, "c1") : ~(q < r /\ r < p)
  \/ in0 /\ \A r \in Tags(c, "c1") : ~(r < p)

\* The tags that change sides, and the places that one side shows.
Flips(c, in0) ==
  {q \in Tags(c, "o1") : ~Open(c, in0, q)} \cup {q \in Tags(c, "c1") : Open(c, in0, q)}
Shows(c, in0, side) ==
  {p \in 1..Len(c) : /\ Open(c, in0, p) <=> side
                     /\ p \notin Flips(c, in0) /\ p - 1 \notin Flips(c, in0)}

LEMMA TagsFacts ==
  ASSUME NEW c \in Seq(Atoms)
  PROVE  /\ \A h : Tags(c, h) \in SUBSET (1..(Len(c) - 1)) /\ Tags(c, h) \in SUBSET Nat
         /\ \A q \in Tags(c, "o1") : c[q] = "o1" /\ c[q + 1] = "o2"
         /\ \A q \in Tags(c, "c1") : c[q] = "c1" /\ c[q + 1] = "c2"
         /\ \A q \in Tags(c, "o1") : q \notin Tags(c, "c1")
         /\ \A q \in Tags(c, "o1") \cup Tags(c, "c1") :
              q + 1 \notin Tags(c, "o1") /\ q + 1 \notin Tags(c, "c1")
         /\ Len(c) \in Nat
BY DEF Tags

LEMMA OpenStep ==
  ASSUME NEW c \in Seq(Atoms), NEW in0 \in BOOLEAN, NEW p \in Nat
  PROVE  /\ p \in Tags(c, "o1") => Open(c, in0, p + 1)
         /\ p \in Tags(c, "c1") => ~Open(c, in0, p + 1)
         /\ p \notin Tags(c, "o1") \cup Tags(c, "c1") => (Open(c, in0, p + 1) <=> Open(c, in0, p))
<1> DEFINE O == Tags(c, "o1")
           C == Tags(c, "c1")
<1>1. O \in SUBSET Nat /\ C \in SUBSET Nat /\ \A q \in O : q \notin C
  BY TagsFacts
<1>2. \A t : Open(c, in0, t) <=> \/ \E q \in O : q < t /\ \A r \in C : ~(q < r /\ r < t)
                                 \/ in0 /\ \A r \in C : ~(r < t)
  BY DEF Open
<1> HIDE DEF O, C
<1>3. ASSUME p \in O PROVE Open(c, in0, p + 1)
  <2>1. p < p + 1 /\ \A r \in C : ~(p < r /\ r < p + 1)
    BY <1>1
  <2> QED
    BY <1>2, <1>3, <2>1
<1>4. ASSUME p \in C PROVE ~Open(c, in0, p + 1)
  <2>1. p < p + 1 /\ \A q \in O : q < p + 1 => q < p
    BY <1>1, <1>4
  <2> QED
    BY <1>2, <1>4, <2>1
<1>5. ASSUME p \notin O, p \notin C PROVE Open(c, in0, p + 1) <=> Open(c, in0, p)
  <2>1. /\ \A q \in O : q < p + 1 <=> q < p
        /\ \A r \in C : r < p + 1 <=> r < p
    BY <1>1, <1>5
  <2> QED
    BY <1>2, <2>1
<1> QED
  BY <1>3, <1>4, <1>5 DEF O, C

\* No tag that changes sides, no change.
LEMMA OpenStays ==
  ASSUME NEW c \in Seq(Atoms), NEW in0 \in BOOLEAN, NEW in \in BOOLEAN,
         NEW i \in Nat, NEW p \in Nat, i <= p, Open(c, in0, i) <=> in,
         \A q \in Tags(c, Mark(in)) : ~(i <= q /\ q < p)
  PROVE  Open(c, in0, p) <=> in
<1> DEFINE O == Tags(c, "o1")
           C == Tags(c, "c1")
<1>1. O \in SUBSET Nat /\ C \in SUBSET Nat
  BY TagsFacts
<1>2. \A t : Open(c, in0, t) <=> \/ \E q \in O : q < t /\ \A r \in C : ~(q < r /\ r < t)
                                 \/ in0 /\ \A r \in C : ~(r < t)
  BY DEF Open
<1>3. (in => \A q \in C : ~(i <= q /\ q < p)) /\ (~in => \A q \in O : ~(i <= q /\ q < p))
  BY DEF Mark
<1> HIDE DEF O, C
<1>4. CASE in
  <2>1. \A r \in C : r < p => r < i
    BY <1>1, <1>3, <1>4
  <2>2. \A q \in O : q < i => q < p
    BY <1>1
  <2> QED
    BY <1>2, <1>4, <2>1, <2>2
<1>5. CASE ~in
  <2>1. \A q \in O : q < p => q < i
    BY <1>1, <1>3, <1>5
  <2>2. \A r \in C : r < i => r < p
    BY <1>1
  <2> QED
    BY <1>2, <1>5, <2>1, <2>2
<1> QED
  BY <1>4, <1>5

\* The starts where the split is on the right side.
Rights(c, in0) == {at \in Starts(c) : (Open(c, in0, at[1]) <=> at[2]) /\ at[1] - 1 \notin Flips(c, in0)}

\* From such a start up to the next tag the places are on the side of the start.
LEMMA RightPiece ==
  ASSUME NEW c \in Seq(Atoms), NEW in0 \in BOOLEAN, NEW side \in BOOLEAN,
         NEW i \in 1..(Len(c) + 1), NEW in \in BOOLEAN, <<i, in>> \in Rights(c, in0),
         NEW k \in i..(Len(c) + 1), \A q \in Tags(c, Mark(in)) : ~(i <= q /\ q < k),
         NEW A, \A j \in 1..Len(c) : c[j] \notin A
  PROVE  Keeps(c, {KindOf(side)}, A, Shows(c, in0, side), in, i, k)
<1>1. (Open(c, in0, i) <=> in) /\ i - 1 \notin Flips(c, in0)
  BY DEF Rights
<1>2. Len(c) \in Nat /\ i \in Nat /\ k \in Nat
  OBVIOUS
<1>3. ASSUME NEW j \in Nat, i <= j, j <= k PROVE Open(c, in0, j) <=> in
  <2>1. \A q \in Tags(c, Mark(in)) : ~(i <= q /\ q < j)
    <3>1. \A q \in Tags(c, Mark(in)) : q \in Nat
      BY TagsFacts
    <3> QED
      BY <1>2, <1>3, <3>1
  <2> QED
    BY <1>1, <1>2, <1>3, <2>1, OpenStays
<1>4. ASSUME NEW j \in Nat, i <= j, j < k PROVE j \notin Flips(c, in0)
  <2>1. Open(c, in0, j) <=> in
    BY <1>2, <1>3, <1>4
  <2>2. j \notin Tags(c, Mark(in))
    BY <1>4
  <2> QED
    BY <2>1, <2>2 DEF Flips, Mark
<1>5. ASSUME NEW j \in i..(k - 1)
      PROVE  j \in Shows(c, in0, side) <=> KindOf(in) \in {KindOf(side)} /\ c[j] \notin A
  <2>1. j \in 1..Len(c) /\ j \in Nat /\ i <= j /\ j < k /\ j <= k
    BY <1>2
  <2>2. (Open(c, in0, j) <=> in) /\ j \notin Flips(c, in0) /\ c[j] \notin A
    BY <1>3, <1>4, <2>1
  <2>3. j - 1 \notin Flips(c, in0)
    <3>1. CASE j = i
      BY <1>1, <3>1
    <3>2. CASE j # i
      <4>1. j - 1 \in Nat /\ i <= j - 1 /\ j - 1 < k
        BY <1>2, <2>1, <3>2
      <4> QED
        BY <1>4, <4>1
    <3> QED
      BY <3>1, <3>2
  <2>4. KindOf(in) = KindOf(side) <=> (in <=> side)
    BY DEF KindOf
  <2> QED
    BY <2>1, <2>2, <2>3, <2>4 DEF Shows
<1> QED
  BY <1>5 DEF Keeps

\* A tag that is found changes sides, and the split goes on behind it on the other side.
LEMMA RightTag ==
  ASSUME NEW c \in Seq(Atoms), NEW in0 \in BOOLEAN,
         NEW i \in 1..(Len(c) + 1), NEW in \in BOOLEAN, <<i, in>> \in Rights(c, in0),
         NEW k, k = IndexOf(c, Mark(in), i), k # 0
  PROVE  k \in Flips(c, in0) /\ <<k + 2, ~in>> \in Rights(c, in0)
<1>1. /\ k \in Tags(c, Mark(in)) /\ k \in i..(Len(c) + 1) /\ <<k + 2, ~in>> \in Starts(c)
      /\ \A q \in Tags(c, Mark(in)) : q >= i => k <= q
  BY Found
<1>2. Open(c, in0, i) <=> in
  BY DEF Rights
<1>3. Len(c) \in Nat /\ i \in Nat /\ k \in Nat /\ i <= k /\ k + 1 \in Nat /\ (k + 1) + 1 = k + 2 /\ (k + 2) - 1 = k + 1
  BY <1>1
<1>4. Open(c, in0, k) <=> in
  <2>1. \A q \in Tags(c, Mark(in)) : ~(i <= q /\ q < k)
    <3>1. \A q \in Tags(c, Mark(in)) : q \in Nat
      BY TagsFacts
    <3> QED
      BY <1>1, <1>3, <3>1
  <2> QED
    BY <1>2, <1>3, <2>1, OpenStays
<1>5. k \in Flips(c, in0)
  BY <1>1, <1>4 DEF Flips, Mark
<1>6. Open(c, in0, k + 1) <=> ~in
  BY <1>1, <1>3, OpenStep DEF Mark
<1>7. k + 1 \notin Tags(c, "o1") /\ k + 1 \notin Tags(c, "c1")
  BY <1>1, TagsFacts DEF Mark
<1>8. Open(c, in0, k + 2) <=> ~in
  <2>1. Open(c, in0, (k + 1) + 1) <=> Open(c, in0, k + 1)
    BY <1>3, <1>7, OpenStep
  <2> QED
    BY <1>3, <1>6, <2>1
<1>9. k + 1 \notin Flips(c, in0)
  BY <1>7 DEF Flips
<1>10. <<k + 2, ~in>> \in Rights(c, in0)
  <2> DEFINE at == <<k + 2, ~in>>
  <2>1. at \in Starts(c) /\ at[1] = k + 2 /\ at[2] = ~in
    BY <1>1
  <2>2. (Open(c, in0, at[1]) <=> at[2]) /\ at[1] - 1 \notin Flips(c, in0)
    BY <1>3, <1>8, <1>9, <2>1
  <2> HIDE DEF at
  <2>3. at \in Rights(c, in0)
    BY <2>1, <2>2 DEF Rights
  <2> QED
    BY <2>3 DEF at
<1> QED
  BY <1>5, <1>10

\* From the first place on is everywhere.
LEMMA FromFirst ==
  ASSUME NEW s, NEW P
  PROVE  SelectAt(s, From(P, 1)) = SelectAt(s, P)
<1>1. \A i \in 1..Len(s) : i \in From(P, 1) <=> i \in P
  BY DEF From
<1> QED
  BY <1>1, SelectSame

LEMMA RightStart ==
  ASSUME NEW c \in Seq(Atoms), NEW in0 \in BOOLEAN
  PROVE  <<1, in0>> \in Rights(c, in0)
<1>1. (\A h : Tags(c, h) \in SUBSET (1..(Len(c) - 1))) /\ Len(c) \in Nat
  BY TagsFacts
<1>2. \A h : \A q \in Tags(c, h) : ~(q < 1) /\ q # 0
  BY <1>1
<1>3. (Open(c, in0, 1) <=> in0) /\ 0 \notin Flips(c, in0)
  BY <1>2 DEF Open, Flips
<1> DEFINE at == <<1, in0>>
<1>4. at \in Starts(c) /\ at[1] = 1 /\ at[2] = in0 /\ at[1] - 1 = 0
  BY <1>1 DEF Starts
<1> HIDE DEF at
<1>5. at \in Rights(c, in0)
  BY <1>3, <1>4 DEF Rights
<1> QED
  BY <1>5 DEF at

\* A split ends on the side where the text ends, and what it says of a kind is
\* what is shown of it.
LEMMA SplitSound ==
  ASSUME NEW c \in Seq(Atoms), NEW in0 \in BOOLEAN
  PROVE  /\ Split(c, in0) \in Parts
         /\ Split(c, in0).in <=> Open(c, in0, Len(c) + 1)
         /\ \A side \in BOOLEAN, A \in SUBSET {"r"} :
              Without(Text(Split(c, in0).chunks, {KindOf(side)}), A) = SelectAt(c, Shows(c, in0, side))
<1>1. PICK f : /\ Splits(c, f) /\ Split(c, in0) = f[<<1, in0>>]
               /\ \A at \in Starts(c) : f[at] \in Parts
  BY SplitIs
<1>2. <<1, in0>> \in Rights(c, in0) /\ 1 \in 1..(Len(c) + 1) /\ Len(c) \in Nat
  BY RightStart
<1>3. <<1, in0>> \in Starts(c)
  BY <1>2 DEF Starts
<1>4. ASSUME NEW i \in 1..(Len(c) + 1), NEW in \in BOOLEAN, <<i, in>> \in Rights(c, in0),
             IndexOf(c, Mark(in), i) = 0
      PROVE  \A q \in Tags(c, Mark(in)) : ~(i <= q)
  <2>1. \A q \in Tags(c, Mark(in)) : q < i /\ q \in Nat
    <3>1. \A q \in Tags(c, Mark(in)) : q < i
      BY <1>4, IndexFacts
    <3> QED
      BY <3>1, TagsFacts
  <2> QED
    BY <2>1
<1>5. Split(c, in0).in <=> Open(c, in0, Len(c) + 1)
  <2> DEFINE Q == {at \in Starts(c) : f[at].in <=> Open(c, in0, Len(c) + 1)}
  <2>1. ASSUME NEW i \in 1..(Len(c) + 1), NEW in \in BOOLEAN, <<i, in>> \in Rights(c, in0),
               IndexOf(c, Mark(in), i) = 0
        PROVE  <<i, in>> \in Q
    <3>1. f[<<i, in>>].in = in
      <4>1. f[<<i, in>>] = Over(c, in, i)
        BY <1>1, <2>1 DEF Splits
      <4> QED
        BY <4>1 DEF Over
    <3>2. (Open(c, in0, i) <=> in) /\ <<i, in>> \in Starts(c)
      BY <2>1 DEF Rights
    <3>3. \A q \in Tags(c, Mark(in)) : ~(i <= q)
      BY <1>4, <2>1
    <3>4. Open(c, in0, Len(c) + 1) <=> in
      <4>1. i \in Nat /\ Len(c) + 1 \in Nat /\ i <= Len(c) + 1
        BY <1>2
      <4>2. \A q \in Tags(c, Mark(in)) : ~(i <= q /\ q < Len(c) + 1)
        BY <3>3
      <4> QED
        BY <3>2, <4>1, <4>2, OpenStays
    <3> QED
      BY <3>1, <3>2, <3>4
  <2>2. ASSUME NEW i \in 1..(Len(c) + 1), NEW in \in BOOLEAN, <<i, in>> \in Rights(c, in0),
               IndexOf(c, Mark(in), i) # 0
        PROVE  LET k == IndexOf(c, Mark(in), i)
               IN  /\ <<k + 2, ~in>> \in Rights(c, in0)
                   /\ <<k + 2, ~in>> \in Q => <<i, in>> \in Q
    <3> DEFINE k == IndexOf(c, Mark(in), i)
    <3>1. <<k + 2, ~in>> \in Rights(c, in0)
      BY <2>2, RightTag
    <3>2. k \in i..(Len(c) + 1) /\ <<k + 2, ~in>> \in Starts(c)
      BY <2>2, Found
    <3>3. f[<<i, in>>] = More(c, in, i, k, f[<<k + 2, ~in>>])
      BY <1>1, <2>2 DEF Splits
    <3> HIDE DEF k
    <3>4. PICK parts \in Parts : parts = f[<<k + 2, ~in>>]
      BY <1>1, <3>2
    <3>5. More(c, in, i, k, parts).in = parts.in
      BY <3>2, MoreType
    <3>6. <<i, in>> \in Starts(c)
      BY DEF Starts
    <3>7. f[<<i, in>>].in = f[<<k + 2, ~in>>].in
      BY <3>3, <3>4, <3>5
    <3> QED
      BY <3>1, <3>6, <3>7 DEF k
  <2> HIDE DEF Q
  <2>3. Carries(c, Rights(c, in0), Q)
    BY <2>1, <2>2 DEF Carries
  <2>4. <<1, in0>> \in Q
    BY <1>2, <2>3, AlongSplit
  <2> QED
    BY <1>1, <2>4 DEF Q
<1>6. ASSUME NEW side \in BOOLEAN, NEW A \in SUBSET {"r"}
      PROVE  Without(Text(Split(c, in0).chunks, {KindOf(side)}), A) = SelectAt(c, Shows(c, in0, side))
  <2> DEFINE P == Shows(c, in0, side)
             K == {KindOf(side)}
  <2>1. P \in SUBSET Nat
    BY DEF Shows
  <2>2. \A j \in 1..Len(c) : c[j] \notin A
    <3>1. \A x \in Atoms : x \notin A
      BY DEF Atoms
    <3> QED
      BY <3>1
  <2>3. ASSUME NEW i \in 1..(Len(c) + 1), NEW in \in BOOLEAN, <<i, in>> \in Rights(c, in0),
               IndexOf(c, Mark(in), i) = 0
        PROVE  Keeps(c, K, A, P, in, i, Len(c) + 1)
    <3>1. PICK e \in i..(Len(c) + 1) : e = Len(c) + 1
      BY <1>2
    <3>2. \A q \in Tags(c, Mark(in)) : ~(i <= q /\ q < e)
      BY <1>4, <2>3
    <3>3. Keeps(c, K, A, P, in, i, e)
      BY <2>2, <2>3, <3>2, RightPiece
    <3> QED
      BY <3>1, <3>3
  <2>4. ASSUME NEW i \in 1..(Len(c) + 1), NEW in \in BOOLEAN, <<i, in>> \in Rights(c, in0),
               IndexOf(c, Mark(in), i) # 0
        PROVE  LET k == IndexOf(c, Mark(in), i)
               IN  /\ Keeps(c, K, A, P, in, i, k) /\ k \notin P /\ k + 1 \notin P
                   /\ <<k + 2, ~in>> \in Rights(c, in0)
    <3> DEFINE k == IndexOf(c, Mark(in), i)
    <3>1. /\ k \in i..(Len(c) + 1) /\ k \in 1..Len(c)
          /\ \A q \in Tags(c, Mark(in)) : q >= i => k <= q
      BY <2>4, Found
    <3>2. k \in Flips(c, in0) /\ <<k + 2, ~in>> \in Rights(c, in0)
      BY <2>4, RightTag
    <3> HIDE DEF k, K, P
    <3>3. \A q \in Tags(c, Mark(in)) : ~(i <= q /\ q < k)
      <4>1. \A q \in Tags(c, Mark(in)) : q \in Nat
        BY TagsFacts
      <4> QED
        BY <1>2, <3>1, <4>1
    <3>4. Keeps(c, K, A, P, in, i, k)
      BY <2>2, <2>4, <3>1, <3>3, RightPiece DEF K, P
    <3>5. (k + 1) - 1 = k
      BY <3>1
    <3>6. k \notin P /\ k + 1 \notin P
      BY <3>2, <3>5 DEF Shows, P
    <3> QED
      BY <3>2, <3>4, <3>6 DEF k
  <2> HIDE DEF P, K
  <2>5. Walks(c, Rights(c, in0), K, A, P)
    BY <2>3, <2>4 DEF Walks
  <2>6. Says(f, 1, in0, K, A) = SelectAt(c, From(P, 1))
    <3>1. \A i \in 1..(Len(c) + 1), in \in BOOLEAN :
            <<i, in>> \in Rights(c, in0) => Says(f, i, in, K, A) = SelectAt(c, From(P, i))
      BY <1>1, <2>1, <2>5, SplitText
    <3> QED
      BY <1>2, <3>1
  <2> QED
    BY <1>1, <2>6, FromFirst DEF Says, P, K
<1> QED
  BY <1>1, <1>3, <1>5, <1>6

Kinds == {"thinking", "content"}

\* A split drops nothing but the tags.
LEMMA SplitWhole ==
  ASSUME NEW c \in Seq(Atoms), NEW in0 \in BOOLEAN
  PROVE  Without(Text(Split(c, in0).chunks, Kinds), Halves) = Without(c, Halves)
<1>1. PICK f : /\ Splits(c, f) /\ Split(c, in0) = f[<<1, in0>>]
               /\ \A at \in Starts(c) : f[at] \in Parts
  BY SplitIs
<1> DEFINE P == {i \in 1..Len(c) : c[i] \notin Halves}
<1>2. Len(c) \in Nat /\ 1 \in 1..(Len(c) + 1) /\ <<1, in0>> \in Starts(c) /\ P \in SUBSET Nat
  BY DEF Starts
<1>3. \A in \in BOOLEAN : KindOf(in) \in Kinds
  BY DEF KindOf, Kinds
<1>4. ASSUME NEW i \in 1..(Len(c) + 1), NEW in \in BOOLEAN, NEW k \in i..(Len(c) + 1)
      PROVE  Keeps(c, Kinds, Halves, P, in, i, k)
  <2>1. \A j \in i..(k - 1) : j \in 1..Len(c)
    BY <1>2
  <2> QED
    BY <1>3, <2>1 DEF Keeps
<1>5. ASSUME NEW i \in 1..(Len(c) + 1), NEW in \in BOOLEAN, IndexOf(c, Mark(in), i) # 0
      PROVE  LET k == IndexOf(c, Mark(in), i)
             IN  /\ k \in i..(Len(c) + 1) /\ <<k + 2, ~in>> \in Starts(c)
                 /\ k \notin P /\ k + 1 \notin P
  <2> DEFINE k == IndexOf(c, Mark(in), i)
  <2>1. k \in Tags(c, Mark(in)) /\ k \in i..(Len(c) + 1) /\ <<k + 2, ~in>> \in Starts(c)
    BY <1>5, Found
  <2> HIDE DEF k
  <2>2. c[k] \in Halves /\ c[k + 1] \in Halves
    BY <2>1, TagsFacts DEF Mark, Halves
  <2> QED
    BY <2>1, <2>2 DEF k
<1>6. \A i \in 1..(Len(c) + 1) : Len(c) + 1 \in i..(Len(c) + 1)
  BY <1>2
<1> HIDE DEF P
<1>7. Walks(c, Starts(c), Kinds, Halves, P)
  BY <1>4, <1>5, <1>6 DEF Walks
<1>8. Says(f, 1, in0, Kinds, Halves) = SelectAt(c, From(P, 1))
  BY <1>1, <1>2, <1>7, SplitText
<1> QED
  BY <1>1, <1>8, FromFirst DEF Says, P, Without

-----------------------------------------------------------------------------

\* A text whose last tag is not cut.
Ends(s) == Len(s) > 0 => s[Len(s)] \notin {"o1", "c1"}

LEMMA TagsCat ==
  ASSUME NEW s \in Seq(Atoms), NEW c \in Seq(Atoms), Ends(s), NEW h \in {"o1", "c1"}
  PROVE  /\ \A p \in Nat : p <= Len(s) => (p \in Tags(s \o c, h) <=> p \in Tags(s, h))
         /\ \A j \in Nat : j >= 1 => (Len(s) + j \in Tags(s \o c, h) <=> j \in Tags(c, h))
         /\ Len(s) \notin Tags(s, h)
<1> DEFINE t == s \o c
           e == IF h = "o1" THEN "o2" ELSE "c2"
<1>1. /\ Len(s) \in Nat /\ Len(c) \in Nat /\ Len(t) = Len(s) + Len(c)
      /\ \A i \in 1..Len(s) + Len(c) : t[i] = IF i <= Len(s) THEN s[i] ELSE c[i - Len(s)]
  BY ConcatProperties
<1>2. /\ \A p : p \in Tags(t, h) <=> p \in 1..(Len(t) - 1) /\ t[p] = h /\ t[p + 1] = e
      /\ \A p : p \in Tags(s, h) <=> p \in 1..(Len(s) - 1) /\ s[p] = h /\ s[p + 1] = e
      /\ \A p : p \in Tags(c, h) <=> p \in 1..(Len(c) - 1) /\ c[p] = h /\ c[p + 1] = e
  BY DEF Tags
<1>3. \A p \in 1..Len(s) : t[p] = s[p]
  BY <1>1
<1>4. ASSUME NEW j \in 1..Len(c) PROVE t[Len(s) + j] = c[j]
  <2>1. Len(s) + j \in 1..Len(s) + Len(c) /\ ~(Len(s) + j <= Len(s)) /\ Len(s) + j - Len(s) = j
    BY <1>1
  <2> QED
    BY <1>1, <2>1
<1> HIDE DEF t, e
<1>5. ASSUME NEW p \in Nat, p <= Len(s) PROVE p \in Tags(t, h) <=> p \in Tags(s, h)
  <2>1. CASE p < Len(s)
    <3>1. p \in 1..(Len(t) - 1) <=> p \in 1..(Len(s) - 1)
      BY <1>1, <2>1
    <3>2. ASSUME p \in 1..(Len(s) - 1) PROVE t[p] = s[p] /\ t[p + 1] = s[p + 1]
      <4>1. p \in 1..Len(s) /\ p + 1 \in 1..Len(s)
        BY <1>1, <3>2
      <4> QED
        BY <1>3, <4>1
    <3> QED
      BY <1>2, <3>1, <3>2
  <2>2. CASE p = Len(s)
    <3>1. p \notin 1..(Len(s) - 1)
      BY <1>1, <2>2
    <3>2. p \in 1..(Len(t) - 1) => Len(s) > 0 /\ p \in 1..Len(s)
      BY <1>1, <2>2
    <3>3. p \in 1..(Len(t) - 1) => t[p] # h
      BY <1>3, <2>2, <3>2 DEF Ends
    <3> QED
      BY <1>2, <3>1, <3>3
  <2> QED
    BY <1>1, <1>5, <2>1, <2>2
<1>6. ASSUME NEW j \in Nat, j >= 1 PROVE Len(s) + j \in Tags(t, h) <=> j \in Tags(c, h)
  <2>1. Len(s) + j \in 1..(Len(t) - 1) <=> j \in 1..(Len(c) - 1)
    BY <1>1, <1>6
  <2>2. ASSUME j \in 1..(Len(c) - 1) PROVE t[Len(s) + j] = c[j] /\ t[Len(s) + j + 1] = c[j + 1]
    <3>1. j \in 1..Len(c) /\ j + 1 \in 1..Len(c) /\ Len(s) + j + 1 = Len(s) + (j + 1)
      BY <1>1, <2>2
    <3> QED
      BY <1>4, <3>1
  <2> QED
    BY <1>2, <2>1, <2>2
<1>7. Len(s) \notin Tags(s, h)
  BY <1>1, <1>2
<1> QED
  BY <1>5, <1>6, <1>7 DEF t

LEMMA OpenCat ==
  ASSUME NEW s \in Seq(Atoms), NEW c \in Seq(Atoms), Ends(s), NEW in0 \in BOOLEAN,
         in0 <=> Open(s, FALSE, Len(s) + 1)
  PROVE  /\ \A p \in Nat : p <= Len(s) => (Open(s \o c, FALSE, p) <=> Open(s, FALSE, p))
         /\ \A j \in Nat : j >= 1 => (Open(s \o c, FALSE, Len(s) + j) <=> Open(c, in0, j))
<1> DEFINE t == s \o c
           n == Len(s)
           Ot == Tags(t, "o1")
           Ct == Tags(t, "c1")
           Os == Tags(s, "o1")
           Cs == Tags(s, "c1")
           Oc == Tags(c, "o1")
           Cc == Tags(c, "c1")
<1>1. /\ \A p \in Nat : p <= n => (p \in Ot <=> p \in Os)
      /\ \A j \in Nat : j >= 1 => (n + j \in Ot <=> j \in Oc)
  BY TagsCat
<1>2. /\ \A p \in Nat : p <= n => (p \in Ct <=> p \in Cs)
      /\ \A j \in Nat : j >= 1 => (n + j \in Ct <=> j \in Cc)
  BY TagsCat
<1>3. n \in Nat /\ \A q \in Os \cup Cs : q \in Nat /\ q >= 1 /\ q <= n
  BY TagsFacts
<1>4. \A q \in Oc \cup Cc : q \in Nat /\ q >= 1
  BY TagsFacts
<1>5. \A q \in Ot \cup Ct : q \in Nat /\ q >= 1
  <2>1. s \o c \in Seq(Atoms)
    <3> DEFINE X == Atoms
    <3>1. s \in Seq(X) /\ c \in Seq(X)
      OBVIOUS
    <3> HIDE DEF X
    <3>2. s \o c \in Seq(X)
      BY <3>1, ConcatProperties
    <3> QED
      BY <3>2 DEF X
  <2>2. PICK u \in Seq(Atoms) : u = s \o c
    BY <2>1
  <2>3. \A h : \A q \in Tags(u, h) : q \in Nat /\ q >= 1
    BY TagsFacts
  <2> QED
    BY <2>2, <2>3
<1>6. \A p : Open(t, FALSE, p) <=> \E q \in Ot : q < p /\ \A r \in Ct : ~(q < r /\ r < p)
  BY DEF Open
<1>7. \A p : Open(s, FALSE, p) <=> \E q \in Os : q < p /\ \A r \in Cs : ~(q < r /\ r < p)
  BY DEF Open
<1>8. \A p : Open(c, in0, p) <=> \/ \E q \in Oc : q < p /\ \A r \in Cc : ~(q < r /\ r < p)
                                 \/ in0 /\ \A r \in Cc : ~(r < p)
  BY DEF Open
<1>9. in0 <=> Open(s, FALSE, n + 1)
  OBVIOUS
<1> HIDE DEF t, n, Ot, Ct, Os, Cs, Oc, Cc
<1>10. ASSUME NEW p \in Nat, p <= n PROVE Open(t, FALSE, p) <=> Open(s, FALSE, p)
  <2>1. \A q \in Nat : q < p => (q \in Ot <=> q \in Os) /\ (q \in Ct <=> q \in Cs)
    <3>1. \A q \in Nat : q < p => q <= n
      BY <1>3, <1>10
    <3> QED
      BY <1>1, <1>2, <3>1
  <2> QED
    BY <1>3, <1>5, <1>6, <1>7, <2>1
<1>11. ASSUME NEW j \in Nat, j >= 1 PROVE Open(t, FALSE, n + j) <=> Open(c, in0, j)
  <2>1. ASSUME NEW q \in Ot, q < n + j, \A r \in Ct : ~(q < r /\ r < n + j)
        PROVE  Open(c, in0, j)
    <3>0. q \in Nat /\ q >= 1
      BY <1>5
    <3>1. CASE q <= n
      <4>1. q \in Os /\ q < n + 1
        BY <1>1, <1>3, <3>0, <3>1
      <4>2. \A r \in Cs : ~(q < r /\ r < n + 1)
        <5> SUFFICES ASSUME NEW r \in Cs, q < r PROVE FALSE
          OBVIOUS
        <5>1. r \in Nat /\ r <= n /\ r \in Ct
          BY <1>2, <1>3
        <5>2. r < n + j
          BY <1>3, <1>11, <5>1
        <5> QED
          BY <2>1, <5>1, <5>2
      <4>3. in0
        BY <1>7, <1>9, <4>1, <4>2
      <4>4. \A r \in Cc : ~(r < j)
        <5> SUFFICES ASSUME NEW r \in Cc, r < j PROVE FALSE
          OBVIOUS
        <5>1. r \in Nat /\ r >= 1 /\ n + r \in Ct
          BY <1>2, <1>4
        <5>2. q < n + r /\ n + r < n + j
          BY <1>3, <3>0, <3>1, <5>1
        <5> QED
          BY <2>1, <5>1, <5>2
      <4> QED
        BY <1>8, <4>3, <4>4
    <3>2. CASE ~(q <= n)
      <4>1. PICK d \in Nat : d = q - n /\ d >= 1 /\ n + d = q
        BY <1>3, <3>0, <3>2
      <4>2. d \in Oc /\ d < j
        BY <1>1, <1>3, <2>1, <4>1
      <4>3. \A r \in Cc : ~(d < r /\ r < j)
        <5> SUFFICES ASSUME NEW r \in Cc, d < r, r < j PROVE FALSE
          OBVIOUS
        <5>1. r \in Nat /\ r >= 1 /\ n + r \in Ct
          BY <1>2, <1>4
        <5>2. q < n + r /\ n + r < n + j
          BY <1>3, <4>1, <5>1
        <5> QED
          BY <2>1, <5>1, <5>2
      <4> QED
        BY <1>8, <4>2, <4>3
    <3> QED
      BY <3>1, <3>2
  <2>2. ASSUME NEW q \in Oc, q < j, \A r \in Cc : ~(q < r /\ r < j)
        PROVE  Open(t, FALSE, n + j)
    <3>1. q \in Nat /\ q >= 1 /\ n + q \in Ot /\ n + q < n + j
      BY <1>1, <1>3, <1>4, <2>2, SMTT(30)
    <3>2. \A r \in Ct : ~(n + q < r /\ r < n + j)
      <4> SUFFICES ASSUME NEW r \in Ct, n + q < r, r < n + j PROVE FALSE
        OBVIOUS
      <4>1. r \in Nat
        BY <1>5
      <4>2. PICK d \in Nat : d >= 1 /\ n + d = r /\ q < d /\ d < j
        <5>1. r - n \in Nat /\ r - n >= 1 /\ n + (r - n) = r /\ q < r - n /\ r - n < j
          BY <1>3, <3>1, <4>1
        <5> QED
          BY <5>1
      <4>3. d \in Cc
        BY <1>2, <4>2
      <4> QED
        BY <2>2, <4>2, <4>3
    <3> QED
      BY <1>6, <3>1, <3>2
  <2>3. ASSUME in0, \A r \in Cc : ~(r < j)
        PROVE  Open(t, FALSE, n + j)
    <3>1. PICK q \in Os : q < n + 1 /\ \A r \in Cs : ~(q < r /\ r < n + 1)
      BY <1>7, <1>9, <2>3
    <3>2. q \in Nat /\ q <= n /\ q \in Ot /\ q < n + j
      BY <1>1, <1>3, <1>11
    <3>3. \A r \in Ct : ~(q < r /\ r < n + j)
      <4> SUFFICES ASSUME NEW r \in Ct, q < r, r < n + j PROVE FALSE
        OBVIOUS
      <4>1. r \in Nat
        BY <1>5
      <4>2. CASE r <= n
        <5>1. r \in Cs /\ r < n + 1
          BY <1>2, <1>3, <4>1, <4>2
        <5> QED
          BY <3>1, <5>1
      <4>3. CASE ~(r <= n)
        <5>1. r - n \in Nat /\ r - n >= 1 /\ n + (r - n) = r /\ r - n < j
          BY <1>3, <4>1, <4>3
        <5>2. r - n \in Cc
          BY <1>2, <5>1
        <5> QED
          BY <2>3, <5>1, <5>2
      <4> QED
        BY <4>2, <4>3
    <3> QED
      BY <1>6, <3>2, <3>3
  <2> QED
    BY <1>6, <1>8, <2>1, <2>2, <2>3
<1> QED
  BY <1>10, <1>11 DEF t, n

LEMMA FlipsCat ==
  ASSUME NEW s \in Seq(Atoms), NEW c \in Seq(Atoms), Ends(s), NEW in0 \in BOOLEAN,
         in0 <=> Open(s, FALSE, Len(s) + 1)
  PROVE  /\ \A p \in Nat : p <= Len(s) => (p \in Flips(s \o c, FALSE) <=> p \in Flips(s, FALSE))
         /\ \A j \in Nat : Len(s) + j \in Flips(s \o c, FALSE) <=> j \in Flips(c, in0)
<1> DEFINE t == s \o c
           n == Len(s)
<1>1. /\ \A p \in Nat : p <= n => (p \in Tags(t, "o1") <=> p \in Tags(s, "o1"))
      /\ \A j \in Nat : j >= 1 => (n + j \in Tags(t, "o1") <=> j \in Tags(c, "o1"))
      /\ n \notin Tags(s, "o1")
  BY TagsCat
<1>2. /\ \A p \in Nat : p <= n => (p \in Tags(t, "c1") <=> p \in Tags(s, "c1"))
      /\ \A j \in Nat : j >= 1 => (n + j \in Tags(t, "c1") <=> j \in Tags(c, "c1"))
      /\ n \notin Tags(s, "c1")
  BY TagsCat
<1>3. /\ \A p \in Nat : p <= n => (Open(t, FALSE, p) <=> Open(s, FALSE, p))
      /\ \A j \in Nat : j >= 1 => (Open(t, FALSE, n + j) <=> Open(c, in0, j))
  BY OpenCat, ZenonT(30)
<1>4. n \in Nat /\ n <= n /\ n + 0 = n
  OBVIOUS
<1>5. 0 \notin Tags(c, "o1") /\ 0 \notin Tags(c, "c1")
  BY TagsFacts
<1> HIDE DEF t, n
<1>6. ASSUME NEW p \in Nat, p <= n PROVE p \in Flips(t, FALSE) <=> p \in Flips(s, FALSE)
  BY <1>1, <1>2, <1>3, <1>6 DEF Flips
<1>7. ASSUME NEW j \in Nat PROVE n + j \in Flips(t, FALSE) <=> j \in Flips(c, in0)
  <2>1. CASE j = 0
    <3>1. n \notin Flips(t, FALSE)
      BY <1>1, <1>2, <1>4 DEF Flips
    <3>2. j \notin Flips(c, in0)
      BY <1>5, <2>1 DEF Flips
    <3> QED
      BY <1>4, <2>1, <3>1, <3>2
  <2>2. CASE j # 0
    <3>1. j >= 1
      BY <2>2
    <3> QED
      BY <1>1, <1>2, <1>3, <3>1 DEF Flips
  <2> QED
    BY <2>1, <2>2
<1> QED
  BY <1>6, <1>7 DEF t, n

\* What is shown of two texts in a row.
LEMMA ShownCat ==
  ASSUME NEW s \in Seq(Atoms), NEW c \in Seq(Atoms), Ends(s), NEW in0 \in BOOLEAN,
         in0 <=> Open(s, FALSE, Len(s) + 1), NEW side \in BOOLEAN
  PROVE  SelectAt(s \o c, Shows(s \o c, FALSE, side))
           = SelectAt(s, Shows(s, FALSE, side)) \o SelectAt(c, Shows(c, in0, side))
<1> DEFINE t == s \o c
           n == Len(s)
           P == Shows(t, FALSE, side)
<1>1. /\ \A p \in Nat : p <= n => (p \in Flips(t, FALSE) <=> p \in Flips(s, FALSE))
      /\ \A j \in Nat : n + j \in Flips(t, FALSE) <=> j \in Flips(c, in0)
  BY FlipsCat
<1>2. /\ \A p \in Nat : p <= n => (Open(t, FALSE, p) <=> Open(s, FALSE, p))
      /\ \A j \in Nat : j >= 1 => (Open(t, FALSE, n + j) <=> Open(c, in0, j))
  BY OpenCat, ZenonT(30)
<1>3. n \in Nat /\ Len(c) \in Nat /\ Len(t) = n + Len(c)
  BY ConcatProperties
<1>4. SelectAt(t, P) = SelectAt(s, P) \o SelectAt(c, Shift(P, n))
  BY SelectCat
<1> HIDE DEF t, n
<1>5. SelectAt(s, P) = SelectAt(s, Shows(s, FALSE, side))
  <2>1. ASSUME NEW i \in 1..n PROVE i \in P <=> i \in Shows(s, FALSE, side)
    <3>1. i \in Nat /\ i <= n /\ i - 1 \in Nat /\ i - 1 <= n /\ i \in 1..Len(t)
      BY <1>3
    <3> QED
      BY <1>1, <1>2, <3>1 DEF Shows, n
  <2> HIDE DEF P
  <2> QED
    BY <2>1, SelectSame DEF n
<1>6. SelectAt(c, Shift(P, n)) = SelectAt(c, Shows(c, in0, side))
  <2>1. ASSUME NEW j \in 1..Len(c) PROVE j \in Shift(P, n) <=> j \in Shows(c, in0, side)
    <3>1. j \in Nat /\ j >= 1 /\ n + j \in 1..Len(t) /\ j - 1 \in Nat /\ (n + j) - 1 = n + (j - 1)
      BY <1>3
    <3>2. j \in Shift(P, n) <=> n + j \in P
      BY <3>1 DEF Shift
    <3>3. n + j \in P <=> j \in Shows(c, in0, side)
      BY <1>1, <1>2, <3>1 DEF Shows
    <3> QED
      BY <3>2, <3>3
  <2> QED
    BY <2>1, SelectSame
<1> QED
  BY <1>4, <1>5, <1>6 DEF t, P, n

\* The reference is what is shown of the text.
LEMMA ReferenceIs ==
  ASSUME NEW t \in Seq(Atoms), NEW side \in BOOLEAN
  PROVE  Reference(t, side) = SelectAt(t, Shows(t, FALSE, side))
<1> DEFINE opens  == Tags(t, "o1")
           closes == Tags(t, "c1")
           inside == {p \in 1..Len(t) :
                        \E q \in opens : q < p /\ ~\E r \in closes : q < r /\ r < p}
           shown  == IF side THEN inside ELSE (1..Len(t)) \ inside
           marks  == (opens \ inside) \cup (closes \cap inside)
           places == shown \ (marks \cup {p + 1 : p \in marks})
<1>1. Reference(t, side) = SelectAt(t, places)
  BY DEF Reference
<1>2. /\ opens \in SUBSET (1..(Len(t) - 1)) /\ closes \in SUBSET (1..(Len(t) - 1))
      /\ Len(t) \in Nat
  BY TagsFacts
<1>3. ASSUME NEW p \in 1..Len(t) PROVE p \in inside <=> Open(t, FALSE, p)
  BY DEF Open
<1>4. \A q \in opens \cup closes : q \in 1..Len(t)
  BY <1>2
<1> HIDE DEF inside
<1>5. \A q : q \in marks <=> q \in Flips(t, FALSE)
  BY <1>3, <1>4 DEF Flips
<1>6. \A q \in marks : q \in Nat
  BY <1>4
<1> HIDE DEF marks, opens, closes
<1>7. ASSUME NEW p \in 1..Len(t) PROVE p \in places <=> p \in Shows(t, FALSE, side)
  <2>1. p \in {q + 1 : q \in marks} <=> p - 1 \in marks
    <3>1. ASSUME NEW q \in marks, p = q + 1 PROVE p - 1 \in marks
      <4>1. p - 1 = q
        BY <1>6, <3>1
      <4> QED
        BY <4>1
    <3>2. (p - 1) + 1 = p
      BY <1>2
    <3> QED
      BY <3>1, <3>2
  <2>2. p \in shown <=> (Open(t, FALSE, p) <=> side)
    BY <1>3
  <2> QED
    BY <1>5, <2>1, <2>2 DEF Shows
<1> QED
  BY <1>1, <1>7, SelectSame

\* The values of g along a sequence, one after the other.
Joined(s, g) == FlattenSeq([i \in 1..Len(s) |-> g[s[i]]])

LEMMA JoinedFacts ==
  ASSUME NEW X, NEW Z, NEW g \in [X -> Seq(Z)], NEW s \in Seq(X), NEW x \in X
  PROVE  /\ Joined(<<>>, g) = <<>> /\ Joined(s, g) \in Seq(Z)
         /\ Joined(Append(s, x), g) = Joined(s, g) \o g[x]
<1> DEFINE Y == Seq(Z)
           m == [i \in 1..Len(s) |-> g[s[i]]]
           t == Append(s, x)
           mt == [i \in 1..Len(t) |-> g[t[i]]]
<1>1. g \in [X -> Y]
  OBVIOUS
<1>2. Joined(<<>>, g) = <<>>
  <2>1. [i \in 1..Len(<<>>) |-> g[<<>>[i]]] = <<>> /\ FlattenSeq(<<>>) = <<>>
    BY DEF FlattenSeq
  <2> QED
    BY <2>1 DEF Joined
<1> HIDE DEF Y
<1>3. /\ Len(s) \in Nat /\ t \in Seq(X) /\ Len(t) = Len(s) + 1 /\ t[Len(s) + 1] = x
      /\ \A i \in 1..Len(s) : t[i] = s[i] /\ s[i] \in X
  OBVIOUS
<1>4. \A i \in 1..Len(s) : g[s[i]] \in Y
  BY <1>1, <1>3
<1>5. m \in Seq(Y) /\ Len(m) = Len(s) /\ g[x] \in Y
  BY <1>1, <1>3, <1>4
<1> HIDE DEF t
<1>6. mt \in Seq(Y) /\ Len(mt) = Len(s) + 1
  <2>1. \A i \in 1..Len(t) : t[i] \in X
    BY <1>3
  <2> QED
    BY <1>1, <1>3, <2>1
<1>7. /\ Append(m, g[x]) \in Seq(Y) /\ Len(Append(m, g[x])) = Len(s) + 1
      /\ \A i \in 1..Len(s) + 1 : Append(m, g[x])[i] = IF i <= Len(s) THEN m[i] ELSE g[x]
  <2> DEFINE y == g[x]
  <2>1. m \in Seq(Y) /\ Len(m) = Len(s) /\ y \in Y /\ Len(s) \in Nat
    BY <1>3, <1>5
  <2> HIDE DEF m, y
  <2>2. /\ Append(m, y) \in Seq(Y) /\ Len(Append(m, y)) = Len(s) + 1
        /\ \A i \in 1..Len(s) + 1 : Append(m, y)[i] = IF i <= Len(s) THEN m[i] ELSE y
    BY <2>1, AppendProperties
  <2> QED
    BY <2>2 DEF y
<1>8. ASSUME NEW i \in 1..Len(s) + 1 PROVE mt[i] = Append(m, g[x])[i]
  <2>1. mt[i] = g[t[i]]
    BY <1>3
  <2>2. CASE i <= Len(s)
    <3>1. i \in 1..Len(s)
      BY <1>3, <2>2
    <3>2. m[i] = g[s[i]]
      BY <3>1
    <3> HIDE DEF m, mt
    <3> QED
      BY <1>3, <1>7, <2>1, <2>2, <3>1, <3>2
  <2>3. CASE ~(i <= Len(s))
    <3>1. i = Len(s) + 1
      BY <1>3, <2>3
    <3> HIDE DEF m, mt
    <3> QED
      BY <1>3, <1>7, <2>1, <2>3, <3>1
  <2> QED
    BY <2>2, <2>3
<1>9. Joined(s, g) = FlattenSeq(m) /\ Joined(t, g) = FlattenSeq(mt)
  BY DEF Joined
<1> HIDE DEF m, mt
<1>10. mt = Append(m, g[x])
  BY <1>6, <1>7, <1>8, SeqEqual
<1>11. m \in Seq(Seq(Z)) /\ g[x] \in Seq(Z)
  BY <1>5 DEF Y
<1>12. FlattenSeq(m) \in Seq(Z) /\ FlattenSeq(Append(m, g[x])) = FlattenSeq(m) \o g[x]
  BY <1>11, FlattenFacts
<1> QED
  BY <1>2, <1>9, <1>10, <1>12 DEF t

Contained == [l \in Lines |-> l.content]
Reasoned(l) == IF l.reasoning THEN <<"r">> ELSE <<>>
Told == [l \in Lines |-> Reasoned(l) \o l.content]

\* What the lines contain, and with what the gateway gives as reasoning.
Words(s) == FlattenSeq([i \in 1..Len(s) |-> s[i].content])
Input(s) == FlattenSeq([i \in 1..Len(s) |->
              (IF s[i].reasoning THEN <<"r">> ELSE <<>>) \o s[i].content])

LEMMA LineType ==
  ASSUME NEW l \in Lines
  PROVE  /\ l.content \in Seq(Atoms) /\ l.content \in Seq(Letters) /\ l.reasoning \in BOOLEAN
         /\ Reasoned(l) \in Seq(Letters) /\ Reasoned(l) \o l.content \in Seq(Letters)
<1>1. l.content \in Contents /\ l.reasoning \in BOOLEAN
  BY ContentsAssumption DEF Lines
<1>2. l.content \in Seq(Atoms)
  BY <1>1, ContentsAssumption
<1>3. l.content \in Seq(Letters)
  BY <1>2, SeqMonotonic DEF Letters
<1> DEFINE X == Letters
<1>4. Reasoned(l) \in Seq(X)
  <2>1. "r" \in X
    BY DEF Letters
  <2> HIDE DEF X
  <2> QED
    BY <2>1 DEF Reasoned
<1>5. Reasoned(l) \o l.content \in Seq(X)
  <2>1. l.content \in Seq(X)
    BY <1>3
  <2> HIDE DEF X
  <2> QED
    BY <1>4, <2>1, ConcatProperties
<1> QED
  BY <1>1, <1>2, <1>3, <1>4, <1>5

LEMMA WordsFacts ==
  ASSUME NEW s \in Seq(Lines), NEW l \in Lines
  PROVE  /\ Words(<<>>) = <<>> /\ Words(s) \in Seq(Atoms)
         /\ Words(Append(s, l)) = Words(s) \o l.content
         /\ Input(<<>>) = <<>> /\ Input(s) \in Seq(Letters)
         /\ Input(Append(s, l)) = Input(s) \o (Reasoned(l) \o l.content)
<1>1. Contained \in [Lines -> Seq(Atoms)]
  <2> DEFINE Y == Seq(Atoms)
  <2>1. \A x \in Lines : x.content \in Y
    BY LineType
  <2> HIDE DEF Y
  <2>2. Contained \in [Lines -> Y]
    BY <2>1 DEF Contained
  <2> QED
    BY <2>2 DEF Y
<1>2. Told \in [Lines -> Seq(Letters)]
  <2> DEFINE Y == Seq(Letters)
  <2>1. \A x \in Lines : Reasoned(x) \o x.content \in Y
    BY LineType
  <2> HIDE DEF Y
  <2>2. Told \in [Lines -> Y]
    BY <2>1 DEF Told
  <2> QED
    BY <2>2 DEF Y
<1>3. ASSUME NEW t \in Seq(Lines)
      PROVE  Words(t) = Joined(t, Contained) /\ Input(t) = Joined(t, Told)
  <2>1. \A i \in 1..Len(t) : t[i] \in Lines
    OBVIOUS
  <2>2. \A i \in 1..Len(t) : Contained[t[i]] = t[i].content
    BY <2>1 DEF Contained
  <2>3. \A i \in 1..Len(t) :
          Told[t[i]] = (IF t[i].reasoning THEN <<"r">> ELSE <<>>) \o t[i].content
    BY <2>1 DEF Told, Reasoned
  <2>4. [i \in 1..Len(t) |-> Contained[t[i]]] = [i \in 1..Len(t) |-> t[i].content]
    BY <2>2
  <2>5. [i \in 1..Len(t) |-> Told[t[i]]]
          = [i \in 1..Len(t) |-> (IF t[i].reasoning THEN <<"r">> ELSE <<>>) \o t[i].content]
    BY <2>3
  <2> QED
    BY <2>4, <2>5 DEF Words, Input, Joined
<1>4. <<>> \in Seq(Lines) /\ Append(s, l) \in Seq(Lines)
  <2> DEFINE X == Lines
  <2>1. s \in Seq(X) /\ l \in X
    OBVIOUS
  <2> HIDE DEF X
  <2>2. <<>> \in Seq(X) /\ Append(s, l) \in Seq(X)
    BY <2>1
  <2> QED
    BY <2>2 DEF X
<1>5. /\ Joined(<<>>, Contained) = <<>> /\ Joined(s, Contained) \in Seq(Atoms)
      /\ Joined(Append(s, l), Contained) = Joined(s, Contained) \o Contained[l]
  BY <1>1, JoinedFacts
<1>6. /\ Joined(<<>>, Told) = <<>> /\ Joined(s, Told) \in Seq(Letters)
      /\ Joined(Append(s, l), Told) = Joined(s, Told) \o Told[l]
  BY <1>2, JoinedFacts
<1>7. Contained[l] = l.content /\ Told[l] = Reasoned(l) \o l.content
  BY DEF Contained, Told
<1> QED
  BY <1>3, <1>4, <1>5, <1>6, <1>7

\* What the loop over the lines carries.
Heads == [ended : BOOLEAN, in : BOOLEAN, sent : Seq(Lines), chunks : Seq(Chunks)]

Cutless(s) ==
  \A i \in 1..Len(s) : s[i].content # <<>> => Last(s[i].content) \notin {"o1", "c1"}

Kept(s, d) == Without(Text(d, Kinds), Halves) = Without(Input(s), Halves)

Sided(s, in, d) ==
  /\ Ends(Words(s))
  /\ in <=> Open(Words(s), FALSE, Len(Words(s)) + 1)
  /\ Text(d, {"content"}) = Reference(Words(s), FALSE)
  /\ Without(Text(d, {"thinking"}), {"r"}) = Reference(Words(s), TRUE)

Good(h) == Kept(h.sent, h.chunks) /\ (Cutless(h.sent) => Sided(h.sent, h.in, h.chunks))

\* The chunk for what the gateway gives as reasoning.
Thought(l) == IF l.reasoning THEN <<Chunk("thinking", <<"r">>)>> ELSE <<>>

LEMMA ThoughtFacts ==
  ASSUME NEW l \in Lines
  PROVE  /\ Thought(l) \in Seq(Chunks)
         /\ Text(Thought(l), {"content"}) = <<>>
         /\ Text(Thought(l), {"thinking"}) = Reasoned(l)
         /\ Text(Thought(l), Kinds) = Reasoned(l)
         /\ Without(Reasoned(l), {"r"}) = <<>>
<1> DEFINE x == Chunk("thinking", <<"r">>)
<1>1. x \in Chunks /\ x.kind = "thinking" /\ x.text = <<"r">>
  BY DEF Chunk, Chunks, Letters
<1> HIDE DEF x
<1>2. <<x>> \in Seq(Chunks) /\ <<>> \in Seq(Chunks)
  <2> DEFINE X == Chunks
  <2>1. x \in X
    BY <1>1
  <2> HIDE DEF X
  <2>2. <<x>> \in Seq(X) /\ <<>> \in Seq(X)
    BY <2>1
  <2> QED
    BY <2>2 DEF X
<1>3. Thought(l) = IF l.reasoning THEN <<x>> ELSE <<>>
  BY DEF Thought, x
<1>4. "thinking" \in Kinds /\ "thinking" \notin {"content"}
  BY DEF Kinds
<1>5. /\ Text(<<x>>, {"content"}) = <<>> /\ Text(<<>>, {"content"}) = <<>>
      /\ Text(<<x>>, {"thinking"}) = <<"r">> /\ Text(<<>>, {"thinking"}) = <<>>
      /\ Text(<<x>>, Kinds) = <<"r">> /\ Text(<<>>, Kinds) = <<>>
  BY <1>1, <1>4, TextOne
<1>6. Without(<<"r">>, {"r"}) = <<>> /\ Without(<<>>, {"r"}) = <<>>
  <2>1. <<"r">> \in Seq(Letters)
    BY DEF Letters
  <2>2. \A i \in 1..Len(<<"r">>) : <<"r">>[i] \in {"r"}
    OBVIOUS
  <2>3. Without(<<"r">>, {"r"}) = <<>>
    BY <2>1, <2>2, WithoutFacts, ZenonT(30)
  <2>4. Without(<<>>, {"r"}) = <<>>
    BY <2>1, WithoutFacts, ZenonT(30)
  <2> QED
    BY <2>3, <2>4
<1> QED
  BY <1>2, <1>3, <1>5, <1>6 DEF Reasoned

LEMMA ChunksCat ==
  ASSUME NEW a \in Seq(Chunks), NEW b \in Seq(Chunks)
  PROVE  a \o b \in Seq(Chunks)
<1> DEFINE X == Chunks
<1>1. a \in Seq(X) /\ b \in Seq(X)
  OBVIOUS
<1> HIDE DEF X
<1>2. a \o b \in Seq(X)
  BY <1>1, ConcatProperties
<1> QED
  BY <1>2 DEF X

\* Chunks after chunks, with the thought in between.
Delta(e, d, l, f) == e = (d \o Thought(l)) \o f

DeltaText(e, d, l, f, K) ==
  Text(e, K) = (Text(d, K) \o Text(Thought(l), K)) \o Text(f, K)

LEMMA TextDelta ==
  ASSUME NEW d \in Seq(Chunks), NEW l \in Lines, NEW f \in Seq(Chunks), NEW K, NEW e,
         Delta(e, d, l, f)
  PROVE  /\ e \in Seq(Chunks) /\ Text(d, K) \in Seq(Letters) /\ Text(f, K) \in Seq(Letters)
         /\ DeltaText(e, d, l, f, K)
<1>1. PICK b \in Seq(Chunks) : b = Thought(l)
  BY ThoughtFacts
<1>2. PICK u \in Seq(Chunks) : u = d \o b
  BY ChunksCat
<1>3. PICK v \in Seq(Chunks) : v = u \o f
  BY ChunksCat
<1>4. Text(u, K) = Text(d, K) \o Text(b, K)
  BY <1>2, TextCat
<1>5. Text(v, K) = Text(u, K) \o Text(f, K)
  BY <1>3, TextCat
<1>6. e = v
  BY <1>1, <1>2, <1>3 DEF Delta
<1>8. DeltaText(e, d, l, f, K)
  <2>1. Text(e, K) = (Text(d, K) \o Text(b, K)) \o Text(f, K)
    BY <1>4, <1>5, <1>6
  <2> QED
    BY <1>1, <2>1 DEF DeltaText
<1>9. Text(d, K) \in Seq(Letters) /\ Text(f, K) \in Seq(Letters)
  BY TextFacts
<1> QED
  BY <1>6, <1>8, <1>9

\* The lines without cut tags, one more at a time.
LEMMA CutlessAppend ==
  ASSUME NEW s \in Seq(Lines), NEW l \in Lines, Cutless(Append(s, l))
  PROVE  Cutless(s) /\ (l.content # <<>> => Last(l.content) \notin {"o1", "c1"})
<1> DEFINE X == Lines
<1>1. s \in Seq(X) /\ l \in X
  OBVIOUS
<1> HIDE DEF X
<1> DEFINE t == Append(s, l)
<1>2. /\ Len(s) \in Nat /\ Len(t) = Len(s) + 1 /\ t[Len(s) + 1] = l
      /\ \A i \in 1..Len(s) : t[i] = s[i]
  BY <1>1
<1>3. (\A i \in 1..Len(s) : i \in 1..Len(t)) /\ Len(s) + 1 \in 1..Len(t)
  BY <1>2
<1> HIDE DEF t
<1>4. Cutless(t)
  BY DEF t
<1> QED
  BY <1>2, <1>3, <1>4 DEF Cutless

LEMMA EndsCat ==
  ASSUME NEW s \in Seq(Atoms), NEW c \in Seq(Atoms), Ends(s),
         c # <<>> => Last(c) \notin {"o1", "c1"}
  PROVE  s \o c \in Seq(Atoms) /\ Len(s \o c) = Len(s) + Len(c) /\ Ends(s \o c)
<1> DEFINE X == Atoms
<1>1. s \in Seq(X) /\ c \in Seq(X)
  OBVIOUS
<1>2. Len(c) > 0 => c[Len(c)] \notin {"o1", "c1"}
  <2>1. Len(c) > 0 => c # <<>>
    OBVIOUS
  <2> QED
    BY <2>1 DEF Last
<1> HIDE DEF X
<1> DEFINE t == s \o c
<1>3. /\ Len(s) \in Nat /\ Len(c) \in Nat /\ t \in Seq(X) /\ Len(t) = Len(s) + Len(c)
      /\ \A i \in 1..Len(s) + Len(c) : t[i] = IF i <= Len(s) THEN s[i] ELSE c[i - Len(s)]
  BY <1>1, ConcatProperties
<1> HIDE DEF t
<1>4. Ends(t)
  <2>1. CASE Len(c) = 0
    <3>1. Len(t) = Len(s) /\ (Len(t) > 0 => Len(t) \in 1..Len(s) + Len(c) /\ Len(t) <= Len(s))
      BY <1>3, <2>1
    <3> QED
      BY <1>3, <3>1 DEF Ends
  <2>2. CASE Len(c) # 0
    <3>1. /\ Len(c) > 0 /\ Len(t) \in 1..Len(s) + Len(c) /\ ~(Len(t) <= Len(s))
          /\ Len(t) - Len(s) = Len(c)
      BY <1>3, <2>2
    <3>2. t[Len(t)] = c[Len(c)]
      BY <1>3, <3>1
    <3> QED
      BY <1>2, <3>1, <3>2 DEF Ends
  <2> QED
    BY <2>1, <2>2
<1> QED
  BY <1>3, <1>4 DEF t, X

\* A line of content takes nothing away and adds itself.
LEMMA DeltaKept ==
  ASSUME NEW s \in Seq(Lines), NEW in \in BOOLEAN, NEW d \in Seq(Chunks), NEW l \in Lines,
         NEW parts \in Parts, parts = Split(l.content, in), Kept(s, d)
  PROVE  Kept(Append(s, l), (d \o Thought(l)) \o parts.chunks)
<1> DEFINE Y == Seq(Letters)
           W(t) == Without(t, Halves)
           c == l.content
           e == (d \o Thought(l)) \o parts.chunks
<1>1. c \in Seq(Atoms) /\ c \in Y /\ Reasoned(l) \in Y /\ Reasoned(l) \o c \in Y
  BY LineType
<1>2. Thought(l) \in Seq(Chunks) /\ Text(Thought(l), Kinds) = Reasoned(l)
  BY ThoughtFacts
<1>3. parts.chunks \in Seq(Chunks)
  BY DEF Parts
<1>4. /\ Text(d, Kinds) \in Y /\ Text(parts.chunks, Kinds) \in Y
      /\ Text(e, Kinds) = (Text(d, Kinds) \o Reasoned(l)) \o Text(parts.chunks, Kinds)
  <2>1. Delta(e, d, l, parts.chunks)
    BY DEF Delta
  <2> HIDE DEF e, W
  <2>2. /\ Text(d, Kinds) \in Seq(Letters) /\ Text(parts.chunks, Kinds) \in Seq(Letters)
        /\ DeltaText(e, d, l, parts.chunks, Kinds)
    BY <1>3, <2>1, TextDelta
  <2> QED
    BY <1>2, <2>2 DEF DeltaText
<1>5. W(Text(parts.chunks, Kinds)) = W(c)
  BY <1>1, SplitWhole
<1>6. Input(s) \in Y /\ Input(Append(s, l)) = Input(s) \o (Reasoned(l) \o c)
  BY WordsFacts
<1>7. W(Text(d, Kinds)) = W(Input(s))
  BY DEF Kept
<1>8. ASSUME NEW a \in Y, NEW b \in Y
      PROVE  W(a \o b) = W(a) \o W(b) /\ a \o b \in Y /\ W(a) \in Y
  <2>1. a \in Seq(Letters) /\ b \in Seq(Letters)
    OBVIOUS
  <2>2. Without(a \o b, Halves) = Without(a, Halves) \o Without(b, Halves)
    BY <2>1, WithoutCat
  <2>3. Without(a, Halves) \in Seq(Letters)
    BY <2>1, WithoutFacts
  <2>4. a \o b \in Seq(Letters)
    <3> DEFINE X == Letters
    <3>1. a \in Seq(X) /\ b \in Seq(X)
      OBVIOUS
    <3> HIDE DEF X
    <3>2. a \o b \in Seq(X)
      BY <3>1, ConcatProperties
    <3> QED
      BY <3>2 DEF X
  <2> QED
    BY <2>2, <2>3, <2>4
<1>9. ASSUME NEW a \in Y, NEW b \in Y, NEW f \in Y
      PROVE  (a \o b) \o f = a \o (b \o f)
  <2>1. a \in Seq(Letters) /\ b \in Seq(Letters) /\ f \in Seq(Letters)
    OBVIOUS
  <2> QED
    BY <2>1, ConcatAssociative
<1> DEFINE p == Text(parts.chunks, Kinds)
           t == Text(d, Kinds)
           r == Reasoned(l)
           n == Input(s)
<1>10. p \in Y /\ t \in Y /\ r \in Y /\ n \in Y /\ c \in Y
  BY <1>1, <1>4, <1>6
<1> HIDE DEF Y, W, c, e, p, t, r, n
<1>11. W((t \o r) \o p) = (W(t) \o W(r)) \o W(p)
  <2>1. W(t \o r) = W(t) \o W(r) /\ t \o r \in Y
    BY <1>8, <1>10
  <2>2. W((t \o r) \o p) = W(t \o r) \o W(p)
    BY <1>8, <1>10, <2>1
  <2> QED
    BY <2>1, <2>2
<1>12. W(n \o (r \o c)) = W(n) \o (W(r) \o W(c))
  <2>1. W(r \o c) = W(r) \o W(c) /\ r \o c \in Y
    BY <1>8, <1>10
  <2>2. W(n \o (r \o c)) = W(n) \o W(r \o c)
    BY <1>8, <1>10, <2>1
  <2> QED
    BY <2>1, <2>2
<1>13. (W(n) \o W(r)) \o W(c) = W(n) \o (W(r) \o W(c))
  <2>1. W(n) \in Y /\ W(r) \in Y /\ W(c) \in Y
    BY <1>8, <1>10
  <2> QED
    BY <1>9, <2>1
<1>14. Text(e, Kinds) = (t \o r) \o p /\ Input(Append(s, l)) = n \o (r \o c)
  BY <1>4, <1>6 DEF t, r, p, n
<1>15. W(p) = W(c) /\ W(t) = W(n)
  BY <1>5, <1>7 DEF t, p, n
<1>16. W(Text(e, Kinds)) = W(Input(Append(s, l)))
  BY <1>11, <1>12, <1>13, <1>14, <1>15
<1> QED
  BY <1>16 DEF W, e, Kept

\* The reference of a text with more after it.
LEMMA ReferenceCat ==
  ASSUME NEW w \in Seq(Atoms), NEW c \in Seq(Atoms), Ends(w), NEW in \in BOOLEAN,
         in <=> Open(w, FALSE, Len(w) + 1), NEW side \in BOOLEAN
  PROVE  Reference(w \o c, side) = Reference(w, side) \o SelectAt(c, Shows(c, in, side))
<1> DEFINE X == Atoms
<1>1. w \o c \in Seq(X)
  <2>1. w \in Seq(X) /\ c \in Seq(X)
    OBVIOUS
  <2> HIDE DEF X
  <2> QED
    BY <2>1, ConcatProperties
<1>2. PICK t \in Seq(Atoms) : t = w \o c
  BY <1>1
<1>3. Reference(t, side) = SelectAt(t, Shows(t, FALSE, side))
  BY ReferenceIs
<1>4. Reference(w, side) = SelectAt(w, Shows(w, FALSE, side))
  BY ReferenceIs
<1>5. SelectAt(w \o c, Shows(w \o c, FALSE, side))
        = SelectAt(w, Shows(w, FALSE, side)) \o SelectAt(c, Shows(c, in, side))
  BY ShownCat
<1> QED
  BY <1>2, <1>3, <1>4, <1>5

LEMMA ReferenceType ==
  ASSUME NEW t \in Seq(Atoms), NEW side \in BOOLEAN
  PROVE  Reference(t, side) \in Seq(Letters)
<1>1. SelectAt(t, Shows(t, FALSE, side)) \in Seq(Atoms)
  BY AtFacts
<1>2. SelectAt(t, Shows(t, FALSE, side)) \in Seq(Letters)
  BY <1>1, SeqMonotonic DEF Letters
<1> QED
  BY <1>2, ReferenceIs

\* A line of content goes to the sides that the reference gives it.
LEMMA DeltaSided ==
  ASSUME NEW s \in Seq(Lines), NEW in \in BOOLEAN, NEW d \in Seq(Chunks), NEW l \in Lines,
         NEW parts \in Parts, parts = Split(l.content, in), Sided(s, in, d),
         l.content # <<>> => Last(l.content) \notin {"o1", "c1"}
  PROVE  Sided(Append(s, l), parts.in, (d \o Thought(l)) \o parts.chunks)
<1> DEFINE Y == Seq(Letters)
           c == l.content
           w == Words(s)
           t == Words(Append(s, l))
           e == (d \o Thought(l)) \o parts.chunks
           f == parts.chunks
<1>1. Delta(e, d, l, f)
  BY DEF Delta
<1>2. c \in Seq(Atoms) /\ Reasoned(l) \in Y
  BY LineType
<1>3. w \in Seq(Atoms) /\ t = w \o c
  BY WordsFacts
<1>4. /\ Ends(w)
      /\ in <=> Open(w, FALSE, Len(w) + 1)
      /\ Text(d, {"content"}) = Reference(w, FALSE)
      /\ Without(Text(d, {"thinking"}), {"r"}) = Reference(w, TRUE)
  BY DEF Sided
<1>5. f \in Seq(Chunks)
  BY DEF Parts
<1>6. /\ Text(Thought(l), {"content"}) = <<>> /\ Text(Thought(l), {"thinking"}) = Reasoned(l)
      /\ Without(Reasoned(l), {"r"}) = <<>>
  BY ThoughtFacts
<1>7. /\ parts.in <=> Open(c, in, Len(c) + 1)
      /\ \A side \in BOOLEAN, A \in SUBSET {"r"} :
           Without(Text(f, {KindOf(side)}), A) = SelectAt(c, Shows(c, in, side))
  BY <1>2, SplitSound
<1>8. c # <<>> => Last(c) \notin {"o1", "c1"}
  OBVIOUS
<1> HIDE DEF e, f, c, w, t
<1>9. t \in Seq(Atoms) /\ Len(t) = Len(w) + Len(c) /\ Ends(t) /\ Len(w) \in Nat /\ Len(c) \in Nat
  BY <1>2, <1>3, <1>4, <1>8, EndsCat
<1>10. parts.in <=> Open(t, FALSE, Len(t) + 1)
  <2>1. /\ Len(c) + 1 \in Nat /\ Len(c) + 1 >= 1 /\ Len(w) + (Len(c) + 1) = Len(t) + 1
    BY <1>9
  <2>2. \A j \in Nat : j >= 1 => (Open(w \o c, FALSE, Len(w) + j) <=> Open(c, in, j))
    BY <1>2, <1>3, <1>4, OpenCat
  <2>3. Open(w \o c, FALSE, Len(w) + (Len(c) + 1)) <=> Open(c, in, Len(c) + 1)
    BY <2>1, <2>2
  <2> QED
    BY <1>3, <1>7, <2>1, <2>3
<1>11. ASSUME NEW side \in BOOLEAN
       PROVE  /\ Reference(t, side) = Reference(w, side) \o SelectAt(c, Shows(c, in, side))
              /\ Reference(w, side) \in Y
  <2>1. Reference(w \o c, side) = Reference(w, side) \o SelectAt(c, Shows(c, in, side))
    BY <1>2, <1>3, <1>4, ReferenceCat
  <2> QED
    BY <1>3, <2>1, ReferenceType
<1>12. Text(e, {"content"}) = Reference(t, FALSE)
  <2>1. /\ Text(d, {"content"}) \in Y /\ Text(f, {"content"}) \in Y
        /\ DeltaText(e, d, l, f, {"content"})
    BY <1>1, <1>5, TextDelta
  <2>2. Text(e, {"content"}) = (Text(d, {"content"}) \o <<>>) \o Text(f, {"content"})
    BY <1>6, <2>1 DEF DeltaText
  <2>3. Text(d, {"content"}) \o <<>> = Text(d, {"content"})
    BY <2>1, ConcatEmptySeq
  <2>4. Text(f, {"content"}) = SelectAt(c, Shows(c, in, FALSE))
    <3>1. Without(Text(f, {KindOf(FALSE)}), {}) = SelectAt(c, Shows(c, in, FALSE))
      BY <1>7
    <3>2. KindOf(FALSE) = "content"
      BY DEF KindOf
    <3>3. Without(Text(f, {"content"}), {}) = Text(f, {"content"})
      <4>1. \A i \in 1..Len(Text(f, {"content"})) : Text(f, {"content"})[i] \notin {}
        OBVIOUS
      <4> QED
        BY <2>1, <4>1, WithoutFacts
    <3> QED
      BY <3>1, <3>2, <3>3
  <2> QED
    BY <1>4, <1>11, <2>2, <2>3, <2>4
<1>13. Without(Text(e, {"thinking"}), {"r"}) = Reference(t, TRUE)
  <2> DEFINE a == Text(d, {"thinking"})
             b == Text(f, {"thinking"})
             r == Reasoned(l)
             W(x) == Without(x, {"r"})
  <2>1. a \in Y /\ b \in Y /\ DeltaText(e, d, l, f, {"thinking"})
    BY <1>1, <1>5, TextDelta
  <2>2. Text(e, {"thinking"}) = (a \o r) \o b
    BY <1>6, <2>1 DEF DeltaText
  <2>3. W(b) = SelectAt(c, Shows(c, in, TRUE))
    <3>1. Without(Text(f, {KindOf(TRUE)}), {"r"}) = SelectAt(c, Shows(c, in, TRUE))
      BY <1>7
    <3>2. KindOf(TRUE) = "thinking"
      BY DEF KindOf
    <3> QED
      BY <3>1, <3>2
  <2>4. ASSUME NEW x \in Y, NEW y \in Y PROVE W(x \o y) = W(x) \o W(y)
    BY WithoutCat
  <2>5. ASSUME NEW x \in Y, NEW y \in Y PROVE x \o y \in Y
    <3> DEFINE X == Letters
    <3>1. x \in Seq(X) /\ y \in Seq(X)
      OBVIOUS
    <3> HIDE DEF X
    <3>2. x \o y \in Seq(X)
      BY <3>1, ConcatProperties
    <3> QED
      BY <3>2 DEF X
  <2>6. W(a) = Reference(w, TRUE) /\ W(r) = <<>> /\ r \in Y
    BY <1>2, <1>4, <1>6
  <2>7. Reference(w, TRUE) \o <<>> = Reference(w, TRUE)
    BY <1>11, ConcatEmptySeq
  <2> HIDE DEF a, b, r, W, Y
  <2>8. W(a \o r) = W(a) \o W(r) /\ a \o r \in Y
    BY <2>1, <2>4, <2>5, <2>6
  <2>9. W((a \o r) \o b) = W(a \o r) \o W(b)
    BY <2>1, <2>4, <2>8
  <2>10. W((a \o r) \o b) = Reference(w, TRUE) \o SelectAt(c, Shows(c, in, TRUE))
    BY <2>3, <2>6, <2>7, <2>8, <2>9
  <2> QED
    BY <1>11, <2>2, <2>10 DEF W
<1> QED
  BY <1>9, <1>10, <1>12, <1>13 DEF Sided, e, t

Goods == {h \in Heads : Good(h)}

LEMMA FeedKeeps ==
  ASSUME NEW h \in Goods, NEW line \in Lines
  PROVE  Feed(h, line) \in Goods
<1>1. /\ h \in Heads /\ Good(h) /\ h.in \in BOOLEAN /\ h.ended \in BOOLEAN
      /\ h.sent \in Seq(Lines) /\ h.chunks \in Seq(Chunks)
      /\ h = [ended |-> h.ended, in |-> h.in, sent |-> h.sent, chunks |-> h.chunks]
  BY DEF Goods, Heads
<1>2. CASE h.ended \/ line.kind = "other"
  BY <1>2 DEF Feed
<1>3. CASE ~h.ended /\ line.kind = "DONE"
  <2> DEFINE g == [ended |-> TRUE, in |-> h.in, sent |-> h.sent, chunks |-> h.chunks]
  <2>1. Feed(h, line) = [h EXCEPT !.ended = TRUE]
    BY <1>3 DEF Feed
  <2>2. Feed(h, line) = g
    BY <1>1, <2>1
  <2>3. g \in Heads
    BY <1>1 DEF Heads
  <2>4. g.in = h.in /\ g.sent = h.sent /\ g.chunks = h.chunks
    OBVIOUS
  <2> HIDE DEF g
  <2>5. Good(g)
    BY <1>1, <2>4 DEF Good
  <2> QED
    BY <2>2, <2>3, <2>5 DEF Goods
<1>4. CASE ~h.ended /\ line.kind # "DONE" /\ line.kind # "other"
  <2> DEFINE p == Split(line.content, h.in)
             e == (h.chunks \o Thought(line)) \o p.chunks
             t == Append(h.sent, line)
             g == [ended |-> h.ended, in |-> p.in, sent |-> t, chunks |-> e]
  <2>1. Feed(h, line) = [h EXCEPT !.sent = t, !.in = p.in, !.chunks = e]
    BY <1>4 DEF Feed, Thought
  <2>2. Feed(h, line) = g
    <3> HIDE DEF t, e, p
    <3> QED
      BY <1>1, <2>1
  <2>3. p \in Parts /\ line.content \in Seq(Atoms)
    BY <1>1, LineType, SplitSound
  <2>4. p.in \in BOOLEAN /\ p.chunks \in Seq(Chunks)
    BY <2>3 DEF Parts
  <2>5. e \in Seq(Chunks)
    BY <1>1, <2>4, ThoughtFacts, ChunksCat
  <2>6. t \in Seq(Lines)
    <3> DEFINE X == Lines
    <3>1. h.sent \in Seq(X) /\ line \in X
      BY <1>1
    <3> HIDE DEF X
    <3>2. t \in Seq(X)
      BY <3>1
    <3> QED
      BY <3>2 DEF X
  <2>7. Kept(t, e)
    BY <1>1, <2>3, DeltaKept DEF Good
  <2>8. ASSUME Cutless(t) PROVE Sided(t, p.in, e)
    <3>1. Cutless(h.sent) /\ (line.content # <<>> => Last(line.content) \notin {"o1", "c1"})
      BY <1>1, <2>8, CutlessAppend
    <3>2. Sided(h.sent, h.in, h.chunks)
      BY <1>1, <3>1 DEF Good
    <3> QED
      BY <1>1, <2>3, <3>1, <3>2, DeltaSided
  <2> HIDE DEF t, e, p
  <2>9. g \in Heads /\ g.in = p.in /\ g.sent = t /\ g.chunks = e
    BY <1>1, <2>4, <2>5, <2>6 DEF Heads
  <2> HIDE DEF g
  <2>10. Good(g)
    BY <2>7, <2>8, <2>9 DEF Good
  <2> QED
    BY <2>2, <2>9, <2>10 DEF Goods
<1> QED
  BY <1>2, <1>3, <1>4

-----------------------------------------------------------------------------

\* What the generator and its caller keep.
IInv ==
  /\ pc \in {"read", "ended", "saved", "failed"}
  /\ sent \in Seq(Lines) /\ buffer \in Seq(Lines) /\ inThink \in BOOLEAN
  /\ chunks \in Seq(Chunks)
  /\ Kept(sent, chunks)
  /\ Cutless(sent) => Sided(sent, inThink, chunks)

Now == [ended |-> FALSE, in |-> inThink, sent |-> sent, chunks |-> chunks]

LEMMA NowGood ==
  ASSUME IInv
  PROVE  Now \in Goods
<1>1. Now \in Heads
  BY DEF Now, Heads, IInv
<1>2. Now.in = inThink /\ Now.sent = sent /\ Now.chunks = chunks
  BY DEF Now
<1>3. Good(Now)
  BY <1>2 DEF Good, IInv
<1> QED
  BY <1>1, <1>3 DEF Goods

\* The lines of a read, one after the other.
LEMMA HandleKeeps ==
  ASSUME IInv, NEW whole \in Seq(Lines), HandleLines(whole)
  PROVE  /\ pc' \in {"read", "ended"} /\ sent' \in Seq(Lines) /\ inThink' \in BOOLEAN
         /\ chunks' \in Seq(Chunks) /\ Kept(sent', chunks')
         /\ Cutless(sent') => Sided(sent', inThink', chunks')
<1> DEFINE n == Len(whole)
           Body(f, k) == IF k = 0 THEN Now ELSE Feed(f[k - 1], whole[k])
           Goal(f) == f = [k \in 0..n |-> Body(f, k)]
           fed == CHOOSE f : Goal(f)
           h == fed[n]
           g == [at \in (1..n) \X Goods |-> Feed(at[2], whole[at[1]])]
<1>1. /\ pc' = IF h.ended THEN "ended" ELSE "read"
      /\ sent' = h.sent /\ inThink' = h.in /\ chunks' = h.chunks
  BY DEF HandleLines, Now
<1>2. n \in Nat /\ \A k \in 1..n : whole[k] \in Lines
  OBVIOUS
<1>3. Now \in Goods
  BY NowGood
<1>4. g \in [(1..n) \X Goods -> Goods]
  BY <1>2, FeedKeeps
<1>5. \A k \in 1..n, x \in Goods : g[<<k, x>>] = Feed(x, whole[k])
  OBVIOUS
<1> HIDE DEF g, n
<1>6. PICK f0 \in [0..n -> Goods] : Goes(f0, n, Now, g)
  BY <1>2, <1>3, <1>4, RecExists
<1>7. \A k \in 0..n : k # 0 => k \in 1..n /\ k - 1 \in 0..n
  BY <1>2
<1>8. \A k \in 0..n : f0[k] = Body(f0, k)
  BY <1>5, <1>6, <1>7 DEF Goes
<1> HIDE DEF Body
<1>9. Goal(f0)
  BY <1>6, <1>8
<1>10. Goal(fed)
  <2> HIDE DEF Goal
  <2> QED
    BY <1>9
<1> HIDE DEF fed
<1>11. \A k \in 0..n : fed[k] = Body(fed, k)
  BY <1>10
<1> DEFINE P == {k \in 0..n : fed[k] \in Goods}
<1>12. 0 \in P
  BY <1>2, <1>3, <1>11 DEF Body
<1>13. ASSUME NEW k \in 1..n, k - 1 \in P PROVE k \in P
  <2>1. k \in 0..n /\ k # 0
    BY <1>2
  <2>2. fed[k] = Feed(fed[k - 1], whole[k])
    BY <1>11, <2>1 DEF Body
  <2> QED
    BY <1>2, <1>13, <2>1, <2>2, FeedKeeps
<1> HIDE DEF P
<1>14. n \in P
  <2>1. n \in 0..n
    BY <1>2
  <2> QED
    BY <1>2, <1>12, <1>13, <2>1, UpTo
<1>15. h \in Goods
  BY <1>14 DEF P
<1> HIDE DEF h
<1>16. /\ h.ended \in BOOLEAN /\ h.in \in BOOLEAN /\ h.sent \in Seq(Lines) /\ h.chunks \in Seq(Chunks)
       /\ Kept(h.sent, h.chunks) /\ (Cutless(h.sent) => Sided(h.sent, h.in, h.chunks))
  BY <1>15 DEF Goods, Heads, Good
<1> QED
  BY <1>1, <1>16

LEMMA StartKept == Init => IInv
<1> SUFFICES ASSUME Init PROVE IInv
  OBVIOUS
<1> DEFINE X == Lines
           Z == Chunks
<1>1. sent = <<>> /\ buffer = <<>> /\ inThink = FALSE /\ chunks = <<>> /\ pc = "read"
  BY DEF Init
<1>2. /\ <<>> \in Seq(X) /\ <<>> \in Seq(Z) /\ <<>> \in Seq(Letters) /\ <<>> \in Seq(Atoms)
  <2> HIDE DEF X, Z
  <2> QED
    BY EmptySeq
<1>3. Words(<<>>) = <<>> /\ Input(<<>>) = <<>>
  BY DEF Words, Input, FlattenSeq
<1>4. \A K : Text(<<>>, K) = <<>>
  BY DEF Text, Sayings, FlattenSeq
<1>5. Kept(<<>>, <<>>)
  BY <1>3, <1>4 DEF Kept
<1>6. ASSUME NEW side \in BOOLEAN PROVE Reference(<<>>, side) = <<>>
  BY <1>2, ReferenceIs, SelectNothing
<1>7. ~Open(<<>>, FALSE, Len(<<>>) + 1)
  <2>1. \A h : Tags(<<>>, h) = {}
    BY DEF Tags
  <2> QED
    BY <2>1 DEF Open
<1>8. Without(<<>>, {"r"}) = <<>>
  BY <1>2, WithoutFacts
<1>9. Ends(<<>>)
  BY DEF Ends
<1>10. Sided(<<>>, FALSE, <<>>)
  BY <1>3, <1>4, <1>6, <1>7, <1>8, <1>9 DEF Sided
<1> QED
  BY <1>1, <1>2, <1>5, <1>10 DEF IInv, X, Z

\* The lines of a read are lines.
LEMMA ReadLines ==
  ASSUME NEW a \in Seq(Lines), NEW b \in SeqOf(Lines, MaxRead)
  PROVE  /\ a \o b \in Seq(Lines)
         /\ a \o b # <<>> => Last(a \o b) \in Lines /\ Front(a \o b) \in Seq(Lines)
<1> DEFINE X == Lines
<1>1. MaxRead \in Nat
  BY BoundAssumption
<1>2. a \in Seq(X) /\ b \in SeqOf(X, MaxRead)
  OBVIOUS
<1> HIDE DEF X
<1>3. b \in Seq(X)
  <2>1. PICK m \in 0..MaxRead : b \in [1..m -> X]
    BY <1>2 DEF SeqOf
  <2> QED
    BY <1>1, <2>1
<1>4. PICK t \in Seq(X) : t = a \o b
  BY <1>2, <1>3, ConcatProperties
<1>5. ASSUME t # <<>> PROVE Last(t) \in X /\ Front(t) \in Seq(X)
  <2>1. Len(t) \in Nat /\ Len(t) >= 1
    BY <1>5
  <2>2. Len(t) \in 1..Len(t) /\ Len(t) \in 1..(Len(t) + 1) /\ 1 \in 1..(Len(t) + 1) /\ Len(t) \in 1..(Len(t) + 1)
    BY <2>1
  <2>3. t[Len(t)] \in X
    BY <2>2
  <2>4. SubSeq(t, 1, Len(t) - 1) \in Seq(X)
    BY <2>2, Cut
  <2> QED
    BY <2>3, <2>4 DEF Last, Front
<1> QED
  BY <1>4, <1>5 DEF X

LEMMA StepKept == IInv /\ [Next]_vars => IInv'
<1> SUFFICES ASSUME IInv, [Next]_vars PROVE IInv'
  OBVIOUS
<1>1. CASE Read
  <2>1. PICK new \in SeqOf(Lines, MaxRead), cut \in BOOLEAN :
          LET lines == buffer \o new
          IN  /\ cut => lines # <<>>
              /\ buffer' = IF cut THEN <<Last(lines)>> ELSE <<>>
              /\ HandleLines(IF cut THEN Front(lines) ELSE lines)
    BY <1>1 DEF Read
  <2> DEFINE lines == buffer \o new
             whole == IF cut THEN Front(lines) ELSE lines
  <2>2. lines \in Seq(Lines) /\ (lines # <<>> => Last(lines) \in Lines /\ Front(lines) \in Seq(Lines))
    BY ReadLines DEF IInv
  <2>3. whole \in Seq(Lines)
    BY <2>1, <2>2
  <2>4. buffer' \in Seq(Lines)
    <3> DEFINE X == Lines
    <3>1. cut => Last(lines) \in X
      BY <2>1, <2>2
    <3>2. buffer' = IF cut THEN <<Last(lines)>> ELSE <<>>
      BY <2>1
    <3> HIDE DEF X, lines
    <3>3. buffer' \in Seq(X)
      BY <3>1, <3>2
    <3> QED
      BY <3>3 DEF X
  <2>5. HandleLines(whole)
    BY <2>1
  <2> HIDE DEF lines, whole
  <2>6. /\ pc' \in {"read", "ended"} /\ sent' \in Seq(Lines) /\ inThink' \in BOOLEAN
        /\ chunks' \in Seq(Chunks) /\ Kept(sent', chunks')
        /\ Cutless(sent') => Sided(sent', inThink', chunks')
    BY <2>3, <2>5, HandleKeeps
  <2> QED
    BY <2>4, <2>6 DEF IInv
<1>2. ASSUME UNCHANGED <<sent, buffer, inThink, chunks>>, pc' \in {"read", "ended", "saved", "failed"}
      PROVE  IInv'
  BY <1>2 DEF IInv
<1>3. CASE EndOfBody
  BY <1>2, <1>3 DEF EndOfBody
<1>4. CASE ReadFails
  BY <1>2, <1>4 DEF ReadFails
<1>5. CASE SaveReply
  BY <1>2, <1>5 DEF SaveReply
<1>6. CASE UNCHANGED vars
  <2>1. pc \in {"read", "ended", "saved", "failed"}
    BY DEF IInv
  <2> QED
    BY <1>2, <1>6, <2>1 DEF vars
<1> QED
  BY <1>1, <1>3, <1>4, <1>5, <1>6 DEF Next

LEMMA Invariant == Spec => []IInv
BY StartKept, StepKept, PTL DEF Spec

LEMMA YieldedIs ==
  ASSUME IInv
  PROVE  /\ \A kind : Yielded(kind) = Text(chunks, {kind})
         /\ FlattenSeq([i \in 1..Len(chunks) |-> chunks[i].text]) = Text(chunks, Kinds)
<1>1. \A i \in 1..Len(chunks) : chunks[i].kind \in Kinds
  <2>1. \A i \in 1..Len(chunks) : chunks[i] \in Chunks
    BY DEF IInv
  <2> QED
    BY <2>1 DEF Chunks, Kinds
<1>2. ASSUME NEW kind PROVE Yielded(kind) = Text(chunks, {kind})
  <2>1. \A i \in 1..Len(chunks) :
          Saying(chunks[i], {kind}) = IF chunks[i].kind = kind THEN chunks[i].text ELSE <<>>
    BY DEF Saying
  <2>2. Sayings(chunks, {kind})
          = [i \in 1..Len(chunks) |-> IF chunks[i].kind = kind THEN chunks[i].text ELSE <<>>]
    BY <2>1 DEF Sayings
  <2> QED
    BY <2>2 DEF Yielded, Text
<1>3. Sayings(chunks, Kinds) = [i \in 1..Len(chunks) |-> chunks[i].text]
  <2>1. \A i \in 1..Len(chunks) : Saying(chunks[i], Kinds) = chunks[i].text
    BY <1>1 DEF Saying
  <2> QED
    BY <2>1 DEF Sayings
<1> QED
  BY <1>2, <1>3 DEF Text

\* Whatever the model sends reaches the reader, as thinking or as content and
\* in its order, wherever the reads and the deltas end.  Only tags, whole or
\* half, are left out of the comparison.
THEOREM NothingLostTheorem == Spec => []NothingLost
<1>1. ASSUME IInv PROVE NothingLost
  <2>1. Without(Text(chunks, Kinds), Halves) = Without(Input(sent), Halves)
    BY <1>1 DEF IInv, Kept
  <2>2. FlattenSeq([i \in 1..Len(chunks) |-> chunks[i].text]) = Text(chunks, Kinds)
    BY <1>1, YieldedIs
  <2> QED
    BY <2>1, <2>2 DEF NothingLost, Input
<1> QED
  BY Invariant, <1>1, PTL

LEMMA SidesSeparated ==
  ASSUME IInv
  PROVE  AnswerSeparated
<1> SUFFICES ASSUME TagsWhole
             PROVE  /\ Yielded("content") = Reference(Sent, FALSE)
                    /\ Without(Yielded("thinking"), {"r"}) = Reference(Sent, TRUE)
  BY DEF AnswerSeparated
<1>1. Sided(sent, inThink, chunks)
  BY DEF IInv, Cutless, TagsWhole
<1>2. Sent = Words(sent)
  BY DEF Sent, Words
<1> QED
  BY <1>1, <1>2, YieldedIs DEF Sided

\* When no delta ends within a tag, each chunk is yielded with the kind that
\* the tags give its text, however many deltas and reads that takes.
THEOREM AnswerSeparatedTheorem == Spec => []AnswerSeparated
BY Invariant, SidesSeparated, PTL

-----------------------------------------------------------------------------

LEMMA ShownFacts ==
  ASSUME NEW X, NEW t \in Seq(X)
  PROVE  /\ Len(t) \in Nat /\ Shown(t) \in SUBSET (1..Len(t))
         /\ Shown(t) # {} => /\ FirstShown(t) \in Shown(t) /\ LastShown(t) \in Shown(t)
                             /\ \A k \in Shown(t) : FirstShown(t) <= k /\ k <= LastShown(t)
<1>1. Len(t) \in Nat /\ Shown(t) \in SUBSET (1..Len(t)) /\ Shown(t) \in SUBSET Nat
  BY DEF Shown
<1>2. ASSUME Shown(t) # {}
      PROVE  FirstShown(t) \in Shown(t) /\ \A k \in Shown(t) : FirstShown(t) <= k
  <2>1. \E i \in Shown(t) : \A k \in Shown(t) : i <= k
    BY <1>1, <1>2, LeastNat
  <2> QED
    BY <2>1 DEF FirstShown
<1>3. ASSUME Shown(t) # {}
      PROVE  LastShown(t) \in Shown(t) /\ \A k \in Shown(t) : LastShown(t) >= k
  <2> DEFINE S == {n \in Nat : n <= Len(t) /\ Len(t) - n \in Shown(t)}
  <2>1. \A k \in Shown(t) : Len(t) - k \in Nat /\ Len(t) - k <= Len(t) /\ Len(t) - (Len(t) - k) = k
    BY <1>1
  <2>2. \A k \in Shown(t) : Len(t) - k \in S
    BY <2>1
  <2>3. PICK n \in S : \A m \in S : n <= m
    <3>1. S \in SUBSET Nat /\ S # {}
      BY <1>3, <2>2
    <3> HIDE DEF S
    <3> QED
      BY <3>1, LeastNat
  <2>4. Len(t) - n \in Shown(t) /\ \A k \in Shown(t) : Len(t) - n >= k
    <3>1. \A k \in Shown(t) : n <= Len(t) - k /\ k \in Nat
      BY <1>1, <2>2, <2>3
    <3>2. n \in Nat /\ Len(t) - n \in Shown(t)
      BY <2>3
    <3> HIDE DEF S
    <3> QED
      BY <1>1, <3>1, <3>2
  <2>5. \E i \in Shown(t) : \A k \in Shown(t) : i >= k
    BY <2>4
  <2> QED
    BY <2>5 DEF LastShown
<1>4. ASSUME Shown(t) # {} PROVE \A k \in Shown(t) : k <= LastShown(t)
  BY <1>1, <1>3, <1>4
<1> QED
  BY <1>1, <1>2, <1>3, <1>4

LEMMA ShownIs ==
  ASSUME NEW X, NEW t \in Seq(X), NEW i \in Shown(t)
  PROVE  /\ (\A k \in Shown(t) : i <= k) => FirstShown(t) = i
         /\ (\A k \in Shown(t) : k <= i) => LastShown(t) = i
<1>1. /\ Shown(t) \in SUBSET (1..Len(t)) /\ Len(t) \in Nat
      /\ FirstShown(t) \in Shown(t) /\ LastShown(t) \in Shown(t)
      /\ \A k \in Shown(t) : FirstShown(t) <= k /\ k <= LastShown(t)
  BY ShownFacts
<1> DEFINE f == FirstShown(t)
           l == LastShown(t)
<1>2. f \in Nat /\ l \in Nat /\ i \in Nat /\ f \in Shown(t) /\ l \in Shown(t) /\ f <= i /\ i <= l
  BY <1>1
<1> HIDE DEF f, l
<1>3. (\A k \in Shown(t) : i <= k) => f = i
  BY <1>2
<1>4. (\A k \in Shown(t) : k <= i) => l = i
  BY <1>2
<1> QED
  BY <1>3, <1>4 DEF f, l

\* A text without its start.
LEMMA Rest ==
  ASSUME NEW X, NEW t \in Seq(X), NEW f \in 1..(Len(t) + 1)
  PROVE  /\ SubSeq(t, f, Len(t)) \in Seq(X) /\ Len(SubSeq(t, f, Len(t))) = Len(t) + 1 - f
         /\ \A j \in 1..(Len(t) + 1 - f) : SubSeq(t, f, Len(t))[j] = t[f + j - 1]
<1>1. PICK k \in f..(Len(t) + 1) : k = Len(t) + 1 /\ k - 1 = Len(t)
  OBVIOUS
<1>2. /\ SubSeq(t, f, k - 1) \in Seq(X) /\ Len(SubSeq(t, f, k - 1)) = k - f
      /\ \A j \in 1..(k - f) : SubSeq(t, f, k - 1)[j] = t[f + j - 1]
  BY Cut
<1> QED
  BY <1>1, <1>2

\* The start is stripped of two texts in a row as of the first, unless that is empty then.
StripTwo(a, b) ==
  /\ StripStart(a) = <<>> => StripStart(a \o b) = StripStart(b)
  /\ StripStart(a) # <<>> => StripStart(a \o b) = StripStart(a) \o b

LEMMA StripCat ==
  ASSUME NEW X, NEW a \in Seq(X), NEW b \in Seq(X)
  PROVE  StripStart(a) \in Seq(X) /\ StripTwo(a, b)
<1> DEFINE t == a \o b
           n == Len(a)
           m == Len(b)
<1>1. /\ n \in Nat /\ m \in Nat /\ t \in Seq(X) /\ Len(t) = n + m
      /\ \A i \in 1..(n + m) : t[i] = IF i <= n THEN a[i] ELSE b[i - n]
  BY ConcatProperties
<1> HIDE DEF t
<1>2. /\ \A i : i \in Shown(a) <=> i \in 1..n /\ a[i] # "b"
      /\ \A i : i \in Shown(b) <=> i \in 1..m /\ b[i] # "b"
      /\ \A i : i \in Shown(t) <=> i \in 1..(n + m) /\ t[i] # "b"
  BY <1>1 DEF Shown
<1>3. ASSUME Shown(a) = {} PROVE StripStart(a) = <<>> /\ StripStart(t) = StripStart(b)
  <2>1. StripStart(a) = <<>>
    BY <1>3 DEF StripStart
  <2>2. ASSUME NEW i \in 1..(n + m) PROVE i \in Shown(t) <=> i - n \in Shown(b)
    <3>1. CASE i <= n
      <4>1. i \in 1..n /\ i - n \notin 1..m /\ t[i] = a[i]
        BY <1>1, <3>1, SMTT(30)
      <4> QED
        BY <1>2, <1>3, <4>1
    <3>2. CASE ~(i <= n)
      <4>1. i - n \in 1..m /\ t[i] = b[i - n]
        BY <1>1, <3>2
      <4> QED
        BY <1>2, <4>1
    <3> QED
      BY <3>1, <3>2
  <2>3. CASE Shown(b) = {}
    <3>1. Shown(t) = {}
      BY <1>2, <2>2, <2>3
    <3> QED
      BY <2>1, <2>3, <3>1 DEF StripStart
  <2>4. CASE Shown(b) # {}
    <3> DEFINE f == FirstShown(b)
    <3>1. f \in Shown(b) /\ f \in 1..m /\ \A k \in Shown(b) : f <= k
      BY <2>4, ShownFacts
    <3> HIDE DEF f
    <3>2. n + f \in 1..(n + m) /\ (n + f) - n = f /\ (n + f) \in Shown(t)
      <4>1. n + f \in 1..(n + m) /\ (n + f) - n = f
        BY <1>1, <3>1
      <4> QED
        BY <2>2, <3>1, <4>1
    <3>3. ASSUME NEW k \in Shown(t) PROVE n + f <= k
      <4>1. k \in 1..(n + m) /\ k - n \in Shown(b)
        BY <1>2, <2>2
      <4>2. f <= k - n
        BY <3>1, <4>1
      <4> QED
        BY <1>1, <3>1, <4>1, <4>2
    <3>4. FirstShown(t) = n + f
      BY <1>1, <3>2, <3>3, ShownIs
    <3>5. StripStart(t) = SubSeq(t, n + f, n + m)
      BY <1>1, <3>2, <3>4 DEF StripStart
    <3>6. StripStart(b) = SubSeq(b, f, m)
      BY <2>4 DEF StripStart, f
    <3>7. SubSeq(t, n + f, n + m) = SubSeq(b, f, m)
      <4> DEFINE u == SubSeq(t, n + f, n + m)
                 v == SubSeq(b, f, m)
                 d == (m + 1) - f
                 e == n + f
      <4>1. e \in 1..(Len(t) + 1) /\ f \in 1..(m + 1) /\ Len(t) + 1 - e = d
        BY <1>1, <3>1
      <4>2. u \in Seq(X) /\ Len(u) = d /\ \A j \in 1..d : u[j] = t[e + j - 1]
        <5>1. u = SubSeq(t, e, Len(t))
          BY <1>1
        <5> HIDE DEF u, d, e
        <5> QED
          BY <1>1, <4>1, <5>1, Rest
      <4>3. v \in Seq(X) /\ Len(v) = d /\ \A j \in 1..d : v[j] = b[f + j - 1]
        BY <4>1, Rest
      <4>4. ASSUME NEW j \in 1..d PROVE u[j] = v[j]
        <5> DEFINE i == e + j - 1
        <5>1. i \in 1..(n + m) /\ ~(i <= n) /\ i - n = f + j - 1
          BY <1>1, <3>1
        <5> HIDE DEF u, v, i, d, m, n
        <5>2. t[i] = b[i - n]
          BY <1>1, <5>1
        <5>3. u[j] = t[i] /\ v[j] = b[f + j - 1]
          BY <4>2, <4>3 DEF i
        <5> QED
          BY <5>1, <5>2, <5>3
      <4> HIDE DEF u, v
      <4>5. u = v
        BY <4>2, <4>3, <4>4, SeqEqual
      <4> QED
        BY <4>5 DEF u, v
    <3> QED
      BY <2>1, <3>5, <3>6, <3>7
  <2> QED
    BY <2>1, <2>3, <2>4
<1>4. ASSUME Shown(a) # {}
      PROVE  /\ StripStart(a) # <<>> /\ StripStart(a) \in Seq(X)
             /\ StripStart(t) = StripStart(a) \o b
  <2> DEFINE f == FirstShown(a)
             s == SubSeq(a, f, n)
  <2>1. f \in Shown(a) /\ f \in 1..n /\ \A k \in Shown(a) : f <= k
    BY <1>4, ShownFacts
  <2>2. StripStart(a) = s
    BY <1>4 DEF StripStart
  <2> HIDE DEF f
  <2>3. f \in 1..(n + m) /\ f \in Shown(t)
    <3>1. f \in 1..(n + m) /\ f <= n
      BY <1>1, <2>1
    <3>2. t[f] = a[f]
      BY <1>1, <3>1
    <3> QED
      BY <1>2, <2>1, <3>1, <3>2
  <2>4. ASSUME NEW k \in Shown(t) PROVE f <= k
    <3>1. k \in 1..(n + m)
      BY <1>2
    <3>2. CASE k <= n
      <4>1. k \in 1..n /\ t[k] = a[k]
        BY <1>1, <3>1, <3>2
      <4> QED
        BY <1>2, <2>1, <4>1
    <3>3. CASE ~(k <= n)
      BY <1>1, <2>1, <3>1, <3>3
    <3> QED
      BY <3>2, <3>3
  <2>5. FirstShown(t) = f
    BY <1>1, <2>3, <2>4, ShownIs
  <2>6. StripStart(t) = SubSeq(t, f, n + m)
    BY <1>1, <2>3, <2>5 DEF StripStart
  <2> DEFINE d == n + 1 - f
             u == SubSeq(t, f, n + m)
  <2>7. /\ f \in 1..(n + 1) /\ f \in 1..(Len(t) + 1)
        /\ (Len(t) + 1) - f = d + m /\ d \in Nat /\ d >= 1
    BY <1>1, <2>1
  <2>8. s \in Seq(X) /\ Len(s) = d /\ \A j \in 1..d : s[j] = a[f + j - 1]
    BY <2>7, Rest
  <2>9. u \in Seq(X) /\ Len(u) = d + m /\ \A j \in 1..(d + m) : u[j] = t[f + j - 1]
    <3>1. u = SubSeq(t, f, Len(t))
      BY <1>1
    <3> HIDE DEF u, d
    <3> QED
      <4>1. /\ SubSeq(t, f, Len(t)) \in Seq(X) /\ Len(SubSeq(t, f, Len(t))) = Len(t) + 1 - f
            /\ \A j \in 1..(Len(t) + 1 - f) : SubSeq(t, f, Len(t))[j] = t[f + j - 1]
        BY <1>1, <2>7, Rest
      <4>2. Len(t) + 1 - f = d + m
        BY <2>7
      <4> QED
        BY <3>1, <4>1, <4>2
  <2> HIDE DEF u, s
  <2>10. /\ s \o b \in Seq(X) /\ Len(s \o b) = d + m
         /\ \A j \in 1..(d + m) : (s \o b)[j] = IF j <= d THEN s[j] ELSE b[j - d]
    <3>1. /\ s \o b \in Seq(X) /\ Len(s \o b) = Len(s) + Len(b)
          /\ \A j \in 1..Len(s) + Len(b) : (s \o b)[j] = IF j <= Len(s) THEN s[j] ELSE b[j - Len(s)]
      BY <2>8, ConcatProperties
    <3> QED
      BY <2>8, <3>1
  <2>11. ASSUME NEW j \in 1..(d + m) PROVE u[j] = (s \o b)[j]
    <3>1. f + j - 1 \in 1..(n + m) /\ u[j] = t[f + j - 1] /\ (f + j - 1 <= n <=> j <= d)
      <4>1. f \in 1..n /\ n \in Nat /\ m \in Nat /\ d = n + 1 - f
        BY <1>1, <2>1
      <4>2. u[j] = t[f + j - 1]
        BY <2>9
      <4> HIDE DEF d, n, m
      <4> QED
        BY <4>1, <4>2
    <3>2. CASE j <= d
      <4>1. j \in 1..d /\ t[f + j - 1] = a[f + j - 1]
        BY <1>1, <2>7, <3>1, <3>2
      <4> QED
        BY <2>8, <2>10, <3>1, <3>2, <4>1
    <3>3. CASE ~(j <= d)
      <4>1. f + j - 1 - n = j - d
        BY <1>1, <2>1
      <4> DEFINE i == f + j - 1
      <4>2. t[i] = b[j - d]
        <5>1. i \in 1..(n + m) /\ ~(i <= n) /\ i - n = j - d
          BY <1>1, <2>1, <3>1, <3>3, <4>1
        <5> HIDE DEF i, d, n, m
        <5> QED
          BY <1>1, <5>1
      <4> QED
        BY <2>10, <3>1, <3>3, <4>2
    <3> QED
      BY <3>2, <3>3
  <2>12. u = s \o b
    BY <2>9, <2>10, <2>11, SeqEqual
  <2>13. s # <<>>
    BY <2>7, <2>8
  <2> QED
    BY <2>2, <2>6, <2>8, <2>12, <2>13 DEF u, s
<1>5. CASE Shown(a) = {}
  <2>1. <<>> \in Seq(X)
    BY EmptySeq
  <2> QED
    BY <1>3, <1>5, <2>1 DEF t, StripTwo
<1>6. CASE Shown(a) # {}
  BY <1>4, <1>6 DEF t, StripTwo
<1> QED
  BY <1>5, <1>6

\* The middle of a text.
LEMMA Middle ==
  ASSUME NEW X, NEW t \in Seq(X), NEW i \in 1..Len(t), NEW l \in i..Len(t)
  PROVE  /\ SubSeq(t, i, l) \in Seq(X) /\ Len(SubSeq(t, i, l)) = l + 1 - i
         /\ \A j \in 1..(l + 1 - i) : SubSeq(t, i, l)[j] = t[i + j - 1]
<1>1. PICK k \in i..(Len(t) + 1) : k = l + 1 /\ k - 1 = l
  OBVIOUS
<1>2. i \in 1..(Len(t) + 1)
  OBVIOUS
<1>3. /\ SubSeq(t, i, k - 1) \in Seq(X) /\ Len(SubSeq(t, i, k - 1)) = k - i
      /\ \A j \in 1..(k - i) : SubSeq(t, i, k - 1)[j] = t[i + j - 1]
  BY <1>2, Cut
<1> QED
  BY <1>1, <1>3

Trim(text) ==
  IF Shown(text) = {} THEN <<>> ELSE SubSeq(text, FirstShown(text), LastShown(text))

\* The start that is stripped would be trimmed anyway.
LEMMA TidyStripped ==
  ASSUME NEW X, NEW t \in Seq(X)
  PROVE  Tidy(StripStart(t)) = Tidy(t)
<1> DEFINE z == StripStart(t)
<1>1. ASSUME Trim(z) = Trim(t) PROVE Tidy(z) = Tidy(t)
  BY <1>1 DEF Tidy, Trim
<1>2. CASE Shown(t) = {}
  <2>1. z = <<>>
    BY <1>2 DEF StripStart
  <2>2. Shown(<<>>) = {}
    BY DEF Shown
  <2>3. Trim(z) = Trim(t)
    BY <1>2, <2>1, <2>2 DEF Trim
  <2> QED
    BY <1>1, <2>3
<1>3. CASE Shown(t) # {}
  <2> DEFINE n == Len(t)
             f == FirstShown(t)
             l == LastShown(t)
             d == n + 1 - f
             e == l + 1 - f
  <2>1. /\ n \in Nat /\ Shown(t) \in SUBSET (1..n) /\ f \in Shown(t) /\ l \in Shown(t)
        /\ \A k \in Shown(t) : f <= k /\ k <= l
    BY <1>3, ShownFacts
  <2>2. z = SubSeq(t, f, n) /\ Trim(t) = SubSeq(t, f, l)
    BY <1>3 DEF StripStart, Trim
  <2>3. f \in 1..n /\ l \in f..n /\ f \in 1..(n + 1)
    BY <2>1
  <2>4. z \in Seq(X) /\ Len(z) = d /\ \A j \in 1..d : z[j] = t[f + j - 1]
    BY <2>2, <2>3, Rest
  <2>5. SubSeq(t, f, l) \in Seq(X) /\ Len(SubSeq(t, f, l)) = e
        /\ \A j \in 1..e : SubSeq(t, f, l)[j] = t[f + j - 1]
    BY <2>3, Middle
  <2>6. d \in Nat /\ e \in 1..d /\ d >= 1 /\ f + 1 - 1 = f /\ f + e - 1 = l
    BY <2>1, <2>3
  <2>7. ASSUME NEW j \in 1..d PROVE j \in Shown(z) <=> f + j - 1 \in Shown(t)
    <3>1. f + j - 1 \in 1..n
      BY <2>1, <2>3
    <3>2. z[j] = t[f + j - 1]
      BY <2>4
    <3> DEFINE i == f + j - 1
    <3>3. j \in Shown(z) <=> z[j] # "b"
      BY <2>4 DEF Shown
    <3>4. i \in Shown(t) <=> t[i] # "b"
      BY <3>1 DEF Shown
    <3> QED
      BY <3>2, <3>3, <3>4
  <2> HIDE DEF z, n, f, l, d, e
  <2>8. 1 \in Shown(z) /\ e \in Shown(z)
    <3>1. 1 \in 1..d /\ e \in 1..d
      BY <2>6
    <3>2. 1 \in Shown(z) <=> f + 1 - 1 \in Shown(t)
      BY <2>7, <3>1
    <3>3. e \in Shown(z) <=> f + e - 1 \in Shown(t)
      BY <2>7, <3>1
    <3> QED
      BY <2>1, <2>6, <3>2, <3>3
  <2>9. ASSUME NEW k \in Shown(z) PROVE 1 <= k /\ k <= e
    <3>1. k \in 1..d
      BY <2>4 DEF Shown
    <3>2. f + k - 1 \in Shown(t)
      BY <2>7, <3>1
    <3>3. f + k - 1 <= l
      BY <2>1, <3>2
    <3> QED
      BY <2>1, <2>3, <2>6, <3>1, <3>3 DEF e
  <2>10. FirstShown(z) = 1 /\ LastShown(z) = e
    BY <2>4, <2>8, <2>9, ShownIs
  <2>11. Trim(z) = SubSeq(z, 1, e)
    BY <2>8, <2>10 DEF Trim
  <2> DEFINE u == SubSeq(z, 1, e)
             v == SubSeq(t, f, l)
  <2>12. u \in Seq(X) /\ Len(u) = e /\ \A j \in 1..e : u[j] = z[j]
    <3>1. 1 \in 1..Len(z) /\ e \in 1..Len(z) /\ e + 1 - 1 = e
      BY <2>4, <2>6
    <3>2. u \in Seq(X) /\ Len(u) = e + 1 - 1 /\ \A j \in 1..(e + 1 - 1) : u[j] = z[1 + j - 1]
      BY <2>4, <3>1, Middle
    <3>3. \A j \in 1..e : 1 + j - 1 = j
      OBVIOUS
    <3> HIDE DEF u
    <3> QED
      BY <3>1, <3>2, <3>3
  <2>13. v \in Seq(X) /\ Len(v) = e /\ \A j \in 1..e : v[j] = z[j]
    <3>1. \A j \in 1..e : j \in 1..d
      BY <2>6
    <3> QED
      BY <2>4, <2>5, <3>1
  <2> HIDE DEF u, v
  <2>14. u = v
    BY <2>12, <2>13, SeqEqual
  <2>15. Trim(z) = Trim(t)
    BY <2>2, <2>11, <2>14 DEF u, v
  <2> QED
    BY <1>1, <2>15 DEF z
<1> QED
  BY <1>2, <1>3

Content == {"content"}

\* Chunk by chunk, what is joined is the content without the line breaks at its start.
LEMMA JoinOne ==
  ASSUME NEW d \in Seq(Chunks), NEW chunk \in Chunks
  PROVE  Join(StripStart(Text(d, Content)), chunk) = StripStart(Text(d \o <<chunk>>, Content))
<1> DEFINE a == Text(d, Content)
           b == Text(<<chunk>>, Content)
<1>1. <<chunk>> \in Seq(Chunks)
  <2> DEFINE X == Chunks
  <2>1. chunk \in X
    OBVIOUS
  <2> HIDE DEF X
  <2>2. <<chunk>> \in Seq(X)
    BY <2>1
  <2> QED
    BY <2>2 DEF X
<1>2. Text(d \o <<chunk>>, Content) = a \o b
  BY <1>1, TextCat
<1>3. a \in Seq(Letters) /\ b \in Seq(Letters)
  BY <1>1, TextFacts
<1>4. chunk.kind \in {"thinking", "content"}
  BY DEF Chunks
<1>5. CASE chunk.kind = "thinking"
  <2>1. b = <<>>
    BY <1>5, TextOne DEF Content
  <2>2. a \o b = a
    BY <1>3, <2>1, ConcatEmptySeq
  <2> QED
    BY <1>2, <1>5, <2>2 DEF Join
<1>6. CASE chunk.kind = "content"
  <2>1. b = chunk.text
    BY <1>6, TextOne DEF Content
  <2>2. /\ StripStart(a) \in Seq(Letters)
        /\ StripStart(a) = <<>> => StripStart(a \o b) = StripStart(b)
        /\ StripStart(a) # <<>> => StripStart(a \o b) = StripStart(a) \o b
    <3>1. StripStart(a) \in Seq(Letters) /\ StripTwo(a, b)
      BY <1>3, StripCat
    <3> QED
      BY <3>1 DEF StripTwo
  <2>3. StripStart(b) \in Seq(Letters)
    BY <1>3, StripCat
  <2>4. <<>> \o StripStart(b) = StripStart(b)
    BY <2>3, ConcatEmptySeq
  <2> DEFINE s == StripStart(a)
             r == StripStart(b)
             q == StripStart(a \o b)
  <2>5. Join(s, chunk) = s \o IF s = <<>> THEN r ELSE b
    BY <1>6, <2>1 DEF Join
  <2> HIDE DEF s, r, q, a, b
  <2>6. CASE s = <<>>
    <3>1. Join(s, chunk) = <<>> \o r
      BY <2>5, <2>6
    <3>2. q = r
      BY <2>2, <2>6 DEF s, r, q
    <3> QED
      BY <1>2, <2>4, <3>1, <3>2 DEF s, r, q, a
  <2>7. CASE s # <<>>
    <3>1. Join(s, chunk) = s \o b
      BY <2>5, <2>7
    <3>2. q = s \o b
      BY <2>2, <2>7 DEF s, q
    <3> QED
      BY <1>2, <3>1, <3>2 DEF s, q, a
  <2> QED
    BY <2>6, <2>7
<1> QED
  BY <1>4, <1>5, <1>6

LEMMA JoinType ==
  ASSUME NEW full \in Seq(Letters), NEW chunk \in Chunks
  PROVE  Join(full, chunk) \in Seq(Letters)
<1> DEFINE X == Letters
           r == IF full = <<>> THEN StripStart(chunk.text) ELSE chunk.text
<1>1. chunk.text \in Seq(Letters)
  BY DEF Chunks
<1>2. StripStart(chunk.text) \in Seq(Letters)
  BY <1>1, StripCat
<1>3. r \in Seq(X) /\ full \in Seq(X)
  BY <1>1, <1>2
<1>4. Join(full, chunk) = IF chunk.kind = "thinking" THEN full ELSE full \o r
  BY DEF Join
<1> HIDE DEF X, r
<1>5. full \o r \in Seq(X)
  BY <1>3, ConcatProperties
<1> QED
  BY <1>3, <1>4, <1>5 DEF X

\* The reply is the content, tidied.
LEMMA ReplyIs ==
  ASSUME NEW d \in Seq(Chunks), d = chunks
  PROVE  Reply = Tidy(Text(d, Content))
<1> DEFINE n == Len(d)
           T == Seq(Letters)
           Body(f, k) == IF k = 0 THEN <<>> ELSE Join(f[k - 1], d[k])
           Goal(f) == f = [k \in 0..n |-> Body(f, k)]
           full == CHOOSE f : Goal(f)
           g == [at \in (1..n) \X T |-> Join(at[2], d[at[1]])]
           u(k) == SubSeq(d, 1, k)
<1>1. Reply = Tidy(full[n])
  BY DEF Reply
<1>2. n \in Nat /\ \A k \in 1..n : d[k] \in Chunks
  OBVIOUS
<1>3. <<>> \in T
  BY EmptySeq
<1>4. ASSUME NEW t \in T, NEW x \in Chunks PROVE Join(t, x) \in T
  BY JoinType
<1> HIDE DEF T
<1>5. g \in [(1..n) \X T -> T]
  BY <1>2, <1>4
<1>6. \A k \in 1..n, t \in T : g[<<k, t>>] = Join(t, d[k])
  OBVIOUS
<1>7. /\ u(0) = <<>> /\ u(n) = d
      /\ \A k \in 1..n : /\ u(k - 1) \in Seq(Chunks) /\ d[k] \in Chunks
                         /\ u(k) = u(k - 1) \o <<d[k]>>
  <2> DEFINE X == Chunks
  <2>1. d \in Seq(X)
    OBVIOUS
  <2> HIDE DEF X
  <2>2. /\ SubSeq(d, 1, 0) = <<>> /\ SubSeq(d, 1, Len(d)) = d
        /\ \A k \in 1..Len(d) : /\ SubSeq(d, 1, k - 1) \in Seq(X) /\ d[k] \in X
                                /\ SubSeq(d, 1, k) = Append(SubSeq(d, 1, k - 1), d[k])
    BY <2>1, PrefixGrows
  <2>3. ASSUME NEW s \in Seq(X), NEW x \in X PROVE Append(s, x) = s \o <<x>>
    BY AppendIsConcat
  <2>4. \A k \in 1..Len(d) : SubSeq(d, 1, k) = SubSeq(d, 1, k - 1) \o <<d[k]>>
    BY <2>2, <2>3
  <2> QED
    BY <2>2, <2>4 DEF X
<1> HIDE DEF g, n, u
<1>8. PICK f0 \in [0..n -> T] : Goes(f0, n, <<>>, g)
  BY <1>2, <1>3, <1>5, RecExists
<1>9. \A k \in 0..n : k # 0 => k \in 1..n /\ k - 1 \in 0..n
  BY <1>2
<1>10. \A k \in 0..n : f0[k] = Body(f0, k)
  BY <1>6, <1>8, <1>9 DEF Goes
<1> HIDE DEF Body
<1>11. Goal(f0)
  BY <1>8, <1>10
<1>12. Goal(full)
  <2> HIDE DEF Goal
  <2> QED
    BY <1>11
<1> HIDE DEF full
<1>13. \A k \in 0..n : full[k] = Body(full, k)
  BY <1>12
<1> DEFINE P == {k \in 0..n : full[k] = StripStart(Text(u(k), Content))}
<1>14. 0 \in P
  <2>1. Text(<<>>, Content) = <<>>
    BY DEF Text, Sayings, FlattenSeq
  <2>2. StripStart(<<>>) = <<>>
    BY DEF StripStart, Shown
  <2>3. 0 \in 0..n
    BY <1>2
  <2>4. full[0] = <<>>
    BY <1>13, <2>3 DEF Body
  <2> QED
    BY <1>7, <2>1, <2>2, <2>3, <2>4
<1>15. ASSUME NEW k \in 1..n, k - 1 \in P PROVE k \in P
  <2>1. k \in 0..n /\ k # 0
    BY <1>2
  <2>2. full[k] = Join(full[k - 1], d[k])
    BY <1>13, <2>1 DEF Body
  <2>3. full[k - 1] = StripStart(Text(u(k - 1), Content))
    BY <1>15
  <2>4. PICK s \in Seq(Chunks) : s = u(k - 1)
    BY <1>7
  <2>5. PICK x \in Chunks : x = d[k]
    BY <1>7
  <2>6. u(k) = s \o <<x>>
    BY <1>7, <2>4, <2>5
  <2>7. Join(StripStart(Text(s, Content)), x) = StripStart(Text(s \o <<x>>, Content))
    BY JoinOne
  <2>8. full[k] = StripStart(Text(u(k), Content))
    BY <2>2, <2>3, <2>4, <2>5, <2>6, <2>7
  <2> QED
    BY <2>1, <2>8
<1> HIDE DEF P
<1>16. n \in P
  <2>1. n \in 0..n
    BY <1>2
  <2> QED
    BY <1>2, <1>14, <1>15, <2>1, UpTo
<1>17. full[n] = StripStart(Text(d, Content))
  BY <1>7, <1>16 DEF P
<1>18. Text(d, Content) \in Seq(Letters)
  BY TextFacts
<1> QED
  BY <1>1, <1>17, <1>18, TidyStripped

\* When no delta ends within a tag, the reply that is saved is what stands
\* outside of the tags, trimmed: trimming chunk by chunk while the stream
\* runs comes to the same as trimming it all at the end.
THEOREM SavedIsAnswerTheorem == Spec => []SavedIsAnswer
<1>1. ASSUME IInv PROVE SavedIsAnswer
  <2> SUFFICES ASSUME TagsWhole PROVE Reply = Tidy(Reference(Sent, FALSE))
    BY DEF SavedIsAnswer
  <2>1. Yielded("content") = Reference(Sent, FALSE)
    BY <1>1, SidesSeparated DEF AnswerSeparated
  <2>2. Yielded("content") = Text(chunks, Content)
    BY <1>1, YieldedIs DEF Content
  <2>3. PICK d \in Seq(Chunks) : d = chunks
    BY <1>1 DEF IInv
  <2>4. Reply = Tidy(Text(d, Content))
    BY <2>3, ReplyIs
  <2> QED
    BY <2>1, <2>2, <2>3, <2>4
<1> QED
  BY Invariant, <1>1, PTL

=============================================================================
