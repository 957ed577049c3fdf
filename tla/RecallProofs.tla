----------------------------- MODULE RecallProofs -----------------------------
(***************************************************************************)
(* What a user is remembered by and what a chat recalls, for any alphabet  *)
(* and texts of any length, any answers of the LLM, any limits, and any    *)
(* number of rows.  Two inductive invariants: Memory, of the rows and the  *)
(* job that writes them, and Search, of the lists a search fills while     *)
(* rows come and go.  Induction over the places of a text is an argument   *)
(* by the least counterexample (LeastNat).                                 *)
(***************************************************************************)
EXTENDS Recall, FiniteSetTheorems, SequenceTheorems, WellFoundedInduction, TLAPS

-----------------------------------------------------------------------------
(* Folds.                                                                   *)

\* What stands in for an induction: of the numbers that are a counterexample one
\* is the least.
LEMMA LeastNat ==
  ASSUME NEW S \in SUBSET Nat, S # {}
  PROVE  \E i \in S : \A k \in S : i <= k
<1>1. PICK i \in S : \A k \in S : ~(<<k, i>> \in OpToRel(<, Nat))
  BY NatLessThanWellFounded, WFMin
<1>2. \A k \in S : ~(k < i)
  BY <1>1 DEF OpToRel
<1> QED BY <1>2

\* The last of some places.
LEMMA MaxFacts ==
  ASSUME NEW n \in Nat, NEW s \in SUBSET (1..n), s # {}
  PROVE  Max(s) \in s /\ \A y \in s : Max(s) >= y
<1> DEFINE away == {n - y : y \in s}
<1>0. \A y \in s : y \in 1..n /\ n - y \in Nat
  OBVIOUS
<1>1. away \in SUBSET Nat /\ away # {}
  BY <1>0
<1>2. PICK i \in away : \A k \in away : i <= k
  BY <1>1, LeastNat
<1>3. PICK x \in s : i = n - x
  BY <1>2
<1>4. ASSUME NEW y \in s PROVE x >= y
  <2>1. n - y \in away
    OBVIOUS
  <2>2. n - x <= n - y
    BY <1>2, <1>3, <2>1
  <2> QED
    BY <1>0, <2>2
<1> QED
  BY <1>4 DEF Max

\* The places up to k, without the last.
LEMMA MaxOfInterval ==
  ASSUME NEW n \in Nat, NEW k \in 1..n
  PROVE  /\ 1..k \in SUBSET (1..n) /\ 1..k # {}
         /\ Max(1..k) = k /\ (1..k) \ {k} = 1..(k - 1)
<1> DEFINE s == 1..k
<1>1. s \in SUBSET (1..n) /\ s # {} /\ k \in s /\ k \in Int
      /\ \A y \in s : y \in Int /\ y <= k
  OBVIOUS
<1> HIDE DEF s
<1>2. Max(s) \in s /\ \A y \in s : Max(s) >= y
  BY <1>1, MaxFacts
<1>3. Max(s) \in Int /\ Max(s) >= k /\ Max(s) <= k
  BY <1>1, <1>2
<1>4. Max(s) = k
  BY <1>3
<1>5. (1..k) \ {k} = 1..(k - 1)
  OBVIOUS
<1> QED
  BY <1>1, <1>4, <1>5 DEF s

\* h is the fold, from base, of the steps g over the places in each set of 1..n.
IsFold(h, n, base, g) ==
  \A s \in SUBSET (1..n) : h[s] = IF s = {} THEN base ELSE g[<<Max(s), h[s \ {Max(s)}]>>]

\* A fold over the places of a sequence is defined, if each step stays in T.
LEMMA FoldExists ==
  ASSUME NEW n \in Nat, NEW T, NEW base \in T, NEW g \in [(1..n) \X T -> T]
  PROVE  \E h \in [SUBSET (1..n) -> T] : IsFold(h, n, base, g)
<1> USE DEF IsFold
<1> DEFINE Upto(k) == \E h \in [SUBSET (1..k) -> T] : IsFold(h, k, base, g)
           Bad == {k \in 0..n : ~Upto(k)}
<1> SUFFICES Bad = {}
  <2>1. n \in 0..n
    OBVIOUS
  <2> QED
    BY <2>1
<1> SUFFICES ASSUME Bad # {} PROVE FALSE
  OBVIOUS
<1>1. PICK i \in Bad : \A k \in Bad : i <= k
  <2>1. Bad \in SUBSET Nat
    OBVIOUS
  <2> QED
    BY <2>1, LeastNat
<1>2. i # 0
  <2> SUFFICES Upto(0)
    BY <1>1
  <2>1. SUBSET (1..0) = {{}}
    OBVIOUS
  <2> DEFINE h == [s \in SUBSET (1..0) |-> base]
  <2>2. h \in [SUBSET (1..0) -> T]
    OBVIOUS
  <2>3. \A s \in SUBSET (1..0) : s = {} /\ h[s] = base
    BY <2>1
  <2> QED
    BY <2>2, <2>3
<1>3. i - 1 \in 0..n /\ i \in 1..n
  BY <1>2
<1>4. Upto(i - 1)
  <2>1. i - 1 \notin Bad
    <3>1. i \in Nat
      BY <1>1
    <3>2. ~(i <= i - 1)
      BY <3>1
    <3> HIDE DEF Bad
    <3> QED
      BY <1>1, <3>2
  <2> QED
    BY <1>3, <2>1
<1>5. PICK h \in [SUBSET (1..(i - 1)) -> T] :
        \A s \in SUBSET (1..(i - 1)) :
          h[s] = IF s = {} THEN base ELSE g[<<Max(s), h[s \ {Max(s)}]>>]
  BY <1>4
<1> DEFINE f == [s \in SUBSET (1..i) |-> IF i \in s THEN g[<<i, h[s \ {i}]>>] ELSE h[s]]
<1>6. \A s \in SUBSET (1..i) : s \ {i} \in SUBSET (1..(i - 1))
  BY <1>3
<1>7. f \in [SUBSET (1..i) -> T]
  <2> SUFFICES ASSUME NEW s \in SUBSET (1..i)
               PROVE  (IF i \in s THEN g[<<i, h[s \ {i}]>>] ELSE h[s]) \in T
    OBVIOUS
  <2>1. s \ {i} \in SUBSET (1..(i - 1)) /\ h[s \ {i}] \in T
    BY <1>6
  <2>2. CASE i \in s
    BY <1>3, <2>1, <2>2
  <2>3. CASE i \notin s
    <3>1. s \ {i} = s
      BY <2>3
    <3> QED
      BY <2>1, <2>3, <3>1
  <2> QED
    BY <2>2, <2>3
<1>8. \A s \in SUBSET (1..i) :
        f[s] = IF s = {} THEN base ELSE g[<<Max(s), f[s \ {Max(s)}]>>]
  <2> SUFFICES ASSUME NEW s \in SUBSET (1..i)
               PROVE  f[s] = IF s = {} THEN base ELSE g[<<Max(s), f[s \ {Max(s)}]>>]
    OBVIOUS
  <2>1. CASE i \in s
    <3>1. Max(s) = i
      <4>1. s # {} /\ i \in Nat
        BY <1>3, <2>1
      <4>2. Max(s) \in s /\ \A y \in s : Max(s) >= y
        BY <4>1, MaxFacts
      <4>3. Max(s) \in 1..i /\ Max(s) >= i
        BY <2>1, <4>2
      <4> QED
        BY <4>1, <4>3
    <3>2. s \ {i} \in SUBSET (1..i) /\ i \notin s \ {i}
      OBVIOUS
    <3>3. f[s \ {i}] = h[s \ {i}]
      BY <3>2
    <3>4. f[s] = g[<<i, h[s \ {i}]>>]
      BY <2>1
    <3> QED
      BY <2>1, <3>1, <3>3, <3>4
  <2>2. CASE i \notin s
    <3>1. s \in SUBSET (1..(i - 1))
      BY <1>6, <2>2
    <3>2. f[s] = h[s]
      BY <2>2
    <3>3. CASE s = {}
      BY <1>5, <3>1, <3>2, <3>3
    <3>4. CASE s # {}
      <4>1. s \ {Max(s)} \in SUBSET (1..i) /\ i \notin s \ {Max(s)}
        BY <2>2
      <4>2. f[s \ {Max(s)}] = h[s \ {Max(s)}]
        BY <4>1
      <4> QED
        BY <1>5, <3>1, <3>2, <3>4, <4>2
    <3> QED
      BY <3>3, <3>4
  <2> QED
    BY <2>1, <2>2
<1> HIDE DEF f
<1>9. Upto(i)
  BY <1>7, <1>8
<1> QED
  BY <1>1, <1>9

\* What each step of a fold keeps, the fold has.
LEMMA FoldKeeps ==
  ASSUME NEW n \in Nat, NEW T, NEW f, f[{}] \in T,
         \A k \in 1..n : f[1..(k - 1)] \in T => f[1..k] \in T
  PROVE  f[1..n] \in T
<1> DEFINE Bad == {k \in 0..n : f[1..k] \notin T}
<1> SUFFICES ASSUME Bad # {} PROVE FALSE
  <2>1. n \in 0..n
    OBVIOUS
  <2> QED
    BY <2>1
<1>1. PICK i \in Bad : \A k \in Bad : i <= k
  <2>1. Bad \in SUBSET Nat
    OBVIOUS
  <2> QED
    BY <2>1, LeastNat
<1>2. i # 0
  <2>1. 1..0 = {}
    OBVIOUS
  <2> QED
    BY <1>1, <2>1
<1>3. i \in 1..n /\ i - 1 \in 0..n
  BY <1>2
<1>4. f[1..(i - 1)] \in T
  BY <1>1, <1>3
<1> QED
  BY <1>1, <1>3, <1>4

\* The texts of Experience stay texts: with the white space made one space,
LEMMA CollapseType ==
  ASSUME NEW t \in Texts
  PROVE  Collapse(t) \in Texts
<1> DEFINE op(seen, x) == IF x = Space /\ seen # <<>> /\ Last(seen) = Space THEN seen
                          ELSE Append(seen, x)
           n == Len(t)
           g == [p \in (1..n) \X Texts |-> op(p[2], t[p[1]])]
<1>1. n \in Nat /\ DOMAIN t = 1..n /\ \A i \in 1..n : t[i] \in Atoms
  BY DEF Texts
<1>2. <<>> \in Texts /\ \A seen \in Texts, x \in Atoms : op(seen, x) \in Texts
  BY DEF Texts
<1>3. g \in [(1..n) \X Texts -> Texts]
  BY <1>1, <1>2
<1>4. \A i \in 1..n, seen \in Texts : g[<<i, seen>>] = op(seen, t[i])
  OBVIOUS
<1> HIDE DEF g
<1>5. PICK h \in [SUBSET (1..n) -> Texts] : IsFold(h, n, <<>>, g)
  <2>1. n \in Nat /\ <<>> \in Texts
    BY <1>1, <1>2
  <2> HIDE DEF n, op
  <2> QED
    BY <1>3, <2>1, FoldExists, Zenon
<1>6. \A s \in SUBSET (1..n) :
        h[s] = IF s = {} THEN <<>> ELSE op(h[s \ {Max(s)}], t[Max(s)])
  <2> SUFFICES ASSUME NEW s \in SUBSET (1..n), s # {}
               PROVE  h[s] = op(h[s \ {Max(s)}], t[Max(s)])
    BY <1>5 DEF IsFold
  <2>1. Max(s) \in 1..n /\ s \ {Max(s)} \in SUBSET (1..n)
    BY <1>1, MaxFacts
  <2> QED
    BY <1>4, <1>5, <2>1 DEF IsFold
<1>7. PICK f : /\ f = [s \in SUBSET DOMAIN t |->
                         IF s = {} THEN <<>> ELSE op(f[s \ {Max(s)}], t[Max(s)])]
               /\ Collapse(t) = f[DOMAIN t]
  <2>1. h = [s \in SUBSET DOMAIN t |->
               IF s = {} THEN <<>> ELSE op(h[s \ {Max(s)}], t[Max(s)])]
    BY <1>1, <1>6
  <2> QED
    BY <2>1 DEF Collapse, FoldLeft, MapThenFoldSet
<1>8. \A s \in SUBSET (1..n) :
        f[s] = IF s = {} THEN <<>> ELSE op(f[s \ {Max(s)}], t[Max(s)])
  BY <1>1, <1>7
<1>9. ASSUME NEW k \in 1..n, f[1..(k - 1)] \in Texts PROVE f[1..k] \in Texts
  <2>1. /\ 1..k \in SUBSET (1..n) /\ 1..k # {}
        /\ Max(1..k) = k /\ (1..k) \ {k} = 1..(k - 1)
    <3> HIDE DEF n
    <3> QED
      BY <1>1, MaxOfInterval
  <2>3. f[1..k] = op(f[1..(k - 1)], t[k])
    BY <1>8, <2>1
  <2> QED
    BY <1>1, <1>2, <1>9, <2>3
<1>10. f[{}] \in Texts
  BY <1>2, <1>8
<1> HIDE DEF op, n
<1>11. f[1..n] \in Texts
  BY <1>1, <1>9, <1>10, FoldKeeps
<1> QED
  BY <1>1, <1>7, <1>11

-----------------------------------------------------------------------------
(* The texts of Experience.                                                 *)

\* ... turned round,
LEMMA ReverseType ==
  ASSUME NEW t \in Texts
  PROVE  Reverse(t) \in Texts
<1>1. Len(t) \in Nat /\ \A i \in 1..Len(t) : t[i] \in Atoms
  BY DEF Texts
<1>2. \A i \in 1..Len(t) : (Len(t) - i) + 1 \in 1..Len(t)
  BY <1>1
<1>3. Reverse(t) \in [1..Len(t) -> Atoms]
  BY <1>1, <1>2 DEF Reverse
<1> QED
  BY <1>1, <1>3 DEF Texts

\* ... without a first character,
LEMMA DropType ==
  ASSUME NEW t \in Texts, NEW x
  PROVE  Drop(t, x) \in Texts
BY DEF Drop, Texts

\* ... trimmed,
LEMMA TrimType ==
  ASSUME NEW t \in Texts
  PROVE  Trim(t) \in Texts
BY DropType, ReverseType DEF Trim

\* ... cut,
LEMMA SliceType ==
  ASSUME NEW t \in Texts, NEW max \in Nat
  PROVE  Slice(t, max) \in Texts
<1> DEFINE m == IF Len(t) < max THEN Len(t) ELSE max
<1>1. m \in 0..Len(t)
  BY DEF Texts
<1>2. SubSeq(t, 1, m) \in Seq(Atoms)
  BY <1>1 DEF Texts
<1> QED
  BY <1>2 DEF Slice, Texts

\* ... and normalized.
LEMMA NormalizeType ==
  ASSUME NEW t \in Texts
  PROVE  Normalize(t) \in Texts
<1>1. Trim(Collapse(t)) \in Texts
  BY CollapseType, TrimType
<1>2. \A u \in Texts : DropBullet(u) \in Texts
  <2> SUFFICES ASSUME NEW u \in Texts PROVE DropBullet(u) \in Texts
    OBVIOUS
  <2>1. u # <<>> => Tail(u) \in Texts
    BY DEF Texts
  <2> QED
    BY <2>1, DropType DEF DropBullet
<1>3. \A u \in Texts : DropSubject(u) \in Texts
  <2> SUFFICES ASSUME NEW u \in Texts PROVE DropSubject(u) \in Texts
    OBVIOUS
  <2>1. u # <<>> => Tail(u) \in Texts
    BY DEF Texts
  <2> QED
    BY <2>1, DropType DEF DropSubject
<1>4. MaxText \in Nat
  BY LimitsAssumption
<1>5. Trim(DropSubject(DropBullet(Trim(Collapse(t))))) \in Texts
  BY <1>1, <1>2, <1>3, TrimType
<1> QED
  BY <1>4, <1>5, SliceType DEF Normalize

\* Lower case letters are letters.
LEMMA LowerType ==
  ASSUME NEW t \in Texts
  PROVE  Lower(t) \in Texts
<1>1. Len(t) \in Nat /\ \A i \in 1..Len(t) : LowerOf[t[i]] \in Atoms
  BY AtomsAssumption DEF Texts
<1>2. Lower(t) \in [1..Len(t) -> Atoms]
  BY <1>1 DEF Lower
<1> QED
  BY <1>1, <1>2 DEF Texts

\* A list of facts with one fact more.
LEMMA CollectType ==
  ASSUME NEW facts \in Seq(Texts), NEW t \in Texts, NEW max
  PROVE  Collect(facts, t, max) \in Seq(Texts)
<1> HIDE DEF Texts
<1>1. Append(facts, t) \in Seq(Texts)
  OBVIOUS
<1> QED
  BY <1>1 DEF Collect

\* What an answer, or a transcript, comes to are texts.
LEMMA ParseType ==
  ASSUME NEW answer \in Seq(Texts)
  PROVE  Parse(answer) \in Seq(Texts)
<1> DEFINE T == Seq(Texts)
           op(facts, item) == LET t == Normalize(item)
                              IN  IF Len(t) < MinText \/ IsNoise(t) THEN facts
                                  ELSE Collect(facts, t, MaxParsed)
           n == Len(answer)
           g == [p \in (1..n) \X T |-> op(p[2], answer[p[1]])]
<1>1. n \in Nat /\ DOMAIN answer = 1..n /\ \A i \in 1..n : answer[i] \in Texts
  OBVIOUS
<1>2. <<>> \in T /\ \A facts \in T, item \in Texts : op(facts, item) \in T
  BY NormalizeType, CollectType
<1> HIDE DEF T
<1>3. g \in [(1..n) \X T -> T]
  BY <1>1, <1>2
<1>4. \A i \in 1..n, facts \in T : g[<<i, facts>>] = op(facts, answer[i])
  OBVIOUS
<1> HIDE DEF g
<1>5. PICK h \in [SUBSET (1..n) -> T] : IsFold(h, n, <<>>, g)
  <2>1. n \in Nat /\ <<>> \in T
    BY <1>1, <1>2
  <2> HIDE DEF n, op
  <2> QED
    BY <1>3, <2>1, FoldExists, Zenon
<1>6. \A s \in SUBSET (1..n) :
        h[s] = IF s = {} THEN <<>> ELSE op(h[s \ {Max(s)}], answer[Max(s)])
  <2> SUFFICES ASSUME NEW s \in SUBSET (1..n), s # {}
               PROVE  h[s] = op(h[s \ {Max(s)}], answer[Max(s)])
    BY <1>5 DEF IsFold
  <2>1. Max(s) \in 1..n /\ s \ {Max(s)} \in SUBSET (1..n)
    BY <1>1, MaxFacts
  <2> QED
    BY <1>4, <1>5, <2>1 DEF IsFold
<1>7. PICK f : /\ f = [s \in SUBSET DOMAIN answer |->
                         IF s = {} THEN <<>> ELSE op(f[s \ {Max(s)}], answer[Max(s)])]
               /\ Parse(answer) = f[DOMAIN answer]
  <2>1. h = [s \in SUBSET DOMAIN answer |->
               IF s = {} THEN <<>> ELSE op(h[s \ {Max(s)}], answer[Max(s)])]
    BY <1>1, <1>6
  <2> QED
    BY <2>1 DEF Parse, FoldLeft, MapThenFoldSet
<1>8. \A s \in SUBSET (1..n) :
        f[s] = IF s = {} THEN <<>> ELSE op(f[s \ {Max(s)}], answer[Max(s)])
  BY <1>1, <1>7
<1>9. ASSUME NEW k \in 1..n, f[1..(k - 1)] \in T PROVE f[1..k] \in T
  <2>1. /\ 1..k \in SUBSET (1..n) /\ 1..k # {}
        /\ Max(1..k) = k /\ (1..k) \ {k} = 1..(k - 1)
    <3> HIDE DEF n
    <3> QED
      BY <1>1, MaxOfInterval
  <2>3. f[1..k] = op(f[1..(k - 1)], answer[k])
    BY <1>8, <2>1
  <2> QED
    BY <1>1, <1>2, <1>9, <2>3
<1>10. f[{}] \in T
  BY <1>2, <1>8
<1> HIDE DEF op, n
<1>11. f[1..n] \in T
  BY <1>1, <1>9, <1>10, FoldKeeps
<1> QED
  BY <1>1, <1>7, <1>11 DEF T

\* The same for the facts guessed from a transcript.
LEMMA GuessType ==
  ASSUME NEW messages \in Seq([role : STRING, text : Texts])
  PROVE  Guess(messages) \in Seq(Texts)
<1> DEFINE T == Seq(Texts)
           op(facts, m) == LET t == Normalize(m.text)
                           IN  IF m.role # "user" \/ Len(t) \notin MinSaid..MaxSaid \/ IsNoise(t)
                                  \/ \A x \in Hints : ~Has(t, x)
                               THEN facts ELSE Collect(facts, t, MaxGuessed)
           n == Len(messages)
           g == [p \in (1..n) \X T |-> op(p[2], messages[p[1]])]
<1>1. n \in Nat /\ DOMAIN messages = 1..n /\ \A i \in 1..n : messages[i].text \in Texts
  <2> DEFINE M == [role : STRING, text : Texts]
  <2>1. \A m \in M : m.text \in Texts
    OBVIOUS
  <2>2. messages \in Seq(M)
    OBVIOUS
  <2> HIDE DEF M
  <2>3. n \in Nat /\ DOMAIN messages = 1..n /\ \A i \in 1..n : messages[i] \in M
    BY <2>2
  <2> QED
    BY <2>1, <2>3
<1>2. <<>> \in T /\ \A facts \in T : \A m : m.text \in Texts => op(facts, m) \in T
  BY NormalizeType, CollectType
<1> HIDE DEF T
<1>3. g \in [(1..n) \X T -> T]
  BY <1>1, <1>2
<1>4. \A i \in 1..n, facts \in T : g[<<i, facts>>] = op(facts, messages[i])
  OBVIOUS
<1> HIDE DEF g
<1>5. PICK h \in [SUBSET (1..n) -> T] : IsFold(h, n, <<>>, g)
  <2>1. n \in Nat /\ <<>> \in T
    BY <1>1, <1>2
  <2> HIDE DEF n, op
  <2> QED
    BY <1>3, <2>1, FoldExists, Zenon
<1>6. \A s \in SUBSET (1..n) :
        h[s] = IF s = {} THEN <<>> ELSE op(h[s \ {Max(s)}], messages[Max(s)])
  <2> SUFFICES ASSUME NEW s \in SUBSET (1..n), s # {}
               PROVE  h[s] = op(h[s \ {Max(s)}], messages[Max(s)])
    BY <1>5 DEF IsFold
  <2>1. Max(s) \in 1..n /\ s \ {Max(s)} \in SUBSET (1..n)
    BY <1>1, MaxFacts
  <2> QED
    BY <1>4, <1>5, <2>1 DEF IsFold
<1>7. PICK f : /\ f = [s \in SUBSET DOMAIN messages |->
                         IF s = {} THEN <<>> ELSE op(f[s \ {Max(s)}], messages[Max(s)])]
               /\ Guess(messages) = f[DOMAIN messages]
  <2>1. h = [s \in SUBSET DOMAIN messages |->
               IF s = {} THEN <<>> ELSE op(h[s \ {Max(s)}], messages[Max(s)])]
    BY <1>1, <1>6
  <2> QED
    BY <2>1 DEF Guess, FoldLeft, MapThenFoldSet
<1>8. \A s \in SUBSET (1..n) :
        f[s] = IF s = {} THEN <<>> ELSE op(f[s \ {Max(s)}], messages[Max(s)])
  BY <1>1, <1>7
<1>9. ASSUME NEW k \in 1..n, f[1..(k - 1)] \in T PROVE f[1..k] \in T
  <2>1. /\ 1..k \in SUBSET (1..n) /\ 1..k # {}
        /\ Max(1..k) = k /\ (1..k) \ {k} = 1..(k - 1)
    <3> HIDE DEF n
    <3> QED
      BY <1>1, MaxOfInterval
  <2>3. f[1..k] = op(f[1..(k - 1)], messages[k])
    BY <1>8, <2>1
  <2> QED
    BY <1>1, <1>2, <1>9, <2>3
<1>10. f[{}] \in T
  BY <1>2, <1>8
<1> HIDE DEF op, n
<1>11. f[1..n] \in T
  BY <1>1, <1>9, <1>10, FoldKeeps
<1> QED
  BY <1>1, <1>7, <1>11 DEF T

-----------------------------------------------------------------------------
(* The facts a job still has to write.                                      *)

\* The first fact that remains is long enough and not known.
LEMMA RemainingFacts ==
  ASSUME NEW facts \in Seq(Texts), NEW texts, Remaining(facts, texts) # <<>>
  PROVE  LET left == Remaining(facts, texts)
         IN  /\ left \in Seq(Texts)
             /\ ~IsNearDuplicate(Normalize(Head(left)), texts)
<1> DEFINE New(i) == /\ Len(Normalize(facts[i])) >= MinText
                     /\ ~IsNearDuplicate(Normalize(facts[i]), texts)
           new == {i \in 1..Len(facts) : New(i)}
           least == CHOOSE i \in new : \A k \in new : i <= k
<1>1. Remaining(facts, texts) = IF new = {} THEN <<>> ELSE SubSeq(facts, least, Len(facts))
  BY DEF Remaining
<1>2. \A i \in new : New(i)
  OBVIOUS
<1>3. new # {} /\ new \in SUBSET Nat /\ new \subseteq 1..Len(facts)
  BY <1>1
<1> HIDE DEF New, new
<1>4. least \in new
  BY <1>3, LeastNat
<1> HIDE DEF least
<1>5. Len(facts) \in Nat /\ least \in 1..Len(facts)
  BY <1>3, <1>4
<1> DEFINE left == SubSeq(facts, least, Len(facts))
<1>6. left \in Seq(Texts) /\ Len(left) = Len(facts) - least + 1 /\ left[1] = facts[least]
  <2> HIDE DEF Texts
  <2> QED
    BY <1>5
<1>7. Head(left) = facts[least]
  <2>1. left \in Seq(Texts) /\ Len(left) # 0
    BY <1>5, <1>6
  <2> HIDE DEF left, Texts
  <2>2. left # <<>> /\ Head(left) = left[1]
    BY <2>1
  <2> QED
    BY <1>6, <2>2
<1>8. New(least)
  BY <1>2, <1>4
<1> HIDE DEF left
<1>9. Remaining(facts, texts) = left
  BY <1>1, <1>3 DEF left
<1> QED
  BY <1>6, <1>7, <1>8, <1>9 DEF New

Job == [pc : {"idle", "list", "create", "embed"}, facts : Seq(Texts), texts : SUBSET Texts,
        id : Nat]

\* A job that is about to write a fact, or has, has read no text it says again.
NewFact(j) ==
  j.pc \in {"create", "embed"} =>
    j.facts # <<>> /\ ~IsNearDuplicate(Normalize(Head(j.facts)), j.texts)

\* A job either has nothing left to write, or a new fact before it.
LEMMA WritingFacts ==
  ASSUME NEW facts \in Seq(Texts), NEW texts \in SUBSET Texts
  PROVE  LET j == Writing(facts, texts)
         IN  /\ j \in Job /\ NewFact(j) /\ j.id = 0 /\ j.pc \in {"idle", "create"}
             /\ j.pc = "create" => j.texts = texts
<1> DEFINE left == Remaining(facts, texts)
<1>1. CASE left = <<>>
  <2>1. Writing(facts, texts) = IdleJob
    BY <1>1 DEF Writing
  <2> QED
    BY <2>1 DEF IdleJob, Job, NewFact
<1>2. CASE left # <<>>
  <2>1. left \in Seq(Texts) /\ ~IsNearDuplicate(Normalize(Head(left)), texts)
    BY <1>2, RemainingFacts
  <2>2. Writing(facts, texts) = [pc |-> "create", facts |-> left, texts |-> texts, id |-> 0]
    BY <1>2 DEF Writing
  <2> HIDE DEF left
  <2> QED
    BY <1>2, <2>1, <2>2 DEF Job, NewFact
<1> QED
  BY <1>1, <1>2

\* What the LLM or the heuristic extracts is a list of texts.
LEMMA ExtractedType ==
  ASSUME NEW answer \in Answers, NEW messages \in Transcripts
  PROVE  Extracted(answer, messages) \in Seq(Texts)
<1>1. answer \in Seq(Texts) /\ messages \in Seq([role : STRING, text : Texts])
  BY InputsAssumption DEF Texts
<1> QED
  BY <1>1, ParseType, GuessType DEF Extracted

\* Of two texts each says the other once more, or neither does.
LEMMA AlikeBothWays ==
  ASSUME NEW t, NEW u
  PROVE  Alike(t, u) <=> Alike(u, t)
<1>1. /\ Bigrams(t) \cap Bigrams(u) = Bigrams(u) \cap Bigrams(t)
      /\ Bigrams(t) \cup Bigrams(u) = Bigrams(u) \cup Bigrams(t)
  OBVIOUS
<1>2. AlikeByBigrams(t, u) <=> AlikeByBigrams(u, t)
  BY <1>1 DEF AlikeByBigrams
<1> QED
  BY <1>2 DEF Alike

-----------------------------------------------------------------------------
(* The elements of a set in a row.                                          *)

Distinct(s) == \A i, k \in 1..Len(s) : s[i] = s[k] => i = k

\* A set listed with each element at one place is listed whole.
LEMMA SeqsFacts ==
  ASSUME NEW S, IsFiniteSet(S), NEW s \in SetToSeqs(S)
  PROVE  /\ s \in Seq(S) /\ Len(s) = Cardinality(S) /\ Distinct(s)
         /\ \A x \in S : \E i \in 1..Len(s) : s[i] = x
<1> DEFINE n == Cardinality(S)
<1>1. n \in Nat
  BY FS_CardinalityType
<1>2. s \in [1..n -> S] /\ \A i, k \in 1..n : i # k => s[i] # s[k]
  BY DEF SetToSeqs
<1> HIDE DEF n
<1>3. s \in Seq(S) /\ Len(s) = n
  BY <1>1, <1>2
<1>4. IsFiniteSet(1..n) /\ Cardinality(1..n) = n
  BY <1>1, FS_Interval
<1>5. s \in Injection(1..n, S)
  BY <1>2 DEF Injection, IsInjective
<1>6. s \in Surjection(1..n, S)
  BY <1>4, <1>5, FS_Injection DEF n
<1>7. \A x \in S : \E i \in 1..n : s[i] = x
  BY <1>6 DEF Surjection
<1> QED
  BY <1>2, <1>3, <1>7 DEF Distinct, n

\* A finite set that is ordered can be listed in that order: each element at the
\* place that the number of those before it gives.
LEMMA SortedExists ==
  ASSUME NEW S, IsFiniteSet(S), NEW R,
         \A x, y \in S : x # y => <<x, y>> \in R \/ <<y, x>> \in R,
         \A x \in S : <<x, x>> \notin R,
         \A x, y, z \in S : <<x, y>> \in R /\ <<y, z>> \in R => <<x, z>> \in R
  PROVE  \E s \in SetToSeqs(S) : \A i \in 1..Len(s) - 1 : <<s[i], s[i + 1]>> \in R
<1> DEFINE n == Cardinality(S)
           Before(x) == {y \in S : <<y, x>> \in R}
           pos == [x \in S |-> Cardinality(Before(x)) + 1]
<1>1. n \in Nat /\ IsFiniteSet(1..n) /\ Cardinality(1..n) = n
  BY FS_CardinalityType, FS_Interval
<1>2. ASSUME NEW x \in S
      PROVE  IsFiniteSet(Before(x)) /\ Cardinality(Before(x)) \in 0..n - 1
  <2>1. Before(x) \in SUBSET S /\ Before(x) # S
    OBVIOUS
  <2>2. IsFiniteSet(Before(x)) /\ Cardinality(Before(x)) <= n /\ Cardinality(Before(x)) # n
    BY <2>1, FS_Subset
  <2>3. Cardinality(Before(x)) \in Nat
    BY <2>2, FS_CardinalityType
  <2> QED
    BY <1>1, <2>2, <2>3
<1>3. ASSUME NEW x \in S, NEW y \in S, <<x, y>> \in R PROVE pos[x] < pos[y]
  <2>1. Before(x) \cup {x} \in SUBSET Before(y) /\ x \notin Before(x)
    BY <1>3
  <2>2. IsFiniteSet(Before(x)) /\ IsFiniteSet(Before(y))
    BY <1>2
  <2>3. Cardinality(Before(x) \cup {x}) = Cardinality(Before(x)) + 1
    BY <2>1, <2>2, FS_AddElement
  <2>4. Cardinality(Before(x) \cup {x}) <= Cardinality(Before(y))
    BY <2>1, <2>2, FS_Subset
  <2>5. Cardinality(Before(x)) \in Nat /\ Cardinality(Before(y)) \in Nat
    BY <2>2, FS_CardinalityType
  <2> HIDE DEF Before
  <2> QED
    BY <2>3, <2>4, <2>5
<1>4. pos \in [S -> 1..n]
  <2>1. ASSUME NEW x \in S PROVE Cardinality(Before(x)) + 1 \in 1..n
    <3>1. Cardinality(Before(x)) \in 0..n - 1
      BY <1>2
    <3> HIDE DEF Before, n
    <3> QED
      BY <1>1, <3>1
  <2> HIDE DEF Before
  <2> QED
    BY <2>1
<1> HIDE DEF pos, Before
<1>5. \A x, y \in S : pos[x] = pos[y] => x = y
  <2> SUFFICES ASSUME NEW x \in S, NEW y \in S, pos[x] = pos[y], x # y PROVE FALSE
    OBVIOUS
  <2>1. pos[x] \in Nat /\ pos[y] \in Nat
    BY <1>1, <1>4
  <2>2. pos[x] < pos[y] \/ pos[y] < pos[x]
    BY <1>3
  <2> QED
    BY <2>1, <2>2
<1>6. pos \in Injection(S, 1..n)
  BY <1>4, <1>5 DEF Injection, IsInjective
<1>7. pos \in Surjection(S, 1..n)
  BY <1>1, <1>6, FS_Injection
<1>8. \A i \in 1..n : \E x \in S : pos[x] = i
  BY <1>7 DEF Surjection
<1> DEFINE s == [i \in 1..n |-> CHOOSE x \in S : pos[x] = i]
<1>9. \A i \in 1..n : s[i] \in S /\ pos[s[i]] = i
  BY <1>8
<1>10. s \in [1..n -> S] /\ Len(s) = n
  BY <1>1, <1>9
<1> HIDE DEF s
<1>11. \A i, k \in 1..n : i # k => s[i] # s[k]
  BY <1>9
<1>12. s \in SetToSeqs(S)
  BY <1>10, <1>11 DEF SetToSeqs
<1>13. ASSUME NEW i \in 1..n - 1 PROVE <<s[i], s[i + 1]>> \in R
  <2>1. i \in 1..n /\ i + 1 \in 1..n /\ i \in Nat
    BY <1>1
  <2>2. s[i] \in S /\ s[i + 1] \in S /\ pos[s[i]] = i /\ pos[s[i + 1]] = i + 1
    BY <1>9, <2>1
  <2>3. s[i] # s[i + 1]
    BY <1>11, <2>1
  <2>4. CASE <<s[i + 1], s[i]>> \in R
    <3>1. pos[s[i + 1]] < pos[s[i]]
      BY <1>3, <2>2, <2>4
    <3> QED
      BY <2>1, <2>2, <3>1
  <2> QED
    BY <2>2, <2>3, <2>4
<1> QED
  BY <1>10, <1>12, <1>13

\* ORDER BY lists the rows, each once.
LEMMA ByImportanceFacts ==
  ASSUME NEW S, IsFiniteSet(S), \A r \in S : r.id \in Int /\ r.imp \in Int,
         \A r, s \in S : r.id = s.id => r = s
  PROVE  ByImportance(S) \in SetToSeqs(S)
<1> DEFINE R == {p \in S \X S : MoreImportant(p[1], p[2])}
<1>1. \A x, y \in S : <<x, y>> \in R <=> MoreImportant(x, y)
  OBVIOUS
<1>2. \A x, y \in S : x # y => MoreImportant(x, y) \/ MoreImportant(y, x)
  BY DEF MoreImportant
<1>3. \A x \in S : ~MoreImportant(x, x)
  BY DEF MoreImportant
<1>4. \A x, y, z \in S : MoreImportant(x, y) /\ MoreImportant(y, z) => MoreImportant(x, z)
  BY DEF MoreImportant
<1> HIDE DEF R
<1>5. PICK s \in SetToSeqs(S) : \A i \in 1..Len(s) - 1 : <<s[i], s[i + 1]>> \in R
  BY <1>1, <1>2, <1>3, <1>4, SortedExists
<1>6. s \in Seq(S)
  BY SeqsFacts
<1>7. \A i \in 1..Len(s) - 1 : s[i] \in S /\ s[i + 1] \in S
  BY <1>6
<1>8. \A i \in 1..Len(s) - 1 : MoreImportant(s[i], s[i + 1])
  BY <1>1, <1>5, <1>7
<1> QED
  BY <1>8 DEF ByImportance

\* The first elements of a sequence.
LEMMA TakeFacts ==
  ASSUME NEW X, NEW s \in Seq(X), NEW n \in Nat
  PROVE  /\ Take(s, n) \in Seq(X)
         /\ Len(Take(s, n)) = IF Len(s) < n THEN Len(s) ELSE n
         /\ \A i \in 1..Len(Take(s, n)) : i \in 1..Len(s) /\ Take(s, n)[i] = s[i]
         /\ Distinct(s) => Distinct(Take(s, n))
<1> DEFINE m == IF Len(s) < n THEN Len(s) ELSE n
           t == SubSeq(s, 1, m)
<1>1. Len(s) \in Nat /\ m \in 0..Len(s)
  OBVIOUS
<1>2. Take(s, n) = t
  BY DEF Take
<1>3. t \in Seq(X) /\ Len(t) = m /\ \A i \in 1..m : t[i] = s[i]
  <2> HIDE DEF m
  <2> QED
    BY <1>1
<1> HIDE DEF t
<1>4. \A i \in 1..Len(t) : i \in 1..Len(s) /\ t[i] = s[i]
  BY <1>1, <1>3
<1>5. Distinct(s) => Distinct(t)
  BY <1>4 DEF Distinct
<1> QED
  BY <1>2, <1>3, <1>4, <1>5

-----------------------------------------------------------------------------
(* The rows and the job.                                                    *)

\* As long as a job is shown all experiences, the texts it compares with hold
\* those of the rows, but for the one it has just written.
Known ==
  MaxRows <= ListTake /\ job.pc \in {"create", "embed"} =>
    \A r \in Experienced :
      \/ r.text \in job.texts
      \/ job.pc = "embed" /\ r.text = Normalize(Head(job.facts))

\* And what is written is new.
Differ == MaxRows <= ListTake => FactsDiffer

\* What the job and the clients keep.
Memory ==
  /\ rows \subseteq Rows /\ \A r, s \in rows : r.id = s.id => r = s
  /\ created \in 0..MaxRows /\ enabled \in BOOLEAN
  /\ job \in Job /\ job.id <= created
  /\ NewFact(job) /\ Known
  /\ \A r \in Experienced : Lower(Normalize(r.text)) # <<>>
  /\ Differ

\* A row is what its columns are.
LEMMA RowFields ==
  ASSUME Memory, NEW r \in rows
  PROVE  /\ r.id \in 1..created /\ r.type \in Types /\ r.text \in Texts
         /\ r.imp \in Importances /\ r.vec \in BOOLEAN
         /\ r = [id |-> r.id, type |-> r.type, text |-> r.text, imp |-> r.imp, vec |-> r.vec]
BY DEF Memory, Rows

\* There are no more rows than were created.
LEMMA RowsFinite ==
  ASSUME Memory
  PROVE  IsFiniteSet(rows) /\ Cardinality(rows) <= MaxRows /\ Cardinality(rows) \in Nat
<1> DEFINE f == [r \in rows |-> r.id]
<1>1. created \in Nat /\ created <= MaxRows /\ MaxRows \in Nat
  BY RrfAssumption DEF Memory
<1>2. f \in [rows -> 1..created] /\ \A r, s \in rows : f[r] = f[s] => r = s
  BY RowFields DEF Memory
<1>3. f \in Injection(rows, 1..created)
  BY <1>2 DEF Injection, IsInjective
<1>4. IsFiniteSet(1..created) /\ Cardinality(1..created) = created
  BY <1>1, FS_Interval
<1>5. IsFiniteSet(rows) /\ Cardinality(rows) <= created
  BY <1>3, <1>4, FS_Injection
<1>6. Cardinality(rows) \in Nat
  BY <1>5, FS_CardinalityType
<1> QED
  BY <1>1, <1>5, <1>6

\* Rows in any order.
LEMMA SeqsOfRows ==
  ASSUME Memory, NEW S \in SUBSET rows, NEW s \in SetToSeqs(S)
  PROVE  /\ s \in Seq(rows) /\ Distinct(s) /\ Len(s) <= MaxRows
         /\ \A r \in S : \E i \in 1..Len(s) : s[i] = r
         /\ S # {} => Len(s) # 0
<1>1. IsFiniteSet(S) /\ Cardinality(S) <= Cardinality(rows)
  BY RowsFinite, FS_Subset
<1>2. /\ s \in Seq(S) /\ Len(s) = Cardinality(S) /\ Distinct(s)
      /\ \A x \in S : \E i \in 1..Len(s) : s[i] = x
  BY <1>1, SeqsFacts
<1>3. s \in Seq(rows)
  BY <1>2
<1>4. Cardinality(S) \in Nat /\ MaxRows \in Nat
  BY <1>1, FS_CardinalityType, RrfAssumption
<1>5. Len(s) <= MaxRows
  BY <1>1, <1>2, <1>4, RowsFinite
<1>6. S # {} => Len(s) # 0
  BY <1>2
<1> QED
  BY <1>2, <1>3, <1>5, <1>6

\* Importance and age order all rows.
LEMMA SortedRows ==
  ASSUME Memory, NEW S \in SUBSET rows
  PROVE  ByImportance(S) \in SetToSeqs(S)
<1>1. IsFiniteSet(S)
  BY RowsFinite, FS_Subset
<1>2. \A r \in S : r.id \in Int /\ r.imp \in Int
  BY RowFields, InputsAssumption
<1>3. \A r, s \in S : r.id = s.id => r = s
  BY DEF Memory
<1> QED
  BY <1>1, <1>2, <1>3, ByImportanceFacts

\* The best rows of a set.
LEMMA BestRows ==
  ASSUME Memory, NEW S \in SUBSET rows, NEW n \in Nat
  PROVE  LET best == Take(ByImportance(S), n)
         IN  /\ best \in Seq(rows) /\ Distinct(best) /\ Len(best) <= MaxRows
             /\ Len(best) < n => \A r \in S : \E i \in 1..Len(best) : best[i] = r
<1> DEFINE all == ByImportance(S)
           best == Take(all, n)
<1>1. /\ all \in Seq(rows) /\ Distinct(all) /\ Len(all) <= MaxRows
      /\ \A r \in S : \E i \in 1..Len(all) : all[i] = r
  BY SortedRows, SeqsOfRows
<1>2. MaxRows \in Nat
  BY RrfAssumption
<1> HIDE DEF all
<1>3. /\ best \in Seq(rows) /\ Distinct(best)
      /\ Len(best) = IF Len(all) < n THEN Len(all) ELSE n
      /\ \A i \in 1..Len(best) : best[i] = all[i]
  BY <1>1, <1>2, TakeFacts
<1>4. Len(all) \in Nat
  BY <1>1
<1> HIDE DEF best
<1>5. Len(best) <= MaxRows
  BY <1>1, <1>2, <1>3, <1>4
<1>6. Len(best) < n => Len(best) = Len(all)
  BY <1>2, <1>3, <1>4
<1>7. Len(best) < n => \A r \in S : \E i \in 1..Len(best) : best[i] = r
  BY <1>1, <1>3, <1>6
<1> QED
  BY <1>3, <1>5, <1>7 DEF all, best

\* A list that may be as long as there are rows is whole.
LEMMA WholeList ==
  ASSUME Memory, NEW S \in SUBSET rows, NEW n \in Nat, MaxRows <= n
  PROVE  LET best == Take(ByImportance(S), n)
         IN  \A r \in S : \E i \in 1..Len(best) : best[i] = r
<1> DEFINE all == ByImportance(S)
           best == Take(all, n)
<1>1. /\ all \in Seq(rows) /\ Len(all) <= MaxRows
      /\ \A r \in S : \E i \in 1..Len(all) : all[i] = r
  BY SortedRows, SeqsOfRows
<1>2. MaxRows \in Nat
  BY RrfAssumption
<1> HIDE DEF all
<1>3. /\ Len(best) = IF Len(all) < n THEN Len(all) ELSE n
      /\ \A i \in 1..Len(best) : best[i] = all[i]
  BY <1>1, <1>2, TakeFacts
<1>4. Len(all) \in Nat
  BY <1>1
<1> HIDE DEF best
<1>5. Len(best) = Len(all)
  BY <1>1, <1>2, <1>3, <1>4
<1> QED
  BY <1>1, <1>3, <1>5 DEF all, best

\* There is nothing in the beginning.
LEMMA MemoryInit == Init => Memory
<1> SUFFICES ASSUME Init PROVE Memory
  OBVIOUS
<1>1. 0 \in 0..MaxRows
  BY RrfAssumption
<1> QED
  BY <1>1 DEF Init, Memory, IdleJob, Job, NewFact, Known, Experienced, Differ, FactsDiffer

\* Two rows that differ in their vectors at most.
Same(r, s) == r.id = s.id /\ r.type = s.type /\ r.text = s.text /\ r.imp = s.imp

\* Fewer rows, or the same but for their vectors, are still of different facts.
LEMMA RowsThin ==
  ASSUME Memory, rows' \subseteq Rows', \A r, s \in rows' : r.id = s.id => r = s,
         \A r \in rows' : \E s \in rows : Same(r, s)
  PROVE  (\A r \in Experienced : Lower(Normalize(r.text)) # <<>>)' /\ Differ'
<1>1. \A r \in rows' : \E s \in rows : r.id = s.id /\ r.type = s.type /\ r.text = s.text
  BY DEF Same
<1>2. ASSUME NEW r \in rows', r.type = "experience"
      PROVE  Lower(Normalize(r.text)) # <<>>
  <2>1. PICK s \in rows : r.type = s.type /\ r.text = s.text
    BY <1>1
  <2> QED
    BY <1>2, <2>1 DEF Memory, Experienced
<1>3. ASSUME MaxRows <= ListTake, NEW r \in rows', NEW s \in rows', r # s,
             r.type = "experience", s.type = "experience"
      PROVE  ~Alike(Lower(Normalize(r.text)), Lower(Normalize(s.text)))
  <2>1. PICK a \in rows : r.id = a.id /\ r.type = a.type /\ r.text = a.text
    BY <1>1
  <2>2. PICK b \in rows : s.id = b.id /\ s.type = b.type /\ s.text = b.text
    BY <1>1
  <2>3. r.id # s.id
    BY <1>3
  <2>4. a # b
    BY <2>1, <2>2, <2>3
  <2> QED
    BY <1>3, <2>1, <2>2, <2>4 DEF Memory, Differ, FactsDiffer
<1> QED
  BY <1>2, <1>3 DEF Experienced, Differ, FactsDiffer

\* The row of an id is embedded.
Embedded(id) == {IF r.id = id THEN [r EXCEPT !.vec = TRUE] ELSE r : r \in rows}

\* An embedding leaves every row but for its vector.
LEMMA EmbedRows ==
  ASSUME Memory, NEW id, rows' = Embedded(id), created' = created
  PROVE  /\ rows' \subseteq Rows' /\ \A r, s \in rows' : r.id = s.id => r = s
         /\ \A r \in rows' : \E s \in rows : Same(r, s)
         /\ \A s \in rows : \E r \in rows' : Same(r, s)
<1> DEFINE E(r) == IF r.id = id THEN [r EXCEPT !.vec = TRUE] ELSE r
<1>1. ASSUME NEW r \in rows PROVE E(r) \in Rows /\ Same(E(r), r)
  <2>1. /\ r = [id |-> r.id, type |-> r.type, text |-> r.text, imp |-> r.imp, vec |-> r.vec]
        /\ r \in Rows
    BY RowFields DEF Memory
  <2> QED
    BY <2>1 DEF Rows, Same
<1>2. rows' = {E(r) : r \in rows}
  BY DEF Embedded
<1> HIDE DEF E
<1>3. rows' \subseteq Rows'
  BY <1>1, <1>2 DEF Rows
<1>4. ASSUME NEW x \in rows', NEW y \in rows', x.id = y.id PROVE x = y
  <2>1. PICK r \in rows, s \in rows : x = E(r) /\ y = E(s)
    BY <1>2
  <2>2. r.id = s.id
    BY <1>1, <1>4, <2>1 DEF Same
  <2>3. r = s
    BY <2>2 DEF Memory
  <2> QED
    BY <2>1, <2>3
<1> QED
  BY <1>1, <1>2, <1>3, <1>4

\* A row is new.
LEMMA InsertRows ==
  ASSUME Memory, NEW type \in Types, NEW text \in Texts, Insert(type, text)
  PROVE  /\ rows' \subseteq Rows' /\ \A r, s \in rows' : r.id = s.id => r = s
         /\ created' \in 0..MaxRows /\ created' = created + 1
         /\ \E n \in rows' : /\ n.id = created + 1 /\ n.type = type /\ n.text = text
                             /\ rows' = rows \cup {n}
<1>1. created' = created + 1 /\ created < MaxRows
  BY DEF Insert
<1>2. PICK imp \in Importances :
        rows' = rows \cup {[id |-> created + 1, type |-> type, text |-> text, imp |-> imp,
                            vec |-> FALSE]}
  BY DEF Insert
<1> DEFINE n == [id |-> created + 1, type |-> type, text |-> text, imp |-> imp, vec |-> FALSE]
<1>3. created \in Nat /\ created' \in 0..MaxRows
  BY <1>1, RrfAssumption DEF Memory
<1>4. n \in Rows' /\ n.id = created + 1 /\ n.type = type /\ n.text = text
  BY <1>1, <1>3 DEF Rows
<1>5. ASSUME NEW r \in rows PROVE r \in Rows' /\ r.id # n.id
  <2>1. r.id \in 1..created
    BY RowFields
  <2>2. r.id \in 1..created' /\ r.id # created + 1
    BY <1>1, <1>3, <2>1
  <2>3. /\ r.type \in Types /\ r.text \in Texts /\ r.imp \in Importances /\ r.vec \in BOOLEAN
        /\ r = [id |-> r.id, type |-> r.type, text |-> r.text, imp |-> r.imp, vec |-> r.vec]
    BY RowFields
  <2> QED
    BY <1>4, <2>2, <2>3 DEF Rows
<1>6. rows' = rows \cup {n}
  BY <1>2
<1> HIDE DEF n
<1>7. \A r, s \in rows' : r.id = s.id => r = s
  BY <1>5, <1>6 DEF Memory
<1>8. rows' \subseteq Rows'
  BY <1>4, <1>5, <1>6
<1> QED
  BY <1>1, <1>3, <1>4, <1>6, <1>7, <1>8

\* The facts of an answer are texts, and none is written yet.
LEMMA MemoryAskLlm ==
  ASSUME Memory, AskLlm
  PROVE  Memory'
<1>1. PICK facts \in Extractions : job' = [IdleJob EXCEPT !.pc = "list", !.facts = facts]
  BY DEF AskLlm
<1>2. facts \in Seq(Texts)
  BY ExtractedType DEF Extractions
<1>3. job' \in Job /\ job'.pc = "list" /\ job'.id = 0
  BY <1>1, <1>2 DEF IdleJob, Job
<1>4. UNCHANGED <<rows, created, enabled>>
  BY DEF AskLlm
<1>5. created \in Nat
  BY RrfAssumption DEF Memory
<1>6. NewFact(job') /\ Known' /\ 0 <= created
  BY <1>3, <1>5 DEF NewFact, Known
<1> QED
  BY <1>3, <1>4, <1>6 DEF Memory, Rows, Experienced, Differ, FactsDiffer

\* What is listed is what the rows hold, if it is all.
LEMMA MemoryList ==
  ASSUME Memory, ListExperiences
  PROVE  Memory'
<1> DEFINE listed == Take(ByImportance(Experienced), ListTake)
           texts == {listed[i].text : i \in 1..Len(listed)}
<1>1. job' = Writing(job.facts, texts) /\ UNCHANGED <<rows, created, enabled>>
  BY DEF ListExperiences
<1>2. Experienced \in SUBSET rows /\ ListTake \in Nat
  BY TakeAssumption DEF Experienced
<1>3. listed \in Seq(rows)
  BY <1>2, BestRows
<1>4. MaxRows <= ListTake => \A r \in Experienced : \E i \in 1..Len(listed) : listed[i] = r
  BY <1>2, WholeList
<1> HIDE DEF listed
<1>5. texts \in SUBSET Texts
  <2>1. \A i \in 1..Len(listed) : listed[i] \in rows
    BY <1>3
  <2> QED
    BY <2>1, RowFields
<1>6. MaxRows <= ListTake => \A r \in Experienced : r.text \in texts
  BY <1>4
<1> HIDE DEF texts
<1>7. job.facts \in Seq(Texts)
  BY DEF Memory, Job
<1>8. /\ job' \in Job /\ NewFact(job') /\ job'.id = 0 /\ job'.pc \in {"idle", "create"}
      /\ job'.pc = "create" => job'.texts = texts
  BY <1>1, <1>5, <1>7, WritingFacts
<1>9. Experienced' = Experienced
  BY <1>1 DEF Experienced
<1>10. Known'
  BY <1>6, <1>8, <1>9 DEF Known
<1>11. 0 <= created
  BY RrfAssumption DEF Memory
<1> QED
  BY <1>1, <1>8, <1>9, <1>10, <1>11 DEF Memory, Rows, Differ, FactsDiffer

\* The row that is written says no fact of before once more, for the job has
\* compared it with the text of each.
LEMMA MemoryCreate ==
  ASSUME Memory, CreateExperience
  PROVE  Memory'
<1> DEFINE text == Normalize(Head(job.facts))
<1>1. /\ job.pc = "create" /\ Insert("experience", text)
      /\ job' = [job EXCEPT !.pc = "embed", !.id = created + 1] /\ enabled' = enabled
  BY DEF CreateExperience
<1>2. job \in Job /\ job.facts # <<>> /\ ~IsNearDuplicate(text, job.texts)
  BY <1>1 DEF Memory, NewFact
<1>3. text \in Texts
  <2>1. job.facts \in Seq(Texts)
    BY <1>2 DEF Job
  <2> HIDE DEF Texts
  <2>2. Head(job.facts) \in Texts
    BY <1>2, <2>1
  <2> QED
    BY <2>2, NormalizeType
<1>4. PICK n \in rows' : /\ n.id = created + 1 /\ n.type = "experience" /\ n.text = text
                         /\ rows' = rows \cup {n}
  BY <1>1, <1>3, InsertRows DEF Types
<1>5. /\ rows' \subseteq Rows' /\ \A r, s \in rows' : r.id = s.id => r = s
      /\ created' \in 0..MaxRows /\ created' = created + 1
  BY <1>1, <1>3, InsertRows DEF Types
<1>6. created \in Nat
  BY RrfAssumption DEF Memory
<1>7. /\ job' \in Job /\ job'.pc = "embed" /\ job'.id = created + 1
      /\ job'.facts = job.facts /\ job'.texts = job.texts
  <2>1. /\ job = [pc |-> job.pc, facts |-> job.facts, texts |-> job.texts, id |-> job.id]
        /\ job.facts \in Seq(Texts) /\ job.texts \in SUBSET Texts
    BY <1>2 DEF Job
  <2>2. job' = [pc |-> "embed", facts |-> job.facts, texts |-> job.texts, id |-> created + 1]
    BY <1>1, <2>1
  <2> QED
    BY <1>6, <2>1, <2>2 DEF Job
<1>8. NewFact(job')
  BY <1>2, <1>7 DEF NewFact
<1>9. MaxRows <= ListTake => \A r \in Experienced : r.text \in job.texts
  BY <1>1 DEF Memory, Known
<1>10. Experienced' = Experienced \cup {n}
  BY <1>4 DEF Experienced
<1>11. Known'
  BY <1>4, <1>7, <1>9, <1>10 DEF Known
<1> DEFINE t == Lower(Normalize(text))
<1>12. t # <<>> /\ \A e \in job.texts : LET u == Lower(Normalize(e))
                                       IN  u # <<>> => ~Alike(t, u)
  BY <1>2 DEF IsNearDuplicate
<1>13. \A r \in Experienced : Lower(Normalize(r.text)) # <<>>
  BY DEF Memory
<1>14. MaxRows <= ListTake =>
         \A r \in Experienced : /\ ~Alike(t, Lower(Normalize(r.text)))
                               /\ ~Alike(Lower(Normalize(r.text)), t)
  BY <1>9, <1>12, <1>13, AlikeBothWays
<1>15. \A r \in Experienced' : Lower(Normalize(r.text)) # <<>>
  BY <1>4, <1>10, <1>12, <1>13
<1>16. ASSUME MaxRows <= ListTake, NEW r \in rows', NEW s \in rows', r # s,
              r.type = "experience", s.type = "experience"
       PROVE  ~Alike(Lower(Normalize(r.text)), Lower(Normalize(s.text)))
  <2>1. CASE r \in rows /\ s \in rows
    BY <1>16, <2>1 DEF Memory, Differ, FactsDiffer
  <2>2. CASE r = n /\ s \in rows
    BY <1>4, <1>14, <1>16, <2>2 DEF Experienced
  <2>3. CASE r \in rows /\ s = n
    BY <1>4, <1>14, <1>16, <2>3 DEF Experienced
  <2> QED
    BY <1>4, <1>16, <2>1, <2>2, <2>3
<1>17. Differ'
  BY <1>16 DEF Differ, FactsDiffer
<1>18. job'.id <= created' /\ enabled' \in BOOLEAN
  BY <1>1, <1>5, <1>6, <1>7 DEF Memory
<1> QED
  BY <1>5, <1>7, <1>8, <1>11, <1>15, <1>17, <1>18 DEF Memory

\* The text just written joins those the job compares with.
LEMMA MemoryEmbed ==
  ASSUME Memory, WriteEmbedding
  PROVE  Memory'
<1> DEFINE text == Normalize(Head(job.facts))
<1>1. /\ job.pc = "embed" /\ UNCHANGED <<created, enabled>>
      /\ job' = Writing(Tail(job.facts), job.texts \cup {text})
  BY DEF WriteEmbedding
<1>2. job \in Job /\ job.facts # <<>>
  BY <1>1 DEF Memory, NewFact
<1>3. text \in Texts /\ Tail(job.facts) \in Seq(Texts)
  <2>1. job.facts \in Seq(Texts)
    BY <1>2 DEF Job
  <2> HIDE DEF Texts
  <2>2. Head(job.facts) \in Texts /\ Tail(job.facts) \in Seq(Texts)
    BY <1>2, <2>1
  <2> QED
    BY <2>2, NormalizeType
<1>4. job.texts \cup {text} \in SUBSET Texts
  BY <1>2, <1>3 DEF Job
<1>5. /\ job' \in Job /\ NewFact(job') /\ job'.id = 0 /\ job'.pc \in {"idle", "create"}
      /\ job'.pc = "create" => job'.texts = job.texts \cup {text}
  BY <1>1, <1>3, <1>4, WritingFacts
<1>6. MaxRows <= ListTake => \A r \in Experienced : r.text \in job.texts \cup {text}
  BY <1>1 DEF Memory, Known
<1>7. /\ rows' \subseteq Rows' /\ \A r, s \in rows' : r.id = s.id => r = s
      /\ \A r \in rows' : \E s \in rows : Same(r, s)
  <2>1. CASE rows' = rows
    BY <1>1, <2>1 DEF Memory, Rows, Same
  <2>2. CASE rows' = Embedded(job.id)
    BY <1>1, <2>2, EmbedRows
  <2> QED
    BY <2>1, <2>2 DEF WriteEmbedding, Embedded
<1>8. Known'
  <2> SUFFICES ASSUME MaxRows <= ListTake, job'.pc = "create", NEW r \in Experienced'
               PROVE  r.text \in job'.texts
    BY <1>5 DEF Known
  <2>1. PICK s \in rows : Same(r, s)
    BY <1>7 DEF Experienced
  <2>2. s \in Experienced /\ r.text = s.text
    BY <2>1 DEF Experienced, Same
  <2> QED
    BY <1>5, <1>6, <2>2
<1>9. (\A r \in Experienced : Lower(Normalize(r.text)) # <<>>)' /\ Differ'
  BY <1>7, RowsThin
<1>10. 0 <= created /\ created \in Nat
  BY RrfAssumption DEF Memory
<1> QED
  BY <1>1, <1>5, <1>7, <1>8, <1>9, <1>10 DEF Memory

\* A job that fails leaves its rows behind, and knows nothing.
LEMMA MemoryFail ==
  ASSUME Memory, JobFails
  PROVE  Memory'
<1>1. job' = IdleJob /\ UNCHANGED <<rows, created, enabled>>
  BY DEF JobFails
<1>2. 0 <= created
  BY RrfAssumption DEF Memory
<1>3. job' \in Job /\ job'.id = 0 /\ NewFact(job') /\ Known'
  BY <1>1 DEF IdleJob, Job, NewFact, Known
<1> QED
  BY <1>1, <1>2, <1>3 DEF Memory, Rows, Experienced, Differ, FactsDiffer

\* A preference is no experience.
LEMMA MemoryNote ==
  ASSUME Memory, Note
  PROVE  Memory'
<1>1. UNCHANGED <<enabled, job>>
  BY DEF Note
<1>2. PICK text \in Notes : Insert("preference", text)
  BY DEF Note
<1>3. text \in Texts /\ "preference" \in Types
  BY InputsAssumption DEF Texts, Types
<1>4. PICK n \in rows' : /\ n.id = created + 1 /\ n.type = "preference"
                         /\ rows' = rows \cup {n}
  BY <1>2, <1>3, InsertRows
<1>5. /\ rows' \subseteq Rows' /\ \A r, s \in rows' : r.id = s.id => r = s
      /\ created' \in 0..MaxRows /\ created' = created + 1
  BY <1>2, <1>3, InsertRows
<1>6. Experienced' = Experienced
  BY <1>4 DEF Experienced
<1>7. Differ'
  BY <1>4 DEF Memory, Differ, FactsDiffer
<1>8. job \in Job /\ job.id \in Nat /\ job.id <= created /\ created \in Nat
  BY RrfAssumption DEF Memory, Job
<1>9. job'.id <= created'
  BY <1>1, <1>5, <1>8
<1> QED
  BY <1>1, <1>5, <1>6, <1>7, <1>9 DEF Memory, Known

\* An embedding changes no text.
LEMMA MemoryEmbedNote ==
  ASSUME Memory, NEW r \in rows, EmbedNote(r)
  PROVE  Memory' /\ \A s \in rows : \E q \in rows' : Same(q, s)
<1>1. UNCHANGED <<created, enabled, job>>
  BY DEF EmbedNote
<1>2. rows' = Embedded(r.id)
  BY DEF EmbedNote, Memory, Embedded
<1>3. /\ rows' \subseteq Rows' /\ \A q, s \in rows' : q.id = s.id => q = s
      /\ \A q \in rows' : \E s \in rows : Same(q, s)
      /\ \A s \in rows : \E q \in rows' : Same(q, s)
  BY <1>1, <1>2, EmbedRows
<1>4. \A q \in Experienced' : \E s \in Experienced : q.text = s.text
  BY <1>3 DEF Experienced, Same
<1>5. Known'
  BY <1>1, <1>4 DEF Memory, Known
<1>6. (\A q \in Experienced : Lower(Normalize(q.text)) # <<>>)' /\ Differ'
  BY <1>3, RowsThin
<1> QED
  BY <1>1, <1>3, <1>5, <1>6 DEF Memory

\* A row that goes says nothing any more.
LEMMA MemoryDelete ==
  ASSUME Memory, NEW r \in rows, DeleteChunk(r)
  PROVE  Memory'
<1>1. rows' = rows \ {r} /\ UNCHANGED <<created, enabled, job>>
  BY DEF DeleteChunk
<1>2. Experienced' \subseteq Experienced
  BY <1>1 DEF Experienced
<1>3. Known'
  BY <1>1, <1>2 DEF Memory, Known
<1>4. Differ'
  BY <1>1 DEF Memory, Differ, FactsDiffer
<1> QED
  BY <1>1, <1>2, <1>3, <1>4 DEF Memory, Rows

\* A search leaves the rows and the job alone.
LEMMA MemoryStutter ==
  ASSUME Memory, UNCHANGED <<rows, created, enabled, job>>
  PROVE  Memory'
BY DEF Memory, Rows, Known, Experienced, Differ, FactsDiffer

\* Every step keeps the memory.
LEMMA MemoryStep ==
  ASSUME Memory, [Next]_vars
  PROVE  Memory'
<1>1. CASE AskLlm
  BY <1>1, MemoryAskLlm
<1>2. CASE ListExperiences
  BY <1>2, MemoryList
<1>3. CASE CreateExperience
  BY <1>3, MemoryCreate
<1>4. CASE WriteEmbedding
  BY <1>4, MemoryEmbed
<1>5. CASE JobFails
  BY <1>5, MemoryFail
<1>6. CASE Note
  BY <1>6, MemoryNote
<1>7. ASSUME NEW r \in rows, EmbedNote(r) PROVE Memory'
  BY <1>7, MemoryEmbedNote
<1>8. ASSUME NEW r \in rows, DeleteChunk(r) PROVE Memory'
  BY <1>8, MemoryDelete
<1>9. CASE BeginRetrieve \/ VectorSearch \/ IlikeSearch \/ ExperienceSearch \/ Fuse \/ FallBack
  BY <1>9, MemoryStutter
  DEF BeginRetrieve, VectorSearch, IlikeSearch, ExperienceSearch, Fuse, FallBack
<1>10. CASE UNCHANGED vars
  BY <1>10, MemoryStutter DEF vars
<1> QED
  BY <1>1, <1>2, <1>3, <1>4, <1>5, <1>6, <1>7, <1>8, <1>9, <1>10 DEF Next

\* FactsDiffer: of two experiences of a user neither says the other once more,
\* whichever jobs failed and ran again (saveExperiences), while he has had no
\* more rows than a job lists.
THEOREM FactsTheorem ==
  ASSUME MaxRows <= ListTake
  PROVE  Spec => []FactsDiffer
<1>1. Init => Memory
  BY MemoryInit
<1>2. Memory /\ [Next]_vars => Memory'
  BY MemoryStep
<1>3. Memory => FactsDiffer
  BY DEF Memory, Differ
<1> QED
  BY <1>1, <1>2, <1>3, PTL DEF Spec

-----------------------------------------------------------------------------
(* The lists of a search.                                                   *)

Ids(hits) == [i \in 1..Len(hits) |-> hits[i].id]

\* The ids of different rows differ.
LEMMA IdsFacts ==
  ASSUME Memory, NEW hits \in Seq(rows)
  PROVE  /\ Ids(hits) \in Seq(1..created) /\ Len(Ids(hits)) = Len(hits)
         /\ \A i \in 1..Len(hits) : Ids(hits)[i] = hits[i].id
         /\ Distinct(hits) => Distinct(Ids(hits))
<1>1. Len(hits) \in Nat /\ \A i \in 1..Len(hits) : hits[i] \in rows
  OBVIOUS
<1>2. \A i \in 1..Len(hits) : hits[i].id \in 1..created
  BY <1>1, RowFields
<1>3. Ids(hits) \in [1..Len(hits) -> 1..created]
  BY <1>2 DEF Ids
<1>4. /\ Ids(hits) \in Seq(1..created) /\ Len(Ids(hits)) = Len(hits)
      /\ \A i \in 1..Len(hits) : Ids(hits)[i] = hits[i].id
  BY <1>1, <1>3 DEF Ids
<1>5. ASSUME Distinct(hits) PROVE Distinct(Ids(hits))
  <2> SUFFICES ASSUME NEW i \in 1..Len(hits), NEW k \in 1..Len(hits),
                      Ids(hits)[i] = Ids(hits)[k]
               PROVE  i = k
    BY <1>4 DEF Distinct
  <2>1. hits[i].id = hits[k].id
    BY <1>4
  <2>2. hits[i] = hits[k]
    BY <1>1, <2>1 DEF Memory
  <2> QED
    BY <1>5, <2>2 DEF Distinct
<1> QED
  BY <1>4, <1>5

\* The search by type and importance finds something if there is anything.
LEMMA AlgorithmFacts ==
  ASSUME Memory
  PROVE  /\ AlgorithmSearch \in Seq(1..created) /\ Len(AlgorithmSearch) <= TopK
         /\ rows # {} => AlgorithmSearch # <<>>
<1> DEFINE P == {r \in rows : r.type = "preference"}
           E == {r \in rows : r.type = "experience"}
           p == ByImportance(P)
           e == ByImportance(E)
<1>1. P \in SUBSET rows /\ E \in SUBSET rows
  OBVIOUS
<1>2. rows # {} => P # {} \/ E # {}
  BY RowFields DEF Types
<1>3. ByType(rows) = p \o e
  BY DEF ByType
<1> HIDE DEF P, E
<1>4. p \in Seq(rows) /\ (P # {} => Len(p) # 0)
  BY <1>1, SortedRows, SeqsOfRows
<1>5. e \in Seq(rows) /\ (E # {} => Len(e) # 0)
  BY <1>1, SortedRows, SeqsOfRows
<1> HIDE DEF p, e
<1> DEFINE all == p \o e
<1>6. all \in Seq(rows) /\ Len(all) = Len(p) + Len(e)
  BY <1>4, <1>5
<1>7. rows # {} => Len(all) # 0
  BY <1>2, <1>4, <1>5, <1>6
<1> HIDE DEF all
<1>8. TopK \in Nat /\ TopK # 0
  BY TakeAssumption
<1>9. /\ Take(all, TopK) \in Seq(rows)
      /\ Len(Take(all, TopK)) = IF Len(all) < TopK THEN Len(all) ELSE TopK
  BY <1>6, <1>8, TakeFacts
<1>10. AlgorithmSearch = Ids(Take(all, TopK))
  BY <1>3 DEF AlgorithmSearch, Ids, all
<1>11. AlgorithmSearch \in Seq(1..created) /\ Len(AlgorithmSearch) = Len(Take(all, TopK))
  BY <1>9, <1>10, IdsFacts
<1>12. Len(all) \in Nat
  BY <1>6
<1>13. Len(AlgorithmSearch) <= TopK /\ (rows # {} => Len(AlgorithmSearch) # 0)
  BY <1>7, <1>8, <1>9, <1>11, <1>12
<1> QED
  BY <1>11, <1>13

-----------------------------------------------------------------------------
(* The search.                                                              *)

Look == [pc : {"idle", "search", "fall back", "done"}, query : Texts, todo : SUBSET Lists,
         lists : [Lists -> Seq(1..created)], found : Seq(1..created),
         lasting : SUBSET (1..created)]

\* The lists are of different rows, and no longer than there are rows.
ListsOK == \A l \in Lists : Distinct(look.lists[l]) /\ Len(look.lists[l]) <= MaxRows

\* What lasts from the beginning of the search is there.
Lasting == look.lasting \subseteq {r.id : r \in rows}

\* Lists are filled by a search that runs, and by nothing else.
Phases ==
  /\ look.pc # "search" => look.todo = {}
  /\ look.pc \in {"idle", "fall back"} => HitIds = {}

\* A search by words that found less than it may has every row that lasts and has
\* the words.
Words ==
  /\ look.pc = "search" \/ (Done /\ HitIds # {})
  /\ "ilike" \notin look.todo /\ Len(look.lists["ilike"]) < TopK
  => \A r \in rows : r.id \in look.lasting /\ Includes(Lower(r.text), look.query) =>
       \E i \in 1..Len(look.lists["ilike"]) : look.lists["ilike"][i] = r.id

ByScore(order) == \A i \in 1..Len(order) - 1 : Score(order[i]) >= Score(order[i + 1])

\* What is found by a search with hits is the best of them by score.
Fused ==
  Done /\ HitIds # {} =>
    \E order \in SetToSeqs(HitIds) : ByScore(order) /\ look.found = Take(order, TopK)

Search ==
  /\ look \in Look /\ Len(look.found) <= TopK
  /\ ListsOK /\ Lasting /\ Phases /\ Words /\ Fused
  /\ RecallsSomething

\* A search is what its fields are.
LEMMA LookFields ==
  ASSUME look \in Look
  PROVE  /\ look = [pc |-> look.pc, query |-> look.query, todo |-> look.todo,
                    lists |-> look.lists, found |-> look.found, lasting |-> look.lasting]
         /\ look.pc \in {"idle", "search", "fall back", "done"} /\ look.query \in Texts
         /\ look.todo \in SUBSET Lists /\ look.lists \in [Lists -> Seq(1..created)]
         /\ look.found \in Seq(1..created) /\ look.lasting \in SUBSET (1..created)
BY DEF Look

\* Ids of more rows than there were.
LEMMA MoreIds ==
  ASSUME NEW m \in Nat, NEW n \in Nat, m <= n, NEW s \in Seq(1..m)
  PROVE  s \in Seq(1..n)
<1>1. \A i \in 1..Len(s) : s[i] \in 1..n
  OBVIOUS
<1>2. s = [i \in 1..Len(s) |-> s[i]] /\ Len(s) \in Nat
  OBVIOUS
<1>3. s \in [1..Len(s) -> 1..n]
  BY <1>1, <1>2
<1> QED
  BY <1>2, <1>3

\* Lists that stay have the same ranks.
LEMMA SameLists ==
  ASSUME look'.lists = look.lists
  PROVE  /\ HitIds' = HitIds /\ \A order : ByScore(order)' <=> ByScore(order)
BY DEF HitIds, ByScore, Score, Points, Rank

\* Nobody has searched in the beginning.
LEMMA SearchInit == Init => Search
<1> SUFFICES ASSUME Init PROVE Search
  OBVIOUS
<1>1. look = NoLook /\ created = 0
  BY DEF Init
<1>2. <<>> \in Seq(1..created) /\ <<>> \in Texts
  BY DEF Texts
<1>3. look \in Look
  BY <1>1, <1>2 DEF NoLook, Look
<1>4. \A l \in Lists : look.lists[l] = <<>>
  BY <1>1 DEF NoLook
<1>5. HitIds = {}
  BY <1>4 DEF HitIds, ToSet
<1>6. look.pc = "idle" /\ look.todo = {} /\ look.lasting = {} /\ look.found = <<>>
  BY <1>1 DEF NoLook
<1>7. 0 <= MaxRows /\ 0 <= TopK
  BY RrfAssumption, TakeAssumption
<1>8. ListsOK
  BY <1>4, <1>7 DEF ListsOK, Distinct
<1> QED
  BY <1>3, <1>5, <1>6, <1>7, <1>8
  DEF Search, Lasting, Phases, Words, Fused, RecallsSomething, Done

\* Rows come, go or are embedded while a search runs, or has run.
LEMMA RowsChange ==
  ASSUME Memory, Search, Memory', created <= created', NEW L \in SUBSET look.lasting,
         look' = [look EXCEPT !.lasting = L],
         \A r \in rows' : r.id \in L => \E s \in rows : Same(r, s),
         L \subseteq {r.id : r \in rows'}
  PROVE  Search'
<1>1. look \in Look
  BY DEF Search
<1>2. look' = [pc |-> look.pc, query |-> look.query, todo |-> look.todo, lists |-> look.lists,
               found |-> look.found, lasting |-> L]
  BY <1>1, LookFields
<1>3. /\ look'.pc = look.pc /\ look'.query = look.query /\ look'.todo = look.todo
      /\ look'.lists = look.lists /\ look'.found = look.found /\ look'.lasting = L
  BY <1>2
<1>4. created \in Nat /\ created' \in Nat
  BY RrfAssumption DEF Memory
<1>5. \A s \in Seq(1..created) : s \in Seq(1..created')
  BY <1>4, MoreIds
<1>6. /\ look.lists \in [Lists -> Seq(1..created')] /\ look.found \in Seq(1..created')
      /\ L \in SUBSET (1..created')
  <2>1. /\ look.lists \in [Lists -> Seq(1..created)] /\ look.found \in Seq(1..created)
        /\ look.lasting \in SUBSET (1..created)
    BY <1>1, LookFields
  <2>2. \A i \in 1..created : i \in 1..created'
    BY <1>4
  <2>3. look.lists \in [Lists -> Seq(1..created')]
    <3> DEFINE A == Seq(1..created)
               B == Seq(1..created')
    <3>1. look.lists \in [Lists -> A] /\ \A s \in A : s \in B
      BY <1>5, <2>1
    <3> HIDE DEF A, B
    <3>2. look.lists \in [Lists -> B]
      BY <3>1
    <3> QED
      BY <3>2 DEF B
  <2> QED
    BY <1>5, <2>1, <2>2, <2>3
<1>7. look' \in Look'
  BY <1>1, <1>2, <1>6, LookFields DEF Look
<1>8. HitIds' = HitIds /\ \A order : ByScore(order)' <=> ByScore(order)
  BY <1>3, SameLists
<1>9. ListsOK' /\ Lasting' /\ Phases'
  BY <1>3, <1>8 DEF Search, ListsOK, Lasting, Phases
<1>10. Words'
  <2> SUFFICES ASSUME look.pc = "search" \/ (Done /\ HitIds # {}),
                      "ilike" \notin look.todo, Len(look.lists["ilike"]) < TopK,
                      NEW r \in rows', r.id \in L, Includes(Lower(r.text), look.query)
               PROVE  \E i \in 1..Len(look.lists["ilike"]) : look.lists["ilike"][i] = r.id
    BY <1>3, <1>8 DEF Words, Done
  <2>1. PICK s \in rows : Same(r, s)
    OBVIOUS
  <2>2. s.id = r.id /\ s.text = r.text /\ s.id \in look.lasting
    BY <2>1 DEF Same
  <2> QED
    BY <2>2 DEF Search, Words
<1>11. Fused'
  BY <1>3, <1>8 DEF Search, Fused, Done
<1>12. RecallsSomething'
  BY <1>3 DEF Search, RecallsSomething, Done
<1> QED
  BY <1>3, <1>7, <1>9, <1>10, <1>11, <1>12 DEF Search

\* Each row of before is still there, but for its vector.
LEMMA RowsStay ==
  ASSUME Memory, Search, Memory', created <= created', look' = look,
         \A s \in rows : \E r \in rows' : Same(r, s),
         \A r \in rows' : (\E s \in rows : Same(r, s)) \/ r.id = created + 1
  PROVE  Search'
<1>1. look \in Look
  BY DEF Search
<1>2. look' = [look EXCEPT !.lasting = look.lasting]
  BY <1>1, LookFields
<1>3. created \in Nat /\ look.lasting \in SUBSET (1..created)
  <2>1. look.lasting \in SUBSET (1..created)
    BY <1>1, LookFields
  <2> QED
    BY <2>1, RrfAssumption DEF Memory
<1>4. created + 1 \notin look.lasting
  BY <1>3
<1>5. \A r \in rows' : r.id \in look.lasting => \E s \in rows : Same(r, s)
  BY <1>4
<1>6. look.lasting \subseteq {r.id : r \in rows'}
  <2> SUFFICES ASSUME NEW id \in look.lasting PROVE \E r \in rows' : r.id = id
    OBVIOUS
  <2>1. PICK s \in rows : s.id = id
    BY DEF Search, Lasting
  <2> QED
    BY <2>1 DEF Same
<1> QED
  BY <1>2, <1>5, <1>6, RowsChange

\* One of the three searches answers.
LEMMA FoundStep ==
  ASSUME Memory, Search, UNCHANGED <<rows, created, enabled, job>>,
         NEW list \in look.todo, NEW hits \in Seq(rows), Distinct(hits), Len(hits) <= MaxRows,
         Found(list, hits),
         list = "ilike" /\ Len(hits) < TopK =>
           \A r \in rows : Includes(Lower(r.text), look.query) =>
             \E i \in 1..Len(hits) : hits[i] = r
  PROVE  Search'
<1>1. look \in Look
  BY DEF Search
<1>2. list \in Lists /\ look.lists \in [Lists -> Seq(1..created)]
  BY <1>1, LookFields
<1> DEFINE ids == Ids(hits)
<1>3. /\ ids \in Seq(1..created) /\ Len(ids) = Len(hits) /\ Distinct(ids)
      /\ \A i \in 1..Len(hits) : ids[i] = hits[i].id
  BY IdsFacts
<1>4. look' = [look EXCEPT !.todo = @ \ {list}, !.lists[list] = ids]
  BY DEF Found, Ids
<1> HIDE DEF ids
<1>5. look' = [pc |-> look.pc, query |-> look.query, todo |-> look.todo \ {list},
               lists |-> [look.lists EXCEPT ![list] = ids],
               found |-> look.found, lasting |-> look.lasting]
  BY <1>1, <1>4, LookFields
<1>6. /\ look'.pc = look.pc /\ look'.query = look.query /\ look'.todo = look.todo \ {list}
      /\ look'.found = look.found /\ look'.lasting = look.lasting
      /\ look'.lists = [look.lists EXCEPT ![list] = ids]
  BY <1>5
<1>7. look'.lists \in [Lists -> Seq(1..created)]
  BY <1>2, <1>3, <1>6
<1>8. /\ look'.lists[list] = ids
      /\ \A l \in Lists : l # list => look'.lists[l] = look.lists[l]
  BY <1>2, <1>6
<1>9. look' \in Look'
  <2>1. look.todo \ {list} \in SUBSET Lists
    BY <1>1, LookFields
  <2> QED
    BY <1>1, <1>5, <1>6, <1>7, <2>1, LookFields DEF Look
<1>10. look.pc = "search"
  BY DEF Search, Phases
<1>11. ListsOK'
  BY <1>3, <1>8 DEF Search, ListsOK
<1>12. Lasting' /\ Phases' /\ Fused' /\ RecallsSomething'
  BY <1>6, <1>10 DEF Search, Lasting, Phases, Fused, RecallsSomething, Done
<1>13. Words'
  <2> SUFFICES ASSUME "ilike" \notin look'.todo, Len(look'.lists["ilike"]) < TopK,
                      NEW r \in rows, r.id \in look.lasting,
                      Includes(Lower(r.text), look.query)
               PROVE  \E i \in 1..Len(look'.lists["ilike"]) : look'.lists["ilike"][i] = r.id
    BY <1>6 DEF Words
  <2>1. CASE list = "ilike"
    <3>1. PICK i \in 1..Len(hits) : hits[i] = r
      BY <1>3, <1>8, <2>1
    <3> QED
      BY <1>3, <1>8, <2>1, <3>1
  <2>2. CASE list # "ilike"
    <3>1. look'.lists["ilike"] = look.lists["ilike"] /\ "ilike" \notin look.todo
      BY <1>6, <1>8, <2>2 DEF Lists
    <3>2. Len(look.lists["ilike"]) < TopK
      BY <3>1
    <3>3. \E i \in 1..Len(look.lists["ilike"]) : look.lists["ilike"][i] = r.id
      <4>1. Words
        BY DEF Search
      <4>2. \A q \in rows : q.id \in look.lasting /\ Includes(Lower(q.text), look.query) =>
              \E i \in 1..Len(look.lists["ilike"]) : look.lists["ilike"][i] = q.id
        BY <1>10, <3>1, <3>2, <4>1 DEF Words
      <4> QED
        BY <4>2
    <3> QED
      BY <3>1, <3>3
  <2> QED
    BY <2>1, <2>2
<1> QED
  BY <1>6, <1>9, <1>11, <1>12, <1>13 DEF Search

\* What a search may answer.
Answer(ids) ==
  /\ ids \in Seq(1..created) /\ Len(ids) <= TopK
  /\ look.lasting # {} => ids # <<>>
  /\ HitIds # {} =>
       \E order \in SetToSeqs(HitIds) : ByScore(order) /\ ids = Take(order, TopK)

Ends(ids) == look' = Finished(ids)

\* The search is over.
LEMMA FinishedStep ==
  ASSUME Memory, Search, UNCHANGED <<rows, created, enabled, job>>,
         NEW ids, Answer(ids), Ends(ids),
         (look.pc = "search" /\ look.todo = {}) \/ look.pc = "fall back"
  PROVE  Search'
<1>1. look \in Look
  BY DEF Search
<1>2. look' = [pc |-> "done", query |-> look.query, todo |-> {}, lists |-> look.lists,
               found |-> ids, lasting |-> look.lasting]
  BY <1>1, LookFields DEF Ends, Finished
<1>3. /\ look'.pc = "done" /\ look'.query = look.query /\ look'.todo = {}
      /\ look'.lists = look.lists /\ look'.found = ids /\ look'.lasting = look.lasting
  BY <1>2
<1>4. look' \in Look'
  BY <1>1, <1>2, LookFields DEF Look, Answer
<1>5. HitIds' = HitIds /\ \A order : ByScore(order)' <=> ByScore(order)
  BY <1>3, SameLists
<1>6. Words'
  BY <1>3, <1>5 DEF Search, Words, Phases
<1>7. Fused'
  BY <1>3, <1>5 DEF Fused, Answer
<1> QED
  BY <1>3, <1>4, <1>6, <1>7
  DEF Search, ListsOK, Lasting, Phases, RecallsSomething, Done, Answer

\* The hits are ids of rows.
LEMMA HitIdsFinite ==
  ASSUME Memory, Search
  PROVE  IsFiniteSet(HitIds) /\ HitIds \subseteq 1..created
<1>1. look.lists \in [Lists -> Seq(1..created)]
  BY LookFields DEF Search
<1>2. ASSUME NEW l \in Lists PROVE ToSet(look.lists[l]) \subseteq 1..created
  <2>1. PICK s : s = look.lists[l]
    OBVIOUS
  <2> DEFINE X == 1..created
  <2>2. s \in Seq(X)
    BY <1>1, <2>1
  <2> HIDE DEF X
  <2>3. DOMAIN s = 1..Len(s) /\ \A i \in 1..Len(s) : s[i] \in X
    BY <2>2
  <2> QED
    BY <2>1, <2>3 DEF ToSet, X
<1>3. HitIds \subseteq 1..created
  BY <1>2 DEF HitIds
<1>4. IsFiniteSet(1..created)
  BY FS_Interval, RrfAssumption DEF Memory
<1> QED
  BY <1>3, <1>4, FS_Subset

\* A search begins with nothing found, and what there is then may last.
LEMMA SearchBegin ==
  ASSUME Memory, Search, BeginRetrieve
  PROVE  Search'
<1>1. UNCHANGED <<rows, created, enabled, job>>
  BY SMTT(30) DEF BeginRetrieve
<1>2. PICK query \in Queries :
        look' = [NoLook EXCEPT !.pc = IF enabled /\ Trim(query) # <<>> THEN "search" ELSE "fall back",
                               !.query = Lower(Trim(query)),
                               !.todo = IF enabled /\ Trim(query) # <<>> THEN Lists ELSE {},
                               !.lasting = {r.id : r \in rows}]
  BY DEF BeginRetrieve
<1>3. Lower(Trim(query)) \in Texts
  BY InputsAssumption, TrimType, LowerType DEF Texts
<1> DEFINE some == enabled /\ Trim(query) # <<>>
           lasting == {r.id : r \in rows}
           text == Lower(Trim(query))
<1>4. look' = [pc |-> IF some THEN "search" ELSE "fall back", query |-> text,
               todo |-> IF some THEN Lists ELSE {}, lists |-> [l \in Lists |-> <<>>],
               found |-> <<>>, lasting |-> lasting]
  BY <1>2 DEF NoLook
<1>5. lasting \in SUBSET (1..created)
  BY RowFields
<1>6. text \in Texts
  BY <1>3
<1> HIDE DEF some, lasting, text
<1>7. /\ look'.lists = [l \in Lists |-> <<>>] /\ look'.found = <<>> /\ look'.lasting = lasting
      /\ \/ look'.pc = "search" /\ look'.todo = Lists
         \/ look'.pc = "fall back" /\ look'.todo = {}
  BY <1>4
<1>8. \A l \in Lists : look'.lists[l] = <<>>
  BY <1>7
<1>9. look' \in Look'
  <2>1. <<>> \in Seq(1..created)
    OBVIOUS
  <2>2. [l \in Lists |-> <<>>] \in [Lists -> Seq(1..created)]
    BY <2>1
  <2> QED
    BY <1>1, <1>4, <1>5, <1>6, <2>1, <2>2 DEF Look
<1>10. HitIds' = {}
  BY <1>8 DEF HitIds, ToSet
<1>11. 0 <= MaxRows /\ 0 <= TopK
  BY RrfAssumption, TakeAssumption
<1>12. ListsOK'
  BY <1>8, <1>11 DEF ListsOK, Distinct
<1>13. Lasting'
  BY <1>1, <1>7 DEF Lasting, lasting
<1>14. "ilike" \in Lists
  BY DEF Lists
<1> QED
  BY <1>7, <1>9, <1>10, <1>11, <1>12, <1>13, <1>14
  DEF Search, Phases, Words, Fused, RecallsSomething, Done

\* The search by vector, whatever the distances and whether the query is
\* embedded.
LEMMA SearchVector ==
  ASSUME Memory, Search, VectorSearch
  PROVE  Search'
<1>1. UNCHANGED <<rows, created, enabled, job>> /\ "vector" \in look.todo
  BY DEF VectorSearch
<1> DEFINE S == {r \in rows : r.vec}
<1>2. PICK hits \in {<<>>} \cup SetToSeqs(S) : Found("vector", Take(hits, VectorTake))
  BY DEF VectorSearch
<1>3. S \in SUBSET rows /\ MaxRows \in Nat /\ VectorTake \in Nat
  BY RrfAssumption, TakeAssumption
<1> HIDE DEF S
<1>4. hits \in Seq(rows) /\ Distinct(hits) /\ Len(hits) <= MaxRows
  <2>1. CASE hits = <<>>
    BY <1>3, <2>1 DEF Distinct
  <2>2. CASE hits \in SetToSeqs(S)
    BY <1>3, <2>2, SeqsOfRows
  <2> QED
    BY <2>1, <2>2
<1> DEFINE some == Take(hits, VectorTake)
<1>5. /\ some \in Seq(rows) /\ Distinct(some)
      /\ Len(some) = IF Len(hits) < VectorTake THEN Len(hits) ELSE VectorTake
  BY <1>3, <1>4, TakeFacts
<1>6. Len(hits) \in Nat
  BY <1>4
<1>7. Len(some) <= MaxRows
  BY <1>3, <1>4, <1>5, <1>6
<1> HIDE DEF some
<1>8. Found("vector", some)
  BY <1>2 DEF some
<1> QED
  BY <1>1, <1>5, <1>7, <1>8, FoundStep

\* A text that contains a query contains the start of it, which is what is
\* searched for.
LEMMA IncludesStart ==
  ASSUME NEW t \in Texts, NEW u \in Texts, NEW n \in Nat, Includes(t, u)
  PROVE  Includes(t, Slice(u, n))
<1>1. /\ t \in Seq(Atoms) /\ u \in Seq(Atoms) /\ Len(t) \in Nat /\ Len(u) \in Nat
  BY DEF Texts
<1>2. PICK i \in 0..(Len(t) - Len(u)) : SubSeq(t, i + 1, i + Len(u)) = u
  BY DEF Includes
<1>3. PICK k \in 0..Len(u) : Slice(u, n) = SubSeq(u, 1, k)
  BY <1>1 DEF Slice
<1>4. Len(SubSeq(u, 1, k)) = k /\ i \in 0..(Len(t) - k)
  BY <1>1, <1>2, <1>3
<1>5. SubSeq(t, i + 1, i + k) = SubSeq(u, 1, k)
  <2>1. /\ SubSeq(t, i + 1, i + k) \in Seq(Atoms) /\ Len(SubSeq(t, i + 1, i + k)) = k
        /\ \A j \in 1..k : SubSeq(t, i + 1, i + k)[j] = t[i + j]
    BY <1>1, <1>2, <1>3
  <2>2. /\ SubSeq(u, 1, k) \in Seq(Atoms) /\ Len(SubSeq(u, 1, k)) = k
        /\ \A j \in 1..k : SubSeq(u, 1, k)[j] = u[j]
    BY <1>1, <1>3
  <2>3. \A j \in 1..Len(u) : u[j] = t[i + j]
    <3>1. \A j \in 1..Len(u) : SubSeq(t, i + 1, i + Len(u))[j] = t[i + j]
      BY <1>1
    <3> QED
      BY <1>2, <3>1
  <2>4. \A j \in 1..k : SubSeq(t, i + 1, i + k)[j] = SubSeq(u, 1, k)[j]
    BY <1>3, <2>1, <2>2, <2>3
  <2> QED
    BY <2>1, <2>2, <2>4
<1> QED
  BY <1>3, <1>4, <1>5 DEF Includes

\* The search by words misses a row only if it has found as many as it may.
LEMMA SearchIlike ==
  ASSUME Memory, Search, IlikeSearch
  PROVE  Search'
<1> DEFINE best == Take(ByImportance(Matching), TopK)
<1>1. /\ UNCHANGED <<rows, created, enabled, job>> /\ "ilike" \in look.todo
      /\ Found("ilike", best)
  BY DEF IlikeSearch
<1>2. Matching \in SUBSET rows
  BY DEF Matching
<1>3. /\ best \in Seq(rows) /\ Distinct(best) /\ Len(best) <= MaxRows
      /\ Len(best) < TopK => \A r \in Matching : \E i \in 1..Len(best) : best[i] = r
  BY <1>2, TakeAssumption, BestRows
<1> HIDE DEF best
<1>4. Len(best) < TopK =>
        \A r \in rows : Includes(Lower(r.text), look.query) => \E i \in 1..Len(best) : best[i] = r
  <2>1. \A r \in rows : Lower(r.text) \in Texts
    BY LowerType DEF Memory, Rows
  <2>2. look.query \in Texts /\ MaxAsked \in Nat
    <3>1. look \in Look
      BY DEF Search
    <3>2. look.query \in Texts
      BY <3>1, LookFields, Zenon
    <3> QED
      BY <3>2, TakeAssumption
  <2>3. \A r \in rows : Includes(Lower(r.text), look.query) => r \in Matching
    BY <2>1, <2>2, IncludesStart DEF Matching
  <2> QED
    BY <1>3, <2>3
<1> QED
  BY <1>1, <1>3, <1>4, FoundStep

\* The same search among the experiences.
LEMMA SearchExperience ==
  ASSUME Memory, Search, ExperienceSearch
  PROVE  Search'
<1> DEFINE S == {r \in Matching : r.type = "experience"}
           best == Take(ByImportance(S), TopK)
<1>1. /\ UNCHANGED <<rows, created, enabled, job>> /\ "experience" \in look.todo
      /\ Found("experience", best)
  BY DEF ExperienceSearch
<1>2. S \in SUBSET rows
  BY DEF Matching
<1> HIDE DEF S
<1>3. best \in Seq(rows) /\ Distinct(best) /\ Len(best) <= MaxRows
  BY <1>2, TakeAssumption, BestRows
<1> HIDE DEF best
<1> QED
  BY <1>1, <1>3, FoundStep

\* The fusion answers with hits.
LEMMA SearchFuse ==
  ASSUME Memory, Search, Fuse
  PROVE  Search'
<1>1. /\ UNCHANGED <<rows, created, enabled, job>>
      /\ look.pc = "search" /\ look.todo = {} /\ HitIds # {}
  BY DEF Fuse
<1>2. PICK order \in SetToSeqs(HitIds) :
        ByScore(order) /\ look' = Finished(Take(order, TopK))
  BY DEF Fuse, ByScore
<1>3. /\ order \in Seq(HitIds) /\ Len(order) = Cardinality(HitIds)
      /\ \A x \in HitIds : \E i \in 1..Len(order) : order[i] = x
  BY HitIdsFinite, SeqsFacts
<1>4. order \in Seq(1..created) /\ Len(order) \in Nat /\ Len(order) # 0
  <2> DEFINE H == HitIds
  <2>1. order \in Seq(H) /\ H \subseteq 1..created
    BY <1>3, HitIdsFinite
  <2> HIDE DEF H
  <2>2. order \in Seq(1..created)
    <3>1. /\ Len(order) \in Nat /\ order \in [1..Len(order) -> H]
      BY <2>1
    <3> DEFINE X == 1..created
    <3>2. H \subseteq X
      BY <2>1
    <3> HIDE DEF X
    <3>3. order \in [1..Len(order) -> X]
      BY <3>1, <3>2
    <3>4. order \in Seq(X)
      BY <3>1, <3>3
    <3> QED
      BY <3>4 DEF X
  <2>3. Len(order) \in Nat
    BY <2>1
  <2>4. Len(order) # 0
    BY <1>1, <1>3
  <2> QED
    BY <2>2, <2>3, <2>4
<1>5. TopK \in Nat /\ TopK # 0
  BY TakeAssumption
<1> DEFINE found == Take(order, TopK)
<1>6. /\ found \in Seq(1..created)
      /\ Len(found) = IF Len(order) < TopK THEN Len(order) ELSE TopK
  BY <1>4, <1>5, TakeFacts
<1>7. Len(found) <= TopK /\ Len(found) # 0
  BY <1>4, <1>5, <1>6
<1>8. \E o \in SetToSeqs(HitIds) : ByScore(o) /\ found = Take(o, TopK)
  BY <1>2
<1>9. found # <<>>
  BY <1>7
<1>10. Ends(found)
  BY <1>2 DEF Ends
<1> HIDE DEF found
<1>11. Answer(found)
  BY <1>6, <1>7, <1>8, <1>9 DEF Answer
<1> QED
  BY <1>1, <1>10, <1>11, FinishedStep

\* Without hits the rows are taken as they are.
LEMMA SearchFallBack ==
  ASSUME Memory, Search, FallBack
  PROVE  Search'
<1>1. /\ UNCHANGED <<rows, created, enabled, job>> /\ Ends(AlgorithmSearch)
      /\ (look.pc = "search" /\ look.todo = {} /\ HitIds = {}) \/ look.pc = "fall back"
  BY DEF FallBack, NothingFound, Ends
<1>2. HitIds = {}
  BY <1>1 DEF Search, Phases
<1>3. look.lasting # {} => rows # {}
  BY DEF Search, Lasting
<1>4. Answer(AlgorithmSearch)
  BY <1>2, <1>3, AlgorithmFacts DEF Answer
<1> QED
  BY <1>1, <1>4, FinishedStep

\* Every step keeps the search.
LEMMA SearchStep ==
  ASSUME Memory, Search, [Next]_vars
  PROVE  Search'
<1> USE MemoryStep
<1>1. Memory' /\ created \in Nat /\ look \in Look
  BY RrfAssumption DEF Memory, Search
<1>2. created <= created
  BY <1>1
<1>3. \A r \in rows : Same(r, r)
  BY DEF Same
<1>4. ASSUME UNCHANGED <<rows, created, look>> PROVE Search'
  BY <1>1, <1>2, <1>3, <1>4, RowsStay
<1>5. CASE AskLlm \/ ListExperiences \/ JobFails \/ UNCHANGED vars
  BY <1>4, <1>5 DEF AskLlm, ListExperiences, JobFails, vars
<1>6. ASSUME NEW type \in Types, NEW text \in Texts, Insert(type, text), look' = look
      PROVE  Search'
  <2>1. PICK n \in rows' : n.id = created + 1 /\ rows' = rows \cup {n}
    BY <1>6, InsertRows
  <2>2. created' = created + 1
    BY <1>6, InsertRows
  <2>3. created <= created'
    BY <1>1, <2>2
  <2> QED
    BY <1>1, <1>3, <1>6, <2>1, <2>3, RowsStay
<1>7. CASE CreateExperience
  <2>1. job.facts \in Seq(Texts) /\ job.facts # <<>>
    BY <1>7 DEF CreateExperience, Memory, Job, NewFact
  <2>2. Head(job.facts) \in Texts
    <3> HIDE DEF Texts
    <3> QED
      BY <2>1
  <2>3. Normalize(Head(job.facts)) \in Texts /\ "experience" \in Types
    BY <2>2, NormalizeType DEF Types
  <2> QED
    BY <1>6, <1>7, <2>3 DEF CreateExperience
<1>8. CASE Note
  <2>1. Notes \subseteq Texts /\ "preference" \in Types
    BY InputsAssumption DEF Texts, Types
  <2> QED
    BY <1>6, <1>8, <2>1 DEF Note
<1>9. ASSUME NEW id, rows' = Embedded(id), created' = created, look' = look PROVE Search'
  BY <1>1, <1>2, <1>9, EmbedRows, RowsStay
<1>10. CASE WriteEmbedding
  <2>1. UNCHANGED <<created, look>> /\ (rows' = rows \/ rows' = Embedded(job.id))
    BY <1>10 DEF WriteEmbedding, Embedded
  <2> QED
    BY <1>4, <1>9, <2>1
<1>11. ASSUME NEW r \in rows, EmbedNote(r) PROVE Search'
  <2>1. UNCHANGED <<created, look>> /\ rows' = Embedded(r.id)
    BY <1>11 DEF EmbedNote, Memory, Embedded
  <2> QED
    BY <1>9, <2>1
<1>12. ASSUME NEW r \in rows, DeleteChunk(r) PROVE Search'
  <2>1. /\ rows' = rows \ {r} /\ created' = created
        /\ look' = [look EXCEPT !.lasting = look.lasting \ {r.id}]
    BY <1>12 DEF DeleteChunk
  <2>2. look.lasting \ {r.id} \subseteq {s.id : s \in rows'}
    BY <2>1 DEF Search, Lasting
  <2>3. \A q \in rows' : q.id \in look.lasting \ {r.id} => \E s \in rows : Same(q, s)
    BY <1>3, <2>1
  <2> QED
    BY <1>1, <1>2, <2>1, <2>2, <2>3, RowsChange
<1>13. CASE BeginRetrieve \/ VectorSearch \/ IlikeSearch \/ ExperienceSearch \/ Fuse \/ FallBack
  BY <1>13, SearchBegin, SearchVector, SearchIlike, SearchExperience, SearchFuse, SearchFallBack
<1> QED
  BY <1>5, <1>7, <1>8, <1>10, <1>11, <1>12, <1>13 DEF Next

\* Both invariants hold in every state.
LEMMA Always == Spec => [](Memory /\ Search)
<1>1. Init => Memory /\ Search
  BY MemoryInit, SearchInit
<1>2. Memory /\ Search /\ [Next]_vars => (Memory /\ Search)'
  BY MemoryStep, SearchStep
<1> QED
  BY <1>1, <1>2, PTL DEF Spec

\* TypeOK: rows, job and search keep their shapes, for texts of any length.
THEOREM TypeTheorem == Spec => []TypeOK
<1>1. Memory /\ Search => TypeOK
  <2> SUFFICES ASSUME Memory, Search PROVE TypeOK
    OBVIOUS
  <2>1. created \in Nat /\ job.id \in 0..created
    BY RrfAssumption DEF Memory, Job
  <2>2. look \in Look
    BY DEF Search
  <2> QED
    BY <2>1, <2>2, LookFields DEF Memory, Search, Job, TypeOK
<1> QED
  BY <1>1, Always, PTL

\* RecallsSomething: whatever the searches miss and whatever rows come and go
\* between them, a user with a memory that lasts is not met with nothing
\* (retrieve, memory-retrieval.service.ts).
THEOREM RecallsTheorem == Spec => []RecallsSomething
<1>1. Memory /\ Search => RecallsSomething
  BY DEF Search
<1> QED
  BY <1>1, Always, PTL

\* What a search with hits has found.
LEMMA FoundFacts ==
  ASSUME Memory, Search, Done, HitIds # {}
  PROVE  \E order \in Seq(HitIds) :
           /\ ByScore(order) /\ Distinct(order) /\ Len(order) = Cardinality(HitIds)
           /\ \A x \in HitIds : \E i \in 1..Len(order) : order[i] = x
           /\ Len(look.found) = IF Len(order) < TopK THEN Len(order) ELSE TopK
           /\ \A i \in 1..Len(look.found) : look.found[i] = order[i]
<1>1. PICK order \in SetToSeqs(HitIds) : ByScore(order) /\ look.found = Take(order, TopK)
  BY DEF Search, Fused
<1>2. /\ order \in Seq(HitIds) /\ Len(order) = Cardinality(HitIds) /\ Distinct(order)
      /\ \A x \in HitIds : \E i \in 1..Len(order) : order[i] = x
  BY HitIdsFinite, SeqsFacts
<1>3. TopK \in Nat
  BY TakeAssumption
<1>4. /\ Len(Take(order, TopK)) = IF Len(order) < TopK THEN Len(order) ELSE TopK
      /\ \A i \in 1..Len(Take(order, TopK)) : Take(order, TopK)[i] = order[i]
  BY <1>2, <1>3, TakeFacts
<1> QED
  BY <1>1, <1>2, <1>4

\* KeywordsFillGaps: a row without a vector is found by its words, if there is
\* room (searchIlike and rrfMerge).
THEOREM KeywordsTheorem == Spec => []KeywordsFillGaps
<1>1. Memory /\ Search => KeywordsFillGaps
  <2> SUFFICES ASSUME Memory, Search, Done, HitIds # {}, Cardinality(HitIds) <= TopK,
                      Len(look.lists["ilike"]) < TopK,
                      NEW r \in rows, r.id \in look.lasting,
                      Includes(Lower(r.text), look.query)
               PROVE  Place(r.id) # {}
    BY DEF KeywordsFillGaps
  <2>1. look.todo = {}
    BY DEF Search, Phases, Done
  <2>2. \E i \in 1..Len(look.lists["ilike"]) : look.lists["ilike"][i] = r.id
    BY <2>1 DEF Search, Words
  <2>3. r.id \in HitIds
    <3>1. PICK s : s = look.lists["ilike"]
      OBVIOUS
    <3> DEFINE X == 1..created
    <3>2. s \in Seq(X)
      BY <3>1, LookFields DEF Search, Lists
    <3> HIDE DEF X
    <3>3. DOMAIN s = 1..Len(s)
      BY <3>2
    <3>4. r.id \in ToSet(s)
      BY <2>2, <3>1, <3>3 DEF ToSet
    <3> QED
      BY <3>1, <3>4 DEF HitIds, Lists
  <2>4. PICK order \in Seq(HitIds) :
          /\ Len(order) = Cardinality(HitIds)
          /\ \A x \in HitIds : \E i \in 1..Len(order) : order[i] = x
          /\ Len(look.found) = IF Len(order) < TopK THEN Len(order) ELSE TopK
          /\ \A i \in 1..Len(look.found) : look.found[i] = order[i]
    BY FoundFacts
  <2>5. Len(look.found) = Len(order)
    <3>1. Len(order) \in Nat /\ TopK \in Nat
      BY <2>4, TakeAssumption
    <3> QED
      BY <2>4, <3>1
  <2>6. PICK i \in 1..Len(order) : order[i] = r.id
    BY <2>3, <2>4
  <2>7. i \in Place(r.id)
    BY <2>4, <2>5, <2>6 DEF Place
  <2> QED
    BY <2>7
<1> QED
  BY <1>1, Always, PTL

-----------------------------------------------------------------------------
(* The fusion by rank.                                                      *)

\* A later rank is worth less, and no rank is worth nothing.
LEMMA ShareFacts ==
  ASSUME NEW i \in 1..MaxRows
  PROVE  Scale \div (RrfK + i) \in Nat \ {0} /\ Scale = (Scale \div (RrfK + i)) * (RrfK + i)
<1> DEFINE d == RrfK + i
<1>1. d \in Nat \ {0} /\ Scale \in Nat \ {0} /\ Scale % d = 0
  BY RrfAssumption
<1> HIDE DEF d
<1>2. Scale \div d \in Int /\ Scale = d * (Scale \div d)
  BY <1>1
<1> DEFINE q == Scale \div d
<1>3. q \in Int /\ Scale = d * q /\ d * q = q * d
  BY <1>1, <1>2
<1> HIDE DEF q
<1>4. q > 0
  <2>1. CASE q <= 0
    <3>1. d * q <= 0
      BY <1>1, <1>3, <2>1
    <3> QED
      BY <1>1, <1>3, <3>1
  <2> QED
    BY <1>3, <2>1
<1> QED
  BY <1>3, <1>4 DEF q, d

\* An earlier rank is worth more.
LEMMA ShareFalls ==
  ASSUME NEW i \in 1..MaxRows, NEW k \in 1..MaxRows, i < k
  PROVE  Scale \div (RrfK + i) > Scale \div (RrfK + k)
<1> DEFINE p == Scale \div (RrfK + i)
           q == Scale \div (RrfK + k)
           a == RrfK + i
           b == RrfK + k
<1>1. p \in Nat \ {0} /\ q \in Nat \ {0} /\ p * a = q * b
  BY ShareFacts
<1>2. a \in Nat /\ b \in Nat /\ a < b
  BY RrfAssumption
<1> SUFFICES p > q
  OBVIOUS
<1> HIDE DEF p, q, a, b
<1>3. CASE p <= q
  <2>1. p * a <= q * a
    BY <1>1, <1>2, <1>3
  <2>2. q * a < q * b
    BY <1>1, <1>2
  <2> QED
    BY <1>1, <1>2, <2>1, <2>2
<1> QED
  BY <1>1, <1>3

\* A row has one rank in a list, or none.
LEMMA RankFacts ==
  ASSUME Memory, Search, NEW l \in Lists, NEW id
  PROVE  /\ Rank(l, id) \subseteq 1..MaxRows
         /\ \A i, k \in Rank(l, id) : i = k
<1>1. look.lists[l] \in Seq(1..created)
  BY LookFields DEF Search
<1>2. Distinct(look.lists[l]) /\ Len(look.lists[l]) <= MaxRows /\ MaxRows \in Nat
  BY RrfAssumption DEF Search, ListsOK
<1>3. PICK s : s = look.lists[l]
  OBVIOUS
<1> DEFINE X == 1..created
<1>4. s \in Seq(X)
  BY <1>1, <1>3
<1> HIDE DEF X
<1>5. Len(s) \in Nat
  BY <1>4
<1>6. 1..Len(s) \subseteq 1..MaxRows
  BY <1>2, <1>3, <1>5
<1>7. Rank(l, id) = {i \in 1..Len(s) : s[i] = id}
  BY <1>3 DEF Rank
<1> QED
  BY <1>2, <1>3, <1>6, <1>7 DEF Distinct

\* A list gives points to the rows it has, and to no other.
LEMMA PointsFacts ==
  ASSUME Memory, Search, NEW l \in Lists, NEW id
  PROVE  /\ Points(l, id) \in Nat
         /\ Rank(l, id) = {} => Points(l, id) = 0
         /\ \A i \in Rank(l, id) : Points(l, id) = Scale \div (RrfK + i) /\ Points(l, id) # 0
<1> DEFINE R == Rank(l, id)
<1>1. R \subseteq 1..MaxRows /\ \A i, k \in R : i = k
  BY RankFacts
<1>2. Points(l, id) = IF R = {} THEN 0 ELSE Scale \div (RrfK + CHOOSE i \in R : TRUE)
  BY DEF Points
<1> HIDE DEF R
<1>3. CASE R = {}
  BY <1>2, <1>3 DEF R
<1>4. CASE R # {}
  <2>1. PICK i : i = CHOOSE k \in R : TRUE
    OBVIOUS
  <2>2. i \in R /\ i \in 1..MaxRows
    BY <1>1, <1>4, <2>1
  <2>3. Points(l, id) = Scale \div (RrfK + i)
    BY <1>2, <1>4, <2>1
  <2>4. Points(l, id) \in Nat \ {0}
    BY <2>2, <2>3, ShareFacts
  <2> QED
    BY <1>1, <1>4, <2>2, <2>3, <2>4 DEF R
<1> QED
  BY <1>3, <1>4

\* A row placed no worse gets no less.
LEMMA NoWorsePoints ==
  ASSUME Memory, Search, NEW l \in Lists, NEW x, NEW y, NoWorse(x, y, l)
  PROVE  Points(l, x) >= Points(l, y)
<1>1. Points(l, x) \in Nat /\ Points(l, y) \in Nat
  BY PointsFacts
<1>2. CASE Rank(l, y) = {}
  <2>1. Points(l, y) = 0
    BY <1>2, PointsFacts
  <2> QED
    BY <1>1, <2>1
<1>3. CASE Rank(l, y) # {}
  <2>1. PICK k \in Rank(l, y) : TRUE
    BY <1>3
  <2>2. PICK i \in Rank(l, x) : i <= k
    BY <2>1 DEF NoWorse
  <2>3. i \in 1..MaxRows /\ k \in 1..MaxRows
    BY <2>1, <2>2, RankFacts
  <2>4. Points(l, x) = Scale \div (RrfK + i) /\ Points(l, y) = Scale \div (RrfK + k)
    BY <2>1, <2>2, PointsFacts
  <2>5. CASE i = k
    BY <1>1, <2>4, <2>5
  <2>6. CASE i # k
    <3>1. i < k
      BY <2>2, <2>3, <2>6
    <3>2. Points(l, x) > Points(l, y)
      BY <2>3, <2>4, <3>1, ShareFalls
    <3> QED
      BY <1>1, <3>2
  <2> QED
    BY <2>5, <2>6
<1> QED
  BY <1>2, <1>3

\* A row placed better gets more.
LEMMA WorsePoints ==
  ASSUME Memory, Search, NEW l \in Lists, NEW x, NEW y, ~NoWorse(y, x, l)
  PROVE  Points(l, x) > Points(l, y)
<1>1. Points(l, x) \in Nat /\ Points(l, y) \in Nat
  BY PointsFacts
<1>2. PICK k \in Rank(l, x) : \A i \in Rank(l, y) : ~(i <= k)
  BY DEF NoWorse
<1>3. k \in 1..MaxRows /\ Points(l, x) = Scale \div (RrfK + k) /\ Points(l, x) # 0
  BY <1>2, PointsFacts, RankFacts
<1>4. CASE Rank(l, y) = {}
  <2>1. Points(l, y) = 0
    BY <1>4, PointsFacts
  <2> QED
    BY <1>1, <1>3, <2>1
<1>5. CASE Rank(l, y) # {}
  <2>1. PICK i \in Rank(l, y) : TRUE
    BY <1>5
  <2>2. i \in 1..MaxRows /\ Points(l, y) = Scale \div (RrfK + i)
    BY <2>1, PointsFacts, RankFacts
  <2>3. k < i
    BY <1>2, <1>3, <2>1, <2>2
  <2> QED
    BY <1>3, <2>2, <2>3, ShareFalls
<1> QED
  BY <1>4, <1>5

\* A row that no search ranks lower, and one ranks higher, has the higher score.
LEMMA ScoreFacts ==
  ASSUME Memory, Search, NEW x, NEW y
  PROVE  /\ Score(x) \in Nat
         /\ (\A l \in Lists : NoWorse(x, y, l)) /\ (\E l \in Lists : ~NoWorse(y, x, l))
            => Score(x) > Score(y)
<1>1. \A l \in Lists : Points(l, x) \in Nat /\ Points(l, y) \in Nat
  BY PointsFacts
<1>2. "vector" \in Lists /\ "experience" \in Lists /\ "ilike" \in Lists
  BY DEF Lists
<1>3. Score(x) \in Nat
  BY <1>1, <1>2 DEF Score
<1>4. ASSUME \A l \in Lists : NoWorse(x, y, l), NEW m \in Lists, ~NoWorse(y, x, m)
      PROVE  Score(x) > Score(y)
  <2>1. \A l \in Lists : Points(l, x) >= Points(l, y)
    BY <1>4, NoWorsePoints
  <2>2. Points(m, x) > Points(m, y)
    BY <1>4, WorsePoints
  <2>3. m = "vector" \/ m = "experience" \/ m = "ilike"
    BY DEF Lists
  <2> HIDE DEF Lists
  <2> QED
    BY <1>1, <1>2, <2>1, <2>2, <2>3 DEF Score
<1> QED
  BY <1>3, <1>4

\* What is not before its follower anywhere never rises.
LEMMA NeverRises ==
  ASSUME NEW n \in Nat, NEW v \in [1..n -> Int],
         \A i \in 1..n - 1 : v[i] >= v[i + 1],
         NEW i \in 1..n, NEW k \in 1..n, i <= k
  PROVE  v[i] >= v[k]
<1> DEFINE Bad == {j \in 1..n : i <= j /\ ~(v[i] >= v[j])}
<1> SUFFICES ASSUME Bad # {} PROVE FALSE
  OBVIOUS
<1>1. PICK j \in Bad : \A m \in Bad : j <= m
  <2>1. Bad \in SUBSET Nat
    OBVIOUS
  <2> QED
    BY <2>1, LeastNat
<1>2. j # i /\ j \in 1..n /\ i <= j
  BY <1>1
<1>3. j - 1 \in 1..n - 1 /\ j - 1 \in 1..n /\ i <= j - 1 /\ (j - 1) + 1 = j
  BY <1>2
<1>4. v[i] >= v[j - 1]
  <2>1. ~(j <= j - 1)
    BY <1>2
  <2>2. j - 1 \notin Bad
    <3> HIDE DEF Bad
    <3> QED
      BY <1>1, <2>1
  <2> QED
    BY <1>3, <2>2
<1>5. v[j - 1] >= v[j]
  BY <1>3
<1>6. v[i] \in Int /\ v[j - 1] \in Int /\ v[j] \in Int
  BY <1>2, <1>3
<1> QED
  BY <1>1, <1>4, <1>5, <1>6

\* FusionOrder: reciprocal rank fusion recalls a row before every row that each
\* search places no better and one search places worse (rrfMerge).
THEOREM FusionTheorem == Spec => []FusionOrder
<1>1. Memory /\ Search => FusionOrder
  <2> SUFFICES ASSUME Memory, Search, Done, HitIds # {} PROVE FusionOrder
    BY DEF FusionOrder
  <2>1. PICK order \in Seq(HitIds) :
          /\ ByScore(order) /\ Distinct(order)
          /\ \A x \in HitIds : \E i \in 1..Len(order) : order[i] = x
          /\ Len(look.found) = IF Len(order) < TopK THEN Len(order) ELSE TopK
          /\ \A i \in 1..Len(look.found) : look.found[i] = order[i]
    BY FoundFacts
  <2> DEFINE n == Len(order)
             m == Len(look.found)
             v == [i \in 1..n |-> Score(order[i])]
  <2>2. n \in Nat /\ m \in Nat /\ m <= n
    <3>1. Len(order) \in Nat /\ TopK \in Nat
      BY <2>1, TakeAssumption
    <3> QED
      BY <2>1, <3>1
  <2>3. v \in [1..n -> Int] /\ \A i \in 1..n : v[i] = Score(order[i])
    BY ScoreFacts
  <2>4. \A i \in 1..n - 1 : v[i] >= v[i + 1]
    <3>1. \A i \in 1..n - 1 : i \in 1..n /\ i + 1 \in 1..n
      BY <2>2
    <3>2. \A i \in 1..n - 1 : Score(order[i]) >= Score(order[i + 1])
      BY <2>1 DEF ByScore
    <3> HIDE DEF n, v
    <3> QED
      BY <2>3, <3>1, <3>2
  <2>5. \A i, k \in 1..m : look.found[i] = look.found[k] => i = k
    <3>1. \A i \in 1..m : i \in 1..n
      BY <2>2
    <3> HIDE DEF n, m
    <3> QED
      BY <2>1, <3>1 DEF Distinct, n, m
  <2> HIDE DEF v
  <2>6. ASSUME NEW x \in HitIds, NEW y \in HitIds, \A l \in Lists : NoWorse(x, y, l),
               \E l \in Lists : ~NoWorse(y, x, l), NEW k \in Place(y)
        PROVE  \E i \in Place(x) : i < k
    <3>1. Score(x) > Score(y) /\ Score(x) \in Nat /\ Score(y) \in Nat
      BY <2>6, ScoreFacts
    <3>2. k \in 1..m /\ look.found[k] = y
      BY DEF Place
    <3>3. k \in 1..n /\ order[k] = y
      <4>1. order[k] = y
        BY <2>1, <3>2
      <4>2. k \in 1..n
        <5> HIDE DEF n, m
        <5> QED
          BY <2>2, <3>2
      <4> QED
        BY <4>1, <4>2
    <3>4. PICK i \in 1..n : order[i] = x
      BY <2>1
    <3>5. CASE k <= i
      <4>1. v[k] >= v[i]
        <5> HIDE DEF n
        <5> QED
          BY <2>2, <2>3, <2>4, <3>3, <3>4, <3>5, NeverRises
      <4> QED
        BY <2>3, <3>1, <3>3, <3>4, <4>1
    <3>6. CASE i < k
      <4>1. i \in 1..m
        <5> HIDE DEF n, m
        <5> QED
          BY <2>2, <3>2, <3>4, <3>6
      <4>2. look.found[i] = x
        BY <2>1, <3>4, <4>1
      <4> QED
        BY <3>6, <4>1, <4>2 DEF Place
    <3> QED
      BY <2>2, <3>3, <3>4, <3>5, <3>6
  <2> QED
    BY <2>5, <2>6 DEF FusionOrder
<1> QED
  BY <1>1, Always, PTL

=============================================================================
