-------------------------- MODULE UserMemoryProofs --------------------------
(***************************************************************************)
(* Theorems about the long-term memory of a user, for any number of        *)
(* clients, workers, rows and traits.                                      *)
(***************************************************************************)
EXTENDS UserMemory, FiniteSetTheorems, TLAPS

Reqs == [todo : Seq(Steps), row : SUBSET Rows, traits : SUBSET Keys, items : Seq(Values),
         texts : SUBSET Values, wrote : BOOLEAN, built : Profiles, overtaken : BOOLEAN]

\* Every row has an identifier of its own, and an experience has a content.
RowsInv ==
  /\ rows \subseteq Rows /\ created \in 0..MaxRows
  /\ \A r \in rows : r.id <= created
  /\ \A r, s \in rows : r.id = s.id => r = s
  /\ \A r \in rows : r.ref \in {"noted", "experience"} => r.val \in Values

CacheInv == raced \in BOOLEAN /\ (cache = {} \/ \E p \in Profiles : cache = {p})

TypeInv == RowsInv /\ CacheInv /\ req \in [Actors -> Reqs]

LEMMA TypeParts == TypeInv => TypeOK
<1> SUFFICES ASSUME TypeInv PROVE TypeOK
  OBVIOUS
<1>1. Cardinality(cache) <= 1 /\ cache \subseteq Profiles
  BY FS_EmptySet, FS_Singleton DEF TypeInv, CacheInv
<1>2. /\ rows \subseteq Rows /\ created \in 0..MaxRows /\ \A r \in rows : r.id <= created
  BY DEF TypeInv, RowsInv
<1>3. raced \in BOOLEAN /\ \A a \in Actors : req[a] \in Reqs
  BY DEF TypeInv, CacheInv
<1> QED
  BY <1>1, <1>2, <1>3 DEF TypeOK, Reqs

LEMMA EmptyShape == Empty \in Profiles /\ Empty.traits = {} /\ Empty.experiences = {} /\ Empty.others = {}
BY DEF Empty, Profiles

LEMMA IdleShape ==
  /\ IdleReq \in Reqs /\ IdleReq.todo = <<>> /\ ~IdleReq.wrote /\ ~IdleReq.overtaken
BY EmptyShape DEF IdleReq, Reqs

-----------------------------------------------------------------------------
(* Types.  First what changes of rows keep.                                 *)

LEMMA RowsSame ==
  ASSUME RowsInv, UNCHANGED <<rows, created>>
  PROVE  RowsInv'
BY DEF RowsInv

LEMMA RowsFewer ==
  ASSUME RowsInv, rows' \subseteq rows, created' = created
  PROVE  RowsInv'
BY DEF RowsInv

LEMMA RowsMore ==
  ASSUME RowsInv, NEW ref \in Refs, NEW val \in Values \cup {Blank}, Insert(ref, val),
         ref \in {"noted", "experience"} => val \in Values
  PROVE  RowsInv'
<1> DEFINE new == [id |-> created + 1, ref |-> ref, val |-> val]
<1>1. /\ created < MaxRows /\ created \in Nat /\ created' = created + 1
      /\ rows' = rows \cup {new} /\ MaxRows \in Nat
  BY BoundAssumption DEF RowsInv, Insert
<1>2. new \in Rows
  BY <1>1 DEF Rows
<1>3. \A r \in rows : r.id # created + 1 /\ r.id \in Nat
  BY <1>1 DEF RowsInv, Rows
<1>4. new.id = created + 1 /\ new.ref = ref /\ new.val = val
  OBVIOUS
<1> HIDE DEF new
<1>5. rows' \subseteq Rows /\ created' \in 0..MaxRows
  BY <1>1, <1>2 DEF RowsInv
<1>6. \A r \in rows' : r.id <= created'
  BY <1>1, <1>3, <1>4 DEF RowsInv
<1>7. \A r, s \in rows' : r.id = s.id => r = s
  BY <1>1, <1>3, <1>4 DEF RowsInv
<1>8. \A r \in rows' : r.ref \in {"noted", "experience"} => r.val \in Values
  BY <1>1, <1>4 DEF RowsInv
<1> QED
  BY <1>5, <1>6, <1>7, <1>8 DEF RowsInv

LEMMA TraitsFinite ==
  ASSUME NEW T \in SUBSET Keys
  PROVE  IsFiniteSet(T) /\ Cardinality(T) \in Nat
BY KeysAssumption, FS_Subset, FS_CardinalityType

\* What putting the traits adds: one row for each.
LEMMA TraitRows ==
  ASSUME TypeInv, NEW a \in Actors, PutTraits(a)
  PROVE  /\ RowsInv'
         /\ rows \subseteq rows'
         /\ \A r \in rows' \ rows : r.ref \in req[a].traits
         /\ \A r, s \in rows' \ rows : r.ref = s.ref => r = s
<1> DEFINE n == Cardinality(req[a].traits)
           ids == created + 1 .. created + n
<1>0. RowsInv /\ created \in Nat /\ MaxRows \in Nat /\ req[a].traits \subseteq Keys
  BY BoundAssumption DEF TypeInv, RowsInv, Reqs
<1>1. n \in Nat
  BY <1>0, TraitsFinite
<1>2. PICK key \in Bijection(ids, req[a].traits) :
        rows' = rows \cup {[id |-> i, ref |-> key[i], val |-> Blank] : i \in ids}
  BY DEF PutTraits
<1>3. created + n <= MaxRows /\ created' = created + n
  BY DEF PutTraits
<1>4. key \in [ids -> req[a].traits] /\ \A i, j \in ids : key[i] = key[j] => i = j
  BY <1>2 DEF Bijection, Injection, IsInjective
<1> HIDE DEF n
<1>5. \A i \in ids : i \in Nat /\ i > created /\ i <= created'
  BY <1>0, <1>1, <1>3
<1>6. \A i \in ids : key[i] \in Keys /\ i \in 1..MaxRows
  BY <1>0, <1>1, <1>3, <1>4
<1> HIDE DEF ids
<1>7. \A r \in rows' :
        r \in rows \/ \E i \in ids : r.id = i /\ r.ref = key[i] /\ r.val = Blank
                                     /\ r = [id |-> i, ref |-> key[i], val |-> Blank]
  BY <1>2
<1>8. \A r \in rows : r.id \in Nat /\ r.id <= created
  BY <1>0 DEF RowsInv, Rows
<1>9. rows' \subseteq Rows /\ created' \in 0..MaxRows
  BY <1>0, <1>1, <1>3, <1>6, <1>7 DEF RowsInv, Rows, Refs
<1>10. \A r \in rows' : r.id <= created'
  BY <1>0, <1>1, <1>3, <1>5, <1>7, <1>8
<1>11. \A r, s \in rows' : r.id = s.id => r = s
  BY <1>0, <1>5, <1>7, <1>8 DEF RowsInv
<1>12. \A r \in rows' : r.ref \in {"noted", "experience"} => r.val \in Values
  BY <1>0, <1>6, <1>7, KeysAssumption DEF RowsInv
<1>13. RowsInv'
  BY <1>9, <1>10, <1>11, <1>12 DEF RowsInv
<1>14. rows \subseteq rows' /\ \A r \in rows' \ rows : r.ref \in req[a].traits
  BY <1>2, <1>4, <1>7
<1>15. \A r, s \in rows' \ rows : r.ref = s.ref => r = s
  BY <1>4, <1>7
<1> QED
  BY <1>13, <1>14, <1>15

-----------------------------------------------------------------------------
(* Handlers: what they go on with has the right shape.                      *)

LEMMA Handlers ==
  ASSUME TypeInv, NEW a \in Actors
  PROVE  /\ req[a] \in Reqs /\ req[a].todo \in Seq(Steps)
         /\ ~Idle(a) => req[a].todo # <<>>
BY DEF TypeInv, Reqs, Idle

LEMMA ReqMoves ==
  ASSUME TypeInv, NEW a \in Actors, NEW x, req' = [req EXCEPT ![a] = x]
  PROVE  /\ x \in Reqs => req' \in [Actors -> Reqs]
         /\ req'[a] = x /\ \A b \in Actors : b # a => req'[b] = req[b]
BY DEF TypeInv

LEMMA WriteMoves ==
  ASSUME TypeInv, NEW a \in Actors, NEW x \in Reqs, req' = AfterWrite(a, x)
  PROVE  /\ req' \in [Actors -> Reqs]
         /\ req'[a] = [x EXCEPT !.wrote = TRUE]
         /\ \A b \in Actors : b # a => req'[b] = [req[b] EXCEPT !.overtaken = Builds(b)]
<1>1. req'[a] = [x EXCEPT !.wrote = TRUE]
      /\ \A b \in Actors : b # a => req'[b] = [req[b] EXCEPT !.overtaken = Builds(b)]
  BY DEF AfterWrite
<1>2. [x EXCEPT !.wrote = TRUE] \in Reqs
  BY DEF Reqs
<1>3. \A b \in Actors : Builds(b) \in BOOLEAN
  BY Zenon DEF Builds
<1>4. \A b \in Actors : [req[b] EXCEPT !.overtaken = Builds(b)] \in Reqs
  BY <1>3 DEF TypeInv, Reqs
<1>5. req' = [b \in Actors |-> IF b = a THEN [x EXCEPT !.wrote = TRUE]
                               ELSE [req[b] EXCEPT !.overtaken = Builds(b)]]
  BY DEF AfterWrite
<1> QED BY <1>1, <1>2, <1>4, <1>5

\* What a handler goes on with after it has changed rows, and what the others
\* do.
LEMMA WriteFields ==
  ASSUME TypeInv, NEW a \in Actors, NEW x \in Reqs, req' = AfterWrite(a, x)
  PROVE  /\ req'[a].todo = x.todo /\ req'[a].items = x.items /\ req'[a].texts = x.texts
         /\ req'[a].wrote
         /\ \A b \in Actors : b # a =>
              /\ req'[b].todo = req[b].todo /\ req'[b].items = req[b].items
              /\ req'[b].texts = req[b].texts /\ req'[b].wrote = req[b].wrote
              /\ req'[b].overtaken = Builds(b)
<1>1. /\ req'[a] = [x EXCEPT !.wrote = TRUE]
      /\ \A b \in Actors : b # a => req'[b] = [req[b] EXCEPT !.overtaken = Builds(b)]
  BY WriteMoves
<1>2. ASSUME NEW y \in Reqs, NEW flag
      PROVE  /\ [y EXCEPT !.overtaken = flag].todo = y.todo
             /\ [y EXCEPT !.overtaken = flag].items = y.items
             /\ [y EXCEPT !.overtaken = flag].texts = y.texts
             /\ [y EXCEPT !.overtaken = flag].wrote = y.wrote
             /\ [y EXCEPT !.overtaken = flag].overtaken = flag
  BY DEF Reqs
<1>3. \A b \in Actors : req[b] \in Reqs
  BY DEF TypeInv
<1>4. /\ req'[a].todo = x.todo /\ req'[a].items = x.items /\ req'[a].texts = x.texts
      /\ req'[a].wrote
  BY <1>1 DEF Reqs
<1>5. ASSUME NEW b \in Actors, b # a
      PROVE  /\ req'[b].todo = req[b].todo /\ req'[b].items = req[b].items
             /\ req'[b].texts = req[b].texts /\ req'[b].wrote = req[b].wrote
             /\ req'[b].overtaken = Builds(b)
  <2>1. req'[b] = [req[b] EXCEPT !.overtaken = Builds(b)] /\ req[b] \in Reqs
    BY <1>1, <1>3, <1>5
  <2> QED BY <1>2, <2>1
<1> QED BY <1>4, <1>5

LEMMA ProceedShape ==
  ASSUME NEW x \in Reqs, x.todo # <<>>
  PROVE  /\ Proceed(x) \in Reqs /\ Proceed(x).todo = Tail(x.todo)
         /\ \A f \in {"row", "traits", "items", "texts", "wrote", "built", "overtaken"} :
              Proceed(x)[f] = x[f]
<1>1. Tail(x.todo) \in Seq(Steps)
  BY DEF Reqs
<1> QED BY <1>1 DEF Proceed, Reqs

\* There is a least element in a set of natural numbers.
LEMMA LeastNat ==
  ASSUME NEW S \in SUBSET Nat, S # {}
  PROVE  \E i \in S : \A k \in S : i <= k
<1>1. PICK i \in S : \A k \in S : ~(<<k, i>> \in OpToRel(<, Nat))
  BY NatLessThanWellFounded, WFMin
<1>2. \A k \in S : ~(k < i)
  BY <1>1 DEF OpToRel
<1> QED BY <1>2

\* The facts that remain begin with one that is new.
LEMMA RemainingFacts ==
  ASSUME NEW items \in Seq(Values), NEW texts
  PROVE  /\ Remaining(items, texts) \in Seq(Values)
         /\ Remaining(items, texts) # <<>>
              => ~IsNearDuplicate(Head(Remaining(items, texts)), texts)
<1> DEFINE new == {i \in 1..Len(items) : ~IsNearDuplicate(items[i], texts)}
           m == CHOOSE i \in new : \A k \in new : i <= k
<1>1. CASE new = {}
  BY <1>1 DEF Remaining
<1>2. CASE new # {}
  <2>1. new \subseteq Nat
    OBVIOUS
  <2>2. m \in new
    BY <1>2, <2>1, LeastNat
  <2>3. Remaining(items, texts) = SubSeq(items, m, Len(items))
    BY <1>2 DEF Remaining
  <2>4. m \in 1..Len(items) /\ ~IsNearDuplicate(items[m], texts)
    BY <2>2
  <2> HIDE DEF m, new
  <2>5. Head(SubSeq(items, m, Len(items))) = items[m]
        /\ SubSeq(items, m, Len(items)) \in Seq(Values)
    BY <2>4
  <2> QED BY <2>3, <2>4, <2>5
<1> QED BY <1>1, <1>2

LEMMA NextItemShape ==
  ASSUME NEW x \in Reqs, x.items # <<>>
  PROVE  LET v == Head(x.items)
             left == Remaining(Tail(x.items), x.texts \cup {v})
         IN  /\ NextItem(x, v) \in Reqs
             /\ NextItem(x, v).texts = x.texts \cup {v}
             /\ NextItem(x, v).items = left
             /\ NextItem(x, v).todo = IF left = <<>> THEN <<"del", "del">> ELSE <<"create">>
             /\ NextItem(x, v).overtaken = x.overtaken
<1> DEFINE v == Head(x.items)
           left == Remaining(Tail(x.items), x.texts \cup {v})
           todo == IF left = <<>> THEN <<"del", "del">> ELSE <<"create">>
<1>1. v \in Values /\ Tail(x.items) \in Seq(Values) /\ x.texts \subseteq Values
  BY DEF Reqs
<1>2. left \in Seq(Values)
  BY <1>1, RemainingFacts
<1>3. <<"del", "del">> \in Seq(Steps) /\ <<"create">> \in Seq(Steps)
  BY DEF Steps
<1>4. todo \in Seq(Steps)
  BY <1>3
<1>5. NextItem(x, v) = [x EXCEPT !.texts = x.texts \cup {v}, !.items = left, !.todo = todo]
  BY DEF NextItem
<1> DEFINE Todos == Seq(Steps)
           Items == Seq(Values)
           Texts == SUBSET Values
<1>6. /\ x.texts \cup {v} \in Texts /\ left \in Items /\ todo \in Todos
      /\ Reqs = [todo : Todos, row : SUBSET Rows, traits : SUBSET Keys, items : Items,
                 texts : Texts, wrote : BOOLEAN, built : Profiles, overtaken : BOOLEAN]
  BY <1>1, <1>2, <1>4 DEF Reqs
<1> HIDE DEF v, left, todo, Todos, Items, Texts
<1>7. NextItem(x, v) \in Reqs
  BY <1>5, <1>6
<1>8. /\ NextItem(x, v).texts = x.texts \cup {v} /\ NextItem(x, v).items = left
      /\ NextItem(x, v).todo = todo /\ NextItem(x, v).overtaken = x.overtaken
  BY <1>5 DEF Reqs
<1> QED BY <1>7, <1>8 DEF v, left, todo

-----------------------------------------------------------------------------
(* What a handler has yet to do: the rows of a trait, a score or a mark are *)
(* put only right after the old ones were dropped or looked for, and a      *)
(* profile is built in one order.                                           *)

BuildTodos ==
  {<<"traits", "experiences", "others", "set">>, <<"experiences", "others", "set">>,
   <<"others", "set">>, <<"set">>}

Follows(t, i) ==
  /\ t[i] = "putTraits" => i > 1 /\ t[i - 1] = "dropTraits"
  /\ t[i] = "putScore" => i > 1 /\ t[i - 1] = "dropScore"
  /\ t[i] \notin {"putMark", "create"}

OpsOf(a, s) ==
  /\ s \in {"putTraits", "putScore", "putMark", "findMark"} => "patch" \in Ops[a]
  /\ s = "create" => "extract" \in Ops[a]

TodoOK(a, x) ==
  /\ \A i \in 2..Len(x.todo) : Follows(x.todo, i)
  /\ \A i \in 1..Len(x.todo) : OpsOf(a, x.todo[i])
  /\ x.todo # <<>> /\ Last(x.todo) = "set" => x.todo \in BuildTodos
  /\ x.todo # <<>> /\ Head(x.todo) = "create"
       => x.items # <<>> /\ ~IsNearDuplicate(Head(x.items), x.texts)

BaseInv == TypeInv /\ \A a \in Actors : TodoOK(a, req[a])

LEMMA IdleTodo == \A a : TodoOK(a, IdleReq)
BY IdleShape DEF TodoOK

\* A handler that goes on as x, having changed the rows or not.
LEMMA Goes ==
  ASSUME BaseInv, NEW a \in Actors, NEW x \in Reqs, TodoOK(a, x),
         req' = [req EXCEPT ![a] = x] \/ req' = AfterWrite(a, x)
  PROVE  req' \in [Actors -> Reqs] /\ \A b \in Actors : TodoOK(b, req'[b])
<1>1. CASE req' = [req EXCEPT ![a] = x]
  BY <1>1, ReqMoves DEF BaseInv
<1>2. CASE req' = AfterWrite(a, x)
  <2>1. req' \in [Actors -> Reqs]
    BY <1>2, WriteMoves DEF BaseInv
  <2>2. /\ req'[a].todo = x.todo /\ req'[a].items = x.items /\ req'[a].texts = x.texts
        /\ \A b \in Actors : b # a =>
             /\ req'[b].todo = req[b].todo /\ req'[b].items = req[b].items
             /\ req'[b].texts = req[b].texts
    BY <1>2, WriteFields DEF BaseInv
  <2>3. TodoOK(a, req'[a])
    BY <2>2 DEF TodoOK
  <2>4. ASSUME NEW b \in Actors, b # a PROVE TodoOK(b, req'[b])
    BY <2>2, <2>4 DEF TodoOK, BaseInv
  <2> QED BY <2>1, <2>3, <2>4
<1> QED BY <1>1, <1>2

LEMMA Ends ==
  ASSUME BaseInv, NEW a \in Actors, req' = [req EXCEPT ![a] = IdleReq]
  PROVE  req' \in [Actors -> Reqs] /\ \A b \in Actors : TodoOK(b, req'[b])
BY Goes, IdleShape, IdleTodo

LEMMA BuildTails ==
  ASSUME NEW t \in BuildTodos
  PROVE  /\ Tail(t) # <<>> => Tail(t) \in BuildTodos
         /\ Head(t) \in {"traits", "experiences", "others", "set"}
<1>1. CASE t = <<"traits", "experiences", "others", "set">>
  <2>1. Tail(t) = <<"experiences", "others", "set">> /\ Head(t) = "traits"
    BY <1>1
  <2> QED BY <2>1 DEF BuildTodos
<1>2. CASE t = <<"experiences", "others", "set">>
  <2>1. Tail(t) = <<"others", "set">> /\ Head(t) = "experiences"
    BY <1>2
  <2> QED BY <2>1 DEF BuildTodos
<1>3. CASE t = <<"others", "set">>
  <2>1. Tail(t) = <<"set">> /\ Head(t) = "others"
    BY <1>3
  <2> QED BY <2>1 DEF BuildTodos
<1>4. CASE t = <<"set">>
  <2>1. Tail(t) = <<>> /\ Head(t) = "set"
    BY <1>4
  <2> QED BY <2>1 DEF BuildTodos
<1> QED BY <1>1, <1>2, <1>3, <1>4 DEF BuildTodos

LEMMA TailTodo ==
  ASSUME NEW a \in Actors, NEW x \in Reqs, TodoOK(a, x), x.todo # <<>>
  PROVE  TodoOK(a, Proceed(x))
<1> DEFINE t == x.todo
           u == Proceed(x).todo
<1>1. t \in Seq(Steps) /\ t # <<>> /\ u = Tail(t)
  BY ProceedShape DEF Reqs
<1>2. Len(u) = Len(t) - 1 /\ Len(t) \in Nat /\ \A i \in 1..Len(u) : u[i] = t[i + 1]
  BY <1>1
<1> HIDE DEF t, u
<1>3. \A i \in 2..Len(u) : Follows(u, i)
  <2> SUFFICES ASSUME NEW i \in 2..Len(u) PROVE Follows(u, i)
    OBVIOUS
  <2>1. i + 1 \in 2..Len(t) /\ Follows(t, i + 1)
    BY <1>2 DEF TodoOK, t
  <2>2. u[i] = t[i + 1] /\ u[i - 1] = t[i] /\ i > 1 /\ (i + 1) - 1 = i
    BY <1>2
  <2> QED BY <2>1, <2>2 DEF Follows
<1>4. \A i \in 1..Len(u) : OpsOf(a, u[i])
  BY <1>2 DEF TodoOK, t
<1>5. u # <<>> => Last(u) = Last(t)
  BY <1>1, <1>2 DEF Last
<1>6. u # <<>> /\ Last(u) = "set" => u \in BuildTodos
  BY <1>1, <1>5, BuildTails DEF TodoOK, t
<1>7. u # <<>> => Head(u) # "create"
  <2> SUFFICES ASSUME u # <<>> PROVE Head(u) # "create"
    OBVIOUS
  <2>1. Len(t) >= 2 /\ Head(u) = t[2]
    BY <1>1, <1>2
  <2>2. Follows(t, 2)
    BY <1>2, <2>1 DEF TodoOK, t
  <2> QED BY <2>1, <2>2 DEF Follows
<1> QED
  BY <1>3, <1>4, <1>6, <1>7 DEF TodoOK, u

\* Begun todos.
PatchTodo(parts) ==
  (IF "traits" \in parts THEN <<"dropTraits", "putTraits">> ELSE <<>>)
    \o (IF "confidence" \in parts THEN <<"dropScore", "putScore">> ELSE <<>>)
    \o (IF "completed" \in parts THEN <<"findMark">> ELSE <<>>)
    \o <<"del">>

Neat(t) == t \in Seq(Steps) /\ \A i \in 1..Len(t) : Follows(t, i)

LEMMA NeatConcat ==
  ASSUME NEW s, Neat(s), NEW t, Neat(t)
  PROVE  Neat(s \o t)
<1>1. s \in Seq(Steps) /\ t \in Seq(Steps)
  BY DEF Neat
<1>2. /\ s \o t \in Seq(Steps) /\ Len(s \o t) = Len(s) + Len(t)
      /\ Len(s) \in Nat /\ Len(t) \in Nat
  BY <1>1
<1>3. \A i \in 1..Len(s) : (s \o t)[i] = s[i]
  BY <1>1
<1>4. \A i \in 1..Len(t) : (s \o t)[Len(s) + i] = t[i]
  BY <1>1
<1>5. ASSUME NEW i \in 1..Len(s \o t) PROVE Follows(s \o t, i)
  <2>1. CASE i <= Len(s)
    <3>1. i \in 1..Len(s) /\ Follows(s, i) /\ (i > 1 => i - 1 \in 1..Len(s))
      BY <1>2, <2>1 DEF Neat
    <3> QED BY <1>3, <3>1 DEF Follows
  <2>2. CASE i > Len(s)
    <3> DEFINE k == i - Len(s)
    <3>1. k \in 1..Len(t) /\ i = Len(s) + k /\ Follows(t, k)
      BY <1>2, <1>5, <2>2 DEF Neat
    <3>2. k > 1 => k - 1 \in 1..Len(t) /\ i - 1 = Len(s) + (k - 1) /\ i > 1
      BY <1>2, <3>1
    <3> HIDE DEF k
    <3>3. (s \o t)[i] = t[k] /\ (k > 1 => (s \o t)[i - 1] = t[k - 1])
      BY <1>4, <3>1, <3>2
    <3> QED BY <3>1, <3>2, <3>3 DEF Follows
  <2> QED BY <1>2, <2>1, <2>2
<1> QED BY <1>2, <1>5 DEF Neat

LEMMA PatchTodoShape ==
  ASSUME NEW parts
  PROVE  /\ Neat(PatchTodo(parts)) /\ PatchTodo(parts) # <<>>
         /\ Last(PatchTodo(parts)) = "del"
<1> DEFINE p == IF "traits" \in parts THEN <<"dropTraits", "putTraits">> ELSE <<>>
           q == IF "confidence" \in parts THEN <<"dropScore", "putScore">> ELSE <<>>
           r == IF "completed" \in parts THEN <<"findMark">> ELSE <<>>
           d == <<"del">>
<1>1. Neat(<<>>) /\ Neat(d) /\ Neat(<<"findMark">>)
  BY DEF Neat, Follows, Steps
<1>2. Neat(<<"dropTraits", "putTraits">>) /\ Neat(<<"dropScore", "putScore">>)
  BY DEF Neat, Follows, Steps
<1>3. Neat(p) /\ Neat(q) /\ Neat(r)
  BY <1>1, <1>2
<1>4. PatchTodo(parts) = (p \o q) \o r \o d
  BY DEF PatchTodo
<1> HIDE DEF p, q, r
<1>5. Neat(((p \o q) \o r) \o d) /\ (p \o q) \o r \in Seq(Steps)
  BY <1>1, <1>3, NeatConcat DEF Neat
<1>6. ((p \o q) \o r) \o d # <<>> /\ Last(((p \o q) \o r) \o d) = "del"
  BY <1>5 DEF Last
<1> QED BY <1>4, <1>5, <1>6

LEMMA NeatTodo ==
  ASSUME NEW a, NEW x, Neat(x.todo), x.todo # <<>> /\ Last(x.todo) # "set",
         "findMark" \in {x.todo[i] : i \in 1..Len(x.todo)} \/
         "putTraits" \in {x.todo[i] : i \in 1..Len(x.todo)} \/
         "putScore" \in {x.todo[i] : i \in 1..Len(x.todo)} => "patch" \in Ops[a]
  PROVE  TodoOK(a, x)
<1>1. x.todo \in Seq(Steps) /\ Len(x.todo) \in Nat /\ Head(x.todo) = x.todo[1] /\ 1 \in 1..Len(x.todo)
  BY DEF Neat
<1>2. \A i \in 1..Len(x.todo) : Follows(x.todo, i)
  BY DEF Neat
<1>3. \A i \in 1..Len(x.todo) : OpsOf(a, x.todo[i])
  BY <1>2 DEF OpsOf, Follows
<1> QED
  BY <1>1, <1>2, <1>3 DEF TodoOK, Follows

LEMMA ShortTodos ==
  /\ \A t \in {<<"del">>, <<"del", "del">>, <<"delete", "del">>} :
       Neat(t) /\ t # <<>> /\ Last(t) = "del"
       /\ \A i \in 1..Len(t) : t[i] \in {"delete", "del"}
  /\ <<"traits", "experiences", "others", "set">> \in Seq(Steps)
  /\ <<"create">> \in Seq(Steps)
BY DEF Neat, Follows, Steps, Last

\* A handler that drops the cached profile, having deleted a row or not.
LEMMA ShortTodoOK ==
  ASSUME NEW a, NEW x, x.todo \in {<<"del">>, <<"del", "del">>, <<"delete", "del">>}
  PROVE  TodoOK(a, x)
BY ShortTodos, NeatTodo

LEMMA ProfileTodo ==
  ASSUME NEW a, NEW x, x.todo = <<"traits", "experiences", "others", "set">>
  PROVE  TodoOK(a, x)
BY DEF TodoOK, Follows, OpsOf, BuildTodos

LEMMA CreateTodo ==
  ASSUME NEW a, NEW x, x.todo = <<"create">>, "extract" \in Ops[a],
         x.items # <<>>, ~IsNearDuplicate(Head(x.items), x.texts)
  PROVE  TodoOK(a, x)
BY DEF TodoOK, OpsOf, Last

LEMMA CurrentShape ==
  ASSUME RowsInv
  PROVE  Traits \in SUBSET Rows /\ Experiences \in SUBSET Rows /\ Others \in SUBSET Rows
BY DEF RowsInv, Traits, Experiences, Others

LEMMA BuildsBase ==
  ASSUME BaseInv, NEW a \in Actors,
         BeginProfile(a) \/ ReadTraits(a) \/ ReadExperiences(a) \/ ReadOthers(a) \/ CacheSet(a)
  PROVE  BaseInv'
<1>0. RowsInv /\ CacheInv /\ req[a] \in Reqs /\ TodoOK(a, req[a])
  BY DEF BaseInv, TypeInv
<1>1. CASE BeginProfile(a)
  <2> DEFINE x == [IdleReq EXCEPT !.todo = <<"traits", "experiences", "others", "set">>]
  <2>1. x \in Reqs /\ x.todo = <<"traits", "experiences", "others", "set">>
    BY IdleShape, ShortTodos DEF Reqs
  <2>2. req' = [req EXCEPT ![a] = x] /\ UNCHANGED <<rows, created, cache, raced>>
    BY <1>1 DEF BeginProfile
  <2> HIDE DEF x
  <2>3. req' \in [Actors -> Reqs] /\ \A b \in Actors : TodoOK(b, req'[b])
    BY <2>1, <2>2, ProfileTodo, Goes
  <2> QED BY <1>0, <2>2, <2>3, RowsSame DEF BaseInv, TypeInv, CacheInv
<1>2. ASSUME NEW x \in Reqs, req[a].todo # <<>>,
             \E f \in {"traits", "experiences", "others"}, S \in SUBSET Rows :
               x = [Proceed(req[a]) EXCEPT !.built[f] = S],
             req' = [req EXCEPT ![a] = x], UNCHANGED <<rows, created, cache, raced>>
      PROVE  BaseInv'
  <2>1. TodoOK(a, Proceed(req[a])) /\ Proceed(req[a]) \in Reqs
    BY <1>0, <1>2, TailTodo, ProceedShape
  <2>2. /\ x.todo = Proceed(req[a]).todo /\ x.items = Proceed(req[a]).items
        /\ x.texts = Proceed(req[a]).texts
    BY <1>2, <2>1 DEF Reqs
  <2>3. TodoOK(a, x)
    BY <2>1, <2>2 DEF TodoOK
  <2>4. req' \in [Actors -> Reqs] /\ \A b \in Actors : TodoOK(b, req'[b])
    BY <1>2, <2>3, Goes
  <2> QED BY <1>0, <1>2, <2>4, RowsSame DEF BaseInv, TypeInv, CacheInv
<1>3. CASE ReadTraits(a) \/ ReadExperiences(a) \/ ReadOthers(a)
  <2>1. req[a].todo # <<>> /\ Proceed(req[a]) \in Reqs
    BY <1>0, <1>3, ProceedShape DEF ReadTraits, ReadExperiences, ReadOthers, At, Idle
  <2>2. /\ [Proceed(req[a]) EXCEPT !.built.traits = Traits] \in Reqs
        /\ [Proceed(req[a]) EXCEPT !.built.experiences = Experiences] \in Reqs
        /\ [Proceed(req[a]) EXCEPT !.built.others = Others] \in Reqs
    BY <1>0, <2>1, CurrentShape DEF Reqs, Profiles
  <2>3. CASE ReadTraits(a)
    BY <1>0, <1>2, <2>1, <2>2, <2>3, CurrentShape DEF ReadTraits
  <2>4. CASE ReadExperiences(a)
    BY <1>0, <1>2, <2>1, <2>2, <2>4, CurrentShape DEF ReadExperiences
  <2>5. CASE ReadOthers(a)
    BY <1>0, <1>2, <2>1, <2>2, <2>5, CurrentShape DEF ReadOthers
  <2> QED BY <1>3, <2>3, <2>4, <2>5
<1>4. CASE CacheSet(a)
  <2>1. /\ req' = [req EXCEPT ![a] = IdleReq] /\ UNCHANGED <<rows, created>>
        /\ raced' = req[a].overtaken /\ cache' = {req[a].built}
    BY <1>4 DEF CacheSet
  <2>2. CacheInv'
    BY <1>0, <2>1 DEF CacheInv, Reqs
  <2> QED BY <1>0, <2>1, <2>2, Ends, RowsSame DEF BaseInv, TypeInv
<1> QED BY <1>1, <1>3, <1>4

\* The other handlers that leave the rows alone.
LEMMA ReadsBase ==
  ASSUME BaseInv, NEW a \in Actors,
         \/ FindChunk(a) \/ DeleteFails(a) \/ CacheDel(a) \/ ListExperiences(a)
         \/ BeginPatch(a) \/ FindMark(a) \/ Abort(a)
  PROVE  BaseInv'
<1>0. RowsInv /\ CacheInv /\ req[a] \in Reqs /\ TodoOK(a, req[a])
  BY DEF BaseInv, TypeInv
<1>1. ASSUME NEW x \in Reqs, TodoOK(a, x), req' = [req EXCEPT ![a] = x],
             UNCHANGED <<rows, created>>, CacheInv'
      PROVE  BaseInv'
  BY <1>0, <1>1, Goes, RowsSame DEF BaseInv, TypeInv
<1>2. CASE FindChunk(a)
  <2>1. PICK r \in rows : req' = [req EXCEPT ![a] = [IdleReq EXCEPT !.todo = <<"delete", "del">>,
                                                                    !.row = {r}]]
    BY <1>2 DEF FindChunk
  <2> DEFINE x == [IdleReq EXCEPT !.todo = <<"delete", "del">>, !.row = {r}]
  <2>2. x \in Reqs /\ x.todo = <<"delete", "del">>
    BY <1>0, IdleShape, ShortTodos DEF Reqs, RowsInv, Neat
  <2>3. req' = [req EXCEPT ![a] = x] /\ UNCHANGED <<rows, created, cache, raced>>
    BY <1>2, <2>1 DEF FindChunk
  <2> HIDE DEF x
  <2>4. TodoOK(a, x)
    <3>1. x.todo \in {<<"del">>, <<"del", "del">>, <<"delete", "del">>}
      BY <2>2
    <3> QED BY <3>1, ShortTodoOK
  <2> QED BY <1>0, <1>1, <2>2, <2>3, <2>4 DEF CacheInv
<1>3. CASE DeleteFails(a)
  BY <1>0, <1>1, <1>3, IdleShape, IdleTodo DEF DeleteFails, CacheInv
<1>4. CASE CacheDel(a)
  <2> DEFINE x == [IdleReq EXCEPT !.todo = Tail(req[a].todo)]
  <2>1. req[a].todo # <<>> /\ req[a].todo \in Seq(Steps)
    BY <1>0, <1>4 DEF CacheDel, At, Idle, Reqs
  <2>2. x \in Reqs /\ x.todo = Tail(req[a].todo)
    <3>1. Tail(req[a].todo) \in Seq(Steps)
      BY <2>1
    <3> QED BY <3>1, IdleShape DEF Reqs
  <2>3. TodoOK(a, Proceed(req[a])) /\ Proceed(req[a]).todo = Tail(req[a].todo)
    BY <1>0, <2>1, TailTodo, ProceedShape
  <2>4. Tail(req[a].todo) # <<>> => Head(Tail(req[a].todo)) # "create"
    <3>1. Tail(req[a].todo) # <<>> => /\ 2 \in 2..Len(req[a].todo)
                                     /\ Head(Tail(req[a].todo)) = req[a].todo[2]
      BY <2>1
    <3> QED BY <1>0, <3>1 DEF TodoOK, Follows
  <2>5. req' = [req EXCEPT ![a] = x] /\ UNCHANGED <<rows, created>> /\ cache' = {} /\ raced' = FALSE
    BY <1>4 DEF CacheDel
  <2> HIDE DEF x
  <2>6. TodoOK(a, x)
    BY <2>2, <2>3, <2>4 DEF TodoOK
  <2> QED BY <1>1, <2>2, <2>5, <2>6 DEF CacheInv
<1>5. CASE ListExperiences(a)
  <2>1. PICK items \in Extractions, listed \in SUBSET Experiences :
          LET texts == {r.val : r \in listed}
              new == Remaining(items, texts)
          IN  req' = [req EXCEPT ![a] =
                IF new = <<>> THEN [IdleReq EXCEPT !.todo = <<"del">>]
                ELSE [IdleReq EXCEPT !.todo = <<"create">>, !.items = new, !.texts = texts]]
    BY <1>5 DEF ListExperiences
  <2> DEFINE texts == {r.val : r \in listed}
             new == Remaining(items, texts)
             x == IF new = <<>> THEN [IdleReq EXCEPT !.todo = <<"del">>]
                  ELSE [IdleReq EXCEPT !.todo = <<"create">>, !.items = new, !.texts = texts]
  <2>2. req' = [req EXCEPT ![a] = x] /\ UNCHANGED <<rows, created, cache, raced>>
        /\ "extract" \in Ops[a]
    BY <1>5, <2>1 DEF ListExperiences, Starts
  <2>3. items \in Seq(Values) /\ texts \subseteq Values
    BY <1>0, ValuesAssumption DEF RowsInv, Experiences
  <2>4. new \in Seq(Values) /\ (new # <<>> => ~IsNearDuplicate(Head(new), texts))
    BY <2>3, RemainingFacts
  <2> HIDE DEF texts, new
  <2>5. x \in Reqs /\ TodoOK(a, x)
    <3>1. CASE new = <<>>
      <4>1. x = [IdleReq EXCEPT !.todo = <<"del">>]
        BY <3>1
      <4>2. x \in Reqs /\ x.todo = <<"del">>
        BY <4>1, IdleShape, ShortTodos DEF Reqs, Neat
      <4>3. x.todo \in {<<"del">>, <<"del", "del">>, <<"delete", "del">>}
        BY <4>2
      <4> HIDE DEF x
      <4> QED BY <4>2, <4>3, ShortTodoOK
    <3>2. CASE new # <<>>
      <4>1. x = [IdleReq EXCEPT !.todo = <<"create">>, !.items = new, !.texts = texts]
        BY <3>2
      <4>2. x \in Reqs /\ x.todo = <<"create">> /\ x.items = new /\ x.texts = texts
        BY <2>3, <2>4, <4>1, IdleShape, ShortTodos DEF Reqs
      <4> QED BY <2>2, <2>4, <3>2, <4>2, CreateTodo
    <3> QED BY <3>1, <3>2
  <2> HIDE DEF x
  <2> QED BY <1>0, <1>1, <2>2, <2>5 DEF CacheInv
<1>6. CASE BeginPatch(a)
  <2>1. PICK parts \in (SUBSET {"traits", "confidence", "completed"}) \ {{}}, traits \in SUBSET Keys :
          req' = [req EXCEPT ![a] = [IdleReq EXCEPT !.traits = traits, !.todo = PatchTodo(parts)]]
    BY <1>6 DEF BeginPatch, PatchTodo
  <2> DEFINE x == [IdleReq EXCEPT !.traits = traits, !.todo = PatchTodo(parts)]
  <2>2. x \in Reqs /\ x.todo = PatchTodo(parts)
    BY IdleShape, PatchTodoShape DEF Reqs, Neat
  <2>3. req' = [req EXCEPT ![a] = x] /\ UNCHANGED <<rows, created, cache, raced>>
        /\ "patch" \in Ops[a]
    BY <1>6, <2>1 DEF BeginPatch, Starts
  <2> HIDE DEF x
  <2>4. TodoOK(a, x)
    BY <2>2, <2>3, PatchTodoShape, NeatTodo
  <2> QED BY <1>0, <1>1, <2>2, <2>3, <2>4 DEF CacheInv
<1>7. CASE FindMark(a)
  <2> DEFINE t == req[a].todo
             found == \E r \in rows : r.ref = "completed"
             u == IF found THEN Tail(t) ELSE <<"putMark">> \o Tail(t)
             x == [req[a] EXCEPT !.todo = u]
  <2>1. t # <<>> /\ t \in Seq(Steps) /\ Head(t) = "findMark" /\ TodoOK(a, req[a])
    BY <1>0, <1>7 DEF FindMark, At, Idle, Reqs
  <2>2. req' = [req EXCEPT ![a] = x] /\ UNCHANGED <<rows, created, cache, raced>>
    BY <1>7 DEF FindMark
  <2>3. Tail(t) \in Seq(Steps) /\ <<"putMark">> \in Seq(Steps)
    BY <2>1 DEF Steps
  <2>4. x \in Reqs /\ x.todo = u
    <3>1. <<"putMark">> \o Tail(t) \in Seq(Steps)
      BY <2>3
    <3>2. u \in Seq(Steps)
      BY <2>3, <3>1
    <3> HIDE DEF t, u
    <3> QED BY <1>0, <3>2 DEF Reqs
  <2>5. CASE found
    <3>1. x = Proceed(req[a])
      BY <2>5 DEF Proceed
    <3>2. TodoOK(a, x)
      BY <1>0, <2>1, <3>1, TailTodo
    <3> HIDE DEF x
    <3> QED BY <1>0, <1>1, <2>2, <2>4, <3>2 DEF CacheInv
  <2>6. CASE ~found
    <3> HIDE DEF t
    <3>1. u = <<"putMark">> \o Tail(t)
      BY <2>6
    <3>2. /\ Len(u) = Len(t) /\ Len(t) \in Nat /\ Len(t) >= 1 /\ u[1] = "putMark" /\ t[1] = "findMark"
          /\ \A i \in 2..Len(u) : u[i] = t[i] /\ u \in Seq(Steps)
      BY <2>1, <2>3, <3>1
    <3> HIDE DEF u
    <3>3. \A i \in 2..Len(u) : Follows(u, i)
      <4> SUFFICES ASSUME NEW i \in 2..Len(u) PROVE Follows(u, i)
        OBVIOUS
      <4>1. Follows(t, i) /\ u[i] = t[i] /\ i > 1
        BY <2>1, <3>2 DEF TodoOK, t
      <4>2. CASE i = 2
        BY <3>2, <4>1, <4>2 DEF Follows
      <4>3. CASE i > 2
        <5>1. i - 1 \in 2..Len(u)
          BY <3>2, <4>3
        <5> QED BY <3>2, <4>1, <5>1 DEF Follows
      <4> QED BY <3>2, <4>2, <4>3
    <3>4. \A i \in 1..Len(u) : OpsOf(a, u[i])
      <4>1. \A i \in 2..Len(u) : OpsOf(a, u[i])
        BY <2>1, <3>2 DEF TodoOK, t
      <4>2. OpsOf(a, t[1])
        BY <2>1, <3>2 DEF TodoOK, t
      <4>3. OpsOf(a, u[1])
        BY <3>2, <4>2 DEF OpsOf
      <4> QED BY <3>2, <4>1, <4>3
    <3>5. Last(u) # "set"
      <4>1. Last(t) = "set" => t \in BuildTodos
        BY <2>1 DEF TodoOK, t
      <4>2. Last(t) # "set"
        BY <2>1, <4>1, BuildTails
      <4>3. CASE Len(u) = 1
        BY <3>2, <4>3 DEF Last
      <4>4. CASE Len(u) # 1
        <5>1. Len(u) \in 2..Len(u)
          BY <3>2, <4>4
        <5> QED BY <3>2, <4>2, <5>1 DEF Last
      <4> QED BY <4>3, <4>4
    <3>6. Head(u) # "create"
      BY <3>2
    <3>7. TodoOK(a, x)
      BY <2>4, <3>3, <3>4, <3>5, <3>6 DEF TodoOK
    <3> HIDE DEF x
    <3> QED BY <1>0, <1>1, <2>2, <2>4, <3>7 DEF CacheInv
  <2> QED BY <2>5, <2>6
<1>8. CASE Abort(a)
  <2>1. req' = [req EXCEPT ![a] = IdleReq] /\ UNCHANGED <<rows, created, cache>> /\ raced' \in BOOLEAN
    BY <1>0, <1>8 DEF Abort, CacheInv, Reqs
  <2> QED BY <1>0, <1>1, <2>1, IdleShape, IdleTodo DEF CacheInv
<1> QED BY <1>2, <1>3, <1>4, <1>5, <1>6, <1>7, <1>8

LEMMA NextItemTodo ==
  ASSUME NEW a \in Actors, NEW x \in Reqs, x.items # <<>>, "extract" \in Ops[a]
  PROVE  NextItem(x, Head(x.items)) \in Reqs /\ TodoOK(a, NextItem(x, Head(x.items)))
<1> DEFINE v == Head(x.items)
           left == Remaining(Tail(x.items), x.texts \cup {v})
           y == NextItem(x, v)
<1>1. /\ y \in Reqs /\ y.texts = x.texts \cup {v} /\ y.items = left
      /\ y.todo = IF left = <<>> THEN <<"del", "del">> ELSE <<"create">>
  BY NextItemShape
<1>2. Tail(x.items) \in Seq(Values)
  BY DEF Reqs
<1>3. left # <<>> => ~IsNearDuplicate(Head(left), x.texts \cup {v})
  BY <1>2, RemainingFacts
<1> HIDE DEF y, left, v
<1>4. TodoOK(a, y)
  <2>1. CASE left = <<>>
    <3>1. y.todo \in {<<"del">>, <<"del", "del">>, <<"delete", "del">>}
      BY <1>1, <2>1
    <3> QED BY <3>1, ShortTodoOK
  <2>2. CASE left # <<>>
    <3>1. y.todo = <<"create">> /\ y.items # <<>> /\ ~IsNearDuplicate(Head(y.items), y.texts)
      BY <1>1, <1>3, <2>2
    <3> QED BY <3>1, CreateTodo
  <2> QED BY <2>1, <2>2
<1> QED BY <1>1, <1>4 DEF y, v

\* The handlers that change the rows.
LEMMA WritesBase ==
  ASSUME BaseInv, NEW a \in Actors,
         \/ SaveFacet(a) \/ DeleteChunk(a) \/ CreateExperience(a) \/ DropTraits(a)
         \/ PutTraits(a) \/ DropScore(a) \/ PutScore(a) \/ PutMark(a)
  PROVE  BaseInv'
<1>0. RowsInv /\ CacheInv /\ req[a] \in Reqs /\ TodoOK(a, req[a])
  BY DEF BaseInv, TypeInv
<1>1. ASSUME NEW x \in Reqs, TodoOK(a, x),
             req' = [req EXCEPT ![a] = x] \/ req' = AfterWrite(a, x),
             UNCHANGED <<cache, raced>>, RowsInv'
      PROVE  BaseInv'
  BY <1>0, <1>1, Goes DEF BaseInv, TypeInv, CacheInv
<1>2. req[a].todo # <<>> => TodoOK(a, Proceed(req[a])) /\ Proceed(req[a]) \in Reqs
  BY <1>0, TailTodo, ProceedShape
<1>3. CASE SaveFacet(a)
  <2> DEFINE x == [IdleReq EXCEPT !.todo = <<"del">>]
  <2>1. req' = AfterWrite(a, x) /\ UNCHANGED <<cache, raced>>
    BY <1>3 DEF SaveFacet
  <2>2. x \in Reqs /\ x.todo = <<"del">>
    BY IdleShape, ShortTodos DEF Reqs, Neat
  <2> HIDE DEF x
  <2>3. TodoOK(a, x)
    <3>1. x.todo \in {<<"del">>, <<"del", "del">>, <<"delete", "del">>}
      BY <2>2
    <3> QED BY <3>1, ShortTodoOK
  <2>4. Insert("facet", Blank) \/ \E v \in Values : Insert("noted", v)
    BY <1>3 DEF SaveFacet
  <2>5. "facet" \in Refs /\ "noted" \in Refs
    BY DEF Refs
  <2>6. RowsInv'
    <3>1. CASE Insert("facet", Blank)
      BY <1>0, <2>5, <3>1, RowsMore
    <3>2. CASE \E v \in Values : Insert("noted", v)
      <4>1. PICK v \in Values : Insert("noted", v)
        BY <3>2
      <4>2. v \in Values \cup {Blank}
        OBVIOUS
      <4> QED BY <1>0, <2>5, <4>1, <4>2, RowsMore
    <3> QED BY <2>4, <3>1, <3>2
  <2> QED BY <1>1, <2>1, <2>2, <2>3, <2>6
<1>4. CASE DeleteChunk(a) \/ DropTraits(a) \/ DropScore(a)
  <2>1. req[a].todo # <<>>
    BY <1>4 DEF DeleteChunk, DropTraits, DropScore, At, Idle
  <2>2. req' = AfterWrite(a, Proceed(req[a])) /\ UNCHANGED <<created, cache, raced>>
    BY <1>4 DEF DeleteChunk, DropTraits, DropScore
  <2>3. rows' \subseteq rows
    BY <1>4 DEF DeleteChunk, DropTraits, DropScore
  <2>4. RowsInv'
    BY <1>0, <2>2, <2>3, RowsFewer
  <2> QED BY <1>1, <1>2, <2>1, <2>2, <2>4
<1>5. CASE CreateExperience(a)
  <2> DEFINE v == Head(req[a].items)
             x == NextItem(req[a], v)
  <2>1. req[a].todo # <<>> /\ Head(req[a].todo) = "create"
    BY <1>5 DEF CreateExperience, At, Idle
  <2>2. req[a].items # <<>> /\ "extract" \in Ops[a]
    <3>1. 1 \in 1..Len(req[a].todo) /\ req[a].todo[1] = "create"
      BY <1>0, <2>1 DEF Reqs
    <3> QED BY <1>0, <2>1, <3>1 DEF TodoOK, OpsOf
  <2>3. x \in Reqs /\ TodoOK(a, x)
    BY <1>0, <2>2, NextItemTodo
  <2>4. v \in Values /\ "experience" \in Refs
    BY <1>0, <2>2 DEF Reqs, Refs
  <2>5. Insert("experience", v) /\ req' = AfterWrite(a, x) /\ UNCHANGED <<cache, raced>>
    BY <1>5 DEF CreateExperience
  <2> HIDE DEF v, x
  <2>6. RowsInv'
    <3>1. v \in Values \cup {Blank}
      BY <2>4
    <3> QED BY <1>0, <2>4, <2>5, <3>1, RowsMore
  <2> QED BY <1>1, <2>3, <2>5, <2>6
<1>6. CASE PutTraits(a)
  <2>1. req[a].todo # <<>>
    BY <1>6 DEF PutTraits, At, Idle
  <2>2. req' = [req EXCEPT ![a] = Proceed(req[a])] \/ req' = AfterWrite(a, Proceed(req[a]))
    BY <1>6 DEF PutTraits
  <2>3. UNCHANGED <<cache, raced>>
    BY <1>6 DEF PutTraits
  <2>4. RowsInv'
    BY <1>6, TraitRows DEF BaseInv
  <2> QED BY <1>1, <1>2, <2>1, <2>2, <2>3, <2>4
<1>7. CASE PutScore(a) \/ PutMark(a)
  <2>1. req[a].todo # <<>>
    BY <1>7 DEF PutScore, PutMark, At, Idle
  <2>2. req' = AfterWrite(a, Proceed(req[a])) /\ UNCHANGED <<cache, raced>>
    BY <1>7 DEF PutScore, PutMark
  <2>3. Insert("confidence", Blank) \/ Insert("completed", Blank)
    BY <1>7 DEF PutScore, PutMark
  <2>4. "confidence" \in Refs /\ "completed" \in Refs
    BY DEF Refs
  <2>5. RowsInv'
    BY <1>0, <2>3, <2>4, RowsMore
  <2> QED BY <1>1, <1>2, <2>1, <2>2, <2>5
<1> QED BY <1>3, <1>4, <1>5, <1>6, <1>7

LEMMA BaseInit == Init => BaseInv
<1> SUFFICES ASSUME Init PROVE BaseInv
  OBVIOUS
<1>1. RowsInv
  BY BoundAssumption DEF Init, RowsInv
<1>2. CacheInv
  BY Zenon DEF Init, CacheInv
<1>3. req \in [Actors -> Reqs] /\ \A a \in Actors : req[a] = IdleReq
  BY IdleShape DEF Init
<1> QED BY <1>1, <1>2, <1>3, IdleTodo DEF BaseInv, TypeInv

LEMMA BaseStep == BaseInv /\ [Next]_vars => BaseInv'
<1> SUFFICES ASSUME BaseInv, [Next]_vars PROVE BaseInv'
  OBVIOUS
<1>1. CASE UNCHANGED vars
  BY <1>1 DEF BaseInv, TypeInv, RowsInv, CacheInv, TodoOK, vars
<1>2. CASE CacheExpires
  BY <1>2, RowsSame DEF CacheExpires, BaseInv, TypeInv, CacheInv
<1>3. ASSUME NEW a \in Actors, Step(a) \/ Abort(a) PROVE BaseInv'
  BY <1>3, BuildsBase, ReadsBase, WritesBase DEF Step
<1> QED BY <1>1, <1>2, <1>3 DEF Next

LEMMA BaseAlways == Spec => []BaseInv
BY BaseInit, BaseStep, PTL DEF Spec

\* Every row, the cached profile and whatever a handler or a job holds has its
\* shape in every behaviour.
THEOREM TypeTheorem == Spec => []TypeOK
<1>1. BaseInv => TypeOK
  BY TypeParts DEF BaseInv
<1> QED BY BaseAlways, <1>1, PTL

-----------------------------------------------------------------------------
(* The cached profile.  A handler that has changed rows still has to drop    *)
(* the profile, and one that builds a profile and was not overtaken holds    *)
(* the present rows, as far as it has read.                                  *)

BuildSteps == {"traits", "experiences", "others", "set"}

EndsOK(t) ==
  /\ t # <<>> => Last(t) \in {"del", "set", "create"}
  /\ \A i \in 1..Len(t) : t[i] \in BuildSteps => Last(t) = "set"
  /\ \A i \in 2..Len(t) : t[i] # "delete"

Drops(x) == EndsOK(x.todo) /\ (x.wrote => x.todo # <<>> /\ Head(x.todo) # "delete")

UpToDate(x) ==
  /\ Len(x.todo) < 4 => x.built.traits = Traits
  /\ Len(x.todo) < 3 => x.built.experiences = Experiences
  /\ Len(x.todo) < 2 => x.built.others = Others

Building(x) == x.todo # <<>> /\ Last(x.todo) = "set"

FreshInv ==
  /\ FreshUnlessRaced
  /\ \A a \in Actors : Drops(req[a])
  /\ \A a \in Actors : Building(req[a]) /\ ~req[a].overtaken => UpToDate(req[a])

LEMMA EndsTail ==
  ASSUME NEW t \in Seq(Steps), t # <<>>, EndsOK(t)
  PROVE  /\ EndsOK(Tail(t))
         /\ Head(t) \notin {"del", "set", "create"} => Tail(t) # <<>>
         /\ Tail(t) # <<>> => Last(Tail(t)) = Last(t) /\ Head(Tail(t)) # "delete"
         /\ Head(t) \notin BuildSteps => (Tail(t) # <<>> /\ Last(Tail(t)) = "set" => Last(t) = "set")
<1> DEFINE u == Tail(t)
<1>1. Len(u) = Len(t) - 1 /\ Len(t) \in Nat /\ \A i \in 1..Len(u) : u[i] = t[i + 1]
  BY DEF u
<1>2. Head(t) = t[1] /\ u \in Seq(Steps) /\ Len(t) >= 1
  BY DEF u
<1> HIDE DEF u
<1>3. u # <<>> => Last(u) = Last(t) /\ Head(u) = t[2] /\ 2 \in 2..Len(t)
  <2> SUFFICES ASSUME u # <<>> PROVE Last(u) = Last(t) /\ Head(u) = t[2] /\ 2 \in 2..Len(t)
    OBVIOUS
  <2>1. Len(u) >= 1 /\ Len(u) \in 1..Len(u) /\ 1 \in 1..Len(u)
    BY <1>2
  <2>2. Head(u) = u[1] /\ u[Len(u)] = t[Len(t)] /\ u[1] = t[2]
    BY <1>1, <1>2, <2>1
  <2> QED BY <1>1, <2>1, <2>2 DEF Last
<1>4. u = <<>> => Last(t) = Head(t)
  <2>1. u = <<>> => Len(t) = 1
    BY <1>1
  <2> QED BY <1>2, <2>1 DEF Last
<1>5. \A i \in 1..Len(u) : i + 1 \in 2..Len(t) /\ u # <<>>
  BY <1>1, <1>2
<1>6. EndsOK(u)
  BY <1>1, <1>2, <1>3, <1>5 DEF EndsOK
<1>7. Head(t) \notin {"del", "set", "create"} => u # <<>>
  BY <1>4 DEF EndsOK
<1>8. u # <<>> => Head(u) # "delete"
  BY <1>3 DEF EndsOK
<1> QED BY <1>3, <1>6, <1>7, <1>8 DEF u

LEMMA EndsShort ==
  /\ EndsOK(<<>>) /\ EndsOK(<<"traits", "experiences", "others", "set">>)
  /\ \A t \in {<<"del">>, <<"del", "del">>, <<"delete", "del">>, <<"create">>} :
       EndsOK(t) /\ t # <<>> /\ Last(t) # "set"
BY DEF EndsOK, Last, BuildSteps

LEMMA EndsPatch ==
  ASSUME NEW parts
  PROVE  EndsOK(PatchTodo(parts)) /\ Last(PatchTodo(parts)) # "set" /\ PatchTodo(parts) # <<>>
<1> DEFINE S == {"dropTraits", "putTraits", "dropScore", "putScore", "findMark", "del"}
           p == IF "traits" \in parts THEN <<"dropTraits", "putTraits">> ELSE <<>>
           q == IF "confidence" \in parts THEN <<"dropScore", "putScore">> ELSE <<>>
           r == IF "completed" \in parts THEN <<"findMark">> ELSE <<>>
           d == <<"del">>
<1>1. p \in Seq(S) /\ q \in Seq(S) /\ r \in Seq(S) /\ d \in Seq(S)
  <2>1. /\ <<"dropTraits", "putTraits">> \in Seq(S) /\ <<"dropScore", "putScore">> \in Seq(S)
        /\ <<"findMark">> \in Seq(S) /\ <<"del">> \in Seq(S) /\ <<>> \in Seq(S)
    OBVIOUS
  <2> HIDE DEF S
  <2> QED BY <2>1
<1>2. PatchTodo(parts) = (p \o q) \o r \o d
  BY DEF PatchTodo
<1> HIDE DEF p, q, r, d
<1>3. PatchTodo(parts) \in Seq(S)
  BY <1>1, <1>2
<1>4. PatchTodo(parts) # <<>> /\ Last(PatchTodo(parts)) = "del"
  BY PatchTodoShape
<1> QED BY <1>3, <1>4 DEF EndsOK, BuildSteps

\* A handler goes on, or begins, without touching rows or cache.
LEMMA QuietFresh ==
  ASSUME BaseInv, FreshInv, NEW a \in Actors, NEW x \in Reqs,
         req' = [req EXCEPT ![a] = x], UNCHANGED <<rows, cache, raced>>,
         req[a].wrote => x.wrote, Drops(x),
         Building(x) /\ ~x.overtaken => UpToDate(x)
  PROVE  FreshInv'
<1>1. req'[a] = x /\ \A b \in Actors : b # a => req'[b] = req[b]
  BY ReqMoves DEF BaseInv
<1>2. /\ Traits' = Traits /\ Experiences' = Experiences /\ Others' = Others
      /\ Current' = Current
  BY DEF Traits, Experiences, Others, Current
<1>3. FreshUnlessRaced'
  BY <1>1, <1>2 DEF FreshInv, FreshUnlessRaced
<1>4. \A b \in Actors : Drops(req'[b])
  BY <1>1 DEF FreshInv
<1>5. \A b \in Actors : Building(req'[b]) /\ ~req'[b].overtaken => UpToDate(req[b])'
  BY <1>1, <1>2 DEF FreshInv, UpToDate
<1> QED BY <1>3, <1>4, <1>5 DEF FreshInv, Drops, Building

\* A handler changes rows.
LEMMA WriteFresh ==
  ASSUME BaseInv, FreshInv, NEW a \in Actors, NEW x \in Reqs, req' = AfterWrite(a, x),
         UNCHANGED <<cache, raced>>, EndsOK(x.todo), x.todo # <<>>, Head(x.todo) # "delete",
         ~Building(x)
  PROVE  FreshInv'
<1>2. req'[a].wrote /\ req'[a].todo = x.todo
  BY WriteFields DEF BaseInv
<1>3. \A b \in Actors : b # a => /\ req'[b].todo = req[b].todo /\ req'[b].wrote = req[b].wrote
                                /\ req'[b].overtaken = Builds(b)
  BY WriteFields DEF BaseInv
<1>4. FreshUnlessRaced'
  BY <1>2 DEF FreshUnlessRaced
<1>5. \A b \in Actors : Drops(req'[b])
  BY <1>2, <1>3 DEF FreshInv, Drops
<1>6. \A b \in Actors : ~(Building(req'[b]) /\ ~req'[b].overtaken)
  BY <1>2, <1>3 DEF Building, Builds, Idle
<1> QED BY <1>4, <1>5, <1>6 DEF FreshInv, Drops, Building, UpToDate

\* The step of a build at the head of what is left of it.
LEMMA BuildHead ==
  ASSUME NEW t \in BuildTodos
  PROVE  /\ Head(t) = "traits" <=> Len(t) = 4
         /\ Head(t) = "experiences" <=> Len(t) = 3
         /\ Head(t) = "others" <=> Len(t) = 2
         /\ Head(t) = "set" <=> Len(t) = 1
         /\ Len(Tail(t)) = Len(t) - 1 /\ Len(t) \in 1..4
<1>1. CASE t = <<"traits", "experiences", "others", "set">>
  BY <1>1
<1>2. CASE t = <<"experiences", "others", "set">>
  BY <1>2
<1>3. CASE t = <<"others", "set">>
  BY <1>3
<1>4. CASE t = <<"set">>
  BY <1>4
<1> QED BY <1>1, <1>2, <1>3, <1>4 DEF BuildTodos

LEMMA BuildsFresh ==
  ASSUME BaseInv, FreshInv, NEW a \in Actors,
         BeginProfile(a) \/ ReadTraits(a) \/ ReadExperiences(a) \/ ReadOthers(a) \/ CacheSet(a)
  PROVE  FreshInv'
<1>0. req[a] \in Reqs /\ TodoOK(a, req[a]) /\ Drops(req[a]) /\ RowsInv
  BY DEF BaseInv, TypeInv, FreshInv
<1>1. CASE BeginProfile(a)
  <2> DEFINE t == <<"traits", "experiences", "others", "set">>
             x == [IdleReq EXCEPT !.todo = t]
  <2>1. x \in Reqs /\ x.todo = t /\ ~x.wrote
    BY IdleShape, ShortTodos DEF Reqs
  <2>2. req' = [req EXCEPT ![a] = x] /\ UNCHANGED <<rows, cache, raced>> /\ req[a].todo = <<>>
    BY <1>1 DEF BeginProfile, Starts, Idle
  <2>3. Len(t) = 4 /\ EndsOK(t)
    BY EndsShort
  <2> HIDE DEF t, x
  <2>4. ~req[a].wrote /\ Drops(x) /\ UpToDate(x)
    BY <1>0, <2>1, <2>2, <2>3 DEF Drops, UpToDate
  <2> QED BY <2>1, <2>2, <2>4, QuietFresh
<1>2. CASE ReadTraits(a) \/ ReadExperiences(a) \/ ReadOthers(a)
  <2> DEFINE t == req[a].todo
             p == Proceed(req[a])
  <2>1. t # <<>> /\ t \in Seq(Steps) /\ EndsOK(t) /\ Head(t) \in {"traits", "experiences", "others"}
    BY <1>0, <1>2 DEF ReadTraits, ReadExperiences, ReadOthers, At, Idle, Reqs, Drops
  <2>2. t \in BuildTodos
    <3>1. 1 \in 1..Len(t) /\ t[1] = Head(t)
      BY <2>1
    <3> QED BY <1>0, <2>1, <3>1 DEF EndsOK, BuildSteps, TodoOK
  <2>3. /\ p \in Reqs /\ p.todo = Tail(t) /\ p.wrote = req[a].wrote
        /\ p.built = req[a].built /\ p.overtaken = req[a].overtaken
    BY <1>0, <2>1, ProceedShape
  <2>4. EndsOK(Tail(t)) /\ Tail(t) # <<>> /\ Head(Tail(t)) # "delete"
    BY <2>1, EndsTail
  <2>5. Last(t) = "set"
    <3>1. 1 \in 1..Len(t) /\ t[1] = Head(t)
      BY <2>1
    <3> QED BY <2>1, <3>1 DEF EndsOK, BuildSteps
  <2>6. ~req[a].overtaken => UpToDate(req[a])
    BY <2>1, <2>5 DEF FreshInv, Building
  <2>7. PICK f \in {"traits", "experiences", "others"}, S \in SUBSET Rows :
          /\ f = Head(t)
          /\ f = "traits" => S = Traits
          /\ f = "experiences" => S = Experiences
          /\ f = "others" => S = Others
          /\ req' = [req EXCEPT ![a] = [p EXCEPT !.built[f] = S]]
          /\ UNCHANGED <<rows, cache, raced>>
    <3>1. CASE ReadTraits(a)
      BY <1>0, <3>1, CurrentShape DEF ReadTraits, At
    <3>2. CASE ReadExperiences(a)
      BY <1>0, <3>2, CurrentShape DEF ReadExperiences, At
    <3>3. CASE ReadOthers(a)
      BY <1>0, <3>3, CurrentShape DEF ReadOthers, At
    <3> QED BY <1>2, <3>1, <3>2, <3>3
  <2> DEFINE x == [p EXCEPT !.built[f] = S]
  <2>8. /\ x \in Reqs /\ x.todo = Tail(t) /\ x.wrote = req[a].wrote
        /\ x.overtaken = req[a].overtaken
        /\ x.built = [req[a].built EXCEPT ![f] = S]
    BY <2>3, <2>7 DEF Reqs, Profiles
  <2>9. req[a].built \in Profiles
    BY <1>0 DEF Reqs
  <2>10. UpToDate(req[a]) => UpToDate(x)
    <3> HIDE DEF p, x, t
    <3>1. /\ Len(Tail(t)) = Len(t) - 1 /\ Len(t) \in 1..4
          /\ Head(t) = "traits" <=> Len(t) = 4
          /\ Head(t) = "experiences" <=> Len(t) = 3
          /\ Head(t) = "others" <=> Len(t) = 2
      BY <2>2, BuildHead
    <3>2. \A g \in {"traits", "experiences", "others"} :
            x.built[g] = IF g = f THEN S ELSE req[a].built[g]
      BY <2>7, <2>8, <2>9 DEF Profiles
    <3>3. /\ x.built.traits = IF f = "traits" THEN S ELSE req[a].built.traits
          /\ x.built.experiences = IF f = "experiences" THEN S ELSE req[a].built.experiences
          /\ x.built.others = IF f = "others" THEN S ELSE req[a].built.others
      BY <3>2
    <3>4. Len(x.todo) = Len(t) - 1
      BY <2>8, <3>1
    <3>5. UpToDate(req[a]) <=> /\ Len(t) < 4 => req[a].built.traits = Traits
                               /\ Len(t) < 3 => req[a].built.experiences = Experiences
                               /\ Len(t) < 2 => req[a].built.others = Others
      BY DEF UpToDate, t
    <3>6. f \in {"traits", "experiences", "others"}
      OBVIOUS
    <3>7. /\ f = "traits" => Len(t) = 4 /\ S = Traits
          /\ f = "experiences" => Len(t) = 3 /\ S = Experiences
          /\ f = "others" => Len(t) = 2 /\ S = Others
      BY <2>7, <3>1
    <3>9. SUFFICES ASSUME UpToDate(req[a]) PROVE UpToDate(x)
      OBVIOUS
    <3>10. /\ Len(t) < 4 => req[a].built.traits = Traits
           /\ Len(t) < 3 => req[a].built.experiences = Experiences
           /\ Len(t) < 2 => req[a].built.others = Others
      BY <3>5, <3>9
    <3>11. CASE f = "traits"
      <4>1. x.built.traits = Traits /\ Len(x.todo) = 3
        BY <3>3, <3>4, <3>7, <3>11
      <4> QED BY <4>1 DEF UpToDate
    <3>12. CASE f = "experiences"
      <4>1. /\ x.built.traits = req[a].built.traits /\ x.built.experiences = Experiences
            /\ Len(t) = 3 /\ Len(x.todo) = 2
        BY <3>3, <3>4, <3>7, <3>12
      <4> QED BY <3>10, <4>1 DEF UpToDate
    <3>13. CASE f = "others"
      <4>1. /\ x.built.traits = req[a].built.traits /\ x.built.others = Others
            /\ x.built.experiences = req[a].built.experiences
            /\ Len(t) = 2 /\ Len(x.todo) = 1
        BY <3>3, <3>4, <3>7, <3>13
      <4> QED BY <3>10, <4>1 DEF UpToDate
    <3> QED BY <3>11, <3>12, <3>13
  <2>11. Drops(x)
    BY <2>4, <2>8 DEF Drops
  <2> HIDE DEF x, t
  <2> QED BY <2>6, <2>7, <2>8, <2>10, <2>11, QuietFresh DEF x
<1>3. CASE CacheSet(a)
  <2> DEFINE t == req[a].todo
  <2>1. /\ t # <<>> /\ t \in Seq(Steps) /\ EndsOK(t) /\ Head(t) = "set"
        /\ req' = [req EXCEPT ![a] = IdleReq] /\ UNCHANGED <<rows>>
        /\ raced' = req[a].overtaken /\ cache' = {req[a].built}
    BY <1>0, <1>3 DEF CacheSet, At, Idle, Reqs, Drops
  <2>2. Last(t) = "set" /\ t \in BuildTodos
    <3>1. 1 \in 1..Len(t) /\ t[1] = Head(t)
      BY <2>1
    <3>2. Last(t) = "set"
      BY <2>1, <3>1 DEF EndsOK, BuildSteps
    <3> QED BY <1>0, <2>1, <3>2 DEF TodoOK
  <2>3. ~req[a].overtaken => UpToDate(req[a])
    BY <2>1, <2>2 DEF FreshInv, Building
  <2>4. UpToDate(req[a]) => req[a].built = Current
    <3>1. Len(t) = 1
      BY <2>1, <2>2, BuildHead
    <3>2. req[a].built \in Profiles
      BY <1>0 DEF Reqs
    <3>3. req[a].built = [traits |-> req[a].built.traits,
                          experiences |-> req[a].built.experiences,
                          others |-> req[a].built.others]
      BY <3>2 DEF Profiles
    <3>4. UpToDate(req[a]) => /\ req[a].built.traits = Traits
                              /\ req[a].built.experiences = Experiences
                              /\ req[a].built.others = Others
      BY <3>1 DEF UpToDate
    <3> QED BY <3>3, <3>4 DEF Current
  <2>5. Current' = Current /\ Traits' = Traits /\ Experiences' = Experiences /\ Others' = Others
    BY <2>1 DEF Traits, Experiences, Others, Current
  <2>6. FreshUnlessRaced'
    BY <2>1, <2>3, <2>4, <2>5 DEF FreshUnlessRaced
  <2>7. req'[a] = IdleReq /\ \A b \in Actors : b # a => req'[b] = req[b]
    BY <2>1, ReqMoves DEF BaseInv
  <2>8. Drops(IdleReq) /\ ~Building(IdleReq)
    BY IdleShape, EndsShort DEF Drops, Building
  <2>9. \A b \in Actors : Drops(req'[b])
    BY <2>7, <2>8 DEF FreshInv
  <2>10. \A b \in Actors : Building(req'[b]) /\ ~req'[b].overtaken => UpToDate(req[b])'
    BY <2>5, <2>7, <2>8 DEF FreshInv, UpToDate
  <2> QED BY <2>6, <2>9, <2>10 DEF FreshInv, Drops, Building
<1> QED BY <1>1, <1>2, <1>3

\* A handler, at a step of the kind named, that goes on.
LEMMA ProceedFresh ==
  ASSUME BaseInv, FreshInv, NEW a \in Actors, req[a].todo # <<>>,
         Head(req[a].todo) \notin BuildSteps \cup {"del", "create"}
  PROVE  LET x == Proceed(req[a])
         IN  /\ x \in Reqs /\ x.wrote = req[a].wrote /\ ~Building(x) /\ EndsOK(x.todo)
             /\ x.todo # <<>> /\ Head(x.todo) # "delete"
             /\ x.traits = req[a].traits
<1> DEFINE x == Proceed(req[a])
           t == req[a].todo
<1>1. req[a] \in Reqs /\ TodoOK(a, req[a]) /\ EndsOK(t) /\ t \in Seq(Steps)
  BY DEF BaseInv, TypeInv, FreshInv, Drops, Reqs
<1>2. x \in Reqs /\ x.todo = Tail(t) /\ x.wrote = req[a].wrote /\ x.traits = req[a].traits
  BY <1>1, ProceedShape
<1>3. Head(t) \notin {"del", "set", "create"} /\ Head(t) \notin BuildSteps
  BY DEF BuildSteps
<1>4. Last(t) # "set"
  <2>1. Last(t) = "set" => t \in BuildTodos
    BY <1>1 DEF TodoOK
  <2> QED BY <1>3, <2>1, BuildTails DEF BuildSteps
<1> HIDE DEF t, x
<1>5. EndsOK(Tail(t)) /\ Tail(t) # <<>> /\ Last(Tail(t)) = Last(t) /\ Head(Tail(t)) # "delete"
  BY <1>1, <1>3, EndsTail DEF t
<1> QED BY <1>2, <1>4, <1>5 DEF Building, x

LEMMA ReadsFresh ==
  ASSUME BaseInv, FreshInv, NEW a \in Actors,
         FindChunk(a) \/ DeleteFails(a) \/ ListExperiences(a) \/ BeginPatch(a) \/ FindMark(a)
  PROVE  FreshInv'
<1>0. req[a] \in Reqs /\ TodoOK(a, req[a]) /\ Drops(req[a]) /\ RowsInv
  BY DEF BaseInv, TypeInv, FreshInv
<1>1. UNCHANGED <<rows, cache, raced>>
  BY DEF FindChunk, DeleteFails, ListExperiences, BeginPatch, FindMark
<1>2. ASSUME NEW x \in Reqs, req' = [req EXCEPT ![a] = x], ~x.wrote, ~Building(x),
             EndsOK(x.todo), ~req[a].wrote
      PROVE  FreshInv'
  <2>1. Drops(x)
    BY <1>2 DEF Drops
  <2> QED BY <1>1, <1>2, <2>1, QuietFresh
<1>3. Idle(a) => ~req[a].wrote
  BY <1>0 DEF Idle, Drops
<1>4. CASE FindChunk(a)
  <2>1. PICK r \in rows : req' = [req EXCEPT ![a] = [IdleReq EXCEPT !.todo = <<"delete", "del">>,
                                                                    !.row = {r}]]
    BY <1>4 DEF FindChunk
  <2> DEFINE x == [IdleReq EXCEPT !.todo = <<"delete", "del">>, !.row = {r}]
  <2>2. x \in Reqs /\ x.todo = <<"delete", "del">> /\ ~x.wrote
    BY <1>0, IdleShape, ShortTodos, ZenonT(30) DEF Reqs, RowsInv, Neat
  <2>3. EndsOK(x.todo) /\ ~Building(x)
    <3>1. x.todo \in {<<"del">>, <<"del", "del">>, <<"delete", "del">>, <<"create">>}
      BY <2>2
    <3> HIDE DEF x
    <3> QED BY <3>1, EndsShort DEF Building
  <2>4. ~req[a].wrote
    BY <1>3, <1>4 DEF FindChunk, Starts
  <2> HIDE DEF x
  <2> QED BY <1>2, <2>1, <2>2, <2>3, <2>4 DEF x
<1>5. CASE DeleteFails(a)
  <2>1. ~req[a].wrote /\ req' = [req EXCEPT ![a] = IdleReq]
    BY <1>0, <1>5 DEF DeleteFails, At, Idle, Drops
  <2>2. EndsOK(IdleReq.todo) /\ ~Building(IdleReq)
    BY IdleShape, EndsShort DEF Building
  <2> QED BY <1>2, <2>1, <2>2, IdleShape
<1>6. CASE ListExperiences(a)
  <2>1. PICK items \in Extractions, listed \in SUBSET Experiences :
          LET texts == {r.val : r \in listed}
              new == Remaining(items, texts)
          IN  req' = [req EXCEPT ![a] =
                IF new = <<>> THEN [IdleReq EXCEPT !.todo = <<"del">>]
                ELSE [IdleReq EXCEPT !.todo = <<"create">>, !.items = new, !.texts = texts]]
    BY <1>6 DEF ListExperiences
  <2> DEFINE texts == {r.val : r \in listed}
             new == Remaining(items, texts)
             x == IF new = <<>> THEN [IdleReq EXCEPT !.todo = <<"del">>]
                  ELSE [IdleReq EXCEPT !.todo = <<"create">>, !.items = new, !.texts = texts]
  <2>2. req' = [req EXCEPT ![a] = x] /\ ~req[a].wrote
    BY <1>3, <1>6, <2>1 DEF ListExperiences, Starts
  <2>3. items \in Seq(Values) /\ texts \subseteq Values
    BY <1>0, ValuesAssumption DEF RowsInv, Experiences
  <2>4. new \in Seq(Values)
    BY <2>3, RemainingFacts
  <2> HIDE DEF texts, new
  <2>5. x \in Reqs /\ x.todo \in {<<"del">>, <<"create">>} /\ ~x.wrote
    <3>1. CASE new = <<>>
      BY <3>1, IdleShape, ShortTodos DEF Reqs, Neat
    <3>2. CASE new # <<>>
      BY <2>3, <2>4, <3>2, IdleShape, ShortTodos DEF Reqs
    <3> QED BY <3>1, <3>2
  <2> HIDE DEF x
  <2>6. EndsOK(x.todo) /\ ~Building(x)
    <3>1. x.todo \in {<<"del">>, <<"del", "del">>, <<"delete", "del">>, <<"create">>}
      BY <2>5
    <3> QED BY <3>1, EndsShort DEF Building
  <2> QED BY <1>2, <2>2, <2>5, <2>6
<1>7. CASE BeginPatch(a)
  <2>1. PICK parts \in (SUBSET {"traits", "confidence", "completed"}) \ {{}}, traits \in SUBSET Keys :
          req' = [req EXCEPT ![a] = [IdleReq EXCEPT !.traits = traits, !.todo = PatchTodo(parts)]]
    BY <1>7 DEF BeginPatch, PatchTodo
  <2> DEFINE x == [IdleReq EXCEPT !.traits = traits, !.todo = PatchTodo(parts)]
  <2>2. x \in Reqs /\ x.todo = PatchTodo(parts) /\ ~x.wrote
    BY IdleShape, PatchTodoShape DEF Reqs, Neat
  <2>3. req' = [req EXCEPT ![a] = x] /\ ~req[a].wrote
    BY <1>3, <1>7, <2>1 DEF BeginPatch, Starts
  <2> HIDE DEF x
  <2>4. EndsOK(x.todo) /\ ~Building(x)
    BY <2>2, EndsPatch DEF Building
  <2> QED BY <1>2, <2>2, <2>3, <2>4
<1>8. CASE FindMark(a)
  <2> DEFINE t == req[a].todo
             found == \E r \in rows : r.ref = "completed"
             u == IF found THEN Tail(t) ELSE <<"putMark">> \o Tail(t)
             x == [req[a] EXCEPT !.todo = u]
  <2>1. t # <<>> /\ t \in Seq(Steps) /\ Head(t) = "findMark"
    BY <1>0, <1>8 DEF FindMark, At, Idle, Reqs
  <2>2. req' = [req EXCEPT ![a] = x]
    BY <1>8 DEF FindMark
  <2>3. /\ EndsOK(Tail(t)) /\ Tail(t) # <<>> /\ Head(Tail(t)) # "delete" /\ Tail(t) \in Seq(Steps)
        /\ Last(Tail(t)) # "set"
    <3>1. Head(t) \notin BuildSteps \cup {"del", "create"}
      BY <2>1 DEF BuildSteps
    <3>2. /\ ~Building(Proceed(req[a])) /\ EndsOK(Proceed(req[a]).todo)
          /\ Proceed(req[a]).todo # <<>> /\ Head(Proceed(req[a]).todo) # "delete"
      BY <2>1, <3>1, ProceedFresh
    <3>3. Proceed(req[a]).todo = Tail(t)
      BY <1>0, <2>1, ProceedShape
    <3> QED BY <2>1, <3>2, <3>3 DEF Building
  <2> HIDE DEF t
  <2>4. /\ EndsOK(u) /\ u # <<>> /\ Last(u) # "set" /\ Head(u) # "delete" /\ u \in Seq(Steps)
    <3>1. CASE found
      BY <2>3, <3>1
    <3>2. CASE ~found
      <4> DEFINE w == Tail(t)
      <4>1. u = <<"putMark">> \o w
        BY <3>2
      <4>2. w \in Seq(Steps) /\ w # <<>> /\ EndsOK(w) /\ Head(w) # "delete" /\ Last(w) # "set"
        BY <2>3
      <4> HIDE DEF w, u
      <4>3. <<"putMark">> \in Seq(Steps)
        BY DEF Steps
      <4>4. /\ u \in Seq(Steps) /\ Len(u) = Len(w) + 1 /\ Len(w) \in Nat /\ Len(w) >= 1
            /\ u[1] = "putMark" /\ Head(u) = "putMark" /\ Head(w) = w[1]
        BY <4>1, <4>2, <4>3
      <4>5. \A i \in 1..Len(w) : u[i + 1] = w[i]
        BY <4>1, <4>2
      <4>6. \A i \in 2..Len(u) : i - 1 \in 1..Len(w) /\ u[i] = w[i - 1]
        <5> TAKE i \in 2..Len(u)
        <5>1. i - 1 \in 1..Len(w) /\ (i - 1) + 1 = i
          BY <4>4
        <5> QED BY <4>5, <5>1
      <4>7. Last(u) = Last(w)
        <5>1. Len(u) \in 2..Len(u) /\ Len(u) - 1 = Len(w)
          BY <4>4
        <5> QED BY <4>6, <5>1 DEF Last
      <4>8. \A i \in 1..Len(u) : u[i] \notin BuildSteps
        <5> SUFFICES ASSUME NEW i \in 1..Len(u) PROVE u[i] \notin BuildSteps
          OBVIOUS
        <5>1. CASE i = 1
          BY <4>4, <5>1 DEF BuildSteps
        <5>2. CASE i # 1
          <6>1. i \in 2..Len(u)
            BY <4>4, <5>2
          <6> QED BY <4>2, <4>6, <6>1 DEF EndsOK
        <5> QED BY <5>1, <5>2
      <4>9. \A i \in 2..Len(u) : u[i] # "delete"
        <5> SUFFICES ASSUME NEW i \in 2..Len(u) PROVE u[i] # "delete"
          OBVIOUS
        <5>1. CASE i = 2
          BY <4>2, <4>4, <4>6, <5>1
        <5>2. CASE i # 2
          <6>1. i - 1 \in 2..Len(w)
            BY <4>4, <5>2
          <6> QED BY <4>2, <4>6, <6>1 DEF EndsOK
        <5> QED BY <5>1, <5>2
      <4>10. u # <<>> /\ Last(u) \in {"del", "create"}
        BY <4>2, <4>4, <4>7 DEF EndsOK
      <4>11. EndsOK(u)
        BY <4>8, <4>9, <4>10 DEF EndsOK
      <4> QED BY <4>2, <4>4, <4>7, <4>10, <4>11
    <3> QED BY <3>1, <3>2
  <2> HIDE DEF u
  <2>5. x \in Reqs /\ x.todo = u /\ x.wrote = req[a].wrote
    BY <1>0, <2>4 DEF Reqs
  <2> HIDE DEF x
  <2>6. Drops(x) /\ ~Building(x)
    BY <2>4, <2>5 DEF Drops, Building
  <2> QED BY <1>1, <2>2, <2>5, <2>6, QuietFresh
<1> QED BY <1>4, <1>5, <1>6, <1>7, <1>8

LEMMA WritesFresh ==
  ASSUME BaseInv, FreshInv, NEW a \in Actors,
         \/ SaveFacet(a) \/ DeleteChunk(a) \/ CreateExperience(a) \/ DropTraits(a)
         \/ PutTraits(a) \/ DropScore(a) \/ PutScore(a) \/ PutMark(a)
  PROVE  FreshInv'
<1>0. req[a] \in Reqs /\ TodoOK(a, req[a]) /\ Drops(req[a])
  BY DEF BaseInv, TypeInv, FreshInv
<1>1. UNCHANGED <<cache, raced>>
  BY DEF SaveFacet, DeleteChunk, CreateExperience, DropTraits, PutTraits, DropScore, PutScore,
         PutMark
<1>2. CASE SaveFacet(a)
  <2> DEFINE x == [IdleReq EXCEPT !.todo = <<"del">>]
  <2>1. req' = AfterWrite(a, x)
    BY <1>2 DEF SaveFacet
  <2>2. x \in Reqs /\ x.todo = <<"del">>
    BY IdleShape, ShortTodos DEF Reqs, Neat
  <2> HIDE DEF x
  <2>3. EndsOK(x.todo) /\ x.todo # <<>> /\ ~Building(x) /\ Head(x.todo) # "delete"
    BY <2>2, EndsShort DEF Building
  <2> QED BY <1>1, <2>1, <2>2, <2>3, WriteFresh
<1>3. CASE CreateExperience(a)
  <2> DEFINE v == Head(req[a].items)
             x == NextItem(req[a], v)
  <2>1. req[a].todo # <<>> /\ Head(req[a].todo) = "create" /\ req' = AfterWrite(a, x)
    BY <1>3 DEF CreateExperience, At, Idle
  <2>2. req[a].items # <<>>
    BY <1>0, <2>1 DEF TodoOK
  <2>3. x \in Reqs /\ x.todo \in {<<"del", "del">>, <<"create">>}
    BY <1>0, <2>2, NextItemShape
  <2> HIDE DEF x
  <2>4. EndsOK(x.todo) /\ x.todo # <<>> /\ ~Building(x) /\ Head(x.todo) # "delete"
    BY <2>3, EndsShort DEF Building
  <2> QED BY <1>1, <2>1, <2>3, <2>4, WriteFresh
<1>4. CASE \/ DeleteChunk(a) \/ DropTraits(a) \/ PutTraits(a) \/ DropScore(a) \/ PutScore(a)
           \/ PutMark(a)
  <2> DEFINE x == Proceed(req[a])
  <2>1. req[a].todo # <<>> /\ Head(req[a].todo) \in {"delete", "dropTraits", "putTraits",
                                "dropScore", "putScore", "putMark"}
    BY <1>4 DEF DeleteChunk, DropTraits, PutTraits, DropScore, PutScore, PutMark, At, Idle
  <2>2. /\ x \in Reqs /\ x.wrote = req[a].wrote /\ ~Building(x) /\ EndsOK(x.todo)
        /\ x.todo # <<>> /\ Head(x.todo) # "delete"
    <3>1. Head(req[a].todo) \notin BuildSteps \cup {"del", "create"}
      BY <2>1 DEF BuildSteps
    <3> QED BY <2>1, <3>1, ProceedFresh
  <2>3. \/ req' = AfterWrite(a, x)
        \/ PutTraits(a) /\ req[a].traits = {} /\ req' = [req EXCEPT ![a] = x]
    BY <1>4 DEF DeleteChunk, DropTraits, PutTraits, DropScore, PutScore, PutMark
  <2> HIDE DEF x
  <2>4. CASE req' = AfterWrite(a, x)
    BY <1>1, <2>2, <2>4, WriteFresh
  <2>5. CASE PutTraits(a) /\ req[a].traits = {} /\ req' = [req EXCEPT ![a] = x]
    <3>1. rows' = rows
      BY <2>5, TraitRows DEF BaseInv
    <3>2. Drops(x)
      BY <2>2 DEF Drops
    <3> QED BY <1>1, <2>2, <2>5, <3>1, <3>2, QuietFresh
  <2> QED BY <2>3, <2>4, <2>5
<1> QED BY <1>2, <1>3, <1>4

\* The profile is dropped, or a handler ends without having dropped it.
LEMMA EndsFresh ==
  ASSUME BaseInv, FreshInv, NEW a \in Actors, CacheDel(a) \/ Abort(a)
  PROVE  FreshInv'
<1>0. req[a] \in Reqs /\ TodoOK(a, req[a]) /\ Drops(req[a]) /\ UNCHANGED rows
  BY DEF BaseInv, TypeInv, FreshInv, CacheDel, Abort
<1>1. /\ Traits' = Traits /\ Experiences' = Experiences /\ Others' = Others
      /\ Current' = Current
  BY <1>0 DEF Traits, Experiences, Others, Current
<1>2. PICK x : req' = [req EXCEPT ![a] = x] /\ Drops(x) /\ ~Building(x)
  <2>1. CASE CacheDel(a)
    <3> DEFINE t == req[a].todo
               x == [IdleReq EXCEPT !.todo = Tail(t)]
    <3>1. t # <<>> /\ t \in Seq(Steps) /\ EndsOK(t) /\ Head(t) = "del"
          /\ req' = [req EXCEPT ![a] = x]
      BY <1>0, <2>1 DEF CacheDel, At, Idle, Reqs, Drops
    <3>2. Last(t) # "set"
      <4>1. Last(t) = "set" => t \in BuildTodos
        BY <1>0, <3>1 DEF TodoOK
      <4> QED BY <3>1, <4>1, BuildTails
    <3>3. x.todo = Tail(t) /\ ~x.wrote
      BY IdleShape DEF IdleReq
    <3> HIDE DEF t, x
    <3>4. EndsOK(Tail(t)) /\ (Tail(t) # <<>> => Last(Tail(t)) = Last(t))
      BY <3>1, EndsTail
    <3>5. Drops(x) /\ ~Building(x)
      BY <3>2, <3>3, <3>4 DEF Drops, Building
    <3> QED BY <3>1, <3>5
  <2>2. CASE Abort(a)
    <3>1. Drops(IdleReq) /\ ~Building(IdleReq) /\ req' = [req EXCEPT ![a] = IdleReq]
      BY <2>2, IdleShape, EndsShort DEF Drops, Building, Abort
    <3> QED BY <3>1
  <2> QED BY <2>1, <2>2
<1>3. req'[a] = x /\ \A b \in Actors : b # a => req'[b] = req[b]
  BY <1>2, ReqMoves DEF BaseInv
<1>4. FreshUnlessRaced'
  <2>1. CASE CacheDel(a)
    BY <2>1 DEF CacheDel, FreshUnlessRaced
  <2>2. CASE Abort(a)
    <3>1. raced' = (raced \/ req[a].wrote) /\ cache' = cache
      BY <2>2 DEF Abort
    <3> SUFFICES ASSUME ~raced', \A b \in Actors : ~req'[b].wrote
                 PROVE  cache' \subseteq {Current'}
      BY DEF FreshUnlessRaced
    <3>2. ~raced /\ ~req[a].wrote
      BY <3>1
    <3>3. \A b \in Actors : ~req[b].wrote
      BY <1>3, <3>2
    <3> QED BY <1>1, <3>1, <3>2, <3>3 DEF FreshInv, FreshUnlessRaced
  <2> QED BY <2>1, <2>2
<1>5. \A b \in Actors : Drops(req'[b])
  BY <1>2, <1>3 DEF FreshInv
<1>6. \A b \in Actors : Building(req'[b]) /\ ~req'[b].overtaken => UpToDate(req[b])'
  BY <1>1, <1>2, <1>3 DEF FreshInv, UpToDate
<1> QED BY <1>4, <1>5, <1>6 DEF FreshInv, Drops, Building

LEMMA FreshStep == BaseInv /\ FreshInv /\ [Next]_vars => FreshInv'
<1> SUFFICES ASSUME BaseInv, FreshInv, [Next]_vars PROVE FreshInv'
  OBVIOUS
<1>1. CASE UNCHANGED vars
  BY <1>1 DEF FreshInv, FreshUnlessRaced, Drops, Building, UpToDate, Current, Traits,
              Experiences, Others, vars
<1>2. CASE CacheExpires
  <2>1. UNCHANGED <<rows, created, req>> /\ cache' = {}
    BY <1>2 DEF CacheExpires
  <2>2. FreshUnlessRaced'
    BY <2>1 DEF FreshUnlessRaced
  <2>3. /\ Traits' = Traits /\ Experiences' = Experiences /\ Others' = Others
    BY <2>1 DEF Traits, Experiences, Others
  <2> QED BY <2>1, <2>2, <2>3 DEF FreshInv, Drops, Building, UpToDate
<1>3. ASSUME NEW a \in Actors, Step(a) \/ Abort(a) PROVE FreshInv'
  BY <1>3, BuildsFresh, ReadsFresh, WritesFresh, EndsFresh DEF Step
<1> QED BY <1>1, <1>2, <1>3 DEF Next

LEMMA FreshInit == Init => FreshInv
<1> SUFFICES ASSUME Init PROVE FreshInv
  OBVIOUS
<1>1. FreshUnlessRaced
  BY DEF Init, FreshUnlessRaced
<1>2. \A a \in Actors : Drops(req[a]) /\ ~Building(req[a])
  BY IdleShape, EndsShort DEF Init, Drops, Building
<1> QED BY <1>1, <1>2 DEF FreshInv

\* Whatever clients and workers do at once, and wherever calls fail: a cached
\* profile is that of the present rows, unless a handler that changed rows is
\* still to drop it or failed before it did, or a profile was being built as
\* rows changed.
THEOREM FreshTheorem == Spec => []FreshUnlessRaced
<1>1. FreshInv => FreshUnlessRaced
  BY DEF FreshInv
<1>2. Init => BaseInv /\ FreshInv
  BY BaseInit, FreshInit
<1>3. (BaseInv /\ FreshInv) /\ [Next]_vars => (BaseInv /\ FreshInv)'
  BY BaseStep, FreshStep
<1> QED BY <1>1, <1>2, <1>3, PTL DEF Spec

-----------------------------------------------------------------------------
(* One row of each trait, one score and one mark, for a user whose patches   *)
(* come one at a time: whoever is to put a row has found or left none.       *)

OnePatcher == \E p \in Actors : \A a \in Actors : "patch" \in Ops[a] => a = p

Owned == Keys \cup {"confidence", "completed"}

Cleared(t, R) ==
  t # <<>> =>
    /\ Head(t) = "putTraits" => \A r \in R : r.ref \notin Keys
    /\ Head(t) = "putScore" => \A r \in R : r.ref # "confidence"
    /\ Head(t) = "putMark" => \A r \in R : r.ref # "completed"

OneInv == OneRowPerRef /\ \A a \in Actors : Cleared(req[a].todo, rows)

\* A step after which there is no new row of a trait, a score or a mark.
LEMMA OneKept ==
  ASSUME BaseInv, OneInv, NEW a \in Actors, NEW x \in Reqs,
         req' = [req EXCEPT ![a] = x] \/ req' = AfterWrite(a, x),
         \A r \in rows' : r.ref \in Owned => r \in rows,
         Cleared(x.todo, rows')
  PROVE  OneInv'
<1>1. OneRowPerRef'
  BY DEF OneInv, OneRowPerRef, Owned
<1>2. req'[a].todo = x.todo /\ \A b \in Actors : b # a => req'[b].todo = req[b].todo
  <2>1. CASE req' = [req EXCEPT ![a] = x]
    BY <2>1, ReqMoves DEF BaseInv
  <2>2. CASE req' = AfterWrite(a, x)
    BY <2>2, WriteFields DEF BaseInv
  <2> QED BY <2>1, <2>2
<1>3. ASSUME NEW b \in Actors, b # a PROVE Cleared(req[b].todo, rows)'
  <2>1. Cleared(req[b].todo, rows) /\ req'[b].todo = req[b].todo
    BY <1>2, <1>3 DEF OneInv
  <2> QED BY <2>1 DEF Cleared, Owned
<1>4. Cleared(req[a].todo, rows)'
  BY <1>2 DEF Cleared
<1> QED BY <1>1, <1>3, <1>4 DEF OneInv

\* What comes after a step.
LEMMA Heads ==
  ASSUME NEW a, NEW x \in Reqs, TodoOK(a, x), x.todo # <<>>, Tail(x.todo) # <<>>
  PROVE  /\ Head(Tail(x.todo)) = "putTraits" => Head(x.todo) = "dropTraits"
         /\ Head(Tail(x.todo)) = "putScore" => Head(x.todo) = "dropScore"
         /\ Head(Tail(x.todo)) # "putMark"
<1> DEFINE t == x.todo
<1>1. t \in Seq(Steps) /\ t # <<>> /\ Tail(t) # <<>>
  BY DEF Reqs
<1>2. Head(t) = t[1] /\ Head(Tail(t)) = t[2] /\ 2 \in 2..Len(t)
  BY <1>1
<1>3. Follows(t, 2)
  BY <1>2 DEF TodoOK
<1> QED BY <1>2, <1>3 DEF Follows

\* A row is put only after a step that has cleared the way for it.
LEMMA NoPutNext ==
  ASSUME NEW a \in Actors, BaseInv, req[a].todo # <<>>,
         Head(req[a].todo) \notin {"dropTraits", "dropScore"}
  PROVE  LET t == req[a].todo IN Tail(t) # <<>> => Head(Tail(t)) \notin {"putTraits", "putScore", "putMark"}
<1>1. req[a] \in Reqs /\ TodoOK(a, req[a])
  BY DEF BaseInv, TypeInv
<1> DEFINE t == req[a].todo
<1>2. Tail(t) # <<>> => Head(Tail(t)) \notin {"putTraits", "putScore", "putMark"}
  BY <1>1, Heads
<1> QED BY <1>2

LEMMA OneQuiet ==
  ASSUME BaseInv, OneInv, NEW a \in Actors, NEW x \in Reqs,
         req' = [req EXCEPT ![a] = x] \/ req' = AfterWrite(a, x),
         \A r \in rows' : r.ref \in Owned => r \in rows,
         x.todo # <<>> => Head(x.todo) \notin {"putTraits", "putScore", "putMark"}
  PROVE  OneInv'
BY OneKept DEF Cleared

LEMMA PatchHead ==
  ASSUME NEW parts, parts \in (SUBSET {"traits", "confidence", "completed"}) \ {{}}
  PROVE  Head(PatchTodo(parts)) \in {"dropTraits", "dropScore", "findMark"}
<1> DEFINE q == IF "confidence" \in parts THEN <<"dropScore", "putScore">> ELSE <<>>
           r == IF "completed" \in parts THEN <<"findMark">> ELSE <<>>
           S == {"dropTraits", "putTraits", "dropScore", "putScore", "findMark", "del"}
<1>1. "traits" \in parts \/ "confidence" \in parts \/ "completed" \in parts
  OBVIOUS
<1>2. CASE "traits" \in parts
  <2>1. PatchTodo(parts) = (<<"dropTraits", "putTraits">> \o q) \o r \o <<"del">>
    BY <1>2 DEF PatchTodo
  <2>2. q \in Seq(S) /\ r \in Seq(S)
    <3>1. /\ <<"dropScore", "putScore">> \in Seq(S) /\ <<"findMark">> \in Seq(S)
          /\ <<>> \in Seq(S)
      OBVIOUS
    <3> HIDE DEF S
    <3> QED BY <3>1
  <2> HIDE DEF q, r
  <2> QED BY <2>1, <2>2
<1>3. CASE "traits" \notin parts /\ "confidence" \in parts
  <2>1. PatchTodo(parts) = (<<>> \o <<"dropScore", "putScore">>) \o r \o <<"del">>
    BY <1>3 DEF PatchTodo
  <2>2. r \in Seq(S)
    <3>1. <<"findMark">> \in Seq(S) /\ <<>> \in Seq(S)
      OBVIOUS
    <3> HIDE DEF S
    <3> QED BY <3>1
  <2> HIDE DEF r
  <2> QED BY <2>1, <2>2
<1>4. CASE parts \cap {"traits", "confidence"} = {} /\ "completed" \in parts
  <2>1. PatchTodo(parts) = (<<>> \o <<>>) \o <<"findMark">> \o <<"del">>
    BY <1>4 DEF PatchTodo
  <2> QED BY <2>1
<1> QED BY <1>1, <1>2, <1>3, <1>4

\* Steps that put no row of a trait, a score or a mark, and clear no way.
LEMMA OneOthers ==
  ASSUME BaseInv, OneInv, NEW a \in Actors,
         \/ BeginProfile(a) \/ ReadTraits(a) \/ ReadExperiences(a) \/ ReadOthers(a) \/ CacheSet(a)
         \/ SaveFacet(a) \/ FindChunk(a) \/ DeleteChunk(a) \/ DeleteFails(a) \/ CacheDel(a)
         \/ ListExperiences(a) \/ CreateExperience(a) \/ BeginPatch(a) \/ Abort(a)
  PROVE  OneInv'
<1>0. req[a] \in Reqs /\ TodoOK(a, req[a]) /\ RowsInv
  BY DEF BaseInv, TypeInv
<1>1. CASE CacheSet(a) \/ DeleteFails(a) \/ Abort(a)
  <2>1. req' = [req EXCEPT ![a] = IdleReq] /\ rows' = rows
    BY <1>1 DEF CacheSet, DeleteFails, Abort
  <2> QED BY <2>1, IdleShape, OneQuiet
<1>2. CASE BeginProfile(a)
  <2> DEFINE x == [IdleReq EXCEPT !.todo = <<"traits", "experiences", "others", "set">>]
  <2>1. x \in Reqs /\ x.todo = <<"traits", "experiences", "others", "set">>
    BY IdleShape, ShortTodos DEF Reqs
  <2>2. req' = [req EXCEPT ![a] = x] /\ rows' = rows
    BY <1>2 DEF BeginProfile
  <2>3. Head(x.todo) \notin {"putTraits", "putScore", "putMark"}
    BY <2>1
  <2> HIDE DEF x
  <2> QED BY <2>1, <2>2, <2>3, OneQuiet
<1>3. CASE ReadTraits(a) \/ ReadExperiences(a) \/ ReadOthers(a)
  <2> DEFINE p == Proceed(req[a])
  <2>1. /\ req[a].todo # <<>> /\ Head(req[a].todo) \in {"traits", "experiences", "others"}
        /\ rows' = rows
    BY <1>3 DEF ReadTraits, ReadExperiences, ReadOthers, At, Idle
  <2>2. p \in Reqs /\ p.todo = Tail(req[a].todo)
    BY <1>0, <2>1, ProceedShape
  <2>3. PICK f \in {"traits", "experiences", "others"}, S \in SUBSET Rows :
          req' = [req EXCEPT ![a] = [p EXCEPT !.built[f] = S]]
    <3>1. Traits \in SUBSET Rows /\ Experiences \in SUBSET Rows /\ Others \in SUBSET Rows
      BY <1>0, CurrentShape
    <3>2. CASE ReadTraits(a)
      BY <3>1, <3>2 DEF ReadTraits
    <3>3. CASE ReadExperiences(a)
      BY <3>1, <3>3 DEF ReadExperiences
    <3>4. CASE ReadOthers(a)
      BY <3>1, <3>4 DEF ReadOthers
    <3> QED BY <1>3, <3>2, <3>3, <3>4
  <2> DEFINE x == [p EXCEPT !.built[f] = S]
  <2>4. x \in Reqs /\ x.todo = Tail(req[a].todo)
    BY <2>2 DEF Reqs, Profiles
  <2>5. x.todo # <<>> => Head(x.todo) \notin {"putTraits", "putScore", "putMark"}
    <3> HIDE DEF x
    <3> QED BY <2>1, <2>4, NoPutNext
  <2> HIDE DEF x
  <2> QED BY <2>1, <2>3, <2>4, <2>5, OneQuiet DEF x
<1>4. CASE SaveFacet(a)
  <2> DEFINE x == [IdleReq EXCEPT !.todo = <<"del">>]
  <2>1. x \in Reqs /\ x.todo = <<"del">>
    BY IdleShape, ShortTodos DEF Reqs, Neat
  <2>2. req' = AfterWrite(a, x)
    BY <1>4 DEF SaveFacet
  <2>3. Insert("facet", Blank) \/ \E v \in Values : Insert("noted", v)
    BY <1>4 DEF SaveFacet
  <2>4. \A r \in rows' : r.ref \in Owned => r \in rows
    BY <2>3, KeysAssumption DEF Insert, Owned
  <2>5. Head(x.todo) \notin {"putTraits", "putScore", "putMark"}
    BY <2>1
  <2> HIDE DEF x
  <2> QED BY <2>1, <2>2, <2>4, <2>5, OneQuiet
<1>5. CASE FindChunk(a)
  <2>1. PICK r \in rows : req' = [req EXCEPT ![a] = [IdleReq EXCEPT !.todo = <<"delete", "del">>,
                                                                    !.row = {r}]]
    BY <1>5 DEF FindChunk
  <2> DEFINE x == [IdleReq EXCEPT !.todo = <<"delete", "del">>, !.row = {r}]
  <2>2. x \in Reqs /\ x.todo = <<"delete", "del">>
    BY <1>0, IdleShape, ShortTodos, ZenonT(30) DEF Reqs, RowsInv, Neat
  <2>3. rows' = rows
    BY <1>5 DEF FindChunk
  <2>4. Head(x.todo) = "delete"
    BY <2>2
  <2> HIDE DEF x
  <2> QED BY <2>1, <2>2, <2>3, <2>4, OneQuiet DEF x
<1>6. CASE DeleteChunk(a)
  <2> DEFINE x == Proceed(req[a])
  <2>1. /\ req[a].todo # <<>> /\ Head(req[a].todo) = "delete" /\ rows' \subseteq rows
        /\ req' = AfterWrite(a, x)
    BY <1>6 DEF DeleteChunk, At, Idle
  <2>2. x \in Reqs /\ x.todo = Tail(req[a].todo)
    BY <1>0, <2>1, ProceedShape
  <2> HIDE DEF x
  <2>3. x.todo # <<>> => Head(x.todo) \notin {"putTraits", "putScore", "putMark"}
    BY <2>1, <2>2, NoPutNext
  <2> QED BY <2>1, <2>2, <2>3, OneQuiet
<1>7. CASE CacheDel(a)
  <2> DEFINE x == [IdleReq EXCEPT !.todo = Tail(req[a].todo)]
  <2>1. /\ req[a].todo # <<>> /\ Head(req[a].todo) = "del" /\ rows' = rows
        /\ req' = [req EXCEPT ![a] = x] /\ Tail(req[a].todo) \in Seq(Steps)
    BY <1>0, <1>7 DEF CacheDel, At, Idle, Reqs
  <2>2. x \in Reqs /\ x.todo = Tail(req[a].todo)
    BY <2>1, IdleShape DEF Reqs
  <2> HIDE DEF x
  <2>3. x.todo # <<>> => Head(x.todo) \notin {"putTraits", "putScore", "putMark"}
    BY <2>1, <2>2, NoPutNext
  <2> QED BY <2>1, <2>2, <2>3, OneQuiet
<1>8. CASE ListExperiences(a)
  <2>1. PICK items \in Extractions, listed \in SUBSET Experiences :
          LET texts == {r.val : r \in listed}
              new == Remaining(items, texts)
          IN  req' = [req EXCEPT ![a] =
                IF new = <<>> THEN [IdleReq EXCEPT !.todo = <<"del">>]
                ELSE [IdleReq EXCEPT !.todo = <<"create">>, !.items = new, !.texts = texts]]
    BY <1>8 DEF ListExperiences
  <2> DEFINE texts == {r.val : r \in listed}
             new == Remaining(items, texts)
             x == IF new = <<>> THEN [IdleReq EXCEPT !.todo = <<"del">>]
                  ELSE [IdleReq EXCEPT !.todo = <<"create">>, !.items = new, !.texts = texts]
  <2>2. req' = [req EXCEPT ![a] = x] /\ rows' = rows
    BY <1>8, <2>1 DEF ListExperiences
  <2>3. items \in Seq(Values) /\ texts \subseteq Values
    BY <1>0, ValuesAssumption DEF RowsInv, Experiences
  <2>4. new \in Seq(Values)
    BY <2>3, RemainingFacts
  <2> HIDE DEF texts, new
  <2>5. x \in Reqs /\ x.todo \in {<<"del">>, <<"create">>}
    <3>1. CASE new = <<>>
      BY <3>1, IdleShape, ShortTodos DEF Reqs, Neat
    <3>2. CASE new # <<>>
      BY <2>3, <2>4, <3>2, IdleShape, ShortTodos DEF Reqs
    <3> QED BY <3>1, <3>2
  <2> HIDE DEF x
  <2>6. Head(x.todo) \notin {"putTraits", "putScore", "putMark"}
    BY <2>5
  <2> QED BY <2>2, <2>5, <2>6, OneQuiet
<1>9. CASE CreateExperience(a)
  <2> DEFINE v == Head(req[a].items)
             x == NextItem(req[a], v)
  <2>1. /\ req[a].todo # <<>> /\ Head(req[a].todo) = "create" /\ req' = AfterWrite(a, x)
        /\ Insert("experience", v)
    BY <1>9 DEF CreateExperience, At, Idle
  <2>2. req[a].items # <<>>
    BY <1>0, <2>1 DEF TodoOK
  <2>3. x \in Reqs /\ x.todo \in {<<"del", "del">>, <<"create">>}
    BY <1>0, <2>2, NextItemShape
  <2> HIDE DEF x, v
  <2>4. \A r \in rows' : r.ref \in Owned => r \in rows
    BY <2>1, KeysAssumption DEF Insert, Owned
  <2>5. Head(x.todo) \notin {"putTraits", "putScore", "putMark"}
    BY <2>3
  <2> QED BY <2>1, <2>3, <2>4, <2>5, OneQuiet
<1>10. CASE BeginPatch(a)
  <2>1. PICK parts \in (SUBSET {"traits", "confidence", "completed"}) \ {{}}, traits \in SUBSET Keys :
          req' = [req EXCEPT ![a] = [IdleReq EXCEPT !.traits = traits, !.todo = PatchTodo(parts)]]
    BY <1>10 DEF BeginPatch, PatchTodo
  <2> DEFINE x == [IdleReq EXCEPT !.traits = traits, !.todo = PatchTodo(parts)]
  <2>2. x \in Reqs /\ x.todo = PatchTodo(parts)
    BY IdleShape, PatchTodoShape DEF Reqs, Neat
  <2>3. rows' = rows
    BY <1>10 DEF BeginPatch
  <2> HIDE DEF x
  <2>4. Head(x.todo) \notin {"putTraits", "putScore", "putMark"}
    BY <2>2, PatchHead
  <2> QED BY <2>1, <2>2, <2>3, <2>4, OneQuiet DEF x
<1> QED BY <1>1, <1>2, <1>3, <1>4, <1>5, <1>6, <1>7, <1>8, <1>9, <1>10

\* The steps of a patch that clear the way, by dropping rows or finding none.
LEMMA OneClears ==
  ASSUME BaseInv, OneInv, NEW a \in Actors, DropTraits(a) \/ DropScore(a) \/ FindMark(a)
  PROVE  OneInv'
<1>0. req[a] \in Reqs /\ TodoOK(a, req[a])
  BY DEF BaseInv, TypeInv
<1>1. CASE DropTraits(a) \/ DropScore(a)
  <2> DEFINE x == Proceed(req[a])
  <2>1. /\ req[a].todo # <<>> /\ Head(req[a].todo) \in {"dropTraits", "dropScore"}
        /\ rows' \subseteq rows /\ req' = AfterWrite(a, x)
    BY <1>1 DEF DropTraits, DropScore, At, Idle
  <2>2. x \in Reqs /\ x.todo = Tail(req[a].todo)
    BY <1>0, <2>1, ProceedShape
  <2>3. /\ Head(req[a].todo) = "dropTraits" => \A r \in rows' : r.ref \notin Keys
        /\ Head(req[a].todo) = "dropScore" => \A r \in rows' : r.ref # "confidence"
    BY <1>1 DEF DropTraits, DropScore, At, Traits
  <2>4. x.todo # <<>> =>
          /\ Head(x.todo) = "putTraits" => Head(req[a].todo) = "dropTraits"
          /\ Head(x.todo) = "putScore" => Head(req[a].todo) = "dropScore"
          /\ Head(x.todo) # "putMark"
    BY <1>0, <2>1, <2>2, Heads
  <2> HIDE DEF x
  <2>5. Cleared(x.todo, rows')
    BY <2>3, <2>4 DEF Cleared
  <2> QED BY <2>1, <2>2, <2>5, OneKept
<1>2. CASE FindMark(a)
  <2> DEFINE t == req[a].todo
             found == \E r \in rows : r.ref = "completed"
             u == IF found THEN Tail(t) ELSE <<"putMark">> \o Tail(t)
             x == [req[a] EXCEPT !.todo = u]
  <2>1. t # <<>> /\ t \in Seq(Steps) /\ Head(t) = "findMark"
    BY <1>0, <1>2 DEF FindMark, At, Idle, Reqs
  <2>2. req' = [req EXCEPT ![a] = x] /\ rows' = rows
    BY <1>2 DEF FindMark
  <2>3. Tail(t) \in Seq(Steps) /\ <<"putMark">> \o Tail(t) \in Seq(Steps)
        /\ Head(<<"putMark">> \o Tail(t)) = "putMark"
    <3>1. <<"putMark">> \in Seq(Steps)
      BY DEF Steps
    <3> QED BY <2>1, <3>1
  <2>4. Tail(t) # <<>> => Head(Tail(t)) \notin {"putTraits", "putScore", "putMark"}
    BY <2>1, NoPutNext
  <2> HIDE DEF t
  <2>5. u \in Seq(Steps) /\ Cleared(u, rows)
    <3>1. CASE found
      BY <2>3, <2>4, <3>1 DEF Cleared
    <3>2. CASE ~found
      BY <2>3, <3>2 DEF Cleared
    <3> QED BY <3>1, <3>2
  <2> HIDE DEF u
  <2>6. x \in Reqs /\ x.todo = u
    BY <1>0, <2>5 DEF Reqs
  <2> HIDE DEF x
  <2>7. Cleared(x.todo, rows') /\ \A r \in rows' : r.ref \in Owned => r \in rows
    BY <2>2, <2>5, <2>6
  <2> QED BY <2>2, <2>6, <2>7, OneKept
<1> QED BY <1>1, <1>2

\* The steps that put rows: the way is clear, and nobody else is about to.
LEMMA OnePuts ==
  ASSUME BaseInv, OneInv, OnePatcher, NEW a \in Actors,
         PutTraits(a) \/ PutScore(a) \/ PutMark(a)
  PROVE  OneInv'
<1> DEFINE x == Proceed(req[a])
           puts == {"putTraits", "putScore", "putMark"}
<1>0. req[a] \in Reqs /\ TodoOK(a, req[a]) /\ Cleared(req[a].todo, rows)
  BY DEF BaseInv, TypeInv, OneInv
<1>1. req[a].todo # <<>> /\ Head(req[a].todo) \in puts
  BY DEF PutTraits, PutScore, PutMark, At, Idle
<1>2. x \in Reqs /\ x.todo = Tail(req[a].todo)
  BY <1>0, <1>1, ProceedShape
<1>3. req' = [req EXCEPT ![a] = x] \/ req' = AfterWrite(a, x)
  BY DEF PutTraits, PutScore, PutMark
<1> HIDE DEF x
<1>4. req'[a].todo = x.todo /\ \A b \in Actors : b # a => req'[b].todo = req[b].todo
  <2>1. CASE req' = [req EXCEPT ![a] = x]
    BY <2>1, ReqMoves DEF BaseInv
  <2>2. CASE req' = AfterWrite(a, x)
    BY <1>2, <2>2, WriteFields DEF BaseInv
  <2> QED BY <1>3, <2>1, <2>2
<1>5. \A b \in Actors : req[b].todo # <<>> /\ Head(req[b].todo) \in puts => "patch" \in Ops[b]
  <2> SUFFICES ASSUME NEW b \in Actors, req[b].todo # <<>>, Head(req[b].todo) \in puts
               PROVE  "patch" \in Ops[b]
    OBVIOUS
  <2>1. req[b].todo \in Seq(Steps) /\ TodoOK(b, req[b])
    BY DEF BaseInv, TypeInv, Reqs
  <2>2. 1 \in 1..Len(req[b].todo) /\ req[b].todo[1] = Head(req[b].todo)
    BY <2>1
  <2> QED BY <2>1, <2>2 DEF TodoOK, OpsOf
<1>6. \A b \in Actors : b # a /\ req[b].todo # <<>> => Head(req[b].todo) \notin puts
  BY <1>1, <1>5 DEF OnePatcher
<1>7. x.todo # <<>> => Head(x.todo) \notin puts
  BY <1>1, <1>2, NoPutNext
<1>8. \A b \in Actors : Cleared(req[b].todo, rows)'
  BY <1>4, <1>6, <1>7 DEF Cleared
<1>9. OneRowPerRef'
  <2>1. CASE PutTraits(a)
    <3>1. /\ rows \subseteq rows' /\ \A r \in rows' \ rows : r.ref \in req[a].traits
          /\ \A r, s \in rows' \ rows : r.ref = s.ref => r = s
      BY <2>1, TraitRows DEF BaseInv
    <3>2. \A r \in rows : r.ref \notin Keys
      BY <1>0, <2>1 DEF PutTraits, At, Idle, Cleared
    <3>3. req[a].traits \subseteq Keys
      BY <1>0 DEF Reqs
    <3>4. \A r \in rows' \ rows : r.ref \in Keys
      BY <3>1, <3>3
    <3>5. OneRowPerRef
      BY DEF OneInv
    <3> SUFFICES ASSUME NEW r \in rows', NEW s \in rows', r.ref = s.ref,
                        r.ref \in Keys \cup {"confidence", "completed"}
                 PROVE  r = s
      BY DEF OneRowPerRef
    <3>6. CASE r \in rows /\ s \in rows
      BY <3>5, <3>6 DEF OneRowPerRef
    <3>7. CASE r \notin rows /\ s \notin rows
      BY <3>1, <3>7
    <3>8. CASE (r \in rows) # (s \in rows)
      BY <3>2, <3>4, <3>8
    <3> QED BY <3>6, <3>7, <3>8
  <2>2. CASE PutScore(a) \/ PutMark(a)
    <3>1. PICK ref \in {"confidence", "completed"} :
            Insert(ref, Blank) /\ \A r \in rows : r.ref # ref
      BY <1>0, <2>2 DEF PutScore, PutMark, At, Idle, Cleared
    <3>2. \A r \in rows' : r \in rows \/ r = [id |-> created + 1, ref |-> ref, val |-> Blank]
      BY <3>1 DEF Insert
    <3>3. [id |-> created + 1, ref |-> ref, val |-> Blank].ref = ref
      OBVIOUS
    <3>4. \A r, s \in rows' : r.ref = s.ref /\ r \notin rows => s \notin rows
      BY <3>1, <3>2, <3>3
    <3> QED BY <3>2, <3>4 DEF OneInv, OneRowPerRef
  <2> QED BY <2>1, <2>2
<1> QED BY <1>8, <1>9 DEF OneInv

LEMMA OneStep == OnePatcher /\ BaseInv /\ OneInv /\ [Next]_vars => OneInv'
<1> SUFFICES ASSUME OnePatcher, BaseInv, OneInv, [Next]_vars PROVE OneInv'
  OBVIOUS
<1>1. CASE UNCHANGED vars \/ CacheExpires
  BY <1>1 DEF CacheExpires, OneInv, OneRowPerRef, Cleared, vars
<1>2. ASSUME NEW a \in Actors, Step(a) \/ Abort(a) PROVE OneInv'
  BY <1>2, OneOthers, OneClears, OnePuts DEF Step
<1> QED BY <1>1, <1>2 DEF Next

\* Whatever fails half way and is sent again: a patch leaves one row of each
\* trait, one score and one mark, if the patches of a user come one at a time.
THEOREM OneRowTheorem ==
  ASSUME OnePatcher
  PROVE  Spec => []OneRowPerRef
<1>1. Init => OneInv
  BY IdleShape DEF Init, OneInv, OneRowPerRef, Cleared
<1>2. OneInv => OneRowPerRef
  BY DEF OneInv
<1>3. Init => BaseInv /\ OneInv
  BY <1>1, BaseInit
<1>4. (BaseInv /\ OneInv) /\ [Next]_vars => (BaseInv /\ OneInv)'
  BY BaseStep, OneStep
<1> QED BY <1>2, <1>3, <1>4, PTL DEF Spec

-----------------------------------------------------------------------------
(* No near duplicates, with one worker, and as long as a user has had no    *)
(* more rows than saveExperiences lists: what a job compares with are then  *)
(* all the contents there are.                                              *)

OneExtractor == \A a, b \in Actors : "extract" \in Ops[a] /\ "extract" \in Ops[b] => a = b

AllListed == ListTake \in Nat /\ MaxRows <= ListTake

Found == {r \in rows : r.ref = "experience"}

Knows(x, R) ==
  x.todo # <<>> /\ Head(x.todo) = "create" => \A r \in R : r.val \in x.texts

DupInv == NoNearDuplicates /\ \A a \in Actors : Knows(req[a], Found)

LEMMA ListedAll ==
  ASSUME RowsInv, AllListed, NEW listed \in SUBSET Experiences,
         Cardinality(listed) = IF Cardinality(Experiences) <= ListTake
                               THEN Cardinality(Experiences) ELSE ListTake
  PROVE  listed = Experiences
<1> DEFINE id == [r \in Experiences |-> r.id]
<1>1. Experiences \subseteq rows
  BY DEF Experiences
<1>2. \A r \in Experiences : r.id \in 1..MaxRows
  BY <1>1 DEF RowsInv, Rows
<1>3. id \in Injection(Experiences, 1..MaxRows)
  BY <1>1, <1>2 DEF Injection, IsInjective, RowsInv
<1> HIDE DEF id
<1>4. /\ IsFiniteSet(1..MaxRows) /\ Cardinality(1..MaxRows) = MaxRows
  <2>1. /\ IsFiniteSet(1..MaxRows)
        /\ Cardinality(1..MaxRows) = IF 1 > MaxRows THEN 0 ELSE MaxRows - 1 + 1
    BY BoundAssumption, FS_Interval
  <2> QED BY <2>1, BoundAssumption
<1>5. IsFiniteSet(Experiences) /\ Cardinality(Experiences) <= MaxRows
  BY <1>3, <1>4, FS_Injection
<1>6. Cardinality(Experiences) \in Nat
  BY <1>5, FS_CardinalityType
<1>7. Cardinality(listed) = Cardinality(Experiences)
  BY <1>5, <1>6, BoundAssumption DEF AllListed
<1> QED BY <1>5, <1>7, FS_Subset

\* A step that adds no row an extraction has found, and does not begin one.
LEMMA DupKept ==
  ASSUME BaseInv, DupInv, NEW a \in Actors, NEW x \in Reqs,
         req' = [req EXCEPT ![a] = x] \/ req' = AfterWrite(a, x),
         Found' \subseteq Found, Knows(x, Found)
  PROVE  DupInv'
<1>1. NoNearDuplicates'
  BY DEF DupInv, NoNearDuplicates, Found
<1>2. /\ req'[a].todo = x.todo /\ req'[a].texts = x.texts
      /\ \A b \in Actors : b # a => req'[b].todo = req[b].todo /\ req'[b].texts = req[b].texts
  <2>1. CASE req' = [req EXCEPT ![a] = x]
    BY <2>1, ReqMoves DEF BaseInv
  <2>2. CASE req' = AfterWrite(a, x)
    BY <2>2, WriteFields DEF BaseInv
  <2> QED BY <2>1, <2>2
<1>3. ASSUME NEW b \in Actors PROVE Knows(req[b], Found)'
  <2>1. CASE b = a
    BY <1>2, <2>1 DEF Knows
  <2>2. CASE b # a
    <3>1. Knows(req[b], Found)
      BY DEF DupInv
    <3> QED BY <1>2, <2>2, <3>1 DEF Knows
  <2> QED BY <2>1, <2>2
<1> QED BY <1>1, <1>3 DEF DupInv

\* The steps of other handlers: none of them is then about to create a row
\* that an extraction has found.
LEMMA DupQuiet ==
  ASSUME BaseInv, DupInv, NEW a \in Actors, NEW x \in Reqs,
         req' = [req EXCEPT ![a] = x] \/ req' = AfterWrite(a, x),
         Found' \subseteq Found, x.todo # <<>> => Head(x.todo) # "create"
  PROVE  DupInv'
BY DupKept DEF Knows

\* No step but the listing and the writing of facts leads to the writing of one.
LEMMA NoCreateNext ==
  ASSUME BaseInv, NEW a \in Actors, req[a].todo # <<>>, Tail(req[a].todo) # <<>>
  PROVE  Head(Tail(req[a].todo)) # "create"
<1> DEFINE t == req[a].todo
<1>1. t \in Seq(Steps) /\ TodoOK(a, req[a])
  BY DEF BaseInv, TypeInv, Reqs
<1>2. Head(Tail(t)) = t[2] /\ 2 \in 2..Len(t)
  BY <1>1
<1>3. Follows(t, 2)
  BY <1>1, <1>2 DEF TodoOK
<1> QED BY <1>2, <1>3 DEF Follows

LEMMA DupOthers ==
  ASSUME BaseInv, DupInv, NEW a \in Actors,
         \/ BeginProfile(a) \/ ReadTraits(a) \/ ReadExperiences(a) \/ ReadOthers(a) \/ CacheSet(a)
         \/ SaveFacet(a) \/ FindChunk(a) \/ DeleteChunk(a) \/ DeleteFails(a) \/ CacheDel(a)
         \/ BeginPatch(a) \/ DropTraits(a) \/ PutTraits(a) \/ DropScore(a) \/ PutScore(a)
         \/ FindMark(a) \/ PutMark(a) \/ Abort(a)
  PROVE  DupInv'
<1>0. req[a] \in Reqs /\ TodoOK(a, req[a]) /\ RowsInv
  BY DEF BaseInv, TypeInv
<1>1. CASE CacheSet(a) \/ DeleteFails(a) \/ Abort(a)
  <2>1. req' = [req EXCEPT ![a] = IdleReq] /\ rows' = rows
    BY <1>1 DEF CacheSet, DeleteFails, Abort
  <2> QED BY <2>1, IdleShape, DupQuiet DEF Found
<1>2. CASE BeginProfile(a)
  <2> DEFINE x == [IdleReq EXCEPT !.todo = <<"traits", "experiences", "others", "set">>]
  <2>1. x \in Reqs /\ x.todo = <<"traits", "experiences", "others", "set">>
    BY IdleShape, ShortTodos DEF Reqs
  <2>2. req' = [req EXCEPT ![a] = x] /\ rows' = rows
    BY <1>2 DEF BeginProfile
  <2>3. Head(x.todo) # "create"
    BY <2>1
  <2> HIDE DEF x
  <2> QED BY <2>1, <2>2, <2>3, DupQuiet DEF Found
<1>3. CASE ReadTraits(a) \/ ReadExperiences(a) \/ ReadOthers(a)
  <2> DEFINE p == Proceed(req[a])
  <2>1. req[a].todo # <<>> /\ rows' = rows
    BY <1>3 DEF ReadTraits, ReadExperiences, ReadOthers, At, Idle
  <2>2. p \in Reqs /\ p.todo = Tail(req[a].todo)
    BY <1>0, <2>1, ProceedShape
  <2>3. PICK f \in {"traits", "experiences", "others"}, S \in SUBSET Rows :
          req' = [req EXCEPT ![a] = [p EXCEPT !.built[f] = S]]
    <3>1. Traits \in SUBSET Rows /\ Experiences \in SUBSET Rows /\ Others \in SUBSET Rows
      BY <1>0, CurrentShape
    <3>2. CASE ReadTraits(a)
      BY <3>1, <3>2 DEF ReadTraits
    <3>3. CASE ReadExperiences(a)
      BY <3>1, <3>3 DEF ReadExperiences
    <3>4. CASE ReadOthers(a)
      BY <3>1, <3>4 DEF ReadOthers
    <3> QED BY <1>3, <3>2, <3>3, <3>4
  <2> DEFINE x == [p EXCEPT !.built[f] = S]
  <2>4. x \in Reqs /\ x.todo = Tail(req[a].todo)
    BY <2>2 DEF Reqs, Profiles
  <2> HIDE DEF x
  <2>5. x.todo # <<>> => Head(x.todo) # "create"
    BY <2>1, <2>4, NoCreateNext
  <2> QED BY <2>1, <2>3, <2>4, <2>5, DupQuiet DEF x, Found
<1>4. CASE SaveFacet(a)
  <2> DEFINE x == [IdleReq EXCEPT !.todo = <<"del">>]
  <2>1. x \in Reqs /\ x.todo = <<"del">>
    BY IdleShape, ShortTodos DEF Reqs, Neat
  <2>2. req' = AfterWrite(a, x)
    BY <1>4 DEF SaveFacet
  <2>3. Insert("facet", Blank) \/ \E v \in Values : Insert("noted", v)
    BY <1>4 DEF SaveFacet
  <2>4. Found' \subseteq Found
    BY <2>3 DEF Insert, Found
  <2>5. Head(x.todo) # "create"
    BY <2>1
  <2> HIDE DEF x
  <2> QED BY <2>1, <2>2, <2>4, <2>5, DupQuiet
<1>5. CASE FindChunk(a)
  <2>1. PICK r \in rows : req' = [req EXCEPT ![a] = [IdleReq EXCEPT !.todo = <<"delete", "del">>,
                                                                    !.row = {r}]]
    BY <1>5 DEF FindChunk
  <2> DEFINE x == [IdleReq EXCEPT !.todo = <<"delete", "del">>, !.row = {r}]
  <2>2. x \in Reqs /\ x.todo = <<"delete", "del">>
    BY <1>0, IdleShape, ShortTodos, ZenonT(30) DEF Reqs, RowsInv, Neat
  <2>3. rows' = rows
    BY <1>5 DEF FindChunk
  <2>4. Head(x.todo) = "delete"
    BY <2>2
  <2> HIDE DEF x
  <2> QED BY <2>1, <2>2, <2>3, <2>4, DupQuiet DEF x, Found
<1>6. CASE \/ DeleteChunk(a) \/ DropTraits(a) \/ PutTraits(a) \/ DropScore(a) \/ PutScore(a)
           \/ PutMark(a)
  <2> DEFINE x == Proceed(req[a])
  <2>1. /\ req[a].todo # <<>>
        /\ req' = [req EXCEPT ![a] = x] \/ req' = AfterWrite(a, x)
    BY <1>6 DEF DeleteChunk, DropTraits, PutTraits, DropScore, PutScore, PutMark, At, Idle
  <2>2. x \in Reqs /\ x.todo = Tail(req[a].todo)
    BY <1>0, <2>1, ProceedShape
  <2> HIDE DEF x
  <2>3. x.todo # <<>> => Head(x.todo) # "create"
    BY <2>1, <2>2, NoCreateNext
  <2>4. Found' \subseteq Found
    <3>1. CASE PutTraits(a)
      <4>1. \A r \in rows' : r \in rows \/ r.ref \in Keys
        <5>1. /\ \A r \in rows' \ rows : r.ref \in req[a].traits
              /\ req[a].traits \subseteq Keys
          BY <1>0, <3>1, TraitRows DEF Reqs, BaseInv
        <5> QED BY <5>1
      <4>2. "experience" \notin Keys
        BY KeysAssumption
      <4> QED BY <4>1, <4>2 DEF Found
    <3>2. CASE PutScore(a) \/ PutMark(a)
      BY <3>2 DEF PutScore, PutMark, Insert, Found
    <3>3. CASE DeleteChunk(a) \/ DropTraits(a) \/ DropScore(a)
      BY <3>3 DEF DeleteChunk, DropTraits, DropScore, Found
    <3> QED BY <1>6, <3>1, <3>2, <3>3
  <2> QED BY <2>1, <2>2, <2>3, <2>4, DupQuiet
<1>7. CASE CacheDel(a)
  <2> DEFINE x == [IdleReq EXCEPT !.todo = Tail(req[a].todo)]
  <2>1. /\ req[a].todo # <<>> /\ rows' = rows
        /\ req' = [req EXCEPT ![a] = x] /\ Tail(req[a].todo) \in Seq(Steps)
    BY <1>0, <1>7 DEF CacheDel, At, Idle, Reqs
  <2>2. x \in Reqs /\ x.todo = Tail(req[a].todo)
    BY <2>1, IdleShape DEF Reqs
  <2> HIDE DEF x
  <2>3. x.todo # <<>> => Head(x.todo) # "create"
    BY <2>1, <2>2, NoCreateNext
  <2> QED BY <2>1, <2>2, <2>3, DupQuiet DEF Found
<1>8. CASE BeginPatch(a)
  <2>1. PICK parts \in (SUBSET {"traits", "confidence", "completed"}) \ {{}}, traits \in SUBSET Keys :
          req' = [req EXCEPT ![a] = [IdleReq EXCEPT !.traits = traits, !.todo = PatchTodo(parts)]]
    BY <1>8 DEF BeginPatch, PatchTodo
  <2> DEFINE x == [IdleReq EXCEPT !.traits = traits, !.todo = PatchTodo(parts)]
  <2>2. x \in Reqs /\ x.todo = PatchTodo(parts)
    BY IdleShape, PatchTodoShape DEF Reqs, Neat
  <2>3. rows' = rows
    BY <1>8 DEF BeginPatch
  <2> HIDE DEF x
  <2>4. Head(x.todo) # "create"
    BY <2>2, PatchHead
  <2> QED BY <2>1, <2>2, <2>3, <2>4, DupQuiet DEF x, Found
<1>9. CASE FindMark(a)
  <2> DEFINE t == req[a].todo
             found == \E r \in rows : r.ref = "completed"
             u == IF found THEN Tail(t) ELSE <<"putMark">> \o Tail(t)
             x == [req[a] EXCEPT !.todo = u]
  <2>1. t # <<>> /\ t \in Seq(Steps) /\ req' = [req EXCEPT ![a] = x] /\ rows' = rows
    BY <1>0, <1>9 DEF FindMark, At, Idle, Reqs
  <2>2. Tail(t) \in Seq(Steps) /\ <<"putMark">> \o Tail(t) \in Seq(Steps)
        /\ Head(<<"putMark">> \o Tail(t)) = "putMark"
    <3>1. <<"putMark">> \in Seq(Steps)
      BY DEF Steps
    <3> QED BY <2>1, <3>1
  <2>3. Tail(t) # <<>> => Head(Tail(t)) # "create"
    BY <2>1, NoCreateNext
  <2> HIDE DEF t
  <2>4. u \in Seq(Steps) /\ (u # <<>> => Head(u) # "create")
    BY <2>2, <2>3
  <2> HIDE DEF u
  <2>5. x \in Reqs /\ x.todo = u
    BY <1>0, <2>4 DEF Reqs
  <2> HIDE DEF x
  <2> QED BY <2>1, <2>4, <2>5, DupQuiet DEF Found
<1> QED BY <1>1, <1>2, <1>3, <1>4, <1>5, <1>6, <1>7, <1>8, <1>9

LEMMA DupLists ==
  ASSUME BaseInv, DupInv, AllListed, NEW a \in Actors, ListExperiences(a)
  PROVE  DupInv'
<1>0. RowsInv
  BY DEF BaseInv, TypeInv
<1>1. PICK items \in Extractions, listed \in SUBSET Experiences :
        /\ Cardinality(listed) = IF Cardinality(Experiences) <= ListTake
                                 THEN Cardinality(Experiences) ELSE ListTake
        /\ LET texts == {r.val : r \in listed}
               new == Remaining(items, texts)
           IN  req' = [req EXCEPT ![a] =
                 IF new = <<>> THEN [IdleReq EXCEPT !.todo = <<"del">>]
                 ELSE [IdleReq EXCEPT !.todo = <<"create">>, !.items = new, !.texts = texts]]
  BY DEF ListExperiences
<1> DEFINE texts == {r.val : r \in listed}
           new == Remaining(items, texts)
           x == IF new = <<>> THEN [IdleReq EXCEPT !.todo = <<"del">>]
                ELSE [IdleReq EXCEPT !.todo = <<"create">>, !.items = new, !.texts = texts]
<1>2. req' = [req EXCEPT ![a] = x] /\ rows' = rows
  BY <1>1 DEF ListExperiences
<1>3. items \in Seq(Values) /\ texts \subseteq Values
  BY <1>0, ValuesAssumption DEF RowsInv, Experiences
<1>4. new \in Seq(Values)
  BY <1>3, RemainingFacts
<1>5. listed = Experiences
  BY <1>0, <1>1, ListedAll
<1>6. \A r \in Found : r.val \in texts
  BY <1>5 DEF Found, Experiences
<1> HIDE DEF texts, new
<1>7. x \in Reqs /\ Knows(x, Found)
  <2>1. CASE new = <<>>
    <3>1. x = [IdleReq EXCEPT !.todo = <<"del">>]
      BY <2>1
    <3>2. x \in Reqs /\ x.todo = <<"del">>
      BY <3>1, IdleShape, ShortTodos DEF Reqs, Neat
    <3> HIDE DEF x
    <3>3. Head(x.todo) # "create"
      BY <3>2
    <3> QED BY <3>2, <3>3 DEF Knows
  <2>2. CASE new # <<>>
    <3>1. x = [IdleReq EXCEPT !.todo = <<"create">>, !.items = new, !.texts = texts]
      BY <2>2
    <3>2. x \in Reqs /\ x.texts = texts
      BY <1>3, <1>4, <3>1, IdleShape, ShortTodos DEF Reqs
    <3> HIDE DEF x
    <3> QED BY <1>6, <3>2 DEF Knows
  <2> QED BY <2>1, <2>2
<1> HIDE DEF x
<1> QED BY <1>2, <1>7, DupKept DEF Found

LEMMA DupCreates ==
  ASSUME BaseInv, DupInv, OneExtractor, NEW a \in Actors, CreateExperience(a)
  PROVE  DupInv'
<1> DEFINE v == Head(req[a].items)
           x == NextItem(req[a], v)
           new == [id |-> created + 1, ref |-> "experience", val |-> v]
<1>1. /\ req[a] \in Reqs /\ TodoOK(a, req[a]) /\ RowsInv /\ NoNearDuplicates
      /\ Knows(req[a], Found)
  BY DEF BaseInv, TypeInv, DupInv
<1>2. /\ req[a].todo # <<>> /\ Head(req[a].todo) = "create" /\ req' = AfterWrite(a, x)
      /\ rows' = rows \cup {new}
  BY DEF CreateExperience, At, Idle, Insert
<1>3. req[a].items # <<>> /\ ~IsNearDuplicate(v, req[a].texts)
  BY <1>1, <1>2 DEF TodoOK
<1>4. x \in Reqs /\ x.texts = req[a].texts \cup {v} /\ v \in Values
  BY <1>1, <1>3, NextItemShape DEF Reqs
<1>5. new.ref = "experience" /\ new.val = v
  OBVIOUS
<1> HIDE DEF v, x, new
<1>6. \A r \in Found : r.val \in req[a].texts /\ r.val \in Values
  BY <1>1, <1>2 DEF Knows, Found, RowsInv
<1>7. \A r \in Found : <<v, r.val>> \notin Similar /\ <<r.val, v>> \notin Similar
  BY <1>3, <1>4, <1>6, SimilarAssumption DEF IsNearDuplicate
<1>8. Found' = Found \cup {new}
  BY <1>2, <1>5 DEF Found
<1>9. NoNearDuplicates'
  <2> SUFFICES ASSUME NEW r \in rows', NEW s \in rows', r # s,
                      r.ref = "experience", s.ref = "experience"
               PROVE  <<r.val, s.val>> \notin Similar
    BY DEF NoNearDuplicates
  <2>1. (r \in Found \/ r = new) /\ (s \in Found \/ s = new)
    BY <1>2 DEF Found
  <2>2. CASE r \in Found /\ s \in Found
    BY <1>1, <2>2 DEF NoNearDuplicates, Found
  <2>3. CASE r = new /\ s \in Found
    BY <1>5, <1>7, <2>3
  <2>4. CASE r \in Found /\ s = new
    BY <1>5, <1>7, <2>4
  <2> QED BY <2>1, <2>2, <2>3, <2>4
<1>10. /\ req'[a].texts = req[a].texts \cup {v}
       /\ \A b \in Actors : b # a => req'[b].todo = req[b].todo
  BY <1>2, <1>4, WriteFields DEF BaseInv
<1>11. ASSUME NEW b \in Actors PROVE Knows(req[b], Found)'
  <2>1. CASE b = a
    BY <1>5, <1>6, <1>8, <1>10, <2>1 DEF Knows
  <2>2. CASE b # a
    <3>2. req'[b].todo = req[b].todo
      BY <1>10, <2>2
    <3>3. \A c \in Actors : req[c].todo # <<>> /\ Head(req[c].todo) = "create"
                              => "extract" \in Ops[c]
      <4> SUFFICES ASSUME NEW c \in Actors, req[c].todo # <<>>, Head(req[c].todo) = "create"
                   PROVE  "extract" \in Ops[c]
        OBVIOUS
      <4>1. req[c].todo \in Seq(Steps) /\ TodoOK(c, req[c])
        BY DEF BaseInv, TypeInv, Reqs
      <4>2. 1 \in 1..Len(req[c].todo) /\ req[c].todo[1] = "create"
        BY <4>1
      <4> QED BY <4>1, <4>2 DEF TodoOK, OpsOf
    <3>4. ~(req[b].todo # <<>> /\ Head(req[b].todo) = "create")
      BY <1>2, <2>2, <3>3 DEF OneExtractor
    <3> QED BY <3>2, <3>4 DEF Knows
  <2> QED BY <2>1, <2>2
<1> QED BY <1>9, <1>11 DEF DupInv

LEMMA DupStep == OneExtractor /\ AllListed /\ BaseInv /\ DupInv /\ [Next]_vars => DupInv'
<1> SUFFICES ASSUME OneExtractor, AllListed, BaseInv, DupInv, [Next]_vars PROVE DupInv'
  OBVIOUS
<1>1. CASE UNCHANGED vars \/ CacheExpires
  BY <1>1 DEF CacheExpires, DupInv, NoNearDuplicates, Knows, Found, vars
<1>2. ASSUME NEW a \in Actors, Step(a) \/ Abort(a) PROVE DupInv'
  BY <1>2, DupOthers, DupLists, DupCreates DEF Step
<1> QED BY <1>1, <1>2 DEF Next

\* Whatever clients note or delete meanwhile, and wherever jobs fail and run
\* again: no two facts that extractions have found are alike, with one worker
\* and while a user has had no more rows than saveExperiences lists.
THEOREM NoDuplicatesTheorem ==
  ASSUME OneExtractor, AllListed
  PROVE  Spec => []NoNearDuplicates
<1>1. Init => DupInv
  BY IdleShape DEF Init, DupInv, NoNearDuplicates, Knows, Found
<1>2. DupInv => NoNearDuplicates
  BY DEF DupInv
<1>3. Init => BaseInv /\ DupInv
  BY <1>1, BaseInit
<1>4. (BaseInv /\ DupInv) /\ [Next]_vars => (BaseInv /\ DupInv)'
  BY BaseStep, DupStep
<1> QED BY <1>2, <1>3, <1>4, PTL DEF Spec

=============================================================================
