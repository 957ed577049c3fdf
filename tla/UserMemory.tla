----------------------------- MODULE UserMemory -----------------------------
(***************************************************************************)
(* The long-term memory of one user: the memory_chunks rows, the cached    *)
(* profile hugme:ltm:<user>, and the handlers and the worker that read and *)
(* write them (src/memory/long-term-memory.service.ts, LtmCacheService,    *)
(* src/persona/persona.service.ts).  Nothing here is a transaction: every  *)
(* action is one database or Redis call.                                   *)
(*                                                                         *)
(* The rows of a trait, of the confidence score and of the onboarding mark *)
(* carry a reference; the others are facets, experiences a client has      *)
(* noted and experiences an extraction has found.  Only contents of        *)
(* experiences are ever compared.                                          *)
(* Embeddings are written to rows that are there already, and reading a    *)
(* profile does not look at them.                                          *)
(***************************************************************************)
EXTENDS Integers, Sequences, FiniteSets, SequencesExt

CONSTANTS
  Actors,       \* requests of one client, jobs of one worker: one at a time
  Ops,          \* Ops[a]: what actor a does
  Keys,         \* trait keys
  Values,       \* contents of experiences
  Blank,        \* the content of every other row
  Similar,      \* pairs of contents that isNearDuplicateExperience calls alike
  Extractions,  \* the lists of facts an extraction may find
  ListTake,     \* experiences saveExperiences compares with (80)
  MaxRows       \* bound: rows created

Kinds == {"profile", "facet", "delete", "patch", "extract"}

ASSUME ActorsAssumption == Ops \in [Actors -> SUBSET Kinds]
ASSUME SimilarAssumption ==
  \A v, w \in Values : <<v, v>> \in Similar /\ (<<v, w>> \in Similar => <<w, v>> \in Similar)
ASSUME KeysAssumption ==
  /\ IsFiniteSet(Keys)
  /\ Keys \cap {"confidence", "completed", "facet", "noted", "experience"} = {}
ASSUME BoundAssumption == MaxRows \in Nat
ASSUME ValuesAssumption == Blank \notin Values /\ Extractions \subseteq Seq(Values)

Refs == Keys \cup {"confidence", "completed", "facet", "noted", "experience"}
Rows == [id : 1..MaxRows, ref : Refs, val : Values \cup {Blank}]

VARIABLES
  rows,     \* memory_chunks of the user
  created,  \* rows created so far
  cache,    \* the cached profile: a set of profiles with at most one element
  req,      \* req[a]: the handler or job of a
  raced     \* a stale cache has an excuse: see FreshUnlessRaced (history)

vars == <<rows, created, cache, req, raced>>

\* A profile is the rows it was built from, read in three queries.
Empty == [traits |-> {}, experiences |-> {}, others |-> {}]

IdleReq == [todo |-> <<>>, row |-> {}, traits |-> {}, items |-> <<>>, texts |-> {},
            wrote |-> FALSE, built |-> Empty, overtaken |-> FALSE]

Init ==
  /\ rows = {}
  /\ created = 0
  /\ cache = {}
  /\ req = [a \in Actors |-> IdleReq]
  /\ raced = FALSE

Traits == {r \in rows : r.ref \in Keys}
Experiences == {r \in rows : r.ref \in {"noted", "experience"}}
Others == rows \ Experiences
Current == [traits |-> Traits, experiences |-> Experiences, others |-> Others]

Idle(a) == req[a].todo = <<>>
At(a, step) == ~Idle(a) /\ Head(req[a].todo) = step
Starts(a, op) == Idle(a) /\ op \in Ops[a]
Proceed(r) == [r EXCEPT !.todo = Tail(@)]

Builds(a) == ~Idle(a) /\ Last(req[a].todo) = "set"

\* The handlers after actor a has changed the rows and goes on as r: a profile
\* that is being built meanwhile may be out of date.
AfterWrite(a, r) ==
  [b \in Actors |-> IF b = a THEN [r EXCEPT !.wrote = TRUE]
                    ELSE [req[b] EXCEPT !.overtaken = Builds(b)]]

\* Mutant: the new row gets the id of the next one.
InsertAhead(ref, val) ==
  /\ created < MaxRows
  /\ rows' = rows \cup {[id |-> created + 1, ref |-> ref, val |-> val]}
  /\ UNCHANGED created

Insert(ref, val) ==
  /\ created < MaxRows
  /\ rows' = rows \cup {[id |-> created + 1, ref |-> ref, val |-> val]}
  /\ created' = created + 1

-----------------------------------------------------------------------------
(* getCachedOrBuildProfile: GET memory/profile and every chat.  A hit gives *)
(* out the cached profile and changes nothing.                              *)

BeginProfile(a) ==
  /\ Starts(a, "profile") /\ cache = {}
  /\ req' = [req EXCEPT ![a] = [IdleReq EXCEPT
               !.todo = <<"traits", "experiences", "others", "set">>]]
  /\ UNCHANGED <<rows, created, cache, raced>>

ReadTraits(a) ==
  /\ At(a, "traits")
  /\ req' = [req EXCEPT ![a] = [Proceed(@) EXCEPT !.built.traits = Traits]]
  /\ UNCHANGED <<rows, created, cache, raced>>

ReadExperiences(a) ==
  /\ At(a, "experiences")
  /\ req' = [req EXCEPT ![a] = [Proceed(@) EXCEPT !.built.experiences = Experiences]]
  /\ UNCHANGED <<rows, created, cache, raced>>

ReadOthers(a) ==
  /\ At(a, "others")
  /\ req' = [req EXCEPT ![a] = [Proceed(@) EXCEPT !.built.others = Others]]
  /\ UNCHANGED <<rows, created, cache, raced>>

CacheSet(a) ==
  /\ At(a, "set")
  /\ cache' = {req[a].built}
  /\ raced' = req[a].overtaken
  /\ req' = [req EXCEPT ![a] = IdleReq]
  /\ UNCHANGED <<rows, created>>

-----------------------------------------------------------------------------
(* POST memory/chunks and DELETE memory/chunks/:id.                         *)

\* (A client may send a sourceRef of its own; it is taken not to be one of those
\* reserved for traits, score and mark.)
SaveFacet(a) ==
  /\ Starts(a, "facet")
  /\ Insert("facet", Blank) \/ \E v \in Values : Insert("noted", v)
  /\ req' = AfterWrite(a, [IdleReq EXCEPT !.todo = <<"del">>])
  /\ UNCHANGED <<cache, raced>>

FindChunk(a) ==
  /\ Starts(a, "delete")
  /\ \E r \in rows :
       req' = [req EXCEPT ![a] = [IdleReq EXCEPT !.todo = <<"delete", "del">>,
                                                 !.row = {r}]]
  /\ UNCHANGED <<rows, created, cache, raced>>

\* Mutant: deleteChunk leaves the cached profile.
DeleteChunkOnly(a) ==
  /\ At(a, "delete") /\ req[a].row \subseteq rows
  /\ rows' = rows \ req[a].row
  /\ req' = [AfterWrite(a, req[a]) EXCEPT ![a] = IdleReq]
  /\ UNCHANGED <<created, cache, raced>>

DeleteChunk(a) ==
  /\ At(a, "delete") /\ req[a].row \subseteq rows
  /\ rows' = rows \ req[a].row
  /\ req' = AfterWrite(a, Proceed(req[a]))
  /\ UNCHANGED <<created, cache, raced>>

\* The row has gone since it was found, and the delete throws.
DeleteFails(a) ==
  /\ At(a, "delete") /\ ~(req[a].row \subseteq rows)
  /\ req' = [req EXCEPT ![a] = IdleReq]
  /\ UNCHANGED <<rows, created, cache, raced>>

CacheDel(a) ==
  /\ At(a, "del")
  /\ cache' = {}
  /\ raced' = FALSE
  /\ req' = [req EXCEPT ![a] = [IdleReq EXCEPT !.todo = Tail(req[a].todo)]]
  /\ UNCHANGED <<rows, created>>

-----------------------------------------------------------------------------
(* saveExperiences, called by the worker, which drops the cached profile    *)
(* once more when it returns, new facts or none.                            *)

IsNearDuplicate(v, texts) == \E t \in texts : <<v, t>> \in Similar

\* The facts still to be written, once the leading near duplicates are skipped.
Remaining(items, texts) ==
  LET new == {i \in 1..Len(items) : ~IsNearDuplicate(items[i], texts)}
  IN  IF new = {} THEN <<>>
      ELSE SubSeq(items, CHOOSE i \in new : \A k \in new : i <= k, Len(items))

\* Mutant: a fact is compared with what was there before the job only.
ForgetOwn(r, v) ==
  [r EXCEPT !.items = Remaining(Tail(@), r.texts),
            !.todo = IF Remaining(Tail(r.items), r.texts) = <<>> THEN <<"del", "del">>
                     ELSE <<"create">>]

\* The loop after fact v is written.
NextItem(r, v) ==
  [r EXCEPT !.texts = @ \cup {v},
            !.items = Remaining(Tail(@), r.texts \cup {v}),
            !.todo = IF Remaining(Tail(r.items), r.texts \cup {v}) = <<>> THEN <<"del", "del">>
                     ELSE <<"create">>]

\* The most important ListTake experiences; their order is the model's to choose.
ListExperiences(a) ==
  /\ Starts(a, "extract")
  /\ \E items \in Extractions, listed \in SUBSET Experiences :
       /\ Cardinality(listed) =
            IF Cardinality(Experiences) <= ListTake THEN Cardinality(Experiences)
            ELSE ListTake
       /\ LET texts == {r.val : r \in listed}
              new == Remaining(items, texts)
          IN  req' = [req EXCEPT ![a] =
                IF new = <<>> THEN [IdleReq EXCEPT !.todo = <<"del">>]
                ELSE [IdleReq EXCEPT !.todo = <<"create">>, !.items = new, !.texts = texts]]
  /\ UNCHANGED <<rows, created, cache, raced>>

CreateExperience(a) ==
  /\ At(a, "create")
  /\ Insert("experience", Head(req[a].items))
  /\ req' = AfterWrite(a, NextItem(req[a], Head(req[a].items)))
  /\ UNCHANGED <<cache, raced>>

-----------------------------------------------------------------------------
(* PATCH persona/me: the traits, the score and the mark, each if asked for. *)

BeginPatch(a) ==
  /\ Starts(a, "patch")
  /\ \E parts \in (SUBSET {"traits", "confidence", "completed"}) \ {{}} :
     \E traits \in IF "traits" \in parts THEN SUBSET Keys ELSE {{}} :
       req' = [req EXCEPT ![a] = [IdleReq EXCEPT
                 !.traits = traits,
                 !.todo = (IF "traits" \in parts THEN <<"dropTraits", "putTraits">> ELSE <<>>)
                       \o (IF "confidence" \in parts THEN <<"dropScore", "putScore">> ELSE <<>>)
                       \o (IF "completed" \in parts THEN <<"findMark">> ELSE <<>>)
                       \o <<"del">>]]
  /\ UNCHANGED <<rows, created, cache, raced>>

DropTraits(a) ==
  /\ At(a, "dropTraits")
  /\ rows' = rows \ Traits
  /\ req' = AfterWrite(a, Proceed(req[a]))
  /\ UNCHANGED <<created, cache, raced>>

\* createMany of the traits that are not blank, of which there may be none.
PutTraits(a) ==
  /\ At(a, "putTraits")
  /\ created + Cardinality(req[a].traits) <= MaxRows
  /\ LET ids == created + 1 .. created + Cardinality(req[a].traits) IN
     \E key \in Bijection(ids, req[a].traits) :
       rows' = rows \cup {[id |-> i, ref |-> key[i], val |-> Blank] : i \in ids}
  /\ created' = created + Cardinality(req[a].traits)
  /\ req' = IF req[a].traits = {} THEN [req EXCEPT ![a] = Proceed(@)]
            ELSE AfterWrite(a, Proceed(req[a]))
  /\ UNCHANGED <<cache, raced>>

\* Mutant: the old score stays.
DropNoScore(a) ==
  /\ At(a, "dropScore")
  /\ req' = [req EXCEPT ![a] = Proceed(@)]
  /\ UNCHANGED <<rows, created, cache, raced>>

DropScore(a) ==
  /\ At(a, "dropScore")
  /\ rows' = {r \in rows : r.ref # "confidence"}
  /\ req' = AfterWrite(a, Proceed(req[a]))
  /\ UNCHANGED <<created, cache, raced>>

PutScore(a) ==
  /\ At(a, "putScore")
  /\ Insert("confidence", Blank)
  /\ req' = AfterWrite(a, Proceed(req[a]))
  /\ UNCHANGED <<cache, raced>>

FindMark(a) ==
  /\ At(a, "findMark")
  /\ req' = [req EXCEPT ![a].todo =
               IF \E r \in rows : r.ref = "completed" THEN Tail(@)
               ELSE <<"putMark">> \o Tail(@)]
  /\ UNCHANGED <<rows, created, cache, raced>>

PutMark(a) ==
  /\ At(a, "putMark")
  /\ Insert("completed", Blank)
  /\ req' = AfterWrite(a, Proceed(req[a]))
  /\ UNCHANGED <<cache, raced>>

-----------------------------------------------------------------------------
(* A call fails or the process ends: what was written stays, the profile    *)
(* stays cached.  And a cached profile goes away with its TTL of 1800 s.    *)

Abort(a) ==
  /\ ~Idle(a)
  /\ raced' = (raced \/ req[a].wrote)
  /\ req' = [req EXCEPT ![a] = IdleReq]
  /\ UNCHANGED <<rows, created, cache>>

\* Mutant: the profile is cached without a TTL.
NoExpiry == FALSE /\ UNCHANGED vars

CacheExpires ==
  /\ cache # {}
  /\ cache' = {}
  /\ raced' = FALSE
  /\ UNCHANGED <<rows, created, req>>

Step(a) ==
  \/ BeginProfile(a) \/ ReadTraits(a) \/ ReadExperiences(a) \/ ReadOthers(a) \/ CacheSet(a)
  \/ SaveFacet(a) \/ FindChunk(a) \/ DeleteChunk(a) \/ DeleteFails(a) \/ CacheDel(a)
  \/ ListExperiences(a) \/ CreateExperience(a)
  \/ BeginPatch(a) \/ DropTraits(a) \/ PutTraits(a) \/ DropScore(a) \/ PutScore(a)
  \/ FindMark(a) \/ PutMark(a)

Next == (\E a \in Actors : Step(a) \/ Abort(a)) \/ CacheExpires

Spec == Init /\ [][Next]_vars

\* Redis lets the profile go when its TTL is over; a hit does not renew it.
FairSpec == Spec /\ WF_vars(CacheExpires)

-----------------------------------------------------------------------------
(* Properties.                                                              *)

Profiles == [traits : SUBSET Rows, experiences : SUBSET Rows, others : SUBSET Rows]
Steps == {"traits", "experiences", "others", "set", "delete", "del", "create", "dropTraits",
          "putTraits", "dropScore", "putScore", "findMark", "putMark"}

\* The shapes of the rows, the cache and what a handler holds.
TypeOK ==
  /\ rows \subseteq Rows
  /\ created \in 0..MaxRows
  /\ \A r \in rows : r.id <= created
  /\ cache \subseteq Profiles /\ Cardinality(cache) <= 1
  /\ raced \in BOOLEAN
  /\ \A a \in Actors :
       /\ req[a].todo \in Seq(Steps)
       /\ req[a].row \subseteq Rows
       /\ req[a].traits \subseteq Keys
       /\ req[a].items \in Seq(Values) /\ req[a].texts \subseteq Values
       /\ req[a].wrote \in BOOLEAN /\ req[a].overtaken \in BOOLEAN
       /\ req[a].built \in Profiles

\* The comment on saveExperiences: near duplicates are skipped, so no two facts
\* extracted for a user say the same, whatever jobs fail and run again.
NoNearDuplicates ==
  \A r, s \in rows :
    r # s /\ r.ref = "experience" /\ s.ref = "experience" => <<r.val, s.val>> \notin Similar

\* A patch that failed half way and is sent again leaves one row of each trait,
\* one score and one onboarding mark.
OneRowPerRef ==
  \A r, s \in rows :
    r.ref = s.ref /\ r.ref \in Keys \cup {"confidence", "completed"} => r = s

\* The cached profile is that of the present rows unless a handler is still to
\* drop it, it was built while rows changed, or a handler that had changed
\* rows failed before it could drop it.
FreshUnlessRaced ==
  ~raced /\ (\A a \in Actors : ~req[a].wrote) => cache \subseteq {Current}

\* Whatever races and failures left it, a stale profile is not served for ever.
CacheConverges == <>[](cache \subseteq {Current})

=============================================================================
