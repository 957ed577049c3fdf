----------------------------- MODULE Experience -----------------------------
(***************************************************************************)
(* What counts as an experience and as the same experience                 *)
(* (src/memory/experience-extract.ts), on texts that are sequences of      *)
(* atoms: a bullet, a space, the subject, the adverb that may follow it, a *)
(* mark of session digests, or a letter.  The limits in characters are     *)
(* limits in atoms here.                                                   *)
(***************************************************************************)
EXTENDS Integers, Sequences, FiniteSets, SequencesExt

CONSTANTS
  Atoms, Space, Bullet, Subject, Adverb, DigestMark,
  Hints,      \* the letters EXPERIENCE_HINT looks for
  LowerOf,    \* LowerOf[x]: toLowerCase
  MinText,    \* 6 characters in the code, for the LLM's facts
  MinSaid,    \* 8 characters, for a user's own sentence
  MaxText,    \* 280 characters
  MaxSaid,    \* 200 characters, for a user's own sentence
  MaxParsed,  \* 5 facts of an answer
  MaxGuessed  \* 3 facts of a transcript

ASSUME AtomsAssumption ==
  /\ Hints \cup {Space, Bullet, Subject, Adverb, DigestMark} \subseteq Atoms
  /\ LowerOf \in [Atoms -> Atoms] /\ \A x \in Atoms : LowerOf[LowerOf[x]] = LowerOf[x]
ASSUME LimitsAssumption == {MinText, MinSaid, MaxText, MaxSaid, MaxParsed, MaxGuessed} \subseteq Nat \ {0}

Lower(t) == [i \in 1..Len(t) |-> LowerOf[t[i]]]

Has(t, x) == \E i \in 1..Len(t) : t[i] = x

Drop(t, x) == IF t # <<>> /\ Head(t) = x THEN Tail(t) ELSE t

\* replace(/\s+/g, ' '): every run of white space is one space.
Collapse(t) ==
  FoldLeft(LAMBDA seen, x : IF x = Space /\ seen # <<>> /\ Last(seen) = Space THEN seen
                            ELSE Append(seen, x), <<>>, t)

\* trim, of a text without runs of spaces.
Trim(t) == Reverse(Drop(Reverse(Drop(t, Space)), Space))

DropBullet(t) == IF t # <<>> /\ Head(t) = Bullet THEN Drop(Tail(t), Space) ELSE t

DropSubject(t) == IF t # <<>> /\ Head(t) = Subject THEN Drop(Tail(t), Adverb) ELSE t

Slice(t, max) == SubSeq(t, 1, IF Len(t) < max THEN Len(t) ELSE max)

\* normalizeExperienceContent.  Doing it twice may strip more than once: the
\* parser, saveExperiences and isNearDuplicateExperience each do it.
Normalize(t) == Slice(Trim(DropSubject(DropBullet(Trim(Collapse(t))))), MaxText)

-----------------------------------------------------------------------------
Includes(t, u) == \E i \in 0..(Len(t) - Len(u)) : SubSeq(t, i + 1, i + Len(u)) = u

Bigrams(t) ==
  LET u == SelectSeq(t, LAMBDA x : x # Space)
  IN  {<<u[i], u[i + 1]>> : i \in 1..Len(u) - 1}

\* jaccardBigrams(a, b) >= 0.72.
AlikeByBigrams(t, u) ==
  LET common == Cardinality(Bigrams(t) \cap Bigrams(u))
      all == Cardinality(Bigrams(t) \cup Bigrams(u))
  IN  Bigrams(t) # {} /\ Bigrams(u) # {} /\ 100 * common >= 72 * all

Alike(t, u) == Includes(t, u) \/ Includes(u, t) \/ AlikeByBigrams(t, u)

\* Mutant: only equal texts are duplicates.
EqualToOne(candidate, texts) ==
  LET t == Lower(Normalize(candidate))
  IN  t = <<>> \/ \E e \in texts : Lower(Normalize(e)) = t

\* isNearDuplicateExperience: a text that comes to nothing counts as known.
IsNearDuplicate(candidate, texts) ==
  LET t == Lower(Normalize(candidate))
  IN  t = <<>> \/ \E e \in texts : LET u == Lower(Normalize(e)) IN u # <<>> /\ Alike(t, u)

-----------------------------------------------------------------------------
IsNoise(t) == Has(t, DigestMark)

\* One more fact for a list that has less than max and none of the same text.
Collect(facts, t, max) ==
  IF Len(facts) < max /\ \A i \in 1..Len(facts) : Lower(facts[i]) # Lower(t)
  THEN Append(facts, t) ELSE facts

\* parseExperienceExtractResponse, of an answer that is a list of texts; one
\* that is no JSON, or has no list, is the empty list.
Parse(answer) ==
  FoldLeft(LAMBDA facts, item :
             LET t == Normalize(item)
             IN  IF Len(t) < MinText \/ IsNoise(t) THEN facts ELSE Collect(facts, t, MaxParsed),
           <<>>, answer)

\* heuristicExtractExperiences, of messages with a role and a text.
Guess(messages) ==
  FoldLeft(LAMBDA facts, m :
             LET t == Normalize(m.text)
             IN  IF m.role # "user" \/ Len(t) \notin MinSaid..MaxSaid \/ IsNoise(t)
                    \/ \A h \in Hints : ~Has(t, h)
                 THEN facts ELSE Collect(facts, t, MaxGuessed),
           <<>>, messages)

=============================================================================
