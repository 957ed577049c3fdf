------------------------- MODULE ConversationProofs -------------------------
(***************************************************************************)
(* Safety of one session for any number of clients, any bound and any of   *)
(* the disruptions: the rows always form a tree whose leaf is a row        *)
(* (TreeTheorem), the leaf never moves back to an ancestor when no client  *)
(* names a parent of its own (LeafTheorem), and nothing a row, the blob, a *)
(* job or a handler refers to is missing (TypeTheorem).                    *)
(*                                                                         *)
(* Most steps are quiet: they write neither a row nor the leaf, and take   *)
(* their client nowhere near writing one.  Four actions are not, and they  *)
(* are where the argument for the tree is: BeginAppend and BeginReply read *)
(* the leaf, CreateMessage writes a row under it, SetLeaf makes the row    *)
(* the leaf.                                                               *)
(*                                                                         *)
(* The second half is what the proofs of HistoryProofs rest on as well:    *)
(* the walk to the root over any rows that are a tree, what trimming and   *)
(* summarising do to any sequence, and one lemma for each action that says *)
(* what it does, so that no later proof has to expand an action.           *)
(***************************************************************************)
EXTENDS Conversation, TLAPS, WellFoundedInduction, FiniteSetTheorems, SequenceTheorems

Fields == {"pc", "op", "role", "parent", "titled", "msg", "blob", "cold"}

\* The parts of the state the tree depends on have their shapes.  Blobs and
\* digests are left out: nothing below looks into them.
Shapes ==
  /\ msgs \in Seq([parent : Nat, role : ValidRoles])
  /\ {"exists", "leaf", "title", "digest", "archived"} = DOMAIN session
  /\ session.leaf \in Nat
  /\ DOMAIN req = Clients
  /\ \A c \in Clients :
       /\ DOMAIN req[c] = Fields
       /\ req[c].parent \in Nat
       /\ At(c, "create") => req[c].role \in ValidRoles

\* What is about to become the leaf is a row.
Written == \A c \in Clients : At(c, "setLeaf") => req[c].msg \in 1..Len(msgs)

TreeInv == Shapes /\ TreeOK /\ Written

\* A row that is written and not yet the leaf is known to its handler alone:
\* it is neither the leaf nor the parent of a row or of a row to come.
FreshRow(m) ==
  /\ session.leaf # m
  /\ \A k \in 1..Len(msgs) : msgs[k].parent # m
  /\ \A d \in Clients : At(d, "create") => req[d].parent # m

FreshInv ==
  /\ \A c \in Clients : At(c, "setLeaf") => FreshRow(req[c].msg)
  /\ \A c, d \in Clients :
       At(c, "setLeaf") /\ At(d, "setLeaf") /\ req[c].msg = req[d].msg => c = d

\* A step that leaves rows and leaf alone and takes its client c elsewhere.
Quiet(c) ==
  /\ msgs' = msgs
  /\ DOMAIN session' = DOMAIN session /\ session'.leaf = session.leaf
  /\ DOMAIN req' = Clients
  /\ \A d \in Clients \ {c} : req'[d] = req[d]
  /\ DOMAIN req'[c] = Fields
  /\ req'[c].pc \notin {"create", "setLeaf"}
  /\ req'[c].parent \in Nat /\ req'[c].parent <= Len(msgs)

LEMMA ElementType ==
  ASSUME NEW S, NEW s \in Seq(S), NEW k \in 1..Len(s)
  PROVE  s[k] \in S
OBVIOUS

LEMMA QuietKeeps ==
  ASSUME TreeInv, NEW c \in Clients, Quiet(c)
  PROVE  TreeInv' /\ (FreshInv => FreshInv')
<1>1. Shapes'
  <2>1. \A d \in Clients : /\ DOMAIN req'[d] = Fields
                           /\ req'[d].parent \in Nat
                           /\ req'[d].pc = "create" => req'[d].role \in ValidRoles
    BY DEF TreeInv, Shapes, Quiet, At
  <2> QED
    BY <2>1 DEF TreeInv, Shapes, Quiet, At
<1>2. TreeOK'
  <2>1. \A d \in Clients : req'[d].parent <= Len(msgs)
    BY DEF TreeInv, TreeOK, Quiet
  <2> QED
    BY <2>1 DEF TreeInv, TreeOK, Quiet
<1>3. \A d \in Clients :
        /\ req'[d].pc = "create" => At(d, "create") /\ req'[d] = req[d]
        /\ req'[d].pc = "setLeaf" => At(d, "setLeaf") /\ req'[d] = req[d]
  BY DEF Quiet, At
<1>4. Written'
  BY <1>3 DEF TreeInv, Written, Quiet, At
<1>5. ASSUME FreshInv PROVE FreshInv'
  <2>1. ASSUME NEW m, FreshRow(m) PROVE FreshRow(m)'
    BY <1>3, <2>1 DEF FreshRow, Quiet, At
  <2> QED
    BY <1>3, <1>5, <2>1 DEF FreshInv, Quiet, At
<1> QED
  BY <1>1, <1>2, <1>4, <1>5 DEF TreeInv

-----------------------------------------------------------------------------
(* The quiet actions.                                                       *)

LEMMA IdleShape ==
  DOMAIN IdleReq = Fields /\ IdleReq.pc = "idle" /\ IdleReq.parent = 0
BY DEF IdleReq, Fields, NoMsg

\* buildChatContext goes on with a blob without touching the parent.
LEMMA WithBlobShape ==
  ASSUME NEW r, DOMAIN r = Fields
  PROVE  /\ DOMAIN WithBlob(r) = Fields /\ WithBlob(r).parent = r.parent
         /\ WithBlob(r).pc \notin {"create", "setLeaf"}
         /\ DOMAIN AfterTrim(r) = Fields /\ AfterTrim(r).parent = r.parent
         /\ AfterTrim(r).pc \notin {"create", "setLeaf"}
BY DEF WithBlob, AfterTrim, Fields

LEMMA GotoQuiet ==
  ASSUME TreeInv, NEW c \in Clients, NEW pc, pc \notin {"create", "setLeaf"},
         Goto(c, pc), msgs' = msgs,
         DOMAIN session' = DOMAIN session, session'.leaf = session.leaf
  PROVE  Quiet(c)
BY DEF Goto, Quiet, TreeInv, Shapes, TreeOK, Fields

LEMMA DoneQuiet ==
  ASSUME TreeInv, NEW c \in Clients, Done(c), msgs' = msgs,
         DOMAIN session' = DOMAIN session, session'.leaf = session.leaf
  PROVE  Quiet(c)
BY IdleShape DEF Done, Quiet, TreeInv, Shapes

LEMMA BeginsQuiet ==
  ASSUME TreeInv, NEW c \in Clients, NEW op, NEW pc, pc \notin {"create", "setLeaf"},
         Begins(c, op, pc), msgs' = msgs, session' = session
  PROVE  Quiet(c)
BY IdleShape DEF Begins, Quiet, TreeInv, Shapes, Fields

\* Where a handler goes on with r, of the right fields and parent.
LEMMA BecomesQuiet ==
  ASSUME TreeInv, NEW c \in Clients, NEW r, req' = [req EXCEPT ![c] = r],
         DOMAIN r = Fields, r.pc \notin {"create", "setLeaf"},
         r.parent \in Nat, r.parent <= Len(msgs),
         msgs' = msgs, session' = session
  PROVE  Quiet(c)
BY DEF Quiet, TreeInv, Shapes

LEMMA ContextQuiet ==
  ASSUME TreeInv, NEW c \in Clients, ContextStep(c)
  PROVE  Quiet(c)
<1>0. DOMAIN req[c] = Fields /\ req[c].parent \in Nat /\ req[c].parent <= Len(msgs)
  BY DEF TreeInv, Shapes, TreeOK
<1>1. CASE BeginContext(c)
  BY <1>1, BeginsQuiet DEF BeginContext
<1>2. CASE GetBlob(c)
  <2>1. CASE stm.messages # <<>>
    <3> DEFINE r == [req[c] EXCEPT !.blob = stm]
    <3>1. DOMAIN r = Fields /\ r.parent = req[c].parent
      BY <1>0 DEF Fields
    <3>2. req' = [req EXCEPT ![c] = WithBlob(r)]
      BY <1>2, <2>1 DEF GetBlob
    <3> HIDE DEF r
    <3>3. DOMAIN WithBlob(r) = Fields /\ WithBlob(r).parent = r.parent
          /\ WithBlob(r).pc \notin {"create", "setLeaf"}
      BY <3>1, WithBlobShape
    <3> QED
      BY <1>0, <1>2, <3>1, <3>2, <3>3, BecomesQuiet DEF GetBlob
  <2>2. CASE stm.messages = <<>>
    <3> DEFINE r == [req[c] EXCEPT !.pc = "loadSession"]
    <3>1. DOMAIN r = Fields /\ r.parent = req[c].parent /\ r.pc = "loadSession"
      BY <1>0 DEF Fields
    <3>2. req' = [req EXCEPT ![c] = r]
      BY <1>2, <2>2 DEF GetBlob
    <3> HIDE DEF r
    <3> QED
      BY <1>0, <1>2, <3>1, <3>2, BecomesQuiet DEF GetBlob
  <2> QED
    BY <2>1, <2>2
<1>3. CASE LoadSession(c)
  <2> DEFINE parent == IF session.exists THEN session.leaf ELSE NoMsg
             digest == IF session.exists THEN session.digest ELSE <<>>
             r == [req[c] EXCEPT !.pc = "loadPath", !.parent = parent,
                                 !.blob.prefix = digest]
  <2>1. parent \in Nat /\ parent <= Len(msgs)
    BY DEF TreeInv, Shapes, TreeOK, NoMsg
  <2>2. req' = [req EXCEPT ![c] = r]
    BY <1>3 DEF LoadSession
  <2> HIDE DEF parent, digest
  <2>3. DOMAIN r = Fields /\ r.parent = parent /\ r.pc = "loadPath"
    BY <1>0 DEF Fields
  <2> HIDE DEF r
  <2> QED
    BY <1>3, <2>1, <2>2, <2>3, BecomesQuiet DEF LoadSession
<1>4. CASE LoadPath(c)
  <2> DEFINE path == IF ~session.exists THEN <<>>
                     ELSE IF req[c].parent = NoMsg THEN AllMsgs
                     ELSE PathTo(req[c].parent)
             leaf == IF path = <<>> THEN NoMsg ELSE path[Len(path)]
             cold == req[c].blob.prefix # <<>>
             r == [req[c] EXCEPT !.blob.messages = path, !.blob.leaf = leaf,
                                 !.cold = cold]
             q == [r EXCEPT !.pc = "saveCold"]
  <2>1. req' = [req EXCEPT ![c] = IF path # <<>> THEN q ELSE WithBlob(r)]
    BY <1>4, Zenon DEF LoadPath
  <2> HIDE DEF path, leaf, cold
  <2>2. DOMAIN r = Fields /\ r.parent = req[c].parent
    BY <1>0 DEF Fields
  <2> HIDE DEF r
  <2>3. DOMAIN q = Fields /\ q.parent = req[c].parent /\ q.pc = "saveCold"
    BY <2>2 DEF Fields
  <2> HIDE DEF q
  <2>4. DOMAIN WithBlob(r) = Fields /\ WithBlob(r).parent = req[c].parent
        /\ WithBlob(r).pc \notin {"create", "setLeaf"}
    BY <2>2, WithBlobShape
  <2>5. CASE path # <<>>
    BY <1>0, <1>4, <2>1, <2>3, <2>5, BecomesQuiet DEF LoadPath
  <2>6. CASE path = <<>>
    BY <1>0, <1>4, <2>1, <2>4, <2>6, BecomesQuiet DEF LoadPath
  <2> QED
    BY <2>5, <2>6
<1>5. CASE SaveCold(c)
  <2>1. DOMAIN WithBlob(req[c]) = Fields /\ WithBlob(req[c]).parent = req[c].parent
        /\ WithBlob(req[c]).pc \notin {"create", "setLeaf"}
    BY <1>0, WithBlobShape
  <2> QED
    BY <1>0, <1>5, <2>1, BecomesQuiet DEF SaveCold
<1>6. CASE SaveKept(c)
  <2> DEFINE q == [req[c] EXCEPT !.pc = "enqueue"]
  <2>1. DOMAIN q = Fields /\ q.parent = req[c].parent /\ q.pc = "enqueue"
    BY <1>0 DEF Fields
  <2>2. req' = [req EXCEPT ![c] = IF TrustsDigest(req[c]) THEN AfterTrim(req[c]) ELSE q]
    BY <1>6 DEF SaveKept
  <2> HIDE DEF q
  <2>3. DOMAIN AfterTrim(req[c]) = Fields /\ AfterTrim(req[c]).parent = req[c].parent
        /\ AfterTrim(req[c]).pc \notin {"create", "setLeaf"}
    BY <1>0, WithBlobShape
  <2>4. CASE TrustsDigest(req[c])
    BY <1>0, <1>6, <2>2, <2>3, <2>4, BecomesQuiet DEF SaveKept
  <2>5. CASE ~TrustsDigest(req[c])
    BY <1>0, <1>6, <2>1, <2>2, <2>5, BecomesQuiet DEF SaveKept
  <2> QED
    BY <2>4, <2>5
<1>7. CASE EnqueueCompress(c)
  <2>1. DOMAIN AfterTrim(req[c]) = Fields /\ AfterTrim(req[c]).parent = req[c].parent
        /\ AfterTrim(req[c]).pc \notin {"create", "setLeaf"}
    BY <1>0, WithBlobShape
  <2> QED
    BY <1>0, <1>7, <2>1, BecomesQuiet DEF EnqueueCompress
<1>8. CASE PersistDigest(c)
  <2>1. DOMAIN session' = DOMAIN session /\ session'.leaf = session.leaf
    BY <1>8 DEF PersistDigest, TreeInv, Shapes
  <2> QED
    BY <1>8, <2>1, GotoQuiet DEF PersistDigest
<1>9. CASE EndContext(c)
  BY <1>9, DoneQuiet DEF EndContext
<1> QED
  BY <1>1, <1>2, <1>3, <1>4, <1>5, <1>6, <1>7, <1>8, <1>9 DEF ContextStep

LEMMA SessionQuiet ==
  ASSUME TreeInv, NEW c \in Clients, SessionStep(c)
  PROVE  Quiet(c)
<1>1. CASE BeginEnd(c)
  BY <1>1, BeginsQuiet DEF BeginEnd
<1>2. CASE BeginExtract(c)
  BY <1>2, BeginsQuiet DEF BeginExtract
<1>3. CASE LoadLeaf(c)
  <2> DEFINE parent == IF ~session.exists THEN NoMsg
                       ELSE IF session.leaf # NoMsg THEN session.leaf ELSE Len(msgs)
             r == [req[c] EXCEPT !.pc = "push", !.parent = parent]
  <2>1. parent \in Nat /\ parent <= Len(msgs)
    BY DEF TreeInv, Shapes, TreeOK, NoMsg
  <2>2. req' = [req EXCEPT ![c] = r]
    BY <1>3 DEF LoadLeaf, TreeInv, Shapes
  <2> HIDE DEF parent
  <2>3. DOMAIN r = Fields /\ r.parent = parent /\ r.pc = "push"
    BY DEF Fields, TreeInv, Shapes
  <2> HIDE DEF r
  <2> QED
    BY <1>3, <2>1, <2>2, <2>3, BecomesQuiet DEF LoadLeaf
<1>4. CASE EnqueueExplicit(c)
  BY <1>4, GotoQuiet, DoneQuiet DEF EnqueueExplicit
<1>5. CASE ClearStm(c)
  BY <1>5, GotoQuiet DEF ClearStm
<1>6. CASE Archive(c)
  <2>1. DOMAIN session' = DOMAIN session /\ session'.leaf = session.leaf
    BY <1>6 DEF Archive, TreeInv, Shapes
  <2> QED
    BY <1>6, <2>1, DoneQuiet DEF Archive
<1>7. CASE BeginPatch(c)
  BY <1>7, BeginsQuiet DEF BeginPatch
<1>8. CASE PatchSession(c)
  <2>1. DOMAIN session' = DOMAIN session /\ session'.leaf = session.leaf
    BY <1>8 DEF PatchSession, TreeInv, Shapes
  <2> QED
    BY <1>8, <2>1, DoneQuiet DEF PatchSession
<1> QED
  BY <1>1, <1>2, <1>3, <1>4, <1>5, <1>6, <1>7, <1>8 DEF SessionStep

LEMMA AppendTailQuiet ==
  ASSUME TreeInv, NEW c \in Clients, GetStm(c) \/ SetStm(c) \/ RecordUsage(c)
  PROVE  Quiet(c)
<1>1. CASE GetStm(c)
  <2> DEFINE r == [req[c] EXCEPT !.pc = "setStm", !.blob = stm]
  <2>1. req' = [req EXCEPT ![c] = r]
    BY <1>1 DEF GetStm, TreeInv, Shapes
  <2>2. DOMAIN r = Fields /\ r.parent = req[c].parent /\ r.pc = "setStm"
    BY DEF Fields, TreeInv, Shapes
  <2>3. req[c].parent \in Nat /\ req[c].parent <= Len(msgs)
    BY DEF TreeInv, Shapes, TreeOK
  <2> HIDE DEF r
  <2> QED
    BY <1>1, <2>1, <2>2, <2>3, BecomesQuiet DEF GetStm
<1>2. CASE SetStm(c)
  BY <1>2, GotoQuiet, DoneQuiet DEF SetStm
<1>3. CASE RecordUsage(c)
  BY <1>3, DoneQuiet DEF RecordUsage
<1> QED
  BY <1>1, <1>2, <1>3

-----------------------------------------------------------------------------
(* The actions that read the leaf, write a row and set the leaf.            *)

\* c takes over a request r that will write a row under parent.
LEMMA ReadyToCreate ==
  ASSUME TreeInv, NEW c \in Clients, NEW r, req' = [req EXCEPT ![c] = r],
         DOMAIN r = Fields, r.pc = "create", r.role \in ValidRoles,
         r.parent \in Nat, r.parent <= Len(msgs),
         msgs' = msgs, session' = session
  PROVE  /\ TreeInv'
         /\ FreshInv /\ r.parent = session.leaf => FreshInv'
<1>1. /\ req'[c] = r /\ DOMAIN req' = Clients
      /\ \A d \in Clients \ {c} : req'[d] = req[d]
  BY DEF TreeInv, Shapes
<1>2. Shapes'
  <2>1. \A d \in Clients : /\ DOMAIN req'[d] = Fields
                           /\ req'[d].parent \in Nat
                           /\ req'[d].pc = "create" => req'[d].role \in ValidRoles
    BY <1>1 DEF TreeInv, Shapes, At
  <2> QED
    BY <1>1, <2>1 DEF TreeInv, Shapes, At
<1>3. TreeOK'
  <2>1. \A d \in Clients : req'[d].parent <= Len(msgs)
    BY <1>1 DEF TreeInv, TreeOK
  <2> QED
    BY <2>1 DEF TreeInv, TreeOK
<1>4. \A d \in Clients :
        /\ req'[d].pc = "setLeaf" => d # c /\ At(d, "setLeaf") /\ req'[d] = req[d]
        /\ req'[d].pc = "create" => d = c \/ (At(d, "create") /\ req'[d] = req[d])
  BY <1>1 DEF At
<1>5. Written'
  BY <1>4 DEF TreeInv, Written, At
<1>6. ASSUME FreshInv, r.parent = session.leaf PROVE FreshInv'
  <2>1. ASSUME NEW m, FreshRow(m) PROVE FreshRow(m)'
    BY <1>1, <1>4, <1>6, <2>1 DEF FreshRow, At
  <2> QED
    BY <1>4, <1>6, <2>1 DEF FreshInv, At
<1> QED
  BY <1>2, <1>3, <1>5, <1>6 DEF TreeInv

\* A message takes the session's leaf as its parent, unless it is a branch.
LEMMA BeginAppendKeeps ==
  ASSUME TreeInv, NEW c \in Clients, BeginAppend(c)
  PROVE  TreeInv' /\ (FreshInv /\ "branch" \notin Ops[c] => FreshInv')
<1>1. PICK role \in Roles \cap ValidRoles, op \in {"append", "branch"} \cap Ops[c] :
        \E parent \in IF op = "append" THEN {session.leaf} ELSE 1..Len(msgs) :
          req' = [req EXCEPT ![c] =
                    [IdleReq EXCEPT !.pc = "create", !.op = op, !.role = role,
                                    !.parent = parent,
                                    !.titled = session.title = NoTitle
                                                 /\ role = "user"]]
  BY DEF BeginAppend
<1>2. PICK parent \in IF op = "append" THEN {session.leaf} ELSE 1..Len(msgs) :
        req' = [req EXCEPT ![c] =
                  [IdleReq EXCEPT !.pc = "create", !.op = op, !.role = role,
                                  !.parent = parent,
                                  !.titled = session.title = NoTitle
                                               /\ role = "user"]]
  BY <1>1
<1> DEFINE titled == session.title = NoTitle /\ role = "user"
           r == [IdleReq EXCEPT !.pc = "create", !.op = op, !.role = role,
                                !.parent = parent, !.titled = titled]
<1>3. req' = [req EXCEPT ![c] = r]
  BY <1>2
<1> HIDE DEF titled
<1>4. DOMAIN r = Fields /\ r.pc = "create" /\ r.role = role /\ r.parent = parent
  BY IdleShape DEF Fields
<1> HIDE DEF r
<1>5. parent \in Nat /\ parent <= Len(msgs)
  BY DEF TreeInv, Shapes, TreeOK
<1>6. "branch" \notin Ops[c] => parent = session.leaf
  OBVIOUS
<1> QED
  BY <1>3, <1>4, <1>5, <1>6, ReadyToCreate DEF BeginAppend

LEMMA BeginReplyKeeps ==
  ASSUME TreeInv, NEW c \in Clients, BeginReply(c)
  PROVE  TreeInv' /\ (FreshInv => FreshInv')
<1> DEFINE r == [IdleReq EXCEPT !.pc = "create", !.op = "chat", !.role = "assistant",
                                !.parent = session.leaf]
<1>1. req' = [req EXCEPT ![c] = r]
  BY Zenon DEF BeginReply
<1>2. /\ DOMAIN r = Fields /\ r.pc = "create" /\ r.role = "assistant"
      /\ r.parent = session.leaf
  BY IdleShape DEF Fields
<1> HIDE DEF r
<1>3. session.leaf \in Nat /\ session.leaf <= Len(msgs) /\ r.role \in ValidRoles
  BY <1>2 DEF TreeInv, Shapes, TreeOK, ValidRoles
<1> QED
  BY <1>1, <1>2, <1>3, ReadyToCreate DEF BeginReply

\* The new row is younger than its parent and known to nobody else.
LEMMA CreateMessageKeeps ==
  ASSUME TreeInv, NEW c \in Clients, CreateMessage(c)
  PROVE  TreeInv' /\ (FreshInv => FreshInv')
<1>0. PICK new : new = Len(msgs) + 1
  OBVIOUS
<1> DEFINE row == [parent |-> req[c].parent, role |-> req[c].role]
           r == [req[c] EXCEPT !.pc = "setLeaf", !.msg = new]
<1>1. At(c, "create") /\ session' = session
  BY DEF CreateMessage
<1>2. row \in [parent : Nat, role : ValidRoles] /\ row.parent = req[c].parent
  BY <1>1 DEF TreeInv, Shapes
<1>3. msgs' = Append(msgs, row)
  BY DEF CreateMessage
<1> HIDE DEF row
<1>4. /\ msgs' \in Seq([parent : Nat, role : ValidRoles])
      /\ Len(msgs') = new /\ msgs'[new] = row
      /\ \A m \in 1..Len(msgs) : msgs'[m] = msgs[m]
      /\ Len(msgs) \in Nat /\ new \in Nat
  BY <1>0, <1>2, <1>3 DEF TreeInv, Shapes
<1>5. req' = [req EXCEPT ![c] = r]
  BY <1>0 DEF CreateMessage, TreeInv, Shapes
<1>6. /\ DOMAIN r = Fields /\ r.pc = "setLeaf" /\ r.msg = new
      /\ r.parent = req[c].parent
  BY DEF Fields, TreeInv, Shapes
<1> HIDE DEF r
<1>7. /\ req'[c] = r /\ DOMAIN req' = Clients
      /\ \A d \in Clients \ {c} : req'[d] = req[d]
  BY <1>5 DEF TreeInv, Shapes
<1>8. \A d \in Clients : req'[d].parent = req[d].parent
  BY <1>6, <1>7
<1>9. Shapes'
  <2>1. \A d \in Clients : /\ DOMAIN req'[d] = Fields
                           /\ req'[d].parent \in Nat
                           /\ req'[d].pc = "create" => req'[d].role \in ValidRoles
    BY <1>6, <1>7, <1>8 DEF TreeInv, Shapes, At
  <2> QED
    BY <1>1, <1>4, <1>7, <2>1 DEF TreeInv, Shapes, At
<1>10. TreeOK'
  <2>1. row.parent < new /\ session.leaf <= new
    BY <1>0, <1>2, <1>4 DEF TreeInv, Shapes, TreeOK
  <2>2. \A m \in 1..new : msgs'[m].parent < m
    <3> SUFFICES ASSUME NEW m \in 1..new PROVE msgs'[m].parent < m
      OBVIOUS
    <3>1. CASE m = new
      BY <1>4, <2>1, <3>1
    <3>2. CASE m # new
      BY <1>0, <1>4, <3>2 DEF TreeInv, TreeOK
    <3> QED
      BY <3>1, <3>2
  <2>3. \A d \in Clients : req'[d].parent <= new
    BY <1>0, <1>4, <1>8 DEF TreeInv, Shapes, TreeOK
  <2> QED
    BY <1>1, <1>4, <2>1, <2>2, <2>3 DEF TreeOK
<1>11. \A d \in Clients :
         /\ req'[d].pc = "create" => At(d, "create") /\ req'[d] = req[d]
         /\ req'[d].pc = "setLeaf" => d = c \/ (At(d, "setLeaf") /\ req'[d] = req[d])
  BY <1>6, <1>7 DEF At
<1>12. Written'
  BY <1>0, <1>4, <1>6, <1>7, <1>11 DEF TreeInv, Written, At
<1>13. ASSUME FreshInv PROVE FreshInv'
  <2>1. FreshRow(new)'
    <3>1. session'.leaf # new
      BY <1>0, <1>1, <1>4 DEF TreeInv, Shapes, TreeOK
    <3>2. \A k \in 1..new : msgs'[k].parent # new
      <4> SUFFICES ASSUME NEW k \in 1..new PROVE msgs'[k].parent # new
        OBVIOUS
      <4>1. msgs'[k].parent < k
        BY <1>4, <1>10 DEF TreeOK
      <4>2. msgs'[k].parent \in Nat
        <5>1. msgs'[k] \in [parent : Nat, role : ValidRoles]
          BY <1>4, ElementType
        <5> QED
          BY <5>1
      <4> QED
        BY <1>4, <4>1, <4>2
    <3>3. \A d \in Clients : req'[d].pc = "create" => req'[d].parent # new
      <4> SUFFICES ASSUME NEW d \in Clients PROVE req'[d].parent # new
        OBVIOUS
      <4>1. req[d].parent \in Nat /\ req[d].parent <= Len(msgs)
        BY DEF TreeInv, Shapes, TreeOK
      <4> QED
        BY <1>0, <1>4, <1>8, <4>1
    <3> QED
      BY <1>4, <3>1, <3>2, <3>3 DEF FreshRow, At
  <2>2. ASSUME NEW m \in 1..Len(msgs), FreshRow(m) PROVE FreshRow(m)'
    <3>1. \A k \in 1..new : msgs'[k].parent # m
      <4> SUFFICES ASSUME NEW k \in 1..new PROVE msgs'[k].parent # m
        OBVIOUS
      <4>1. CASE k = new
        <5>1. req[c].parent # m
          BY <1>1, <2>2 DEF FreshRow
        <5> QED
          BY <1>2, <1>4, <4>1, <5>1
      <4>2. CASE k # new
        BY <1>0, <1>4, <2>2, <4>2 DEF FreshRow
      <4> QED
        BY <4>1, <4>2
    <3> QED
      BY <1>1, <1>4, <1>11, <2>2, <3>1 DEF FreshRow, At
  <2>3. \A d \in Clients : At(d, "setLeaf") => req[d].msg # new
    BY <1>0, <1>4 DEF TreeInv, Written
  <2>4. ASSUME NEW d \in Clients, req'[d].pc = "setLeaf", NEW m, m = req'[d].msg
        PROVE  m \in 1..new /\ FreshRow(m)'
    <3>1. CASE d = c
      <4>1. m = new
        BY <1>6, <1>7, <2>4, <3>1
      <4>2. new \in 1..new
        BY <1>0, <1>4
      <4> QED
        BY <2>1, <4>1, <4>2, Zenon
    <3>2. CASE d # c
      <4>1. m \in 1..Len(msgs) /\ FreshRow(m)
        BY <1>7, <1>11, <1>13, <2>4, <3>2 DEF FreshInv, TreeInv, Written
      <4> QED
        BY <1>0, <1>4, <2>2, <4>1
    <3> QED
      BY <3>1, <3>2
  <2>5. \A d, e \in Clients :
          req'[d].pc = "setLeaf" /\ req'[e].pc = "setLeaf" /\ req'[d].msg = req'[e].msg
          => d = e
    BY <1>6, <1>7, <1>11, <1>13, <2>3 DEF FreshInv
  <2> QED
    <3>1. \A d \in Clients : req'[d].pc = "setLeaf" =>
            /\ req'[d].msg \in 1..Len(msgs')
            /\ session'.leaf # req'[d].msg
            /\ \A k \in 1..Len(msgs') : msgs'[k].parent # req'[d].msg
            /\ \A e \in Clients : req'[e].pc = "create" =>
                 req'[e].parent # req'[d].msg
      <4> SUFFICES ASSUME NEW d \in Clients, req'[d].pc = "setLeaf"
                   PROVE  /\ req'[d].msg \in 1..Len(msgs')
                          /\ session'.leaf # req'[d].msg
                          /\ \A k \in 1..Len(msgs') : msgs'[k].parent # req'[d].msg
                          /\ \A e \in Clients : req'[e].pc = "create" =>
                               req'[e].parent # req'[d].msg
        OBVIOUS
      <4>1. PICK m : m = req'[d].msg
        OBVIOUS
      <4>2. m \in 1..Len(msgs') /\ FreshRow(m)'
        BY <1>4, <2>4, <4>1
      <4> QED
        BY <4>1, <4>2 DEF FreshRow, At
    <3> QED
      BY <2>5, <3>1 DEF FreshInv, FreshRow, At
<1> QED
  BY <1>9, <1>10, <1>12, <1>13 DEF TreeInv

\* The row becomes the leaf and is no longer its handler's alone.
LEMMA SetLeafKeeps ==
  ASSUME TreeInv, NEW c \in Clients, SetLeaf(c)
  PROVE  TreeInv' /\ (FreshInv => FreshInv')
<1> DEFINE r == [req[c] EXCEPT !.pc = "getStm"]
<1>1. /\ At(c, "setLeaf") /\ msgs' = msgs
      /\ DOMAIN session' = DOMAIN session /\ session'.leaf = req[c].msg
  BY DEF SetLeaf, TreeInv, Shapes
<1>2. req' = [req EXCEPT ![c] = r]
  BY DEF SetLeaf, Goto, TreeInv, Shapes
<1>3. DOMAIN r = Fields /\ r.pc = "getStm" /\ r.parent = req[c].parent
  BY DEF Fields, TreeInv, Shapes
<1> HIDE DEF r
<1>4. /\ req'[c] = r /\ DOMAIN req' = Clients
      /\ \A d \in Clients \ {c} : req'[d] = req[d]
  BY <1>2 DEF TreeInv, Shapes
<1>5. req[c].msg \in 1..Len(msgs) /\ Len(msgs) \in Nat
  BY <1>1 DEF TreeInv, Shapes, Written
<1>6. \A d \in Clients :
        /\ DOMAIN req'[d] = Fields /\ req'[d].parent = req[d].parent
        /\ req'[d].pc = "create" => At(d, "create") /\ req'[d] = req[d]
        /\ req'[d].pc = "setLeaf" => d # c /\ At(d, "setLeaf") /\ req'[d] = req[d]
  BY <1>3, <1>4 DEF At, TreeInv, Shapes
<1>7. Shapes'
  BY <1>1, <1>4, <1>5, <1>6 DEF TreeInv, Shapes, At
<1>8. TreeOK'
  BY <1>1, <1>5, <1>6 DEF TreeInv, TreeOK
<1>9. Written'
  BY <1>1, <1>6 DEF TreeInv, Written, At
<1>10. ASSUME FreshInv PROVE FreshInv'
  <2>1. ASSUME NEW m, m # req[c].msg, FreshRow(m) PROVE FreshRow(m)'
    BY <1>1, <1>6, <2>1 DEF FreshRow, At
  <2>2. ASSUME NEW d \in Clients, req'[d].pc = "setLeaf"
        PROVE  /\ req'[d].msg \in 1..Len(msgs')
               /\ session'.leaf # req'[d].msg
               /\ \A k \in 1..Len(msgs') : msgs'[k].parent # req'[d].msg
               /\ \A e \in Clients : req'[e].pc = "create" =>
                    req'[e].parent # req'[d].msg
    <3>1. PICK m : m = req[d].msg
      OBVIOUS
    <3>2. m \in 1..Len(msgs) /\ FreshRow(m) /\ m # req[c].msg
      BY <1>1, <1>6, <1>10, <2>2, <3>1 DEF FreshInv, TreeInv, Written
    <3>3. FreshRow(m)'
      BY <2>1, <3>2
    <3> QED
      BY <1>1, <1>6, <2>2, <3>1, <3>2, <3>3 DEF FreshRow, At
  <2>3. \A d, e \in Clients :
          req'[d].pc = "setLeaf" /\ req'[e].pc = "setLeaf" /\ req'[d].msg = req'[e].msg
          => d = e
    BY <1>6, <1>10 DEF FreshInv
  <2> QED
    BY <2>2, <2>3 DEF FreshInv, FreshRow, At
<1> QED
  BY <1>7, <1>8, <1>9, <1>10 DEF TreeInv

-----------------------------------------------------------------------------
(* Nothing running: the blob's expiry and the deletion of the session.      *)

LEMMA AsideKeeps ==
  ASSUME TreeInv, msgs' = msgs, req' = req,
         DOMAIN session' = DOMAIN session, session'.leaf = session.leaf
  PROVE  TreeInv' /\ (FreshInv => FreshInv')
<1>1. TreeInv'
  BY DEF TreeInv, Shapes, TreeOK, Written, At
<1>2. ASSUME FreshInv PROVE FreshInv'
  <2>1. ASSUME NEW m, FreshRow(m) PROVE FreshRow(m)'
    BY <2>1 DEF FreshRow, At
  <2> QED
    BY <1>2, <2>1 DEF FreshInv, At
<1> QED
  BY <1>1, <1>2

-----------------------------------------------------------------------------
(* The theorems.                                                            *)

LEMMA InitInv == Init => TreeInv /\ FreshInv
<1> SUFFICES ASSUME Init PROVE TreeInv /\ FreshInv
  OBVIOUS
<1>1. \A c \in Clients : req[c] = IdleReq
  BY DEF Init
<1>2. Shapes
  BY <1>1, IdleShape DEF Init, Shapes, At, NoMsg
<1>3. TreeOK
  BY <1>1, IdleShape DEF Init, TreeOK, NoMsg
<1>4. Written /\ FreshInv
  BY <1>1, IdleShape DEF Written, FreshInv, At
<1> QED
  BY <1>2, <1>3, <1>4 DEF TreeInv

\* Every step but a branching append keeps both invariants.
LEMMA NextKeeps ==
  ASSUME TreeInv, [Next]_vars
  PROVE  /\ TreeInv'
         /\ FreshInv /\ (\A c \in Clients : "branch" \notin Ops[c]) => FreshInv'
<1>1. ASSUME NEW c \in Clients, BeginAppend(c)
      PROVE  TreeInv' /\ (FreshInv /\ "branch" \notin Ops[c] => FreshInv')
  BY <1>1, BeginAppendKeeps
<1>2. ASSUME NEW c \in Clients, BeginReply(c) PROVE TreeInv' /\ (FreshInv => FreshInv')
  BY <1>2, BeginReplyKeeps
<1>3. ASSUME NEW c \in Clients, CreateMessage(c) PROVE TreeInv' /\ (FreshInv => FreshInv')
  BY <1>3, CreateMessageKeeps
<1>4. ASSUME NEW c \in Clients, SetLeaf(c) PROVE TreeInv' /\ (FreshInv => FreshInv')
  BY <1>4, SetLeafKeeps
<1>5. ASSUME NEW c \in Clients, GetStm(c) \/ SetStm(c) \/ RecordUsage(c)
      PROVE  TreeInv' /\ (FreshInv => FreshInv')
  BY <1>5, AppendTailQuiet, QuietKeeps
<1>6. ASSUME NEW c \in Clients, ContextStep(c) PROVE TreeInv' /\ (FreshInv => FreshInv')
  BY <1>6, ContextQuiet, QuietKeeps
<1>7. ASSUME NEW c \in Clients, SessionStep(c) PROVE TreeInv' /\ (FreshInv => FreshInv')
  BY <1>7, SessionQuiet, QuietKeeps
<1>8. ASSUME NEW c \in Clients, RowGone(c) \/ Abort(c)
      PROVE  TreeInv' /\ (FreshInv => FreshInv')
  <2>1. Quiet(c)
    BY <1>8, DoneQuiet DEF RowGone, Abort
  <2> QED
    BY <2>1, QuietKeeps
<1>9. CASE ExpireStm
  BY <1>9, AsideKeeps DEF ExpireStm
<1>10. CASE DeleteSession
  <2>1. DOMAIN session' = DOMAIN session /\ session'.leaf = session.leaf
    BY <1>10 DEF DeleteSession, TreeInv, Shapes
  <2> QED
    BY <1>10, <2>1, AsideKeeps DEF DeleteSession
<1>11. CASE UNCHANGED vars
  BY <1>11, AsideKeeps DEF vars
<1> QED
  BY <1>1, <1>2, <1>3, <1>4, <1>5, <1>6, <1>7, <1>8, <1>9, <1>10, <1>11
  DEF Next, AppendStep

\* The rows of a session form a tree and the leaf, like every parent a handler
\* holds, is one of them, whatever the clients send and whatever fails.
THEOREM TreeTheorem == Spec => []TreeOK
<1>1. Init => TreeInv
  BY InitInv
<1>2. TreeInv /\ [Next]_vars => TreeInv'
  BY NextKeeps
<1>3. TreeInv => TreeOK
  BY DEF TreeInv
<1> QED
  BY <1>1, <1>2, <1>3, PTL DEF Spec

\* A message that is no row's parent is an ancestor of nothing but itself.
LEMMA ChildlessOffPath ==
  ASSUME TreeInv, NEW m \in 1..Len(msgs), FreshRow(m)
  PROVE  m \notin ActivePath
<1>1. CASE session.leaf = NoMsg
  BY <1>1 DEF ActivePath, Ancestry
<1>2. CASE session.leaf # NoMsg
  <2> DEFINE S == (1..Len(msgs)) \ {m}
  <2>1. session.leaf \in S
    BY <1>2 DEF FreshRow, TreeInv, Shapes, TreeOK, NoMsg
  <2>2. Closed(S)
    <3> SUFFICES ASSUME NEW k \in S, msgs[k].parent # NoMsg
                 PROVE  msgs[k].parent \in S
      BY DEF Closed
    <3>1. msgs[k].parent \in Nat /\ msgs[k].parent < k
      <4>1. msgs[k] \in [parent : Nat, role : ValidRoles]
        BY ElementType DEF TreeInv, Shapes
      <4> QED
        BY <4>1 DEF TreeInv, TreeOK
    <3>2. msgs[k].parent # m
      BY DEF FreshRow
    <3> QED
      BY <3>1, <3>2 DEF NoMsg, TreeInv, Shapes
  <2> QED
    BY <2>1, <2>2 DEF ActivePath, Ancestry
<1> QED
  BY <1>1, <1>2

\* No step but SetLeaf moves the leaf.
LEMMA LeafStays ==
  ASSUME TreeInv, [Next]_vars, \A c \in Clients : ~SetLeaf(c)
  PROVE  session'.leaf = session.leaf
<1>1. ASSUME NEW c \in Clients, Quiet(c) PROVE session'.leaf = session.leaf
  BY <1>1 DEF Quiet
<1>2. ASSUME NEW c \in Clients, BeginAppend(c) \/ BeginReply(c) \/ CreateMessage(c)
      PROVE  session' = session
  BY <1>2 DEF BeginAppend, BeginReply, CreateMessage
<1>3. ASSUME NEW c \in Clients, RowGone(c) \/ Abort(c) PROVE session' = session
  BY <1>3 DEF RowGone, Abort
<1>4. CASE ExpireStm
  BY <1>4 DEF ExpireStm
<1>5. CASE DeleteSession
  BY <1>5 DEF DeleteSession, TreeInv, Shapes
<1>6. CASE UNCHANGED vars
  BY <1>6 DEF vars
<1> QED
  BY <1>1, <1>2, <1>3, <1>4, <1>5, <1>6, AppendTailQuiet, ContextQuiet, SessionQuiet
  DEF Next, AppendStep

\* Appends that take their parent from the session never set the leaf back to
\* an ancestor of itself, however many overlap and wherever they die.
THEOREM LeafTheorem ==
  ASSUME \A c \in Clients : "branch" \notin Ops[c]
  PROVE  Spec => LeafNeverRetreats
<1>1. Init => TreeInv /\ FreshInv
  BY InitInv
<1>2. TreeInv /\ FreshInv /\ [Next]_vars => (TreeInv /\ FreshInv)'
  BY NextKeeps
<1>3. TreeInv /\ FreshInv /\ [Next]_vars =>
        session'.leaf = session.leaf \/ session'.leaf \notin ActivePath
  <2> SUFFICES ASSUME TreeInv, FreshInv, [Next]_vars
               PROVE  session'.leaf = session.leaf \/ session'.leaf \notin ActivePath
    OBVIOUS
  <2>1. ASSUME NEW c \in Clients, SetLeaf(c) PROVE session'.leaf \notin ActivePath
    <3>1. session'.leaf = req[c].msg /\ At(c, "setLeaf")
      BY <2>1 DEF SetLeaf, TreeInv, Shapes
    <3>2. req[c].msg \in 1..Len(msgs) /\ FreshRow(req[c].msg)
      BY <3>1 DEF TreeInv, Written, FreshInv
    <3> QED
      BY <3>1, <3>2, ChildlessOffPath
  <2> QED
    BY <2>1, LeafStays
<1> QED
  BY <1>1, <1>2, <1>3, PTL DEF Spec, LeafNeverRetreats

-----------------------------------------------------------------------------
(* The walk from a message to its root.                                   *)

\* The rows and their order are all the walk depends on: TreeInv says that msgs
\* is such a tree.
Row == [parent : Nat, role : ValidRoles]
IsTree(rows) == rows \in Seq(Row) /\ \A m \in 1..Len(rows) : rows[m].parent < m

\* PathTo over any rows.
PathIn(rows, leaf) ==
  LET walk[m \in 0..Len(rows)] ==
        IF m = NoMsg THEN <<>> ELSE Append(walk[rows[m].parent], m)
  IN  walk[leaf]

\* What stands in for an induction: of the numbers that are a counterexample one
\* is the least.
LEMMA LeastNat ==
  ASSUME NEW S \in SUBSET Nat, S # {}
  PROVE  \E i \in S : \A k \in S : i <= k
<1>1. PICK i \in S : \A k \in S : ~(<<k, i>> \in OpToRel(<, Nat))
  BY NatLessThanWellFounded, WFMin
<1>2. \A k \in S : ~(k < i)
  BY <1>1 DEF OpToRel
<1> QED BY <1>2

\* A parent is an older message or none.
LEMMA ParentFacts ==
  ASSUME NEW rows, IsTree(rows), NEW m \in 1..Len(rows)
  PROVE  rows[m].parent \in 0..(m - 1)
<1>1. rows[m] \in Row
  BY DEF IsTree
<1> QED
  BY <1>1 DEF IsTree, Row

\* The walk is defined at every row.
LEMMA WalkExists ==
  ASSUME NEW rows, IsTree(rows)
  PROVE  \E f : f = [m \in 0..Len(rows) |->
                       IF m = NoMsg THEN <<>> ELSE Append(f[rows[m].parent], m)]
<1> DEFINE Upto(k) == \E f : f = [m \in 0..k |->
                 IF m = NoMsg THEN <<>> ELSE Append(f[rows[m].parent], m)]
           Bad == {k \in 0..Len(rows) : ~Upto(k)}
<1>0. Len(rows) \in Nat
  BY DEF IsTree
<1> SUFFICES Bad = {}
  <2>1. Len(rows) \in 0..Len(rows)
    BY <1>0
  <2> QED
    BY <2>1
<1> SUFFICES ASSUME Bad # {} PROVE FALSE
  OBVIOUS
<1>1. PICK i \in Bad : \A k \in Bad : i <= k
  <2>1. Bad \in SUBSET Nat
    BY <1>0
  <2> QED
    BY <2>1, LeastNat
<1>2. i \in Nat /\ i <= Len(rows)
  BY <1>0
<1>3. i # 0
  <2> SUFFICES Upto(0)
    BY <1>1
  <2> DEFINE f == [m \in 0..0 |-> <<>>]
  <2>1. f = [m \in 0..0 |-> IF m = NoMsg THEN <<>> ELSE Append(f[rows[m].parent], m)]
    BY DEF NoMsg
  <2> QED
    BY <2>1
<1>4. Upto(i - 1)
  <2>1. i - 1 \in 0..Len(rows) /\ ~(i <= i - 1)
    BY <1>0, <1>2, <1>3
  <2> QED
    BY <1>1, <2>1
<1>5. PICK f : f = [m \in 0..(i - 1) |->
                 IF m = NoMsg THEN <<>> ELSE Append(f[rows[m].parent], m)]
  BY <1>4
<1> DEFINE g == [m \in 0..i |-> IF m = i THEN Append(f[rows[i].parent], i) ELSE f[m]]
<1>6. \A m \in 0..i : g[m] = IF m = NoMsg THEN <<>> ELSE Append(g[rows[m].parent], m)
  <2> SUFFICES ASSUME NEW m \in 0..i
               PROVE  g[m] = IF m = NoMsg THEN <<>> ELSE Append(g[rows[m].parent], m)
    OBVIOUS
  <2>1. CASE m = NoMsg
    <3>1. m # i /\ m \in 0..(i - 1)
      BY <1>2, <1>3, <2>1 DEF NoMsg
    <3>2. f[m] = <<>>
      BY <1>5, <2>1, <3>1
    <3> QED
      BY <2>1, <3>1, <3>2
  <2>2. CASE m # NoMsg
    <3>1. m \in 1..Len(rows) /\ rows[m].parent \in 0..(m - 1)
      BY <1>0, <1>2, <2>2, ParentFacts DEF NoMsg
    <3>2. rows[m].parent \in 0..(i - 1) /\ rows[m].parent \in 0..i /\ rows[m].parent # i
      BY <1>2, <3>1
    <3>3. g[rows[m].parent] = f[rows[m].parent]
      BY <3>2, SMTT(30)
    <3>4. CASE m = i
      BY <2>2, <3>3, <3>4
    <3>5. CASE m # i
      <4>1. m \in 0..(i - 1)
        BY <1>2, <3>5, SMTT(30)
      <4>2. f[m] = Append(f[rows[m].parent], m)
        BY <1>5, <2>2, <4>1
      <4> QED
        BY <2>2, <3>3, <3>5, <4>2
    <3> QED
      BY <3>4, <3>5
  <2> QED
    BY <2>1, <2>2
<1>7. g = [m \in 0..i |-> g[m]]
  OBVIOUS
<1> HIDE DEF g
<1>8. g = [m \in 0..i |-> IF m = NoMsg THEN <<>> ELSE Append(g[rows[m].parent], m)]
  BY <1>6, <1>7
<1>9. Upto(i)
  BY <1>8
<1> QED
  BY <1>1, <1>9

\* The walk of loadActivePath, one row at a time.
LEMMA PathEquation ==
  ASSUME NEW rows, IsTree(rows)
  PROVE  /\ PathIn(rows, NoMsg) = <<>>
         /\ \A m \in 1..Len(rows) :
              PathIn(rows, m) = Append(PathIn(rows, rows[m].parent), m)
<1> DEFINE W(f) == f = [m \in 0..Len(rows) |->
                       IF m = NoMsg THEN <<>> ELSE Append(f[rows[m].parent], m)]
           walk == CHOOSE f : W(f)
<1>1. W(walk)
  <2>1. \E f : W(f)
    BY WalkExists
  <2> QED
    BY <2>1
<1>2. \A m : PathIn(rows, m) = walk[m]
  BY SMTT(30) DEF PathIn
<1>0. Len(rows) \in Nat
  BY DEF IsTree
<1>3. walk = [m \in 0..Len(rows) |->
                       IF m = NoMsg THEN <<>> ELSE Append(walk[rows[m].parent], m)]
  BY <1>1
<1> HIDE DEF walk
<1>4. walk[NoMsg] = <<>>
  BY <1>0, <1>3, SMTT(30) DEF NoMsg
<1>5. ASSUME NEW m \in 1..Len(rows)
      PROVE  walk[m] = Append(walk[rows[m].parent], m)
  <2>1. m \in 0..Len(rows) /\ m # NoMsg
    BY <1>0 DEF NoMsg
  <2> QED
    BY <1>3, <2>1
<1> QED
  BY <1>2, <1>4, <1>5, SMTT(30)

\* Everything the proofs below use of a path.
Increasing(s) == \A i, j \in 1..Len(s) : i < j => s[i] < s[j]
IsPath(s, m) ==
  /\ s \in Seq(Nat) /\ Len(s) <= m
  /\ \A i \in 1..Len(s) : s[i] \in 1..m
  /\ Increasing(s)
  /\ m # NoMsg => s # <<>> /\ s[Len(s)] = m

\* A walk is a path: it rises, ends with its leaf and is no longer than that.
LEMMA PathFacts ==
  ASSUME NEW rows, IsTree(rows), NEW leaf \in 0..Len(rows)
  PROVE  IsPath(PathIn(rows, leaf), leaf)
<1> DEFINE Bad == {k \in 0..Len(rows) : ~IsPath(PathIn(rows, k), k)}
<1>0. Len(rows) \in Nat
  BY DEF IsTree
<1> SUFFICES ASSUME Bad # {} PROVE FALSE
  OBVIOUS
<1>1. PICK i \in Bad : \A k \in Bad : i <= k
  <2>1. Bad \in SUBSET Nat
    BY <1>0
  <2> QED
    BY <2>1, LeastNat
<1>2. i \in Nat /\ i <= Len(rows)
  BY <1>0
<1>3. i # 0
  <2>1. IsPath(<<>>, 0)
    BY DEF IsPath, Increasing, NoMsg
  <2> QED
    BY <1>1, <2>1, PathEquation DEF NoMsg
<1>4. i \in 1..Len(rows)
  BY <1>2, <1>3
<1> DEFINE p == rows[i].parent
           s == PathIn(rows, p)
<1>5. p \in 0..(i - 1)
  BY <1>4, ParentFacts
<1>6. IsPath(s, p)
  BY <1>0, <1>1, <1>4, <1>5
<1>7. PathIn(rows, i) = Append(s, i)
  BY <1>4, PathEquation
<1> HIDE DEF p, s
<1>8. IsPath(Append(s, i), i)
  <2> DEFINE t == Append(s, i)
  <2>1. /\ t \in Seq(Nat) /\ Len(t) = Len(s) + 1 /\ Len(s) \in Nat
        /\ t[Len(s) + 1] = i /\ \A k \in 1..Len(s) : t[k] = s[k]
    BY <1>4, <1>6 DEF IsPath
  <2> HIDE DEF t
  <2>2. \A k \in 1..Len(s) : t[k] \in 1..p
    BY <1>6, <2>1 DEF IsPath
  <2>3. \A k \in 1..Len(t) : t[k] \in 1..i
    BY <1>4, <1>5, <2>1, <2>2
  <2>4. ASSUME NEW j \in 1..Len(t), NEW k \in 1..Len(t), j < k
        PROVE  t[j] < t[k]
    <3>a. j \in 1..Len(s)
      BY <2>1, <2>4
    <3>1. CASE k = Len(s) + 1
      <4>1. t[j] \in 1..p /\ t[k] = i
        BY <2>1, <2>2, <3>a, <3>1
      <4> QED
        BY <1>4, <1>5, <4>1
    <3>2. CASE k # Len(s) + 1
      <4>1. k \in 1..Len(s)
        BY <2>1, <3>2
      <4>2. s[j] < s[k]
        BY <1>6, <2>4, <3>a, <4>1 DEF IsPath, Increasing
      <4> QED
        BY <2>1, <3>a, <4>1, <4>2
    <3> QED
      BY <3>1, <3>2
  <2> QED
    BY <1>4, <1>5, <1>6, <2>1, <2>3, <2>4, SMTT(30) DEF IsPath, Increasing, t
<1> QED
  BY <1>1, <1>7, <1>8

\* A new row changes no path to the earlier ones.
LEMMA PathStable ==
  ASSUME NEW rows, IsTree(rows), NEW row \in Row, row.parent <= Len(rows),
         NEW leaf \in 0..Len(rows)
  PROVE  /\ IsTree(Append(rows, row))
         /\ PathIn(Append(rows, row), leaf) = PathIn(rows, leaf)
<1> DEFINE more == Append(rows, row)
           Bad == {k \in 0..Len(rows) : PathIn(more, k) # PathIn(rows, k)}
<1>0. /\ Len(rows) \in Nat /\ more \in Seq(Row) /\ Len(more) = Len(rows) + 1
      /\ \A k \in 1..Len(rows) : more[k] = rows[k]
      /\ more[Len(rows) + 1] = row
  BY DEF IsTree
<1> HIDE DEF more
<1>1. IsTree(more)
  <2> SUFFICES ASSUME NEW m \in 1..Len(more) PROVE more[m].parent < m
    BY <1>0 DEF IsTree
  <2>1. CASE m = Len(rows) + 1
    BY <1>0, <2>1 DEF Row
  <2>2. CASE m # Len(rows) + 1
    BY <1>0, <2>2 DEF IsTree
  <2> QED
    BY <2>1, <2>2
<1>2. Bad = {}
  <2> SUFFICES ASSUME Bad # {} PROVE FALSE
    OBVIOUS
  <2>1. PICK i \in Bad : \A k \in Bad : i <= k
    <3>1. Bad \in SUBSET Nat
      BY <1>0
    <3> QED
      BY <3>1, LeastNat
  <2>2. i \in 1..Len(rows)
    <3>1. PathIn(more, 0) = <<>> /\ PathIn(rows, 0) = <<>>
      BY <1>1, PathEquation DEF NoMsg
    <3> QED
      BY <1>0, <2>1, <3>1
  <2>3. rows[i].parent \in 0..(i - 1) /\ more[i] = rows[i]
    BY <1>0, <2>2, ParentFacts
  <2>4. PathIn(more, rows[i].parent) = PathIn(rows, rows[i].parent)
    BY <1>0, <2>1, <2>2, <2>3
  <2>5. i \in 1..Len(more)
    BY <1>0, <2>2
  <2>6. PathIn(rows, i) = Append(PathIn(rows, rows[i].parent), i)
    BY <2>2, PathEquation
  <2>7. PathIn(more, i) = Append(PathIn(more, more[i].parent), i)
    BY <1>1, <2>5, PathEquation
  <2> QED
    BY <2>1, <2>3, <2>4, <2>6, <2>7
<1> QED
  BY <1>1, <1>2 DEF more

\* Ancestry over any rows.
ClosedIn(rows, S) == \A m \in S : rows[m].parent # NoMsg => rows[m].parent \in S
AncestryIn(rows, leaf) ==
  {m \in 1..Len(rows) :
     /\ leaf # NoMsg
     /\ \A S \in SUBSET (1..Len(rows)) : leaf \in S /\ ClosedIn(rows, S) => m \in S}
Elements(s) == {s[i] : i \in 1..Len(s)}

\* The walk visits the ancestors of its leaf and nothing else.
LEMMA PathIsAncestry ==
  ASSUME NEW rows, IsTree(rows), NEW leaf \in 0..Len(rows)
  PROVE  Elements(PathIn(rows, leaf)) = AncestryIn(rows, leaf)
<1> DEFINE Good(k) ==
      LET path == Elements(PathIn(rows, k)) IN
      /\ ClosedIn(rows, path)
      /\ \A S \in SUBSET (1..Len(rows)) :
           (k # NoMsg => k \in S) /\ ClosedIn(rows, S) => path \subseteq S
           Bad == {k \in 0..Len(rows) : ~Good(k)}
<1>0. Len(rows) \in Nat
  BY DEF IsTree
<1>1. Good(leaf)
  <2> SUFFICES ASSUME Bad # {} PROVE FALSE
    OBVIOUS
  <2>1. PICK i \in Bad : \A k \in Bad : i <= k
    <3>1. Bad \in SUBSET Nat
      BY <1>0
    <3> QED
      BY <3>1, LeastNat
  <2>2. i \in 1..Len(rows)
    <3>1. Elements(PathIn(rows, NoMsg)) = {}
      BY PathEquation DEF Elements
    <3>2. Good(NoMsg)
      BY <3>1, Zenon DEF ClosedIn
    <3>3. i # NoMsg
      BY <2>1, <3>2
    <3> QED
      BY <1>0, <2>1, <3>3 DEF NoMsg
  <2>3. PICK p : p = rows[i].parent
    OBVIOUS
  <2>4. p \in 0..(i - 1) /\ p \in 0..Len(rows)
    BY <1>0, <2>2, <2>3, ParentFacts
  <2>5. Good(p)
    BY <2>1, <2>2, <2>4
  <2>6. PICK s : s = PathIn(rows, p)
    OBVIOUS
  <2>7. PICK path : path = Elements(s)
    OBVIOUS
  <2>8. IsPath(s, p)
    BY <2>4, <2>6, PathFacts
  <2>9. Elements(PathIn(rows, i)) = path \cup {i}
    <3>1. PathIn(rows, i) = Append(s, i)
      BY <2>2, <2>3, <2>6, PathEquation
    <3> QED
      BY <2>7, <2>8, <3>1 DEF IsPath, Elements
  <2>10. p # NoMsg => p \in path
    BY <2>7, <2>8 DEF IsPath, Elements
  <2>11. ClosedIn(rows, path \cup {i})
    BY <2>3, <2>5, <2>6, <2>7, <2>10 DEF ClosedIn
  <2>12. ASSUME NEW S \in SUBSET (1..Len(rows)), i \in S, ClosedIn(rows, S)
         PROVE  path \cup {i} \subseteq S
    <3>1. p # NoMsg => p \in S
      BY <2>3, <2>12 DEF ClosedIn
    <3> QED
      BY <2>5, <2>6, <2>7, <2>12, <3>1
  <2>13. i # NoMsg
    BY <2>2 DEF NoMsg
  <2> QED
    BY <2>1, <2>9, <2>11, <2>12, <2>13
<1>2. PICK path : path = Elements(PathIn(rows, leaf))
  OBVIOUS
<1>3. CASE leaf = NoMsg
  <2>1. path = {}
    BY <1>2, <1>3, PathEquation DEF Elements
  <2> QED
    BY <1>2, <1>3, <2>1 DEF AncestryIn
<1>4. CASE leaf # NoMsg
  <2>1. path \subseteq 1..Len(rows) /\ leaf \in path
    BY <1>0, <1>2, <1>4, PathFacts DEF IsPath, Elements
  <2>2. ClosedIn(rows, path)
    BY <1>1, <1>2
  <2>3. AncestryIn(rows, leaf) \subseteq path
    BY <2>1, <2>2 DEF AncestryIn
  <2>4. path \subseteq AncestryIn(rows, leaf)
    BY <1>1, <1>2, <1>4, <2>1 DEF AncestryIn
  <2> QED
    BY <1>2, <2>3, <2>4
<1> QED
  BY <1>3, <1>4

\* The model's walk and ancestry are those of the present rows.
LEMMA PathToIn ==
  /\ \A m : PathTo(m) = PathIn(msgs, m) /\ Ancestry(m) = AncestryIn(msgs, m)
  /\ PathTo(session.leaf)' = PathIn(msgs', session'.leaf)
  /\ ActivePath' = AncestryIn(msgs', session'.leaf)
BY DEF PathTo, PathIn, Ancestry, AncestryIn, Closed, ClosedIn, ActivePath

-----------------------------------------------------------------------------
(* What trimming and summarising do to sequences over any set.              *)

\* The trim drops some of the messages, never all of them.
LEMMA DroppedCountRange ==
  ASSUME NEW S, NEW ms \in Seq(S)
  PROVE  /\ DroppedCount(ms) \in 0..Len(ms)
         /\ ms # <<>> => DroppedCount(ms) < Len(ms)
<1> DEFINE over == {k \in 1..(Len(ms) - 1) :
                      Tokens(SubSeq(ms, k, Len(ms))) > TokenBudget}
<1>1. DroppedCount(ms) = Cardinality(over)
  BY DEF DroppedCount
<1>2. over \subseteq 1..(Len(ms) - 1)
  OBVIOUS
<1>3. Len(ms) \in Nat
  OBVIOUS
<1> HIDE DEF over
<1>4. /\ IsFiniteSet(1..(Len(ms) - 1))
      /\ Cardinality(1..(Len(ms) - 1)) = IF 1 > Len(ms) - 1 THEN 0 ELSE Len(ms) - 1
  BY <1>3, FS_Interval
<1>5. IsFiniteSet(over) /\ Cardinality(over) <= Cardinality(1..(Len(ms) - 1))
  BY <1>2, <1>4, FS_Subset
<1>6. Cardinality(over) \in Nat
  BY <1>5, FS_CardinalityType
<1>7. ms # <<>> => Len(ms) > 0
  OBVIOUS
<1> QED
  BY <1>1, <1>3, <1>4, <1>5, <1>6, <1>7

\* SubSeq by its indices.
LEMMA Slice ==
  ASSUME NEW S, NEW s \in Seq(S), NEW m \in Nat, NEW n \in Nat,
         1 <= m, m <= n + 1, n <= Len(s)
  PROVE  /\ SubSeq(s, m, n) \in Seq(S) /\ Len(SubSeq(s, m, n)) = n - m + 1
         /\ \A i \in 1..(n - m + 1) : SubSeq(s, m, n)[i] = s[m + i - 1]
<1>1. \A i \in m..n : s[i] \in S
  BY ElementType
<1>2. /\ SubSeq(s, m, n) \in Seq(S)
      /\ Len(SubSeq(s, m, n)) = IF m <= n THEN n - m + 1 ELSE 0
      /\ \A i \in 1..(n - m + 1) : SubSeq(s, m, n)[i] = s[m + i - 1]
  BY <1>1, SubSeqProperties
<1> QED
  BY <1>2

\* The messages are the dropped ones followed by the kept ones.
LEMMA TrimFacts ==
  ASSUME NEW S, NEW ms \in Seq(S)
  PROVE  /\ Dropped(ms) \in Seq(S) /\ Kept(ms) \in Seq(S)
         /\ Len(Dropped(ms)) + Len(Kept(ms)) = Len(ms)
         /\ \A i \in 1..Len(Dropped(ms)) : Dropped(ms)[i] = ms[i]
         /\ \A i \in 1..Len(Kept(ms)) : Kept(ms)[i] = ms[Len(Dropped(ms)) + i]
         /\ ms # <<>> => Kept(ms) # <<>>
<1>1. PICK d : d = DroppedCount(ms)
  OBVIOUS
<1>2. d \in 0..Len(ms) /\ (ms # <<>> => d < Len(ms))
  BY <1>1, DroppedCountRange
<1>3. Kept(ms) = SubSeq(ms, d + 1, Len(ms)) /\ Dropped(ms) = SubSeq(ms, 1, d)
  BY <1>1 DEF Kept, Dropped
<1>4. /\ Len(ms) \in Nat /\ d \in Nat /\ d + 1 \in Nat /\ d <= Len(ms)
      /\ ms # <<>> => Len(ms) > 0
  BY <1>2
<1>5. /\ Dropped(ms) \in Seq(S) /\ Len(Dropped(ms)) = d
      /\ \A i \in 1..d : Dropped(ms)[i] = ms[1 + i - 1]
  BY <1>3, <1>4, Slice
<1>6. /\ Kept(ms) \in Seq(S) /\ Len(Kept(ms)) = Len(ms) - d
      /\ \A i \in 1..(Len(ms) - d) : Kept(ms)[i] = ms[d + 1 + i - 1]
  BY <1>3, <1>4, Slice
<1>7. ms # <<>> => Kept(ms) # <<>>
  BY <1>2, <1>4, <1>6
<1> QED
  BY <1>4, <1>5, <1>6, <1>7

\* The last n of a sequence.
LEMMA LastOfFacts ==
  ASSUME NEW S, NEW s \in Seq(S), NEW n \in Nat
  PROVE  /\ LastOf(s, n) \in Seq(S)
         /\ Len(LastOf(s, n)) = IF Len(s) <= n THEN Len(s) ELSE n
         /\ Len(s) <= n => LastOf(s, n) = s
         /\ \A i \in 1..Len(LastOf(s, n)) :
              LastOf(s, n)[i] = s[Len(s) - Len(LastOf(s, n)) + i]
<1>1. CASE Len(s) <= n
  BY <1>1 DEF LastOf
<1>2. CASE ~(Len(s) <= n)
  <2>1. LastOf(s, n) = SubSeq(s, Len(s) - n + 1, Len(s))
    BY <1>2 DEF LastOf
  <2>2. /\ Len(s) \in Nat /\ Len(s) - n + 1 \in Nat /\ 1 <= Len(s) - n + 1
        /\ Len(s) - n + 1 <= Len(s) + 1
    BY <1>2
  <2>3. /\ LastOf(s, n) \in Seq(S) /\ Len(LastOf(s, n)) = Len(s) - (Len(s) - n + 1) + 1
        /\ \A i \in 1..(Len(s) - (Len(s) - n + 1) + 1) :
             LastOf(s, n)[i] = s[Len(s) - n + 1 + i - 1]
    BY <2>1, <2>2, Slice
  <2> QED
    BY <1>2, <2>2, <2>3
<1> QED
  BY <1>1, <1>2

\* The first n of a sequence.
LEMMA FirstOfFacts ==
  ASSUME NEW S, NEW s \in Seq(S), NEW n \in Nat
  PROVE  FirstOf(s, n) \in Seq(S) /\ (Len(s) <= n => FirstOf(s, n) = s)
<1>1. CASE Len(s) <= n
  BY <1>1 DEF FirstOf
<1>2. CASE ~(Len(s) <= n)
  <2>1. SubSeq(s, 1, n) \in Seq(S)
    BY <1>2, Slice
  <2> QED
    BY <1>2, <2>1 DEF FirstOf
<1> QED
  BY <1>1, <1>2

\* A summary has lines for messages of its two parts only.
LEMMA SummariseType ==
  ASSUME NEW S, NEW prefix \in Seq(S), NEW dropped \in Seq(S)
  PROVE  Summarise(prefix, dropped) \in Seq(S)
<1>1. SummaryLines \in Nat /\ DigestCap \in Nat
  BY SizeAssumption
<1>2. LastOf(dropped, SummaryLines) \in Seq(S)
  BY <1>1, LastOfFacts
<1>3. prefix \o LastOf(dropped, SummaryLines) \in Seq(S)
  BY <1>2
<1>4. FirstOf(prefix \o LastOf(dropped, SummaryLines), DigestCap) \in Seq(S)
  BY <1>1, <1>3, FirstOfFacts
<1> QED
  BY <1>2, <1>4 DEF Summarise

\* A blob that refers to the first n rows only.
BlobsIn(n) == [messages : Seq(1..n), prefix : Seq(1..n), leaf : 0..n]

\* A context is made of messages of its blob.
LEMMA ContextTypes ==
  ASSUME NEW n, NEW r, r.blob \in BlobsIn(n)
  PROVE  /\ Dropped(r.blob.messages) \in Seq(1..n) /\ Kept(r.blob.messages) \in Seq(1..n)
         /\ Window(r) \in Seq(1..n) /\ Extra(r) \in Seq(1..n)
         /\ BlobPrefix(r) \in Seq(1..n) /\ ContextPrefix(r) \in Seq(1..n)
<1>0. PICK S : S = 1..n
  OBVIOUS
<1>1. r.blob.messages \in Seq(S) /\ r.blob.prefix \in Seq(S)
  BY <1>0 DEF BlobsIn
<1>2. RoundCap \in Nat
  BY SizeAssumption
<1>3. Dropped(r.blob.messages) \in Seq(S) /\ Kept(r.blob.messages) \in Seq(S)
  BY <1>1, TrimFacts
<1>4. /\ Window(r) \in Seq(S)
      /\ Len(Window(r)) <= Len(Kept(r.blob.messages))
  BY <1>2, <1>3, LastOfFacts DEF Window
<1>5. Extra(r) \in Seq(S)
  <2> DEFINE k == Len(Kept(r.blob.messages))
             w == Len(Window(r))
  <2>1. k \in Nat /\ w \in Nat /\ w <= k
    BY <1>3, <1>4
  <2>2. Extra(r) = SubSeq(Kept(r.blob.messages), 1, k - w)
    BY DEF Extra
  <2>3. k - w \in Nat /\ 1 \in Nat /\ 1 <= (k - w) + 1 /\ k - w <= k
    BY <2>1
  <2>4. SubSeq(Kept(r.blob.messages), 1, k - w) \in Seq(S)
    BY <1>3, <2>3, Slice
  <2> QED
    BY <2>2, <2>4
<1>6. BlobPrefix(r) \in Seq(S)
  BY <1>1, <1>3, SummariseType DEF BlobPrefix
<1>7. ContextPrefix(r) \in Seq(S)
  BY <1>5, <1>6, SummariseType DEF ContextPrefix
<1> QED
  BY <1>0, <1>3, <1>4, <1>5, <1>6, <1>7

-----------------------------------------------------------------------------
(* Types.                                                                   *)

\* A request that refers to the first n rows only.
ReqsIn(n) ==
  [pc : Pcs, op : Kinds \cup {"none"}, role : ValidRoles, parent : 0..n,
   titled : BOOLEAN, msg : 0..n, blob : BlobsIn(n), cold : BOOLEAN]

SessionsIn(n) ==
  [exists : BOOLEAN, leaf : 0..n, title : 0..Custom, digest : Seq(1..n),
   archived : BOOLEAN]

\* Where a handler has written its row and not yet answered.
Saved == {"setLeaf", "getStm", "setStm", "usage"}

\* Nothing refers to a message that has no row.
TypeInv ==
  /\ msgs \in Seq([parent : Refs, role : ValidRoles])
  /\ Len(msgs) <= MaxMsgs
  /\ session \in SessionsIn(Len(msgs))
  /\ stm \in BlobsIn(Len(msgs))
  /\ jobs \subseteq ({"compress", "explicit"} \X (0..Len(msgs)))
  /\ req \in [Clients -> ReqsIn(Len(msgs))]
  /\ acked \subseteq 1..Len(msgs)
  /\ \A c \in Clients : req[c].pc \in Saved => req[c].msg \in 1..Len(msgs)

\* More rows take nothing away from a type.
LEMMA SeqMono ==
  ASSUME NEW S, NEW T, S \subseteq T, NEW s \in Seq(S)
  PROVE  s \in Seq(T)
OBVIOUS

LEMMA BlobsInMono ==
  ASSUME NEW n \in Nat, NEW k \in Nat, n <= k, NEW b \in BlobsIn(n)
  PROVE  b \in BlobsIn(k)
<1>1. 1..n \subseteq 1..k /\ 0..n \subseteq 0..k
  OBVIOUS
<1>2. b.messages \in Seq(1..k) /\ b.prefix \in Seq(1..k)
  BY <1>1, SeqMono DEF BlobsIn
<1> QED
  BY <1>1, <1>2 DEF BlobsIn

LEMMA ReqsInMono ==
  ASSUME NEW n \in Nat, NEW k \in Nat, n <= k, NEW r \in ReqsIn(n)
  PROVE  r \in ReqsIn(k)
<1>1. 0..n \subseteq 0..k
  OBVIOUS
<1>2. r.blob \in BlobsIn(k)
  BY BlobsInMono DEF ReqsIn
<1> QED
  BY <1>1, <1>2 DEF ReqsIn

\* The bounds of TypeOK follow, for there are at most MaxMsgs rows.
LEMMA TypeInvImplies == TypeInv => TypeOK
<1> SUFFICES ASSUME TypeInv PROVE TypeOK
  OBVIOUS
<1>1. Len(msgs) \in Nat /\ MaxMsgs \in Nat /\ Len(msgs) <= MaxMsgs
  BY SizeAssumption DEF TypeInv
<1>2. 1..Len(msgs) \subseteq MsgIds /\ 0..Len(msgs) \subseteq Refs
  BY <1>1 DEF MsgIds, Refs
<1>3. ASSUME NEW b \in BlobsIn(Len(msgs)) PROVE b \in Blobs
  <2>1. b.messages \in Seq(MsgIds) /\ b.prefix \in Seq(MsgIds)
    BY <1>2, SeqMono DEF BlobsIn
  <2> QED
    BY <1>2, <2>1 DEF BlobsIn, Blobs
<1>4. ASSUME NEW r \in ReqsIn(Len(msgs)) PROVE r \in Reqs
  <2>1. r.blob \in Blobs
    BY <1>3 DEF ReqsIn
  <2> QED
    BY <1>2, <2>1 DEF ReqsIn, Reqs
<1>5. req \in [Clients -> Reqs]
  BY <1>4 DEF TypeInv
<1>6. session.digest \in Seq(MsgIds)
  BY <1>2, SeqMono DEF TypeInv, SessionsIn
<1>7. session \in [exists : BOOLEAN, leaf : Refs, title : 0..Custom,
                   digest : Seq(MsgIds), archived : BOOLEAN]
  BY <1>2, <1>6 DEF TypeInv, SessionsIn
<1> QED
  BY <1>2, <1>3, <1>5, <1>7 DEF TypeInv, TypeOK

-----------------------------------------------------------------------------
(* What each action does to the request of its client.                      *)

\* No other client's request changes.
Only(c) ==
  req' = [d \in Clients |-> req'[d]] /\ \A d \in Clients \ {c} : req'[d] = req[d]

\* Two requests that differ in where they are.
SameData(q, r) ==
  /\ q.op = r.op /\ q.role = r.role /\ q.parent = r.parent /\ q.titled = r.titled
  /\ q.msg = r.msg /\ q.blob = r.blob /\ q.cold = r.cold

\* The handler ends.
Idles(c) == Only(c) /\ req'[c] = IdleReq

\* The handler goes on at pc with what it has.
Moves(c, pc) ==
  /\ Only(c) /\ req'[c] \in ReqsIn(Len(msgs))
  /\ req'[c].pc = pc /\ SameData(req'[c], req[c])

\* A new request of kind op starts at pc.
Starts(c, op, pc) ==
  /\ Only(c) /\ req'[c] \in ReqsIn(Len(msgs)) /\ At(c, "idle") /\ op \in Ops[c]
  /\ req'[c].pc = pc /\ req'[c].op = op /\ req'[c].parent = NoMsg
  /\ req'[c].msg = NoMsg /\ req'[c].blob = NoBlob /\ req'[c].cold = FALSE

\* Where a handler goes after the trim, and where with a blob in hand.
TrimPc(r) == IF DigestDirty(r) THEN "persist" ELSE "llm"
ContextPc(r) == IF Dropped(r.blob.messages) # <<>> THEN "saveKept" ELSE TrimPc(r)

\* A step that only changes what a request holds.
Frame == UNCHANGED <<msgs, session, stm, jobs, acked>>

LEMMA ReqType ==
  ASSUME TypeInv, NEW c \in Clients
  PROVE  /\ req[c] \in ReqsIn(Len(msgs)) /\ DOMAIN req = Clients
         /\ Len(msgs) \in Nat /\ req[c].blob \in BlobsIn(Len(msgs))
         /\ req[c].parent \in 0..Len(msgs) /\ req[c].msg \in 0..Len(msgs)
BY DEF TypeInv, ReqsIn

LEMMA Becomes ==
  ASSUME TypeInv, NEW c \in Clients, NEW q, req' = [req EXCEPT ![c] = q]
  PROVE  Only(c) /\ req'[c] = q
<1>1. req \in [Clients -> ReqsIn(Len(msgs))]
  BY DEF TypeInv
<1>2. DOMAIN req = Clients
  BY <1>1
<1>3. req' = [d \in Clients |-> IF d = c THEN q ELSE req[d]]
  BY <1>2
<1>4. /\ req'[c] = q /\ \A d \in Clients \ {c} : req'[d] = req[d]
      /\ req' = [d \in Clients |-> req'[d]]
  BY <1>3
<1> QED
  BY <1>4 DEF Only

LEMMA NoBlobType ==
  ASSUME NEW n \in Nat
  PROVE  NoBlob \in BlobsIn(n) /\ NoBlob.messages = <<>> /\ NoBlob.prefix = <<>>
BY DEF NoBlob, BlobsIn, NoMsg

LEMMA IdleType ==
  ASSUME NEW n \in Nat
  PROVE  IdleReq \in ReqsIn(n)
<1>1. NoBlob \in BlobsIn(n)
  BY NoBlobType
<1>2. "user" \in ValidRoles /\ "idle" \in Pcs /\ NoMsg \in 0..n
  BY DEF ValidRoles, Pcs, NoMsg
<1> QED
  BY <1>1, <1>2 DEF IdleReq, ReqsIn

LEMMA AfterTrimFields ==
  ASSUME NEW n, NEW r \in ReqsIn(n)
  PROVE  /\ AfterTrim(r) \in ReqsIn(n) /\ SameData(AfterTrim(r), r)
         /\ AfterTrim(r).pc = TrimPc(r)
<1>1. TrimPc(r) \in Pcs
  BY DEF TrimPc, Pcs
<1>2. AfterTrim(r) = [r EXCEPT !.pc = TrimPc(r)]
  BY DEF AfterTrim, TrimPc
<1> QED
  BY <1>1, <1>2 DEF ReqsIn, SameData

LEMMA WithBlobFields ==
  ASSUME NEW n, NEW r \in ReqsIn(n)
  PROVE  /\ WithBlob(r) \in ReqsIn(n) /\ SameData(WithBlob(r), r)
         /\ WithBlob(r).pc = ContextPc(r)
<1>1. CASE Dropped(r.blob.messages) # <<>>
  <2>1. WithBlob(r) = [r EXCEPT !.pc = "saveKept"] /\ ContextPc(r) = "saveKept"
    BY <1>1 DEF WithBlob, ContextPc
  <2>2. "saveKept" \in Pcs
    BY DEF Pcs
  <2> QED
    BY <2>1, <2>2 DEF ReqsIn, SameData
<1>2. CASE Dropped(r.blob.messages) = <<>>
  BY <1>2, AfterTrimFields DEF WithBlob, ContextPc
<1> QED
  BY <1>1, <1>2

LEMMA GotoMoves ==
  ASSUME TypeInv, NEW c \in Clients, NEW pc \in Pcs, Goto(c, pc)
  PROVE  Moves(c, pc)
<1> DEFINE q == [req[c] EXCEPT !.pc = pc]
<1>1. req' = [req EXCEPT ![c] = q]
  BY ReqType DEF Goto
<1>2. q \in ReqsIn(Len(msgs)) /\ q.pc = pc /\ SameData(q, req[c])
  BY ReqType DEF ReqsIn, SameData
<1> HIDE DEF q
<1> QED
  BY <1>1, <1>2, Becomes DEF Moves

LEMMA DoneIdles ==
  ASSUME TypeInv, NEW c \in Clients, Done(c)
  PROVE  Idles(c)
BY Becomes DEF Done, Idles

LEMMA BeginsStarts ==
  ASSUME TypeInv, NEW c \in Clients, NEW op \in Kinds, NEW pc \in Pcs,
         Begins(c, op, pc)
  PROVE  Starts(c, op, pc)
<1> DEFINE q == [IdleReq EXCEPT !.pc = pc, !.op = op]
<1>1. IdleReq \in ReqsIn(Len(msgs))
  BY ReqType, IdleType
<1>2. q \in ReqsIn(Len(msgs)) /\ q.pc = pc /\ q.op = op
  BY <1>1 DEF ReqsIn
<1>3. /\ q.parent = NoMsg /\ q.msg = NoMsg /\ q.blob = NoBlob /\ q.cold = FALSE
  BY DEF IdleReq
<1>4. req' = [req EXCEPT ![c] = q]
  BY DEF Begins
<1> HIDE DEF q
<1> QED
  BY <1>2, <1>3, <1>4, Becomes DEF Starts, Begins

LEMMA BeginAppendStep ==
  ASSUME TypeInv, NEW c \in Clients, BeginAppend(c)
  PROVE  /\ Frame /\ At(c, "idle") /\ session.exists /\ Len(msgs) < MaxMsgs
         /\ Only(c) /\ req'[c] \in ReqsIn(Len(msgs)) /\ req'[c].pc = "create"
         /\ req'[c].op \in {"append", "branch"} \cap Ops[c]
         /\ req'[c].op = "append" => req'[c].parent = session.leaf
         /\ req'[c].blob = NoBlob
         /\ req'[c].cold = FALSE
<1>1. PICK role \in Roles \cap ValidRoles, op \in {"append", "branch"} \cap Ops[c] :
        \E parent \in IF op = "append" THEN {session.leaf} ELSE 1..Len(msgs) :
          req' = [req EXCEPT ![c] =
                    [IdleReq EXCEPT !.pc = "create", !.op = op, !.role = role,
                                    !.parent = parent,
                                    !.titled = session.title = NoTitle
                                                 /\ role = "user"]]
  BY DEF BeginAppend
<1>2. PICK parent \in IF op = "append" THEN {session.leaf} ELSE 1..Len(msgs) :
        req' = [req EXCEPT ![c] =
                  [IdleReq EXCEPT !.pc = "create", !.op = op, !.role = role,
                                  !.parent = parent,
                                  !.titled = session.title = NoTitle
                                               /\ role = "user"]]
  BY <1>1
<1>3. PICK titled \in BOOLEAN : titled = (session.title = NoTitle /\ role = "user")
  BY Zenon
<1> DEFINE q == [IdleReq EXCEPT !.pc = "create", !.op = op, !.role = role,
                                !.parent = parent, !.titled = titled]
<1>4. req' = [req EXCEPT ![c] = q]
  BY <1>2, <1>3
<1>5. IdleReq \in ReqsIn(Len(msgs)) /\ Len(msgs) \in Nat
  BY ReqType, IdleType
<1>6. parent \in 0..Len(msgs) /\ (op = "append" => parent = session.leaf)
  BY <1>5 DEF TypeInv, SessionsIn
<1>7. "create" \in Pcs /\ op \in Kinds
  BY DEF Pcs, Kinds
<1>8. /\ q \in ReqsIn(Len(msgs)) /\ q.pc = "create" /\ q.op = op
      /\ q.parent = parent
  BY <1>5, <1>6, <1>7 DEF ReqsIn
<1>9. q.blob = NoBlob /\ q.cold = FALSE
  BY DEF IdleReq
<1> HIDE DEF q
<1> QED
  BY <1>4, <1>6, <1>8, <1>9, Becomes DEF BeginAppend, Frame

LEMMA BeginReplyStep ==
  ASSUME TypeInv, NEW c \in Clients, BeginReply(c)
  PROVE  /\ Frame /\ At(c, "llm") /\ req[c].op = "chat" /\ session.exists
         /\ Only(c) /\ req'[c] \in ReqsIn(Len(msgs)) /\ req'[c].pc = "create"
         /\ req'[c].op = "chat" /\ req'[c].parent = session.leaf
         /\ req'[c].blob = NoBlob /\ req'[c].cold = FALSE
<1> DEFINE q == [IdleReq EXCEPT !.pc = "create", !.op = "chat", !.role = "assistant",
                                !.parent = session.leaf]
<1>1. req' = [req EXCEPT ![c] = q]
  BY DEF BeginReply
<1>2. IdleReq \in ReqsIn(Len(msgs)) /\ Len(msgs) \in Nat
  BY ReqType, IdleType
<1>3. "create" \in Pcs /\ "chat" \in Kinds /\ "assistant" \in ValidRoles
      /\ session.leaf \in 0..Len(msgs)
  BY DEF Pcs, Kinds, ValidRoles, TypeInv, SessionsIn
<1>4. /\ q \in ReqsIn(Len(msgs)) /\ q.pc = "create" /\ q.op = "chat"
      /\ q.parent = session.leaf
  BY <1>2, <1>3 DEF ReqsIn
<1>5. q.blob = NoBlob /\ q.cold = FALSE
  BY DEF IdleReq
<1> HIDE DEF q
<1> QED
  BY <1>1, <1>4, <1>5, Becomes DEF BeginReply, Frame

LEMMA CreateMessageStep ==
  ASSUME TypeInv, NEW c \in Clients, CreateMessage(c)
  PROVE  /\ UNCHANGED <<session, stm, jobs, acked>> /\ At(c, "create")
         /\ session.exists /\ Len(msgs) < MaxMsgs
         /\ msgs' = Append(msgs, [parent |-> req[c].parent, role |-> req[c].role])
         /\ Len(msgs') = Len(msgs) + 1
         /\ Only(c) /\ req'[c] \in ReqsIn(Len(msgs) + 1) /\ req'[c].pc = "setLeaf"
         /\ req'[c].msg = Len(msgs) + 1 /\ req'[c].op = req[c].op
         /\ req'[c].parent = req[c].parent /\ req'[c].blob = req[c].blob
         /\ req'[c].cold = req[c].cold
<1> DEFINE q == [req[c] EXCEPT !.pc = "setLeaf", !.msg = Len(msgs) + 1]
<1>1. req' = [req EXCEPT ![c] = q]
  BY ReqType DEF CreateMessage
<1>2. req[c] \in ReqsIn(Len(msgs) + 1) /\ Len(msgs) + 1 \in 0..(Len(msgs) + 1)
  BY ReqType, ReqsInMono
<1>3. "setLeaf" \in Pcs
  BY DEF Pcs
<1>4. /\ q \in ReqsIn(Len(msgs) + 1) /\ q.pc = "setLeaf" /\ q.msg = Len(msgs) + 1
      /\ q.op = req[c].op /\ q.parent = req[c].parent /\ q.blob = req[c].blob
      /\ q.cold = req[c].cold
  BY <1>2, <1>3 DEF ReqsIn
<1> HIDE DEF q
<1>5. Len(msgs') = Len(msgs) + 1
  BY DEF CreateMessage, TypeInv
<1> QED
  BY <1>1, <1>4, <1>5, Becomes DEF CreateMessage

LEMMA SetLeafStep ==
  ASSUME TypeInv, NEW c \in Clients, SetLeaf(c)
  PROVE  /\ UNCHANGED <<msgs, stm, jobs, acked>> /\ At(c, "setLeaf")
         /\ session.exists /\ Moves(c, "getStm")
         /\ session' \in SessionsIn(Len(msgs)) /\ session'.leaf = req[c].msg
         /\ session'.exists = session.exists /\ session'.digest = session.digest
         /\ session'.archived = session.archived
<1>1. "getStm" \in Pcs
  BY DEF Pcs
<1>2. session \in SessionsIn(Len(msgs)) /\ req[c].msg \in 1..Len(msgs)
  BY DEF SetLeaf, At, TypeInv, Saved
<1>3. session' = [session EXCEPT !.leaf = req[c].msg,
                                 !.title = IF req[c].titled THEN req[c].msg
                                           ELSE session.title]
  BY <1>2 DEF SetLeaf, SessionsIn
<1>4. PICK title : title = IF req[c].titled THEN req[c].msg ELSE session.title
  OBVIOUS
<1>5. title \in 0..Custom
  BY <1>2, <1>4, SizeAssumption DEF SessionsIn, Custom, TypeInv
<1>6. session' = [session EXCEPT !.leaf = req[c].msg, !.title = title]
  BY <1>3, <1>4
<1>7. req[c].msg \in 0..Len(msgs)
  BY <1>2
<1>8. /\ session' \in SessionsIn(Len(msgs)) /\ session'.leaf = req[c].msg
      /\ session'.exists = session.exists /\ session'.digest = session.digest
      /\ session'.archived = session.archived
  BY <1>2, <1>5, <1>6, <1>7 DEF SessionsIn
<1> QED
  BY <1>1, <1>8, GotoMoves DEF SetLeaf

LEMMA GetStmStep ==
  ASSUME TypeInv, NEW c \in Clients, GetStm(c)
  PROVE  /\ Frame /\ At(c, "getStm") /\ Only(c)
         /\ req'[c] \in ReqsIn(Len(msgs)) /\ req'[c].pc = "setStm"
         /\ req'[c].blob = stm /\ req'[c].msg = req[c].msg /\ req'[c].op = req[c].op
         /\ req'[c].parent = req[c].parent /\ req'[c].cold = req[c].cold
<1> DEFINE q == [req[c] EXCEPT !.pc = "setStm", !.blob = stm]
<1>1. req' = [req EXCEPT ![c] = q]
  BY ReqType DEF GetStm
<1>2. "setStm" \in Pcs /\ stm \in BlobsIn(Len(msgs))
  BY DEF Pcs, TypeInv
<1>3. /\ q \in ReqsIn(Len(msgs)) /\ q.pc = "setStm" /\ q.blob = stm
      /\ q.msg = req[c].msg /\ q.op = req[c].op
      /\ q.parent = req[c].parent /\ q.cold = req[c].cold
  BY <1>2, ReqType DEF ReqsIn
<1> HIDE DEF q
<1> QED
  BY <1>1, <1>3, Becomes DEF GetStm, Frame

LEMMA SetStmStep ==
  ASSUME TypeInv, NEW c \in Clients, SetStm(c)
  PROVE  /\ UNCHANGED <<msgs, session, jobs>> /\ At(c, "setStm")
         /\ stm' \in BlobsIn(Len(msgs))
         /\ stm'.messages = Append(req[c].blob.messages, req[c].msg)
         /\ stm'.prefix = req[c].blob.prefix
         /\ req[c].msg \in 1..Len(msgs)
         /\ req[c].op = "chat" => Moves(c, "usage") /\ acked' = acked
         /\ req[c].op # "chat" => Idles(c) /\ acked' = acked \cup {req[c].msg}
<1>1. "usage" \in Pcs
  BY DEF Pcs
<1>2. req[c].msg \in 1..Len(msgs) /\ req[c].blob \in BlobsIn(Len(msgs))
  BY ReqType DEF SetStm, At, TypeInv, Saved
<1>3. PICK n : n = Len(msgs)
  OBVIOUS
<1>4. PICK b \in BlobsIn(n) : b = req[c].blob
  BY <1>2, <1>3
<1>5. PICK m \in 1..n : m = req[c].msg
  BY <1>2, <1>3
<1>6. stm' = [b EXCEPT !.messages = Append(b.messages, m), !.leaf = m]
  BY <1>4, <1>5 DEF SetStm, BlobsIn
<1>7. Append(b.messages, m) \in Seq(1..n) /\ m \in 0..n
  <2>1. b.messages \in Seq(1..n)
    BY DEF BlobsIn
  <2>2. n \in Nat
    BY <1>3 DEF TypeInv
  <2> QED
    BY <2>1, <2>2
<1>8. /\ stm' \in BlobsIn(n)
      /\ stm'.messages = Append(b.messages, m) /\ stm'.prefix = b.prefix
  BY <1>6, <1>7 DEF BlobsIn
<1> QED
  BY <1>1, <1>3, <1>4, <1>5, <1>8, GotoMoves, DoneIdles DEF SetStm

LEMMA RecordUsageStep ==
  ASSUME TypeInv, NEW c \in Clients, RecordUsage(c)
  PROVE  /\ UNCHANGED <<msgs, session, stm, jobs>> /\ At(c, "usage")
         /\ session.exists /\ Idles(c)
         /\ req[c].msg \in 1..Len(msgs) /\ acked' = acked \cup {req[c].msg}
BY DoneIdles DEF RecordUsage, At, TypeInv, Saved

LEMMA BeginContextStep ==
  ASSUME TypeInv, NEW c \in Clients, BeginContext(c)
  PROVE  Frame /\ \E op \in {"chat", "explain", "preview"} : Starts(c, op, "getBlob")
<1>1. "getBlob" \in Pcs /\ {"chat", "explain", "preview"} \subseteq Kinds
  BY DEF Pcs, Kinds
<1>2. PICK op \in {"chat", "explain", "preview"} : Begins(c, op, "getBlob")
  BY DEF BeginContext
<1>3. Starts(c, op, "getBlob")
  BY <1>1, <1>2, BeginsStarts
<1> QED
  BY <1>3 DEF BeginContext, Frame

LEMMA GetBlobStep ==
  ASSUME TypeInv, NEW c \in Clients, GetBlob(c)
  PROVE  /\ Frame /\ At(c, "getBlob")
         /\ stm.messages = <<>> => Moves(c, "loadSession")
         /\ stm.messages # <<>> =>
              /\ Only(c) /\ req'[c] \in ReqsIn(Len(msgs))
              /\ req'[c].op = req[c].op /\ req'[c].parent = req[c].parent
              /\ req'[c].msg = req[c].msg /\ req'[c].cold = req[c].cold
              /\ req'[c].blob = stm
              /\ \E r : r.blob = stm /\ r.cold = req[c].cold /\ req'[c].pc = ContextPc(r)
<1>1. CASE stm.messages = <<>>
  <2> DEFINE q == [req[c] EXCEPT !.pc = "loadSession"]
  <2>1. req' = [req EXCEPT ![c] = q]
    BY <1>1 DEF GetBlob
  <2>2. "loadSession" \in Pcs
    BY DEF Pcs
  <2>3. q \in ReqsIn(Len(msgs)) /\ q.pc = "loadSession" /\ SameData(q, req[c])
    BY <2>2, ReqType DEF ReqsIn, SameData
  <2> HIDE DEF q
  <2> QED
    BY <1>1, <2>1, <2>3, Becomes DEF GetBlob, Moves, Frame
<1>2. CASE stm.messages # <<>>
  <2> DEFINE r == [req[c] EXCEPT !.blob = stm]
  <2>1. req' = [req EXCEPT ![c] = WithBlob(r)]
    BY <1>2 DEF GetBlob
  <2>2. stm \in BlobsIn(Len(msgs))
    BY DEF TypeInv
  <2>3. /\ r \in ReqsIn(Len(msgs)) /\ r.blob = stm /\ r.cold = req[c].cold
        /\ r.op = req[c].op /\ r.parent = req[c].parent /\ r.msg = req[c].msg
    BY <2>2, ReqType DEF ReqsIn
  <2> HIDE DEF r
  <2>4. /\ WithBlob(r) \in ReqsIn(Len(msgs)) /\ SameData(WithBlob(r), r)
        /\ WithBlob(r).pc = ContextPc(r)
    BY <2>3, WithBlobFields
  <2>5. Only(c) /\ req'[c] = WithBlob(r)
    BY <2>1, Becomes
  <2> QED
    BY <1>2, <2>3, <2>4, <2>5 DEF GetBlob, Frame, SameData
<1> QED
  BY <1>1, <1>2

LEMMA LoadSessionStep ==
  ASSUME TypeInv, NEW c \in Clients, LoadSession(c)
  PROVE  /\ Frame /\ At(c, "loadSession")
         /\ Only(c) /\ req'[c] \in ReqsIn(Len(msgs)) /\ req'[c].pc = "loadPath"
         /\ req'[c].op = req[c].op /\ req'[c].msg = req[c].msg
         /\ req'[c].parent = IF session.exists THEN session.leaf ELSE NoMsg
         /\ req'[c].blob.prefix = IF session.exists THEN session.digest ELSE <<>>
         /\ req'[c].cold = req[c].cold
<1> DEFINE leaf == IF session.exists THEN session.leaf ELSE NoMsg
           digest == IF session.exists THEN session.digest ELSE <<>>
           q == [req[c] EXCEPT !.pc = "loadPath", !.parent = leaf,
                               !.blob.prefix = digest]
<1>1. req' = [req EXCEPT ![c] = q]
  BY DEF LoadSession
<1>2. leaf \in 0..Len(msgs) /\ digest \in Seq(1..Len(msgs)) /\ "loadPath" \in Pcs
  <2>1. session.leaf \in 0..Len(msgs) /\ session.digest \in Seq(1..Len(msgs))
    BY DEF TypeInv, SessionsIn
  <2>2. NoMsg \in 0..Len(msgs) /\ "loadPath" \in Pcs /\ <<>> \in Seq(1..Len(msgs))
    BY ReqType DEF NoMsg, Pcs
  <2> QED
    BY <2>1, <2>2
<1>3. leaf = (IF session.exists THEN session.leaf ELSE NoMsg)
      /\ digest = (IF session.exists THEN session.digest ELSE <<>>)
  OBVIOUS
<1> HIDE DEF leaf, digest
<1>4. [req[c].blob EXCEPT !.prefix = digest] \in BlobsIn(Len(msgs))
      /\ [req[c].blob EXCEPT !.prefix = digest].prefix = digest
  BY <1>2, ReqType DEF BlobsIn
<1>5. q = [req[c] EXCEPT !.pc = "loadPath", !.parent = leaf,
                         !.blob = [req[c].blob EXCEPT !.prefix = digest]]
  BY ReqType DEF ReqsIn
<1>6. /\ q \in ReqsIn(Len(msgs)) /\ q.pc = "loadPath" /\ q.op = req[c].op
      /\ q.msg = req[c].msg /\ q.parent = leaf /\ q.blob.prefix = digest
      /\ q.cold = req[c].cold
  <2>1. PICK b \in BlobsIn(Len(msgs)) : b = [req[c].blob EXCEPT !.prefix = digest]
    BY <1>4
  <2>2. q = [req[c] EXCEPT !.pc = "loadPath", !.parent = leaf, !.blob = b]
    BY <1>5, <2>1
  <2> QED
    BY <1>2, <1>4, <2>1, <2>2, ReqType, ZenonT(30) DEF ReqsIn
<1> HIDE DEF q
<1> QED
  BY <1>1, <1>3, <1>6, Becomes DEF LoadSession, Frame

\* What a cold restore finds: the path of the leaf read before, or every row.
PathOf(r) == IF ~session.exists THEN <<>>
             ELSE IF r.parent = NoMsg THEN AllMsgs ELSE PathTo(r.parent)

LEMMA PathOfType ==
  ASSUME TypeInv, TreeInv, NEW c \in Clients
  PROVE  /\ IsTree(msgs)
         /\ PathOf(req[c]) \in Seq(1..Len(msgs))
         /\ Len(PathOf(req[c])) <= Len(msgs)
         /\ session.exists /\ req[c].parent # NoMsg =>
              PathOf(req[c]) # <<>> /\ PathOf(req[c])[Len(PathOf(req[c]))] = req[c].parent
<1>1. IsTree(msgs)
  BY DEF TreeInv, Shapes, TreeOK, IsTree, Row
<1>2. req[c].parent \in 0..Len(msgs) /\ Len(msgs) \in Nat
  BY ReqType
<1>3. AllMsgs \in Seq(1..Len(msgs)) /\ Len(AllMsgs) = Len(msgs)
  BY <1>2 DEF AllMsgs
<1>4. PICK s : s = PathTo(req[c].parent)
  OBVIOUS
<1>5. IsPath(s, req[c].parent)
  BY <1>1, <1>2, <1>4, PathFacts, PathToIn
<1>6. s \in Seq(1..Len(msgs)) /\ Len(s) <= Len(msgs)
  <2>1. \A i \in 1..Len(s) : s[i] \in 1..Len(msgs)
    BY <1>2, <1>5 DEF IsPath
  <2>2. s \in Seq(1..Len(msgs))
    BY <1>5, <2>1 DEF IsPath
  <2> QED
    BY <1>2, <1>5, <2>2 DEF IsPath
<1>7. req[c].parent # NoMsg => s # <<>> /\ s[Len(s)] = req[c].parent
  BY <1>5 DEF IsPath
<1>8. PathOf(req[c]) \in {<<>>, AllMsgs, s}
  BY <1>4 DEF PathOf
<1>9. <<>> \in Seq(1..Len(msgs)) /\ Len(<<>>) <= Len(msgs)
  BY <1>2
<1>10. session.exists /\ req[c].parent # NoMsg => PathOf(req[c]) = s
  BY <1>4 DEF PathOf
<1> HIDE DEF PathOf
<1>11. PathOf(req[c]) \in Seq(1..Len(msgs)) /\ Len(PathOf(req[c])) <= Len(msgs)
  <2>1. CASE PathOf(req[c]) = <<>>
    BY <1>9, <2>1
  <2>2. CASE PathOf(req[c]) = AllMsgs
    BY <1>2, <1>3, <2>2
  <2>3. CASE PathOf(req[c]) = s
    BY <1>6, <2>3
  <2> QED
    BY <1>8, <2>1, <2>2, <2>3
<1> QED
  BY <1>1, <1>7, <1>10, <1>11

LEMMA LoadPathStep ==
  ASSUME TypeInv, TreeInv, NEW c \in Clients, LoadPath(c)
  PROVE  /\ Frame /\ At(c, "loadPath")
         /\ Only(c) /\ req'[c] \in ReqsIn(Len(msgs))
         /\ req'[c].op = req[c].op /\ req'[c].msg = req[c].msg
         /\ req'[c].parent = req[c].parent
         /\ req'[c].blob.messages = PathOf(req[c])
         /\ req'[c].blob.prefix = req[c].blob.prefix
         /\ req'[c].cold = (req[c].blob.prefix # <<>>)
         /\ PathOf(req[c]) # <<>> => req'[c].pc = "saveCold"
         /\ PathOf(req[c]) = <<>> => req'[c].pc = "llm"
<1> DEFINE path == IF ~session.exists THEN <<>>
                   ELSE IF req[c].parent = NoMsg THEN AllMsgs
                   ELSE PathTo(req[c].parent)
           leaf == IF path = <<>> THEN NoMsg ELSE path[Len(path)]
           cold == req[c].blob.prefix # <<>>
           r0 == [req[c] EXCEPT !.blob.messages = path, !.blob.leaf = leaf,
                                !.cold = cold]
<1>0. req' = [req EXCEPT ![c] = IF path # <<>> THEN [r0 EXCEPT !.pc = "saveCold"]
                                ELSE WithBlob(r0)]
  BY Zenon DEF LoadPath
<1>1. path = PathOf(req[c])
  BY DEF PathOf
<1>2. leaf = IF path = <<>> THEN NoMsg ELSE path[Len(path)]
  OBVIOUS
<1>3. cold \in BOOLEAN /\ cold = (req[c].blob.prefix # <<>>)
  OBVIOUS
<1> HIDE DEF path, leaf, cold
<1>4. PICK n : n = Len(msgs)
  OBVIOUS
<1>5. n \in Nat /\ path \in Seq(1..n) /\ leaf \in 0..n
  <2>1. n \in Nat /\ path \in Seq(1..n)
    BY <1>1, <1>4, PathOfType, ReqType
  <2>2. path # <<>> => path[Len(path)] \in 1..n
    BY <2>1
  <2> QED
    BY <1>2, <2>1, <2>2 DEF NoMsg
<1>6. PICK b : b = [req[c].blob EXCEPT !.messages = path, !.leaf = leaf]
  OBVIOUS
<1>7. b \in BlobsIn(n) /\ b.messages = path /\ b.prefix = req[c].blob.prefix
  BY <1>4, <1>5, <1>6, ReqType DEF BlobsIn
<1>8. PICK r : r = r0
  OBVIOUS
<1>9. /\ r \in ReqsIn(n) /\ r.blob = b /\ r.cold = cold /\ r.op = req[c].op
      /\ r.msg = req[c].msg /\ r.parent = req[c].parent
  <2>1. r = [req[c] EXCEPT !.blob = b, !.cold = cold]
    BY <1>6, <1>8, ReqType DEF ReqsIn, BlobsIn
  <2> QED
    BY <1>3, <1>4, <1>7, <2>1, ReqType DEF ReqsIn
<1> HIDE DEF r0
<1> DEFINE q == [r EXCEPT !.pc = "saveCold"]
<1>10. "saveCold" \in Pcs
  BY DEF Pcs
<1>11. q \in ReqsIn(n) /\ q.pc = "saveCold" /\ SameData(q, r)
  BY <1>9, <1>10 DEF ReqsIn, SameData
<1> HIDE DEF q
<1>12. req' = [req EXCEPT ![c] = IF path # <<>> THEN q ELSE WithBlob(r)]
  BY <1>0, <1>8, SMTT(30) DEF q
<1>13. CASE path # <<>>
  BY <1>1, <1>3, <1>4, <1>7, <1>9, <1>11, <1>13, <1>12, Becomes, ZenonT(30) DEF LoadPath, Frame, SameData
<1>14. CASE path = <<>>
  <2>1. /\ WithBlob(r) \in ReqsIn(n) /\ SameData(WithBlob(r), r)
        /\ WithBlob(r).pc = ContextPc(r)
    BY <1>9, WithBlobFields
  <2>2. ContextPc(r) = "llm"
    <3>1. Dropped(<<>>) = <<>> /\ Kept(<<>>) = <<>>
      <4>1. /\ Dropped(<<>>) \in Seq(1..n) /\ Kept(<<>>) \in Seq(1..n)
            /\ Len(Dropped(<<>>)) + Len(Kept(<<>>)) = Len(<<>>)
        <5>1. <<>> \in Seq(1..n)
          OBVIOUS
        <5> QED
          BY <5>1, TrimFacts
      <4> QED
        BY <4>1
    <3>2. Extra(r) = <<>>
      <4>1. Kept(r.blob.messages) = <<>>
        BY <1>7, <1>9, <1>14, <3>1
      <4>2. Window(r) = <<>>
        BY <4>1, SizeAssumption DEF Window, LastOf
      <4> QED
        BY <4>1, <4>2 DEF Extra
    <3> QED
      BY <1>7, <1>9, <1>14, <3>1, <3>2 DEF ContextPc, TrimPc, DigestDirty
  <2> QED
    BY <1>1, <1>3, <1>4, <1>7, <1>9, <1>14, <1>12, <2>1, <2>2, Becomes, ZenonT(30)
    DEF LoadPath, Frame, SameData
<1> QED
  BY <1>13, <1>14

LEMMA SaveColdStep ==
  ASSUME TypeInv, NEW c \in Clients, SaveCold(c)
  PROVE  /\ UNCHANGED <<msgs, session, jobs, acked>> /\ At(c, "saveCold")
         /\ Moves(c, ContextPc(req[c])) /\ stm' = req[c].blob
<1>1. /\ WithBlob(req[c]) \in ReqsIn(Len(msgs)) /\ SameData(WithBlob(req[c]), req[c])
      /\ WithBlob(req[c]).pc = ContextPc(req[c])
  BY ReqType, WithBlobFields
<1>2. req' = [req EXCEPT ![c] = WithBlob(req[c])]
  BY DEF SaveCold
<1> QED
  BY <1>1, <1>2, Becomes DEF SaveCold, Moves

LEMMA SaveKeptStep ==
  ASSUME TypeInv, NEW c \in Clients, SaveKept(c)
  PROVE  /\ UNCHANGED <<msgs, session, jobs, acked>> /\ At(c, "saveKept")
         /\ stm' \in BlobsIn(Len(msgs))
         /\ stm'.messages = Kept(req[c].blob.messages)
         /\ stm'.prefix = BlobPrefix(req[c])
         /\ Moves(c, IF TrustsDigest(req[c]) THEN TrimPc(req[c]) ELSE "enqueue")
<1>1. PICK b \in BlobsIn(Len(msgs)) : b = req[c].blob
  BY ReqType
<1>2. PICK kept \in Seq(1..Len(msgs)) : kept = Kept(req[c].blob.messages)
  BY ReqType, ContextTypes
<1>3. PICK prefix \in Seq(1..Len(msgs)) : prefix = BlobPrefix(req[c])
  BY ReqType, ContextTypes
<1>4. stm' = [b EXCEPT !.messages = kept, !.prefix = prefix]
  BY <1>1, <1>2, <1>3 DEF SaveKept, BlobsIn
<1>5. stm' \in BlobsIn(Len(msgs)) /\ stm'.messages = kept /\ stm'.prefix = prefix
  BY <1>4 DEF BlobsIn
<1>6. CASE TrustsDigest(req[c])
  <2>1. req' = [req EXCEPT ![c] = AfterTrim(req[c])]
    BY <1>6 DEF SaveKept
  <2>2. /\ AfterTrim(req[c]) \in ReqsIn(Len(msgs)) /\ SameData(AfterTrim(req[c]), req[c])
        /\ AfterTrim(req[c]).pc = TrimPc(req[c])
    BY ReqType, AfterTrimFields
  <2>3. Moves(c, TrimPc(req[c]))
    BY <2>1, <2>2, Becomes DEF Moves
  <2> QED
    BY <1>2, <1>3, <1>5, <1>6, <2>3 DEF SaveKept
<1>7. CASE ~TrustsDigest(req[c])
  <2> DEFINE q == [req[c] EXCEPT !.pc = "enqueue"]
  <2>1. req' = [req EXCEPT ![c] = q]
    BY <1>7 DEF SaveKept
  <2>2. "enqueue" \in Pcs
    BY DEF Pcs
  <2>3. q \in ReqsIn(Len(msgs)) /\ SameData(q, req[c]) /\ q.pc = "enqueue"
    BY <2>2, ReqType DEF ReqsIn, SameData
  <2> HIDE DEF q
  <2>4. Moves(c, "enqueue")
    BY <2>1, <2>3, Becomes DEF Moves
  <2> QED
    BY <1>2, <1>3, <1>5, <1>7, <2>4 DEF SaveKept
<1> QED
  BY <1>6, <1>7

LEMMA EnqueueCompressStep ==
  ASSUME TypeInv, NEW c \in Clients, EnqueueCompress(c)
  PROVE  /\ UNCHANGED <<msgs, session, stm, acked>> /\ At(c, "enqueue")
         /\ jobs' = jobs \cup {<<"compress", req[c].blob.leaf>>}
         /\ req[c].blob.leaf \in 0..Len(msgs)
         /\ Moves(c, TrimPc(req[c]))
<1>1. /\ AfterTrim(req[c]) \in ReqsIn(Len(msgs)) /\ SameData(AfterTrim(req[c]), req[c])
      /\ AfterTrim(req[c]).pc = TrimPc(req[c])
  BY ReqType, AfterTrimFields
<1>2. req' = [req EXCEPT ![c] = AfterTrim(req[c])]
  BY DEF EnqueueCompress
<1>3. req[c].blob.leaf \in 0..Len(msgs)
  BY ReqType DEF BlobsIn
<1> QED
  BY <1>1, <1>2, <1>3, Becomes DEF EnqueueCompress, Moves

LEMMA PersistDigestStep ==
  ASSUME TypeInv, NEW c \in Clients, PersistDigest(c)
  PROVE  /\ UNCHANGED <<msgs, stm, jobs, acked>> /\ At(c, "persist")
         /\ session.exists /\ Moves(c, "llm")
         /\ session' \in SessionsIn(Len(msgs))
         /\ session'.digest = FirstOf(ContextPrefix(req[c]), DigestCap)
         /\ session'.leaf = session.leaf /\ session'.exists = session.exists
<1>1. PICK digest : digest = FirstOf(ContextPrefix(req[c]), DigestCap)
  OBVIOUS
<1>2. digest \in Seq(1..Len(msgs))
  <2>1. PICK S : S = 1..Len(msgs)
    OBVIOUS
  <2>2. ContextPrefix(req[c]) \in Seq(S)
    BY <2>1, ReqType, ContextTypes
  <2> QED
    BY <1>1, <2>1, <2>2, FirstOfFacts, SizeAssumption
<1>3. session' = [session EXCEPT !.digest = digest]
  BY <1>1 DEF PersistDigest
<1>4. /\ session' \in SessionsIn(Len(msgs)) /\ session'.digest = digest
      /\ session'.leaf = session.leaf /\ session'.exists = session.exists
  BY <1>2, <1>3 DEF TypeInv, SessionsIn
<1>5. "llm" \in Pcs
  BY DEF Pcs
<1> QED
  BY <1>1, <1>4, <1>5, GotoMoves DEF PersistDigest

-----------------------------------------------------------------------------

LEMMA LoadLeafStep ==
  ASSUME TypeInv, NEW c \in Clients, LoadLeaf(c)
  PROVE  /\ Frame /\ At(c, "loadLeaf")
         /\ Only(c) /\ req'[c] \in ReqsIn(Len(msgs)) /\ req'[c].pc = "push"
         /\ req'[c].op = req[c].op /\ req'[c].cold = req[c].cold
         /\ req'[c].blob = req[c].blob
         /\ req'[c].parent = IF ~session.exists THEN NoMsg
                             ELSE IF session.leaf # NoMsg THEN session.leaf
                             ELSE Len(msgs)
<1>1. PICK leaf : leaf = IF ~session.exists THEN NoMsg
                         ELSE IF session.leaf # NoMsg THEN session.leaf
                         ELSE Len(msgs)
  OBVIOUS
<1> DEFINE q == [req[c] EXCEPT !.pc = "push", !.parent = leaf]
<1>2. req' = [req EXCEPT ![c] = q]
  BY <1>1, ReqType DEF LoadLeaf
<1>3. leaf \in 0..Len(msgs) /\ "push" \in Pcs
  BY <1>1, ReqType DEF TypeInv, SessionsIn, NoMsg, Pcs
<1>4. /\ q \in ReqsIn(Len(msgs)) /\ q.pc = "push" /\ q.parent = leaf
      /\ q.op = req[c].op /\ q.cold = req[c].cold /\ q.blob = req[c].blob
  BY <1>3, ReqType DEF ReqsIn
<1> HIDE DEF q
<1> QED
  BY <1>1, <1>2, <1>4, Becomes DEF LoadLeaf, Frame

LEMMA EnqueueExplicitStep ==
  ASSUME TypeInv, NEW c \in Clients, EnqueueExplicit(c)
  PROVE  /\ UNCHANGED <<msgs, session, stm, acked>> /\ At(c, "push")
         /\ jobs' = jobs \cup {<<"explicit", req[c].parent>>}
         /\ IF req[c].op = "end" THEN Moves(c, "clear") ELSE Idles(c)
<1>1. "clear" \in Pcs
  BY DEF Pcs
<1> QED
  BY <1>1, GotoMoves, DoneIdles DEF EnqueueExplicit

LEMMA ClearStmStep ==
  ASSUME TypeInv, NEW c \in Clients, ClearStm(c)
  PROVE  /\ UNCHANGED <<msgs, session, jobs, acked>> /\ At(c, "clear")
         /\ Moves(c, "archive") /\ stm' = NoBlob
<1>1. "archive" \in Pcs
  BY DEF Pcs
<1> QED
  BY <1>1, GotoMoves DEF ClearStm

LEMMA ArchiveStep ==
  ASSUME TypeInv, NEW c \in Clients, Archive(c) \/ PatchSession(c)
  PROVE  /\ UNCHANGED <<msgs, stm, jobs, acked>> /\ Idles(c)
         /\ At(c, "archive") \/ At(c, "patch")
         /\ session' \in SessionsIn(Len(msgs))
         /\ session'.digest = session.digest
         /\ session'.leaf = session.leaf /\ session'.exists = session.exists
<1>1. session \in SessionsIn(Len(msgs))
  BY DEF TypeInv
<1>2. CASE Archive(c)
  <2>1. session' = [session EXCEPT !.archived = TRUE]
    BY <1>2 DEF Archive
  <2>2. /\ session' \in SessionsIn(Len(msgs)) /\ session'.digest = session.digest
        /\ session'.leaf = session.leaf /\ session'.exists = session.exists
    BY <1>1, <2>1 DEF SessionsIn
  <2> QED
    BY <1>2, <2>2, DoneIdles DEF Archive
<1>3. CASE PatchSession(c)
  <2>1. PICK title \in {session.title, NoTitle, Custom}, archived \in BOOLEAN :
          session' = [session EXCEPT !.title = title, !.archived = archived]
    BY <1>3 DEF PatchSession
  <2>2. title \in 0..Custom
    BY <1>1, SizeAssumption DEF SessionsIn, NoTitle, Custom
  <2>3. /\ session' \in SessionsIn(Len(msgs)) /\ session'.digest = session.digest
        /\ session'.leaf = session.leaf /\ session'.exists = session.exists
    BY <1>1, <2>1, <2>2 DEF SessionsIn
  <2> QED
    BY <1>3, <2>3, DoneIdles DEF PatchSession
<1> QED
  BY <1>2, <1>3

\* The other requests on the session start, and every handler may stop.
LEMMA SessionStartsStep ==
  ASSUME TypeInv, NEW c \in Clients, BeginEnd(c) \/ BeginExtract(c) \/ BeginPatch(c)
  PROVE  /\ Frame
         /\ \/ Starts(c, "end", "loadLeaf") \/ Starts(c, "extract", "loadLeaf")
            \/ Starts(c, "patch", "patch")
<1>1. {"loadLeaf", "patch"} \subseteq Pcs /\ {"end", "extract", "patch"} \subseteq Kinds
  BY DEF Pcs, Kinds
<1> QED
  BY <1>1, BeginsStarts DEF BeginEnd, BeginExtract, BeginPatch, Frame

LEMMA StopsStep ==
  ASSUME TypeInv, NEW c \in Clients, EndContext(c) \/ RowGone(c) \/ Abort(c)
  PROVE  Frame /\ Idles(c)
BY DoneIdles DEF EndContext, RowGone, Abort, Frame

LEMMA DeleteSessionStep ==
  ASSUME TypeInv, DeleteSession
  PROVE  /\ UNCHANGED <<msgs, stm, jobs, req, acked>>
         /\ session' \in SessionsIn(Len(msgs)) /\ session'.exists = FALSE
         /\ session'.leaf = session.leaf /\ session'.digest = session.digest
BY DEF DeleteSession, TypeInv, SessionsIn

-----------------------------------------------------------------------------
(* Nothing refers to a message that has no row.                           *)

\* What every later proof starts from.
Inv == TypeInv /\ TreeInv

\* A step that adds no row and leaves c a request that refers to rows.
LEMMA TypeKeeps ==
  ASSUME TypeInv, NEW c \in Clients, Only(c), msgs' = msgs,
         req'[c] \in ReqsIn(Len(msgs)),
         req'[c].pc \in Saved => req'[c].msg \in 1..Len(msgs),
         session' \in SessionsIn(Len(msgs)), stm' \in BlobsIn(Len(msgs)),
         jobs' \subseteq ({"compress", "explicit"} \X (0..Len(msgs))),
         acked' \subseteq 1..Len(msgs)
  PROVE  TypeInv'
<1>1. req' \in [Clients -> ReqsIn(Len(msgs))]
  <2>1. \A d \in Clients : req'[d] \in ReqsIn(Len(msgs))
    BY ReqType DEF Only
  <2>2. req' = [d \in Clients |-> req'[d]]
    BY DEF Only
  <2> QED
    BY <2>1, <2>2
<1>2. \A d \in Clients : req'[d].pc \in Saved => req'[d].msg \in 1..Len(msgs)
  BY DEF Only, TypeInv
<1> QED
  BY <1>1, <1>2 DEF TypeInv

\* Nothing but what the request holds changes.
LEMMA FrameKeeps ==
  ASSUME TypeInv, NEW c \in Clients, Frame, Only(c), req'[c] \in ReqsIn(Len(msgs)),
         req'[c].pc \in Saved => req'[c].msg \in 1..Len(msgs)
  PROVE  TypeInv'
<1>1. /\ session' \in SessionsIn(Len(msgs)) /\ stm' \in BlobsIn(Len(msgs))
      /\ jobs' \subseteq ({"compress", "explicit"} \X (0..Len(msgs)))
      /\ acked' \subseteq 1..Len(msgs)
  BY DEF Frame, TypeInv
<1> QED
  BY <1>1, TypeKeeps DEF Frame

LEMMA MovesType ==
  ASSUME TypeInv, NEW c \in Clients, NEW pc, Moves(c, pc),
         pc \in Saved => req[c].pc \in Saved
  PROVE  /\ Only(c) /\ req'[c] \in ReqsIn(Len(msgs))
         /\ req'[c].pc \in Saved => req'[c].msg \in 1..Len(msgs)
BY DEF Moves, SameData, TypeInv

LEMMA IdlesType ==
  ASSUME TypeInv, NEW c \in Clients, Idles(c)
  PROVE  /\ Only(c) /\ req'[c] \in ReqsIn(Len(msgs)) /\ req'[c].pc = "idle"
         /\ req'[c].pc \notin Saved
<1>1. IdleReq \in ReqsIn(Len(msgs))
  BY ReqType, IdleType
<1>2. IdleReq.pc = "idle"
  BY DEF IdleReq
<1> QED
  BY <1>1, <1>2 DEF Idles, Saved

LEMMA ContextPcs ==
  \A r : ContextPc(r) \in {"saveKept", "persist", "llm"} /\ TrimPc(r) \in {"persist", "llm"}
BY DEF ContextPc, TrimPc

\* The steps that write rows and the leaf.
LEMMA TypeAppend ==
  ASSUME Inv, NEW c \in Clients, AppendStep(c)
  PROVE  TypeInv'
<1> USE DEF Inv
<1>0. /\ session \in SessionsIn(Len(msgs)) /\ stm \in BlobsIn(Len(msgs))
      /\ jobs \subseteq ({"compress", "explicit"} \X (0..Len(msgs)))
      /\ acked \subseteq 1..Len(msgs)
  BY DEF TypeInv
<1>1. CASE BeginAppend(c)
  BY <1>1, BeginAppendStep, FrameKeeps DEF Saved
<1>2. CASE BeginReply(c)
  BY <1>2, BeginReplyStep, FrameKeeps DEF Saved
<1>3. CASE CreateMessage(c)
  <2>1. PICK n \in Nat : n = Len(msgs)
    BY DEF TypeInv
  <2>2. /\ msgs' = Append(msgs, [parent |-> req[c].parent, role |-> req[c].role])
        /\ Len(msgs') = n + 1 /\ n < MaxMsgs
        /\ Only(c) /\ req'[c] \in ReqsIn(n + 1) /\ req'[c].msg = n + 1
    BY <1>3, <2>1, CreateMessageStep
  <2>3. req[c] \in ReqsIn(n)
    BY <2>1, ReqType
  <2>4. msgs' \in Seq([parent : Refs, role : ValidRoles]) /\ Len(msgs') <= MaxMsgs
    <3>1. [parent |-> req[c].parent, role |-> req[c].role]
            \in [parent : Refs, role : ValidRoles]
      BY <2>2, <2>3, SizeAssumption DEF ReqsIn, Refs
    <3> QED
      BY <2>2, <3>1, SizeAssumption DEF TypeInv
  <2>6. session' \in SessionsIn(n + 1)
    <3>1. session.leaf \in 0..(n + 1) /\ session.digest \in Seq(1..(n + 1))
      <4>1. session.leaf \in 0..n /\ session.digest \in Seq(1..n)
        BY <1>0, <2>1 DEF SessionsIn
      <4>2. 1..n \subseteq 1..(n + 1)
        OBVIOUS
      <4> QED
        BY <4>1, <4>2, SeqMono
    <3> QED
      BY <1>0, <1>3, <3>1, CreateMessageStep DEF SessionsIn
  <2>7. stm' \in BlobsIn(n + 1)
    <3>1. stm \in BlobsIn(n) /\ n + 1 \in Nat /\ n <= n + 1
      BY <1>0, <2>1
    <3>2. stm \in BlobsIn(n + 1)
      BY <3>1, BlobsInMono
    <3> QED
      BY <1>3, <3>2, CreateMessageStep
  <2>8. jobs' \subseteq ({"compress", "explicit"} \X (0..(n + 1)))
    <3>1. 0..n \subseteq 0..(n + 1)
      OBVIOUS
    <3> QED
      BY <1>0, <1>3, <2>1, <3>1, CreateMessageStep
  <2>9. \A d \in Clients : req'[d] \in ReqsIn(n + 1)
    <3>1. \A d \in Clients : req[d] \in ReqsIn(n + 1)
      BY <2>1, ReqType, ReqsInMono
    <3> QED
      BY <2>2, <3>1 DEF Only
  <2>10. req' \in [Clients -> ReqsIn(n + 1)]
    <3>1. req' = [d \in Clients |-> req'[d]]
      BY <2>2 DEF Only
    <3> QED
      BY <2>9, <3>1
  <2>11. acked' \subseteq 1..(n + 1)
    <3>1. 1..n \subseteq 1..(n + 1)
      OBVIOUS
    <3> QED
      BY <1>0, <1>3, <2>1, <3>1, CreateMessageStep
  <2>12. \A d \in Clients : req'[d].pc \in Saved => req'[d].msg \in 1..(n + 1)
    <3> SUFFICES ASSUME NEW d \in Clients, req'[d].pc \in Saved
                 PROVE  req'[d].msg \in 1..(n + 1)
      OBVIOUS
    <3>1. CASE d = c
      BY <2>2, <3>1
    <3>2. CASE d # c
      <4>1. req'[d] = req[d]
        BY <2>2, <3>2 DEF Only
      <4>2. req[d].msg \in 1..n
        BY <2>1, <4>1 DEF TypeInv
      <4> QED
        BY <4>1, <4>2
    <3> QED
      BY <3>1, <3>2
  <2>13. Len(msgs') = n + 1
    BY <2>2
  <2> QED
    BY <2>4, <2>6, <2>7, <2>8, <2>10, <2>11, <2>12, <2>13 DEF TypeInv
<1>4. CASE SetLeaf(c)
  <2>1. At(c, "setLeaf") /\ Moves(c, "getStm")
    BY <1>4, SetLeafStep
  <2>2. /\ Only(c) /\ req'[c] \in ReqsIn(Len(msgs))
        /\ req'[c].pc \in Saved => req'[c].msg \in 1..Len(msgs)
    BY <2>1, MovesType DEF At, Saved
  <2> QED
    BY <1>0, <1>4, <2>2, SetLeafStep, TypeKeeps
<1>5. CASE GetStm(c)
  <2>1. req[c].msg \in 1..Len(msgs)
    BY <1>5, GetStmStep DEF At, TypeInv, Saved
  <2> QED
    BY <1>5, <2>1, GetStmStep, FrameKeeps
<1>6. CASE SetStm(c)
  <2>1. acked' \subseteq 1..Len(msgs)
    BY <1>0, <1>6, SetStmStep
  <2>2. /\ Only(c) /\ req'[c] \in ReqsIn(Len(msgs))
        /\ req'[c].pc \in Saved => req'[c].msg \in 1..Len(msgs)
    <3>1. CASE req[c].op = "chat"
      <4>1. At(c, "setStm") /\ Moves(c, "usage")
        BY <1>6, <3>1, SetStmStep
      <4> QED
        BY <4>1, MovesType DEF At, Saved
    <3>2. CASE req[c].op # "chat"
      BY <1>6, <3>2, SetStmStep, IdlesType
    <3> QED
      BY <3>1, <3>2
  <2> QED
    BY <1>0, <1>6, <2>1, <2>2, SetStmStep, TypeKeeps
<1>7. CASE RecordUsage(c)
  <2>1. acked' \subseteq 1..Len(msgs)
    BY <1>0, <1>7, RecordUsageStep
  <2>2. Only(c) /\ req'[c] \in ReqsIn(Len(msgs)) /\ req'[c].pc \notin Saved
    BY <1>7, RecordUsageStep, IdlesType
  <2> QED
    BY <1>0, <1>7, <2>1, <2>2, RecordUsageStep, TypeKeeps
<1> QED
  BY <1>1, <1>2, <1>3, <1>4, <1>5, <1>6, <1>7 DEF AppendStep

\* The steps that build a context.
LEMMA TypeContext ==
  ASSUME Inv, NEW c \in Clients, ContextStep(c)
  PROVE  TypeInv'
<1> USE DEF Inv
<1>0. /\ session \in SessionsIn(Len(msgs)) /\ stm \in BlobsIn(Len(msgs))
      /\ jobs \subseteq ({"compress", "explicit"} \X (0..Len(msgs)))
      /\ acked \subseteq 1..Len(msgs)
  BY DEF TypeInv
<1>1. CASE BeginContext(c)
  BY <1>1, BeginContextStep, FrameKeeps DEF Starts, Saved
<1>2. CASE GetBlob(c)
  <2>1. CASE stm.messages = <<>>
    <3>1. Frame /\ Moves(c, "loadSession")
      BY <1>2, <2>1, GetBlobStep
    <3> QED
      BY <3>1, FrameKeeps, MovesType DEF Saved
  <2>2. CASE stm.messages # <<>>
    <3>1. /\ Frame /\ Only(c) /\ req'[c] \in ReqsIn(Len(msgs))
          /\ \E r : req'[c].pc = ContextPc(r)
      BY <1>2, <2>2, GetBlobStep
    <3>2. req'[c].pc \notin Saved
      BY <3>1, ContextPcs DEF Saved
    <3> QED
      BY <3>1, <3>2, FrameKeeps
  <2> QED
    BY <2>1, <2>2
<1>3. CASE LoadSession(c)
  BY <1>3, LoadSessionStep, FrameKeeps DEF Saved
<1>4. CASE LoadPath(c)
  <2>1. /\ Frame /\ Only(c) /\ req'[c] \in ReqsIn(Len(msgs))
        /\ req'[c].pc \in {"saveCold", "llm"}
    BY <1>4, LoadPathStep
  <2> QED
    BY <2>1, FrameKeeps DEF Saved
<1>5. CASE SaveCold(c)
  <2>1. PICK pc : pc = ContextPc(req[c])
    OBVIOUS
  <2>2. Moves(c, pc) /\ pc \notin Saved /\ stm' \in BlobsIn(Len(msgs))
    BY <1>5, <2>1, SaveColdStep, ContextPcs, ReqType DEF Saved
  <2> QED
    BY <1>0, <1>5, <2>2, SaveColdStep, MovesType, TypeKeeps
<1>6. CASE SaveKept(c)
  <2>1. PICK pc : pc = IF TrustsDigest(req[c]) THEN TrimPc(req[c]) ELSE "enqueue"
    OBVIOUS
  <2>2. Moves(c, pc) /\ pc \notin Saved /\ stm' \in BlobsIn(Len(msgs))
    BY <1>6, <2>1, SaveKeptStep, ContextPcs DEF Saved
  <2> QED
    BY <1>0, <1>6, <2>2, SaveKeptStep, MovesType, TypeKeeps
<1>7. CASE EnqueueCompress(c)
  <2>1. PICK pc : pc = TrimPc(req[c])
    OBVIOUS
  <2>2. Moves(c, pc) /\ pc \notin Saved
    BY <1>7, <2>1, EnqueueCompressStep, ContextPcs DEF Saved
  <2>3. jobs' \subseteq ({"compress", "explicit"} \X (0..Len(msgs)))
    BY <1>0, <1>7, EnqueueCompressStep
  <2> QED
    BY <1>0, <1>7, <2>2, <2>3, EnqueueCompressStep, MovesType, TypeKeeps
<1>8. CASE PersistDigest(c)
  <2>1. Moves(c, "llm") /\ "llm" \notin Saved
    BY <1>8, PersistDigestStep DEF Saved
  <2> QED
    BY <1>0, <1>8, <2>1, PersistDigestStep, MovesType, TypeKeeps
<1>9. CASE EndContext(c)
  BY <1>9, StopsStep, IdlesType, FrameKeeps
<1> QED
  BY <1>1, <1>2, <1>3, <1>4, <1>5, <1>6, <1>7, <1>8, <1>9 DEF ContextStep

\* The steps of the other requests.
LEMMA TypeSession ==
  ASSUME Inv, NEW c \in Clients, SessionStep(c)
  PROVE  TypeInv'
<1> USE DEF Inv
<1>0. /\ session \in SessionsIn(Len(msgs)) /\ stm \in BlobsIn(Len(msgs))
      /\ jobs \subseteq ({"compress", "explicit"} \X (0..Len(msgs)))
      /\ acked \subseteq 1..Len(msgs)
  BY DEF TypeInv
<1>1. CASE BeginEnd(c) \/ BeginExtract(c) \/ BeginPatch(c)
  BY <1>1, SessionStartsStep, FrameKeeps DEF Starts, Saved
<1>2. CASE LoadLeaf(c)
  BY <1>2, LoadLeafStep, FrameKeeps DEF Saved
<1>3. CASE EnqueueExplicit(c)
  <2>1. jobs' \subseteq ({"compress", "explicit"} \X (0..Len(msgs)))
    BY <1>0, <1>3, EnqueueExplicitStep, ReqType
  <2>2. Only(c) /\ req'[c] \in ReqsIn(Len(msgs)) /\ req'[c].pc \notin Saved
    <3>1. CASE req[c].op = "end"
      BY <1>3, <3>1, EnqueueExplicitStep DEF Moves, Saved
    <3>2. CASE req[c].op # "end"
      BY <1>3, <3>2, EnqueueExplicitStep, IdlesType
    <3> QED
      BY <3>1, <3>2
  <2> QED
    BY <1>0, <1>3, <2>1, <2>2, EnqueueExplicitStep, TypeKeeps
<1>4. CASE ClearStm(c)
  <2>1. Only(c) /\ req'[c] \in ReqsIn(Len(msgs)) /\ req'[c].pc \notin Saved
    BY <1>4, ClearStmStep DEF Moves, Saved
  <2>2. stm' \in BlobsIn(Len(msgs))
    BY <1>4, ClearStmStep, NoBlobType, ReqType
  <2> QED
    BY <1>0, <1>4, <2>1, <2>2, ClearStmStep, TypeKeeps
<1>5. CASE Archive(c) \/ PatchSession(c)
  BY <1>0, <1>5, ArchiveStep, IdlesType, TypeKeeps
<1> QED
  BY <1>1, <1>2, <1>3, <1>4, <1>5 DEF SessionStep

LEMMA TypeNext ==
  ASSUME Inv, [Next]_vars
  PROVE  TypeInv'
<1> USE DEF Inv
<1>1. ASSUME NEW c \in Clients, RowGone(c) \/ Abort(c) PROVE TypeInv'
  BY <1>1, StopsStep, IdlesType, FrameKeeps
<1>2. CASE ExpireStm
  <2>1. stm' \in BlobsIn(Len(msgs))
    BY <1>2, NoBlobType DEF ExpireStm, TypeInv
  <2> QED
    BY <1>2, <2>1 DEF ExpireStm, TypeInv
<1>3. CASE DeleteSession
  BY <1>3, DeleteSessionStep DEF TypeInv
<1>4. CASE UNCHANGED vars
  BY <1>4 DEF vars, TypeInv
<1> QED
  BY <1>1, <1>2, <1>3, <1>4, TypeAppend, TypeContext, TypeSession DEF Next

LEMMA InvInit == Init => Inv
<1> SUFFICES ASSUME Init PROVE TypeInv
  BY InitInv DEF Inv
<1>1. msgs = <<>> /\ Len(msgs) = 0
  BY DEF Init
<1>2. session \in SessionsIn(0)
  BY SizeAssumption DEF Init, SessionsIn, NoMsg, NoTitle, Custom
<1>3. stm \in BlobsIn(0)
  BY NoBlobType DEF Init
<1>4. req \in [Clients -> ReqsIn(0)]
  BY IdleType DEF Init
<1>5. \A c \in Clients : req[c].pc = "idle"
  BY DEF Init, IdleReq
<1> QED
  BY <1>1, <1>2, <1>3, <1>4, <1>5, SizeAssumption DEF Init, TypeInv, Saved

LEMMA InvNext == Inv /\ [Next]_vars => Inv'
BY TypeNext, NextKeeps DEF Inv

\* Rows, session, blob, jobs and what every handler holds keep their
\* shapes, and name existing messages only, whatever appends, chats, restores and
\* deaths of handlers overlap.
THEOREM TypeTheorem == Spec => []TypeOK
<1>1. Inv => TypeOK
  BY TypeInvImplies DEF Inv
<1> QED
  BY <1>1, InvInit, InvNext, PTL DEF Spec

=============================================================================
