---------------------------- MODULE HistoryProofs ----------------------------
(***************************************************************************)
(* What a session promises when its requests do not all overlap, for any   *)
(* bounds, costs, budgets and caps.  The code takes no lock, so each of    *)
(* the promises needs one of these hypotheses about who writes when:       *)
(*                                                                         *)
(*   OneWriter, NoBranch     the path of the leaf is a transcript that     *)
(*                           only grows, and keeps what was acknowledged   *)
(*   and nothing dies        the blob holds messages of the active path    *)
(*                           only                                          *)
(*   OneClient               the question of a chat is in its window       *)
(*   OneClient, a live blob  summary and window are in order and name no   *)
(*                           message twice                                 *)
(*                                                                         *)
(* Each comes with an inductive invariant of its own, on top of Inv of     *)
(* ConversationProofs.                                                     *)
(***************************************************************************)
EXTENDS ConversationProofs

-----------------------------------------------------------------------------
(* One writer: the path of the leaf is a transcript.                        *)

\* A client writes when it appends or chats; one of them does, as the single
\* device of a user who waits for each answer, and the others only read, patch,
\* end or extract.  Nobody names a parent of its own.
Writes(c) == "append" \in Ops[c] \/ "chat" \in Ops[c]
OneWriter == \A c, d \in Clients : Writes(c) /\ Writes(d) => c = d
NoBranch == \A c \in Clients : "branch" \notin Ops[c]

\* Where a handler has read the leaf for a message that is not yet answered.
Writing == {"create"} \cup Saved

\* What the writer is doing fits the leaf, and nobody else is writing.
WriterInv ==
  \A c \in Clients :
    /\ req[c].op # "none" => req[c].op \in Ops[c]
    /\ req[c].pc \in Writing => req[c].op \in {"append", "chat"}
    /\ At(c, "create") => req[c].parent = session.leaf
    /\ At(c, "setLeaf") => msgs[req[c].msg].parent = session.leaf
    /\ req[c].pc \in {"getStm", "setStm", "usage"} => session.leaf = req[c].msg

\* A step that neither writes a row nor moves the leaf nor acknowledges.
Reads(c) ==
  /\ Only(c) /\ UNCHANGED <<msgs, acked>>
  /\ session'.leaf = session.leaf /\ session'.exists = session.exists
  /\ req'[c].pc \notin Writing
  /\ req'[c].op \in Ops[c] \cup {"none", req[c].op}

LEMMA IdlesReads ==
  ASSUME NEW c \in Clients, Idles(c), UNCHANGED <<msgs, acked>>,
         session'.leaf = session.leaf, session'.exists = session.exists
  PROVE  Reads(c)
<1>1. IdleReq.pc = "idle" /\ IdleReq.op = "none"
  BY DEF IdleReq
<1> QED
  BY <1>1 DEF Idles, Reads, Writing, Saved

LEMMA MovesReads ==
  ASSUME NEW c \in Clients, NEW pc, Moves(c, pc), pc \notin Writing,
         UNCHANGED <<msgs, acked>>,
         session'.leaf = session.leaf, session'.exists = session.exists
  PROVE  Reads(c)
BY DEF Moves, SameData, Reads

LEMMA StartsReads ==
  ASSUME NEW c \in Clients, NEW op, NEW pc, Starts(c, op, pc), pc \notin Writing,
         UNCHANGED <<msgs, acked>>,
         session'.leaf = session.leaf, session'.exists = session.exists
  PROVE  Reads(c)
BY DEF Starts, Reads

LEMMA ContextReads ==
  ASSUME Inv, NEW c \in Clients, ContextStep(c)
  PROVE  Reads(c)
<1> USE DEF Inv
<1>0. \A r : ContextPc(r) \notin Writing /\ TrimPc(r) \notin Writing
  BY ContextPcs DEF Writing, Saved
<1>a. {"getBlob", "loadSession", "loadPath", "saveCold", "enqueue", "llm"}
        \cap Writing = {}
  BY DEF Writing, Saved
<1>1. CASE BeginContext(c)
  BY <1>1, <1>a, BeginContextStep, StartsReads DEF Frame
<1>2. CASE GetBlob(c)
  BY <1>2, <1>0, <1>a, GetBlobStep, MovesReads DEF Frame, Reads
<1>3. CASE LoadSession(c)
  BY <1>3, <1>a, LoadSessionStep DEF Frame, Reads
<1>4. CASE LoadPath(c)
  BY <1>4, <1>a, LoadPathStep DEF Frame, Reads
<1>5. CASE SaveCold(c)
  BY <1>5, <1>0, SaveColdStep, MovesReads
<1>6. CASE SaveKept(c)
  <2>1. PICK pc : pc = IF TrustsDigest(req[c]) THEN TrimPc(req[c]) ELSE "enqueue"
    OBVIOUS
  <2>2. pc \notin Writing
    BY <1>0, <1>a, <2>1
  <2> QED
    BY <1>6, <2>1, <2>2, SaveKeptStep, MovesReads
<1>7. CASE EnqueueCompress(c)
  BY <1>7, <1>0, EnqueueCompressStep, MovesReads
<1>8. CASE PersistDigest(c)
  BY <1>8, <1>a, PersistDigestStep, MovesReads
<1>9. CASE EndContext(c)
  BY <1>9, StopsStep, IdlesReads DEF Frame
<1> QED
  BY <1>1, <1>2, <1>3, <1>4, <1>5, <1>6, <1>7, <1>8, <1>9 DEF ContextStep

LEMMA SessionReads ==
  ASSUME Inv, NEW c \in Clients, SessionStep(c)
  PROVE  Reads(c)
<1> USE DEF Inv
<1>a. {"loadLeaf", "patch", "push", "clear", "archive"} \cap Writing = {}
  BY DEF Writing, Saved
<1>1. CASE BeginEnd(c) \/ BeginExtract(c) \/ BeginPatch(c)
  BY <1>1, <1>a, SessionStartsStep, StartsReads DEF Frame
<1>2. CASE LoadLeaf(c)
  BY <1>2, <1>a, LoadLeafStep DEF Frame, Reads
<1>3. CASE EnqueueExplicit(c)
  BY <1>3, <1>a, EnqueueExplicitStep, MovesReads, IdlesReads
<1>4. CASE ClearStm(c)
  BY <1>4, <1>a, ClearStmStep, MovesReads
<1>5. CASE Archive(c) \/ PatchSession(c)
  BY <1>5, ArchiveStep, IdlesReads
<1> QED
  BY <1>1, <1>2, <1>3, <1>4, <1>5 DEF SessionStep

LEMMA StopsReads ==
  ASSUME Inv, NEW c \in Clients, RowGone(c) \/ Abort(c)
  PROVE  Reads(c)
BY StopsStep, IdlesReads DEF Frame, Inv

LEMMA WriterInit == Init => WriterInv
BY DEF Init, WriterInv, IdleReq, At, Writing, Saved

\* While c is writing no other client is.
LEMMA OthersDoNotWrite ==
  ASSUME OneWriter, NoBranch, WriterInv, NEW c \in Clients, Writes(c)
  PROVE  \A d \in Clients \ {c} : req[d].pc \notin Writing
BY DEF OneWriter, WriterInv, Writes

\* A step of the writer keeps the invariant when it does so for the writer.
LEMMA WriterOnly ==
  ASSUME OneWriter, NoBranch, WriterInv, NEW c \in Clients, Writes(c), Only(c),
         req'[c].op # "none" => req'[c].op \in Ops[c],
         req'[c].pc \in Writing => req'[c].op \in {"append", "chat"},
         req'[c].pc = "create" => req'[c].parent = session'.leaf,
         req'[c].pc = "setLeaf" => msgs'[req'[c].msg].parent = session'.leaf,
         req'[c].pc \in {"getStm", "setStm", "usage"} => session'.leaf = req'[c].msg
  PROVE  WriterInv'
<1> SUFFICES ASSUME NEW d \in Clients
             PROVE  /\ req'[d].op # "none" => req'[d].op \in Ops[d]
                    /\ req'[d].pc \in Writing => req'[d].op \in {"append", "chat"}
                    /\ req'[d].pc = "create" => req'[d].parent = session'.leaf
                    /\ req'[d].pc = "setLeaf" => msgs'[req'[d].msg].parent = session'.leaf
                    /\ req'[d].pc \in {"getStm", "setStm", "usage"}
                         => session'.leaf = req'[d].msg
  BY DEF WriterInv, At
<1>1. CASE d = c
  BY <1>1
<1>2. CASE d # c
  BY <1>2, OthersDoNotWrite DEF Only, WriterInv, Writing, Saved
<1> QED
  BY <1>1, <1>2

LEMMA ReadsWriter ==
  ASSUME WriterInv, NEW c \in Clients, Reads(c)
  PROVE  WriterInv'
<1> SUFFICES ASSUME NEW d \in Clients
             PROVE  /\ req'[d].op # "none" => req'[d].op \in Ops[d]
                    /\ req'[d].pc \in Writing => req'[d].op \in {"append", "chat"}
                    /\ req'[d].pc = "create" => req'[d].parent = session'.leaf
                    /\ req'[d].pc = "setLeaf" => msgs'[req'[d].msg].parent = session'.leaf
                    /\ req'[d].pc \in {"getStm", "setStm", "usage"}
                         => session'.leaf = req'[d].msg
  BY DEF WriterInv, At
<1>1. CASE d = c
  BY <1>1 DEF Reads, WriterInv, Writing, Saved
<1>2. CASE d # c
  BY <1>2 DEF Reads, Only, WriterInv, At
<1> QED
  BY <1>1, <1>2

LEMMA IdleWriter ==
  IdleReq.op = "none" /\ IdleReq.pc = "idle"
  /\ "idle" \notin Writing \cup {"getStm", "setStm", "usage", "create", "setLeaf"}
BY DEF IdleReq, Writing, Saved

\* The history of a session: the walk from its leaf.
History == PathIn(msgs, session.leaf)

\* What a step of a lone writer does to the history.
Grows == \E m \in MsgIds : /\ \A i \in 1..Len(History) : History[i] # m
                           /\ History' = Append(History, m) /\ acked' = acked
Acks == \E m \in MsgIds : /\ \E i \in 1..Len(History) : History[i] = m
                          /\ History' = History /\ acked' = acked \cup {m}
Stays == History' = History /\ acked' = acked

LEMMA HistoryFacts ==
  ASSUME Inv
  PROVE  /\ IsTree(msgs) /\ session.leaf \in 0..Len(msgs)
         /\ IsPath(History, session.leaf)
         /\ Len(msgs) \in Nat /\ 1..Len(msgs) \subseteq MsgIds
<1>1. IsTree(msgs)
  BY DEF Inv, TreeInv, Shapes, TreeOK, IsTree, Row
<1>2. session.leaf \in 0..Len(msgs)
  BY DEF Inv, TypeInv, SessionsIn
<1>3. Len(msgs) \in Nat /\ 1..Len(msgs) \subseteq MsgIds
  BY SizeAssumption DEF Inv, TypeInv, MsgIds
<1> QED
  BY <1>1, <1>2, <1>3, PathFacts DEF History

\* The message at the leaf has been said.
LEMMA LeafSaid ==
  ASSUME Inv, session.leaf # NoMsg
  PROVE  \E i \in 1..Len(History) : History[i] = session.leaf
<1>1. History # <<>> /\ History[Len(History)] = session.leaf /\ History \in Seq(Nat)
  BY HistoryFacts DEF IsPath
<1>2. Len(History) \in 1..Len(History)
  <2>1. PICK s \in Seq(Nat) : s = History
    BY <1>1
  <2>2. s # <<>>
    BY <1>1, <2>1
  <2>3. Len(s) \in 1..Len(s)
    BY <2>2
  <2> QED
    BY <2>1, <2>3
<1> QED
  BY <1>1, <1>2

\* The steps that write, one by one: CreateMessage changes no path, SetLeaf adds
\* the new row to the history, SetStm and RecordUsage acknowledge it.
LEMMA WriterAppend ==
  ASSUME OneWriter, NoBranch, Inv, WriterInv, NEW c \in Clients, AppendStep(c)
  PROVE  WriterInv' /\ (Stays \/ Grows \/ Acks)
<1> USE DEF Inv
<1>0. ASSUME req[c].op \in {"append", "chat"} PROVE Writes(c) /\ req[c].op \in Ops[c]
  BY <1>0 DEF WriterInv, Writes
<1>1. CASE BeginAppend(c)
  <2>1. /\ Frame /\ Only(c) /\ req'[c].pc = "create" /\ req'[c].op = "append"
        /\ req'[c].op \in Ops[c] /\ req'[c].parent = session.leaf
    BY <1>1, BeginAppendStep DEF NoBranch
  <2>2. WriterInv'
    BY <2>1, WriterOnly DEF Frame, Writes
  <2> QED
    BY <2>1, <2>2 DEF Frame, Stays, History
<1>2. CASE BeginReply(c)
  <2>1. /\ Frame /\ Only(c) /\ req'[c].pc = "create" /\ req'[c].op = "chat"
        /\ req[c].op = "chat" /\ req'[c].parent = session.leaf
    BY <1>2, BeginReplyStep
  <2>2. WriterInv'
    BY <1>0, <2>1, WriterOnly DEF Frame
  <2> QED
    BY <2>1, <2>2 DEF Frame, Stays, History
<1>3. CASE CreateMessage(c)
  <2>1. PICK row : row = [parent |-> req[c].parent, role |-> req[c].role]
    OBVIOUS
  <2>2. /\ session' = session /\ acked' = acked /\ msgs' = Append(msgs, row)
        /\ At(c, "create") /\ Only(c) /\ req'[c].pc = "setLeaf"
        /\ req'[c].msg = Len(msgs) + 1 /\ req'[c].op = req[c].op
    BY <1>3, <2>1, CreateMessageStep
  <2>3. row \in Row /\ row.parent \in 0..Len(msgs) /\ row.parent = req[c].parent
    BY <2>1, ReqType DEF Row, ReqsIn
  <2>4. req[c].op \in {"append", "chat"} /\ row.parent = session.leaf
    BY <2>2, <2>3 DEF WriterInv, At, Writing
  <2>5. msgs'[Len(msgs) + 1] = row
    BY <2>2, <2>3 DEF TypeInv
  <2>6. WriterInv'
    BY <1>0, <2>2, <2>4, <2>5, WriterOnly
  <2>7. PathIn(msgs', session.leaf) = PathIn(msgs, session.leaf)
    BY <2>2, <2>3, HistoryFacts, PathStable
  <2> QED
    BY <2>2, <2>6, <2>7 DEF Stays, History
<1>4. CASE SetLeaf(c)
  <2>1. /\ msgs' = msgs /\ acked' = acked /\ At(c, "setLeaf") /\ Moves(c, "getStm")
        /\ session'.leaf = req[c].msg
    BY <1>4, SetLeafStep
  <2>2. req[c].op \in {"append", "chat"}
    BY <2>1 DEF WriterInv, At, Writing, Saved
  <2>3. PICK m : m = req[c].msg
    OBVIOUS
  <2>4. m \in 1..Len(msgs) /\ msgs[m].parent = session.leaf
    BY <2>1, <2>3 DEF TypeInv, WriterInv, At, Saved
  <2>5. WriterInv'
    BY <1>0, <2>1, <2>2, <2>3, WriterOnly DEF Moves, SameData
  <2>6. History' = Append(History, m)
    BY <2>1, <2>3, <2>4, HistoryFacts, PathEquation DEF History
  <2>7. \A i \in 1..Len(History) : History[i] # m
    <3>1. session.leaf \in 0..(m - 1)
      BY <2>4, HistoryFacts, ParentFacts
    <3>2. \A i \in 1..Len(History) : History[i] \in 1..session.leaf
      BY HistoryFacts DEF IsPath
    <3> QED
      BY <2>4, <3>1, <3>2, HistoryFacts
  <2> QED
    BY <2>1, <2>4, <2>5, <2>6, <2>7, HistoryFacts DEF Grows
<1>5. CASE GetStm(c)
  <2>1. /\ Frame /\ At(c, "getStm") /\ Only(c) /\ req'[c].pc = "setStm"
        /\ req'[c].msg = req[c].msg /\ req'[c].op = req[c].op
    BY <1>5, GetStmStep
  <2>2. req[c].op \in {"append", "chat"} /\ session.leaf = req[c].msg
    BY <2>1 DEF WriterInv, At, Writing, Saved
  <2>3. WriterInv'
    BY <1>0, <2>1, <2>2, WriterOnly DEF Frame
  <2> QED
    BY <2>1, <2>3 DEF Frame, Stays, History
<1>6. CASE SetStm(c)
  <2>1. UNCHANGED <<msgs, session>> /\ At(c, "setStm") /\ req[c].msg \in 1..Len(msgs)
    BY <1>6, SetStmStep
  <2>2. req[c].op \in {"append", "chat"} /\ session.leaf = req[c].msg
    BY <2>1 DEF WriterInv, At, Writing, Saved
  <2>3. CASE req[c].op = "chat"
    <3>1. Moves(c, "usage") /\ acked' = acked
      BY <1>6, <2>3, SetStmStep
    <3>2. WriterInv'
      BY <1>0, <2>1, <2>2, <3>1, WriterOnly DEF Moves, SameData
    <3> QED
      BY <2>1, <3>1, <3>2 DEF Stays, History
  <2>4. CASE req[c].op # "chat"
    <3>1. Idles(c) /\ acked' = acked \cup {req[c].msg}
      BY <1>6, <2>4, SetStmStep
    <3>2. WriterInv'
      BY <1>0, <2>1, <2>2, <3>1, IdleWriter, WriterOnly DEF Idles
    <3>3. Acks
      <4>1. PICK m : m = req[c].msg
        OBVIOUS
      <4>2. m \in MsgIds /\ \E i \in 1..Len(History) : History[i] = m
        BY <2>1, <2>2, <4>1, HistoryFacts, LeafSaid DEF NoMsg
      <4>3. History' = History
        BY <2>1 DEF History
      <4> QED
        BY <3>1, <4>1, <4>2, <4>3 DEF Acks
    <3> QED
      BY <3>2, <3>3
  <2> QED
    BY <2>3, <2>4
<1>7. CASE RecordUsage(c)
  <2>1. /\ UNCHANGED <<msgs, session>> /\ At(c, "usage") /\ req[c].msg \in 1..Len(msgs)
        /\ Idles(c) /\ acked' = acked \cup {req[c].msg}
    BY <1>7, RecordUsageStep
  <2>2. req[c].op \in {"append", "chat"} /\ session.leaf = req[c].msg
    BY <2>1 DEF WriterInv, At, Writing, Saved
  <2>3. WriterInv'
    BY <1>0, <2>1, <2>2, IdleWriter, WriterOnly DEF Idles
  <2>4. Acks
    <3>1. PICK m : m = req[c].msg
      OBVIOUS
    <3>2. m \in MsgIds /\ \E i \in 1..Len(History) : History[i] = m
      BY <2>1, <2>2, <3>1, HistoryFacts, LeafSaid DEF NoMsg
    <3>3. History' = History
      BY <2>1 DEF History
    <3> QED
      BY <2>1, <3>1, <3>2, <3>3 DEF Acks
  <2> QED
    BY <2>3, <2>4
<1> QED
  BY <1>1, <1>2, <1>3, <1>4, <1>5, <1>6, <1>7 DEF AppendStep

\* Every other step leaves the history and the acknowledgements alone.
LEMMA WriterNext ==
  ASSUME OneWriter, NoBranch, Inv, WriterInv, [Next]_vars
  PROVE  WriterInv' /\ (Stays \/ Grows \/ Acks)
<1>1. ASSUME NEW c \in Clients, ContextStep(c) \/ SessionStep(c) \/ RowGone(c) \/ Abort(c)
      PROVE  WriterInv' /\ Stays
  <2>1. Reads(c)
    BY <1>1, ContextReads, SessionReads, StopsReads
  <2> QED
    BY <2>1, ReadsWriter DEF Reads, Stays, History
<1>2. CASE ExpireStm
  BY <1>2 DEF ExpireStm, WriterInv, At, Stays, History
<1>3. CASE DeleteSession
  <2>1. UNCHANGED <<msgs, req, acked>> /\ session'.leaf = session.leaf
    BY <1>3, DeleteSessionStep DEF Inv
  <2> QED
    BY <2>1 DEF WriterInv, At, Stays, History
<1>4. CASE UNCHANGED vars
  BY <1>4 DEF vars, WriterInv, At, Stays, History
<1> QED
  BY <1>1, <1>2, <1>3, <1>4, WriterAppend DEF Next

\* Conversation implements Transcript: while one client writes, however its
\* handlers die, blobs expire and readers interfere, the walk from the leaf only
\* grows at its end, by a message it did not have, and only what it has is
\* acknowledged.
THEOREM TranscriptTheorem ==
  ASSUME OneWriter, NoBranch
  PROVE  Spec => FollowsTranscript
<1>0. PathTo(session.leaf) = History /\ PathTo(session.leaf)' = History'
  BY PathToIn DEF History
<1>1. Init => Inv /\ WriterInv /\ Transcript!Init
  <2>1. Init => History = <<>>
    <3> SUFFICES ASSUME Init PROVE History = <<>>
      OBVIOUS
    <3>1. IsTree(msgs) /\ session.leaf = NoMsg
      BY InvInit, HistoryFacts DEF Init
    <3> QED
      BY <3>1, PathEquation DEF History
  <2> QED
    BY <1>0, <2>1, InvInit, WriterInit DEF Init, Transcript!Init
<1>2. Inv /\ WriterInv /\ [Next]_vars => Inv' /\ WriterInv' /\ [Transcript!Next]_(Transcript!vars)
  <2> SUFFICES ASSUME Inv, WriterInv, [Next]_vars
               PROVE  Inv' /\ WriterInv' /\ [Transcript!Next]_(Transcript!vars)
    OBVIOUS
  <2>1. Inv' /\ WriterInv' /\ (Stays \/ Grows \/ Acks)
    BY InvNext, WriterNext
  <2>2. CASE Stays
    BY <1>0, <2>1, <2>2 DEF Stays, Transcript!vars
  <2>3. CASE Grows
    BY <1>0, <2>1, <2>3 DEF Grows, Transcript!Next, Transcript!Say, Transcript!Said
  <2>4. CASE Acks
    BY <1>0, <2>1, <2>4 DEF Acks, Transcript!Next, Transcript!Acknowledge, Transcript!Said
  <2> QED
    BY <2>1, <2>2, <2>3, <2>4
<1> QED
  BY <1>1, <1>2, PTL DEF Spec, FollowsTranscript, Transcript!Spec

\* While one client writes, a message the API has acknowledged stays on the path
\* that a cold restore of the context loads.
THEOREM AckedTheorem ==
  ASSUME OneWriter, NoBranch
  PROVE  Spec => []AckedOnActivePath
<1> DEFINE Said == acked \subseteq Elements(History)
<1>1. Init => Inv /\ WriterInv /\ Said
  BY InvInit, WriterInit DEF Init
<1>2. Inv /\ WriterInv /\ Said /\ [Next]_vars => Inv' /\ WriterInv' /\ Said'
  <2> SUFFICES ASSUME Inv, WriterInv, Said, [Next]_vars
               PROVE  Inv' /\ WriterInv' /\ Said'
    OBVIOUS
  <2>1. Inv' /\ WriterInv' /\ (Stays \/ Grows \/ Acks)
    BY InvNext, WriterNext
  <2>2. CASE Stays
    BY <2>1, <2>2 DEF Stays
  <2>3. CASE Grows
    <3>1. PICK m : History' = Append(History, m) /\ acked' = acked
      BY <2>3 DEF Grows
    <3>2. \A s \in Seq(Nat) : Elements(s) \subseteq Elements(Append(s, m))
      BY DEF Elements
    <3> QED
      BY <2>1, <3>1, <3>2, HistoryFacts DEF IsPath
  <2>4. CASE Acks
    BY <2>1, <2>4 DEF Acks, Elements
  <2> QED
    BY <2>1, <2>2, <2>3, <2>4
<1>3. Inv /\ Said => AckedOnActivePath
  BY HistoryFacts, PathIsAncestry, PathToIn DEF AckedOnActivePath, ActivePath, History
<1> QED
  BY <1>1, <1>2, <1>3, PTL DEF Spec

-----------------------------------------------------------------------------
(* One writer whose requests run to their end: the rows are a list.         *)

\* Who builds a context or does something else is not writing.
LEMMA ReaderElsewhere ==
  ASSUME NEW c \in Clients, ContextStep(c) \/ SessionStep(c)
  PROVE  req[c].pc \notin Writing
<1>1. \E pc \in Pcs \ Writing : At(c, pc)
  BY DEF ContextStep, SessionStep, BeginContext, GetBlob, LoadSession, LoadPath,
         SaveCold, SaveKept, EnqueueCompress, PersistDigest, EndContext, BeginEnd,
         BeginExtract, LoadLeaf, EnqueueExplicit, ClearStm, Archive, BeginPatch,
         PatchSession, Begins, Pcs, Writing, Saved
<1> QED
  BY <1>1 DEF At

\* The rows form a list.
Linear == \A m \in 1..Len(msgs) : msgs[m].parent = m - 1

\* While the session is there its leaf is the last row, or the last but one.
LinearInv ==
  /\ Linear
  /\ session.exists => session.leaf = Len(msgs) \/ \E c \in Clients : At(c, "setLeaf")
  /\ \A c \in Clients : session.exists /\ At(c, "setLeaf") =>
       req[c].msg = Len(msgs) /\ session.leaf = Len(msgs) - 1

\* In a list the ancestors of a message are the messages up to it.
LEMMA LinearAncestry ==
  ASSUME Inv, Linear, NEW leaf \in 0..Len(msgs)
  PROVE  Ancestry(leaf) = 1..leaf
<1>0. Len(msgs) \in Nat
  BY DEF Inv, TypeInv
<1>1. CASE leaf = NoMsg
  BY <1>1 DEF Ancestry, NoMsg
<1>2. CASE leaf # NoMsg
  <2>1. leaf \in 1..leaf /\ 1..leaf \in SUBSET (1..Len(msgs))
    BY <1>0, <1>2 DEF NoMsg
  <2>2. Closed(1..leaf)
    BY <1>0, <2>1 DEF Closed, Linear, NoMsg
  <2>3. Ancestry(leaf) \subseteq 1..leaf
    BY <2>1, <2>2 DEF Ancestry
  <2>4. ASSUME NEW S \in SUBSET (1..Len(msgs)), leaf \in S, Closed(S)
        PROVE  1..leaf \subseteq S
    <3> DEFINE Bad == {k \in 0..(leaf - 1) : leaf - k \notin S}
    <3>1. Bad = {}
      <4> SUFFICES ASSUME Bad # {} PROVE FALSE
        OBVIOUS
      <4>1. PICK i \in Bad : \A k \in Bad : i <= k
        <5>1. Bad \in SUBSET Nat
          BY <1>0
        <5> QED
          BY <5>1, LeastNat
      <4>2. i \in 1..(leaf - 1)
        BY <2>4, <4>1
      <4>3. leaf - (i - 1) \in S
        BY <4>1, <4>2
      <4>4. msgs[leaf - (i - 1)].parent = leaf - i
        BY <1>0, <4>2 DEF Linear
      <4>5. leaf - i # NoMsg
        BY <4>2 DEF NoMsg
      <4> QED
        BY <2>4, <4>1, <4>3, <4>4, <4>5 DEF Closed
    <3> SUFFICES ASSUME NEW m \in 1..leaf PROVE m \in S
      OBVIOUS
    <3>2. leaf - m \in 0..(leaf - 1) /\ leaf - (leaf - m) = m
      BY <1>0
    <3> QED
      BY <3>1, <3>2
  <2>5. 1..leaf \subseteq Ancestry(leaf)
    BY <1>2, <2>1, <2>4 DEF Ancestry
  <2> QED
    BY <2>3, <2>5
<1> QED
  BY <1>1, <1>2

LEMMA LinearAppend ==
  ASSUME OneWriter, NoBranch, Inv, WriterInv, LinearInv,
         NEW c \in Clients, AppendStep(c)
  PROVE  LinearInv'
<1> USE DEF Inv
<1>0. Len(msgs) \in Nat
  BY DEF TypeInv
<1>w. ASSUME req[c].pc \in Writing
      PROVE  \A d \in Clients \ {c} : ~At(d, "setLeaf")
  <2>1. Writes(c)
    BY <1>w DEF WriterInv, Writes
  <2> QED
    BY <2>1, OthersDoNotWrite DEF At, Writing, Saved
\* Nobody is at setLeaf before or after.
<1>q. ASSUME Only(c), ~At(c, "setLeaf"), req'[c].pc # "setLeaf",
             UNCHANGED <<msgs, session>>
      PROVE  LinearInv'
  BY <1>q DEF LinearInv, Linear, Only, At
<1>1. CASE BeginAppend(c)
  BY <1>q, <1>1, BeginAppendStep DEF At, Frame
<1>2. CASE BeginReply(c)
  BY <1>q, <1>2, BeginReplyStep DEF At, Frame
<1>3. CASE CreateMessage(c)
  <2>1. PICK row : row = [parent |-> req[c].parent, role |-> req[c].role]
    OBVIOUS
  <2>2. /\ session.exists /\ session' = session /\ msgs' = Append(msgs, row)
        /\ At(c, "create") /\ Only(c) /\ req'[c].pc = "setLeaf"
        /\ req'[c].msg = Len(msgs) + 1
    BY <1>3, <2>1, CreateMessageStep
  <2>3. row.parent = session.leaf
    BY <2>1, <2>2, ReqType DEF WriterInv, ReqsIn
  <2>4. session.leaf = Len(msgs)
    BY <1>w, <2>2 DEF LinearInv, At, Writing
  <2>5. /\ Len(msgs') = Len(msgs) + 1
        /\ msgs'[Len(msgs) + 1] = row
        /\ \A m \in 1..Len(msgs) : msgs'[m] = msgs[m]
    BY <2>2 DEF TypeInv
  <2>7. Linear'
    <3> SUFFICES ASSUME NEW m \in 1..(Len(msgs) + 1)
                 PROVE  msgs'[m].parent = m - 1
      BY <2>5 DEF Linear
    <3>1. CASE m = Len(msgs) + 1
      BY <1>0, <2>3, <2>4, <2>5, <3>1
    <3>2. CASE m # Len(msgs) + 1
      <4>1. m \in 1..Len(msgs) /\ msgs'[m] = msgs[m]
        BY <2>5, <3>2
      <4> QED
        BY <1>0, <4>1 DEF LinearInv, Linear
    <3> QED
      BY <3>1, <3>2
  <2>8. \A d \in Clients : req'[d].pc = "setLeaf" => d = c
    BY <1>w, <2>2 DEF Only, At, Writing
  <2> QED
    BY <1>0, <2>2, <2>4, <2>5, <2>7, <2>8 DEF LinearInv, At
<1>4. CASE SetLeaf(c)
  <2>1. /\ UNCHANGED msgs /\ At(c, "setLeaf") /\ Moves(c, "getStm")
        /\ session.exists /\ session'.leaf = req[c].msg /\ session'.exists = session.exists
    BY <1>4, SetLeafStep
  <2>2. \A d \in Clients : req'[d].pc # "setLeaf"
    BY <1>w, <2>1 DEF Moves, Only, At, Writing, Saved
  <2> QED
    BY <2>1, <2>2 DEF LinearInv, Linear, At
<1>5. CASE GetStm(c)
  BY <1>q, <1>5, GetStmStep DEF At, Frame
<1>6. CASE SetStm(c)
  <2>1. UNCHANGED <<msgs, session>> /\ At(c, "setStm")
    BY <1>6, SetStmStep
  <2>2. Only(c) /\ req'[c].pc # "setLeaf"
    BY <1>6, SetStmStep, IdleWriter DEF Moves, Idles
  <2> QED
    BY <1>q, <2>1, <2>2 DEF At
<1>7. CASE RecordUsage(c)
  <2>1. UNCHANGED <<msgs, session>> /\ At(c, "usage")
    BY <1>7, RecordUsageStep
  <2>2. Only(c) /\ req'[c].pc # "setLeaf"
    BY <1>7, RecordUsageStep, IdleWriter DEF Idles
  <2> QED
    BY <1>q, <2>1, <2>2 DEF At
<1> QED
  BY <1>1, <1>2, <1>3, <1>4, <1>5, <1>6, <1>7 DEF AppendStep

LEMMA LinearNext ==
  ASSUME OneWriter, NoBranch, "abort" \notin Disruptions,
         Inv, WriterInv, LinearInv, [Next]_vars
  PROVE  LinearInv'
<1>1. ASSUME NEW c \in Clients, ContextStep(c) \/ SessionStep(c)
      PROVE  LinearInv'
  <2>1. Reads(c) /\ ~At(c, "setLeaf")
    BY <1>1, ContextReads, SessionReads, ReaderElsewhere DEF At, Writing, Saved
  <2> QED
    BY <2>1 DEF Reads, Only, LinearInv, Linear, At, Writing, Saved
<1>2. ASSUME NEW c \in Clients, RowGone(c) PROVE LinearInv'
  BY <1>2 DEF RowGone, LinearInv, Linear
<1>6. ASSUME NEW c \in Clients PROVE ~Abort(c)
  BY DEF Abort
<1>3. CASE ExpireStm
  BY <1>3 DEF ExpireStm, LinearInv, Linear, At
<1>4. CASE DeleteSession
  BY <1>4, DeleteSessionStep DEF LinearInv, Linear, Inv
<1>5. CASE UNCHANGED vars
  BY <1>5 DEF vars, LinearInv, Linear, At
<1> QED
  BY <1>1, <1>2, <1>3, <1>4, <1>5, <1>6, LinearAppend DEF Next

LEMMA LinearInit == Init => LinearInv
BY DEF Init, LinearInv, Linear, At, IdleReq, NoMsg

\* The list lasts as long as no handler dies between its two writes.
LEMMA LinearTheorem ==
  ASSUME OneWriter, NoBranch, "abort" \notin Disruptions
  PROVE  Spec => [](Inv /\ LinearInv)
<1>1. Init => Inv /\ WriterInv /\ LinearInv
  BY InvInit, WriterInit, LinearInit
<1>2. Inv /\ WriterInv /\ LinearInv /\ [Next]_vars => Inv' /\ WriterInv' /\ LinearInv'
  BY InvNext, WriterNext, LinearNext
<1> QED
  BY <1>1, <1>2, PTL DEF Spec

\* Only a deletion takes the session away.
Present == session.exists

LEMMA ExistsNext ==
  ASSUME "delete" \notin Disruptions, Inv, Present, [Next]_vars
  PROVE  Present'
<1> USE DEF Present
<1>1. ASSUME NEW c \in Clients, AppendStep(c)
      PROVE  session'.exists
  <2>1. CASE SetLeaf(c)
    BY <2>1, SetLeafStep DEF Inv
  <2>2. CASE ~SetLeaf(c)
    BY <1>1, <2>2 DEF AppendStep, BeginAppend, BeginReply, CreateMessage, GetStm,
                      SetStm, RecordUsage
  <2> QED
    BY <2>1, <2>2
<1>2. ASSUME NEW c \in Clients, ContextStep(c) \/ SessionStep(c) \/ RowGone(c) \/ Abort(c)
      PROVE  session'.exists
  BY <1>2, ContextReads, SessionReads, StopsReads DEF Reads
<1>3. CASE ExpireStm \/ UNCHANGED vars
  BY <1>3 DEF ExpireStm, vars
<1>4. ~DeleteSession
  BY DEF DeleteSession
<1> QED
  BY <1>1, <1>2, <1>3, <1>4 DEF Next

LEMMA ExistsTheorem ==
  ASSUME "delete" \notin Disruptions
  PROVE  Spec => []Present
<1>1. Init => Inv /\ Present
  BY InvInit DEF Init, Present
<1>2. Inv /\ Present /\ [Next]_vars => Inv' /\ Present'
  BY InvNext, ExistsNext
<1> QED
  BY <1>1, <1>2, PTL DEF Spec

\* While one client writes, no handler dies and the session stays, the blob in
\* Redis and its summary hold messages of the active path and the one about to
\* join it, whichever readers restore and trim the blob in between.
THEOREM StmTheorem ==
  ASSUME OneWriter, NoBranch, {"abort", "delete"} \cap Disruptions = {}
  PROVE  Spec => []StmOnActivePath
<1>1. Inv /\ LinearInv /\ Present => StmOnActivePath
  <2> SUFFICES ASSUME Inv, LinearInv, Present,
                      NEW m \in ToSet(stm.messages) \cup ToSet(stm.prefix)
               PROVE  m \in ActivePath \/ \E c \in Clients : At(c, "setLeaf") /\ req[c].msg = m
    BY DEF StmOnActivePath
  <2>1. m \in 1..Len(msgs) /\ Len(msgs) \in Nat
    <3>1. stm.messages \in Seq(1..Len(msgs)) /\ stm.prefix \in Seq(1..Len(msgs))
      BY DEF Inv, TypeInv, BlobsIn
    <3> QED
      BY <3>1 DEF ToSet, Inv, TypeInv
  <2>2. ActivePath = 1..session.leaf /\ session.leaf \in 0..Len(msgs)
    BY LinearAncestry, HistoryFacts DEF ActivePath, LinearInv
  <2>3. CASE session.leaf = Len(msgs)
    BY <2>1, <2>2, <2>3 DEF Present
  <2>4. CASE session.leaf # Len(msgs)
    BY <2>1, <2>2, <2>4 DEF LinearInv, Present
  <2> QED
    BY <2>3, <2>4
<1>2. Spec => [](Inv /\ LinearInv)
  BY LinearTheorem
<1>3. Spec => []Present
  BY ExistsTheorem
<1> QED
  BY <1>1, <1>2, <1>3, PTL

-----------------------------------------------------------------------------
(* One client at a time: the question is in the window.                     *)

\* The requests of a session come one after the other.
OneClient == \A c, d \in Clients : c = d

EndsWith(s, m) == s # <<>> /\ s[Len(s)] = m

Held == {"saveCold", "saveKept", "enqueue", "persist", "llm"}

\* The newest message survives the trim and the round cap.
LEMMA NewestKept ==
  ASSUME NEW n, NEW r, r.blob \in BlobsIn(n), NEW m, EndsWith(r.blob.messages, m)
  PROVE  EndsWith(Kept(r.blob.messages), m) /\ EndsWith(Window(r), m)
<1>1. PICK S : S = 1..n
  OBVIOUS
<1>2. PICK ms \in Seq(S) : ms = r.blob.messages
  BY <1>1 DEF BlobsIn
<1>3. PICK kept \in Seq(S) : kept = Kept(ms)
  BY TrimFacts
<1>4. /\ Len(kept) \in Nat /\ Len(ms) \in Nat /\ Len(kept) <= Len(ms)
      /\ kept # <<>> /\ Len(kept) \in 1..Len(kept)
      /\ kept[Len(kept)] = ms[Len(Dropped(ms)) + Len(kept)]
      /\ Len(Dropped(ms)) + Len(kept) = Len(ms)
  <2>1. PICK d \in Nat : d = Len(Dropped(ms))
    BY TrimFacts
  <2>2. /\ d + Len(kept) = Len(ms) /\ (ms # <<>> => kept # <<>>)
        /\ \A i \in 1..Len(kept) : kept[i] = ms[d + i]
    BY <1>3, <2>1, TrimFacts
  <2>3. kept # <<>>
    BY <1>2, <2>2 DEF EndsWith
  <2>4. Len(kept) \in Nat /\ Len(ms) \in Nat /\ Len(kept) \in 1..Len(kept)
    BY <2>3
  <2> QED
    BY <2>1, <2>2, <2>3, <2>4
<1>5. EndsWith(kept, m)
  BY <1>2, <1>4 DEF EndsWith
<1>6. PICK cap \in Nat \ {0} : cap = RoundCap
  BY SizeAssumption
<1>7. PICK w \in Seq(S) : w = LastOf(kept, cap)
  BY LastOfFacts
<1>8. Len(w) \in 1..Len(w) /\ w # <<>> /\ w[Len(w)] = kept[Len(kept)]
  <2>1. /\ Len(w) = IF Len(kept) <= cap THEN Len(kept) ELSE cap
        /\ \A i \in 1..Len(w) : w[i] = kept[Len(kept) - Len(w) + i]
    BY <1>7, LastOfFacts
  <2>2. Len(w) \in 1..Len(w)
    BY <1>4, <1>6, <2>1
  <2>3. w[Len(w)] = kept[Len(kept) - Len(w) + Len(w)]
    BY <2>1, <2>2
  <2> QED
    BY <1>4, <2>2, <2>3
<1>9. Window(r) = w
  BY <1>2, <1>3, <1>6, <1>7 DEF Window
<1> QED
  BY <1>2, <1>3, <1>5, <1>8, <1>9 DEF EndsWith

\* The blob, and what a handler has of it, ends with the acknowledged leaf.
QuestionInv ==
  /\ \A c \in Clients :
       /\ At(c, "loadPath") /\ session.exists => req[c].parent = session.leaf
       /\ req[c].pc \in Saved => req[c].msg \notin acked
       /\ req[c].pc \in {"getStm", "setStm", "usage"} => session.leaf = req[c].msg
       /\ At(c, "usage") /\ stm.messages # <<>> => EndsWith(stm.messages, req[c].msg)
  /\ session.exists /\ session.leaf \in acked =>
       /\ stm.messages # <<>> => EndsWith(stm.messages, session.leaf)
       /\ \A c \in Clients :
            req[c].pc \in Held => EndsWith(req[c].blob.messages, session.leaf)

\* The steps of a handler that is not writing and leaves the blob alone.
LEMMA QuestionKeeps ==
  ASSUME OneClient, QuestionInv, NEW c \in Clients, acked' = acked,
         session'.leaf = session.leaf, session'.exists = session.exists,
         stm' = stm \/ stm'.messages = <<>> \/
           (session.exists /\ session.leaf \in acked =>
              EndsWith(stm'.messages, session.leaf)),
         req'[c].pc \notin Saved \cup {"loadPath"},
         req'[c].pc \in Held /\ session.exists /\ session.leaf \in acked =>
           EndsWith(req'[c].blob.messages, session.leaf)
  PROVE  QuestionInv'
<1>1. \A d \in Clients : d = c
  BY DEF OneClient
<1>2. req'[c].pc # "loadPath" /\ req'[c].pc # "usage"
      /\ req'[c].pc \notin {"getStm", "setStm", "usage"}
  BY DEF Saved
<1>3. session'.exists /\ session'.leaf \in acked' /\ stm'.messages # <<>> =>
        EndsWith(stm'.messages, session'.leaf)
  BY DEF QuestionInv
<1> QED
  BY <1>1, <1>2, <1>3 DEF QuestionInv, At

LEMMA QuestionIdles ==
  ASSUME OneClient, QuestionInv, NEW c \in Clients, acked' = acked,
         session'.leaf = session.leaf, session'.exists = session.exists,
         stm' = stm \/ stm'.messages = <<>>, Idles(c)
  PROVE  QuestionInv'
<1>1. req'[c].pc = "idle"
  BY DEF Idles, IdleReq
<1> QED
  BY <1>1, QuestionKeeps DEF Saved, Held

\* The steps that write a message and its blob.
LEMMA QuestionAppend ==
  ASSUME OneClient, Inv, QuestionInv, NEW c \in Clients, AppendStep(c)
  PROVE  QuestionInv'
<1> USE DEF Inv
<1>0. (\A d \in Clients : d = c) /\ Len(msgs) \in Nat /\ acked \subseteq 1..Len(msgs)
  BY DEF OneClient, TypeInv
<1>1. CASE BeginAppend(c) \/ BeginReply(c)
  <2>1. Frame /\ req'[c].pc = "create"
    BY <1>1, BeginAppendStep, BeginReplyStep
  <2> QED
    BY <2>1, QuestionKeeps DEF Frame, Saved, Held
<1>2. CASE CreateMessage(c)
  <2>1. /\ UNCHANGED <<session, stm, acked>> /\ req'[c].pc = "setLeaf"
        /\ req'[c].msg = Len(msgs) + 1
    BY <1>2, CreateMessageStep
  <2>2. Len(msgs) + 1 \notin acked
    BY <1>0
  <2> QED
    BY <1>0, <2>1, <2>2 DEF QuestionInv, At, Held
<1>3. CASE SetLeaf(c)
  <2>1. /\ UNCHANGED <<stm, acked>> /\ At(c, "setLeaf") /\ req'[c].pc = "getStm"
        /\ req'[c].msg = req[c].msg /\ session'.leaf = req[c].msg
    BY <1>3, SetLeafStep DEF Moves, SameData
  <2>2. req[c].msg \notin acked
    BY <2>1 DEF QuestionInv, At, Saved
  <2> QED
    BY <1>0, <2>1, <2>2 DEF QuestionInv, At
<1>4. CASE GetStm(c)
  <2>1. /\ Frame /\ At(c, "getStm") /\ req'[c].pc = "setStm" /\ req'[c].msg = req[c].msg
    BY <1>4, GetStmStep
  <2> QED
    BY <1>0, <2>1 DEF QuestionInv, At, Frame, Saved, Held
<1>5. CASE SetStm(c)
  <2>1. /\ session' = session /\ At(c, "setStm")
        /\ stm'.messages = Append(req[c].blob.messages, req[c].msg)
    BY <1>5, SetStmStep
  <2>2. session.leaf = req[c].msg /\ req[c].msg \notin acked
    BY <2>1 DEF QuestionInv, At, Saved
  <2>3. EndsWith(stm'.messages, req[c].msg)
    <3>1. PICK s \in Seq(1..Len(msgs)) : s = req[c].blob.messages
      BY ReqType DEF BlobsIn
    <3>2. PICK t : t = Append(s, req[c].msg)
      OBVIOUS
    <3>3. Len(t) = Len(s) + 1 /\ t[Len(s) + 1] = req[c].msg /\ t # <<>>
      BY <3>2
    <3> QED
      BY <2>1, <3>1, <3>2, <3>3 DEF EndsWith
  <2>4. CASE req[c].op = "chat"
    <3>1. req'[c].pc = "usage" /\ req'[c].msg = req[c].msg /\ acked' = acked
      BY <1>5, <2>4, SetStmStep DEF Moves, SameData
    <3> QED
      BY <1>0, <2>1, <2>2, <2>3, <3>1 DEF QuestionInv, At
  <2>5. CASE req[c].op # "chat"
    <3>1. req'[c].pc = "idle" /\ acked' = acked \cup {req[c].msg}
      BY <1>5, <2>5, SetStmStep DEF Idles, IdleReq
    <3> QED
      BY <1>0, <2>1, <2>2, <2>3, <3>1 DEF QuestionInv, At, Saved, Held
  <2> QED
    BY <2>4, <2>5
<1>6. CASE RecordUsage(c)
  <2>1. /\ UNCHANGED <<session, stm>> /\ At(c, "usage") /\ Idles(c)
        /\ acked' = acked \cup {req[c].msg}
    BY <1>6, RecordUsageStep
  <2>2. req'[c].pc = "idle"
    BY <2>1 DEF Idles, IdleReq
  <2>3. /\ session.leaf = req[c].msg
        /\ stm.messages # <<>> => EndsWith(stm.messages, req[c].msg)
    BY <2>1 DEF QuestionInv, At
  <2> QED
    BY <1>0, <2>1, <2>2, <2>3 DEF QuestionInv, At, Saved, Held
<1> QED
  BY <1>1, <1>2, <1>3, <1>4, <1>5, <1>6 DEF AppendStep

\* The steps that build a context.
LEMMA QuestionContext ==
  ASSUME OneClient, Inv, QuestionInv, NEW c \in Clients, ContextStep(c)
  PROVE  QuestionInv'
<1> USE DEF Inv
<1>0. /\ \A d \in Clients : d = c
      /\ \A r : /\ ContextPc(r) \notin Saved \cup {"loadPath"}
                /\ TrimPc(r) \notin Saved \cup {"loadPath"}
  BY ContextPcs DEF OneClient, Saved
<1>1. CASE BeginContext(c)
  <2>1. Frame /\ req'[c].pc = "getBlob"
    BY <1>1, BeginContextStep DEF Starts
  <2> QED
    BY <2>1, QuestionKeeps DEF Frame, Saved, Held
<1>2. CASE GetBlob(c)
  <2>1. CASE stm.messages = <<>>
    <3>1. Frame /\ req'[c].pc = "loadSession"
      BY <1>2, <2>1, GetBlobStep DEF Moves
    <3> QED
      BY <3>1, QuestionKeeps DEF Frame, Saved, Held
  <2>2. CASE stm.messages # <<>>
    <3>1. /\ Frame /\ req'[c].blob = stm /\ req'[c].pc \notin Saved \cup {"loadPath"}
      BY <1>0, <1>2, <2>2, GetBlobStep
    <3>2. session.exists /\ session.leaf \in acked => EndsWith(stm.messages, session.leaf)
      BY <2>2 DEF QuestionInv
    <3> QED
      BY <3>1, <3>2, QuestionKeeps DEF Frame
  <2> QED
    BY <2>1, <2>2
<1>3. CASE LoadSession(c)
  <2>1. /\ Frame /\ req'[c].pc = "loadPath"
        /\ session.exists => req'[c].parent = session.leaf
    BY <1>3, LoadSessionStep
  <2> QED
    BY <1>0, <2>1 DEF QuestionInv, At, Frame, Saved, Held
<1>4. CASE LoadPath(c)
  <2>1. /\ Frame /\ At(c, "loadPath") /\ req'[c].blob.messages = PathOf(req[c])
        /\ req'[c].pc \in {"saveCold", "llm"}
    BY <1>4, LoadPathStep
  <2>2. session.exists /\ session.leaf \in acked => EndsWith(PathOf(req[c]), session.leaf)
    <3> SUFFICES ASSUME session.exists, session.leaf \in acked
                 PROVE  EndsWith(PathOf(req[c]), session.leaf)
      OBVIOUS
    <3>1. req[c].parent = session.leaf
      BY <2>1 DEF QuestionInv
    <3>2. session.leaf # NoMsg
      BY DEF TypeInv, NoMsg
    <3> QED
      BY <3>1, <3>2, PathOfType DEF EndsWith
  <2> QED
    BY <2>1, <2>2, QuestionKeeps DEF Frame, Saved
<1>5. CASE SaveCold(c)
  <2>1. /\ UNCHANGED <<session, acked>> /\ At(c, "saveCold") /\ stm' = req[c].blob
        /\ req'[c].pc = ContextPc(req[c]) /\ req'[c].blob = req[c].blob
    BY <1>5, SaveColdStep DEF Moves, SameData
  <2>2. session.exists /\ session.leaf \in acked =>
          EndsWith(req[c].blob.messages, session.leaf)
    BY <2>1 DEF QuestionInv, At, Held
  <2> QED
    BY <1>0, <2>1, <2>2, QuestionKeeps
<1>6. CASE SaveKept(c)
  <2>1. /\ UNCHANGED <<session, acked>> /\ At(c, "saveKept")
        /\ stm'.messages = Kept(req[c].blob.messages)
        /\ req'[c].pc \in {TrimPc(req[c]), "enqueue"} /\ req'[c].blob = req[c].blob
    BY <1>6, SaveKeptStep DEF Moves, SameData
  <2>2. session.exists /\ session.leaf \in acked =>
          EndsWith(req[c].blob.messages, session.leaf)
    BY <2>1 DEF QuestionInv, At, Held
  <2>3. session.exists /\ session.leaf \in acked => EndsWith(stm'.messages, session.leaf)
    BY <2>1, <2>2, ReqType, NewestKept
  <2>4. req'[c].pc \notin Saved \cup {"loadPath"}
    BY <1>0, <2>1 DEF Saved
  <2> QED
    BY <2>1, <2>2, <2>3, <2>4, QuestionKeeps
<1>7. CASE EnqueueCompress(c) \/ PersistDigest(c)
  <2>1. /\ UNCHANGED <<stm, acked>> /\ req[c].pc \in Held
        /\ session'.leaf = session.leaf /\ session'.exists = session.exists
        /\ req'[c].pc \in {TrimPc(req[c]), "llm"} /\ req'[c].blob = req[c].blob
    BY <1>7, EnqueueCompressStep, PersistDigestStep DEF Moves, SameData, At, Held
  <2>2. session.exists /\ session.leaf \in acked =>
          EndsWith(req[c].blob.messages, session.leaf)
    BY <2>1 DEF QuestionInv
  <2>3. req'[c].pc \notin Saved \cup {"loadPath"}
    BY <1>0, <2>1 DEF Saved
  <2> QED
    BY <2>1, <2>2, <2>3, QuestionKeeps
<1>8. CASE EndContext(c)
  BY <1>8, StopsStep, QuestionIdles DEF Frame
<1> QED
  BY <1>1, <1>2, <1>3, <1>4, <1>5, <1>6, <1>7, <1>8 DEF ContextStep

LEMMA QuestionNext ==
  ASSUME OneClient, Inv, QuestionInv, [Next]_vars
  PROVE  QuestionInv'
<1> USE DEF Inv
<1>1. ASSUME NEW c \in Clients, SessionStep(c) PROVE QuestionInv'
  <2>1. CASE BeginEnd(c) \/ BeginExtract(c) \/ BeginPatch(c) \/ LoadLeaf(c)
    <3>1. Frame /\ req'[c].pc \in {"loadLeaf", "patch", "push"}
      BY <2>1, SessionStartsStep, LoadLeafStep DEF Starts
    <3> QED
      BY <3>1, QuestionKeeps DEF Frame, Saved, Held
  <2>2. CASE EnqueueExplicit(c)
    <3>1. UNCHANGED <<session, stm, acked>> /\ (req'[c].pc = "clear" \/ Idles(c))
      BY <2>2, EnqueueExplicitStep DEF Moves
    <3> QED
      BY <3>1, QuestionIdles, QuestionKeeps DEF Saved, Held
  <2>3. CASE ClearStm(c)
    <3>1. /\ UNCHANGED <<session, acked>> /\ req'[c].pc = "archive"
          /\ stm'.messages = <<>>
      BY <2>3, ClearStmStep, NoBlobType DEF Moves
    <3> QED
      BY <3>1, QuestionKeeps DEF Saved, Held
  <2>4. CASE Archive(c) \/ PatchSession(c)
    BY <2>4, ArchiveStep, QuestionIdles
  <2> QED
    BY <1>1, <2>1, <2>2, <2>3, <2>4 DEF SessionStep
<1>2. ASSUME NEW c \in Clients, RowGone(c) \/ Abort(c) PROVE QuestionInv'
  BY <1>2, StopsStep, QuestionIdles DEF Frame
<1>3. CASE ExpireStm
  <2>1. UNCHANGED <<session, req, acked>> /\ stm'.messages = <<>>
    BY <1>3, NoBlobType DEF ExpireStm, TypeInv
  <2> QED
    BY <2>1 DEF QuestionInv, At
<1>4. CASE DeleteSession
  BY <1>4, DeleteSessionStep DEF QuestionInv, At
<1>5. CASE UNCHANGED vars
  BY <1>5 DEF vars, QuestionInv, At
<1> QED
  BY <1>1, <1>2, <1>3, <1>4, <1>5, QuestionAppend, QuestionContext DEF Next

\* One client at a time: the acknowledged message at the leaf, the question of a
\* chat, is in the window that buildChatContext returns, whatever is trimmed and
\* capped, when the blob has expired, and after handlers that died half way.
THEOREM QuestionTheorem ==
  ASSUME OneClient
  PROVE  Spec => []QuestionInWindow
<1>1. Init => Inv /\ QuestionInv
  BY InvInit DEF Init, QuestionInv, At, IdleReq, Saved, Held
<1>2. Inv /\ QuestionInv /\ [Next]_vars => Inv' /\ QuestionInv'
  BY InvNext, QuestionNext
<1>3. Inv /\ QuestionInv => QuestionInWindow
  <2> SUFFICES ASSUME Inv, QuestionInv, NEW c \in Clients, At(c, "llm"),
                      session.exists, session.leaf \in acked
               PROVE  session.leaf \in ToSet(Window(req[c]))
    BY DEF QuestionInWindow
  <2>1. EndsWith(req[c].blob.messages, session.leaf)
    BY DEF QuestionInv, At, Held
  <2>2. PICK w \in Seq(1..Len(msgs)) : w = Window(req[c])
    BY ReqType, ContextTypes DEF Inv
  <2>3. w # <<>> /\ w[Len(w)] = session.leaf
    BY <2>1, <2>2, ReqType, NewestKept DEF Inv, EndsWith
  <2>4. Len(w) \in DOMAIN w
    BY <2>3
  <2> QED
    BY <2>2, <2>3, <2>4 DEF ToSet
<1> QED
  BY <1>1, <1>2, <1>3, PTL DEF Spec

-----------------------------------------------------------------------------
(* What the trim and the caps do to the order of messages.                  *)

\* A summary and the messages after it, each in order and without repetition.
Ordered(p, ms) ==
  /\ Increasing(p) /\ Increasing(ms)
  /\ \A i \in 1..Len(p), j \in 1..Len(ms) : p[i] < ms[j]

\* t is the first of s.
Starting(t, s) == Len(t) <= Len(s) /\ \A i \in 1..Len(t) : t[i] = s[i]

\* ms is a and then b.
Split(ms, a, b) ==
  /\ Len(a) + Len(b) = Len(ms)
  /\ \A i \in 1..Len(a) : a[i] = ms[i]
  /\ \A i \in 1..Len(b) : b[i] = ms[Len(a) + i]

LEMMA FirstOfStarts ==
  ASSUME NEW S, NEW s \in Seq(S), NEW n \in Nat
  PROVE  Starting(FirstOf(s, n), s)
<1>1. CASE Len(s) <= n
  BY <1>1 DEF FirstOf, Starting
<1>2. CASE ~(Len(s) <= n)
  <2>1. FirstOf(s, n) = SubSeq(s, 1, n)
    BY <1>2 DEF FirstOf
  <2>2. /\ Len(SubSeq(s, 1, n)) = n - 1 + 1
        /\ \A i \in 1..(n - 1 + 1) : SubSeq(s, 1, n)[i] = s[1 + i - 1]
    <3>1. 1 \in Nat /\ 1 <= n + 1 /\ n <= Len(s)
      BY <1>2
    <3> QED
      BY <3>1, Slice
  <2>3. n - 1 + 1 = n /\ \A i \in 1..n : 1 + i - 1 = i
    OBVIOUS
  <2> QED
    BY <1>2, <2>1, <2>2, <2>3 DEF Starting
<1> QED
  BY <1>1, <1>2

LEMMA StartingOrdered ==
  ASSUME NEW S, S \subseteq Nat, NEW s \in Seq(S), NEW t \in Seq(S), NEW k \in Seq(S),
         Ordered(s, k), Starting(t, s)
  PROVE  Ordered(t, k)
<1>1. \A i \in 1..Len(t) : i \in 1..Len(s)
  BY DEF Starting
<1> QED
  BY <1>1 DEF Ordered, Starting, Increasing

\* The last of the messages before k, after a summary p of what was before them.
LEMMA AppendedOrdered ==
  ASSUME NEW S, S \subseteq Nat, NEW p \in Seq(S), NEW ms \in Seq(S), NEW d \in Seq(S),
         NEW k \in Seq(S), NEW n \in Nat, Ordered(p, ms), Split(ms, d, k)
  PROVE  Ordered(LastOf(d, n), k) /\ Ordered(p \o LastOf(d, n), k)
<1>0. LastOf(d, n) \in Seq(S)
  BY LastOfFacts
<1>1. PICK l \in Seq(S) : l = LastOf(d, n)
  BY <1>0
<1>2. PICK o \in Nat : /\ o + Len(l) = Len(d)
                       /\ \A i \in 1..Len(l) : l[i] = d[o + i]
  <2>1. /\ Len(l) = IF Len(d) <= n THEN Len(d) ELSE n
        /\ \A i \in 1..Len(l) : l[i] = d[Len(d) - Len(l) + i]
    BY <1>1, LastOfFacts
  <2>2. Len(d) - Len(l) \in Nat /\ Len(d) - Len(l) + Len(l) = Len(d)
    BY <2>1
  <2> QED
    BY <2>1, <2>2
<1>3. PICK P \in Nat, L \in Nat, D \in Nat, K \in Nat, N \in Nat :
        P = Len(p) /\ L = Len(l) /\ D = Len(d) /\ K = Len(k) /\ N = Len(ms)
  OBVIOUS
<1>4. /\ D + K = N /\ o + L = D
      /\ \A i \in 1..L : l[i] = ms[o + i] /\ o + i \in 1..N /\ o + i <= D
      /\ \A i \in 1..K : k[i] = ms[D + i] /\ D + i \in 1..N
  <2>1. \A i \in 1..L : o + i \in 1..D /\ o + i \in 1..N
    BY <1>2, <1>3 DEF Split
  <2> QED
    BY <1>2, <1>3, <2>1 DEF Split
<1>5. /\ \A i \in 1..N : ms[i] \in Nat
      /\ \A i \in 1..P : p[i] \in Nat
      /\ \A i, j \in 1..N : i < j => ms[i] < ms[j]
      /\ \A i, j \in 1..P : i < j => p[i] < p[j]
      /\ \A i \in 1..P, j \in 1..N : p[i] < ms[j]
  <2>1. \A i \in 1..N : ms[i] \in S
    BY <1>3
  <2>2. \A i \in 1..P : p[i] \in S
    BY <1>3
  <2> QED
    BY <1>3, <2>1, <2>2 DEF Ordered, Increasing
<1>6. /\ \A i, j \in 1..L : i < j => l[i] < l[j]
      /\ \A i, j \in 1..K : i < j => k[i] < k[j]
      /\ \A i \in 1..L, j \in 1..K : l[i] < k[j]
  <2>1. ASSUME NEW i \in 1..L, NEW j \in 1..L, i < j PROVE l[i] < l[j]
    BY <1>4, <1>5, <2>1
  <2>2. ASSUME NEW i \in 1..K, NEW j \in 1..K, i < j PROVE k[i] < k[j]
    BY <1>4, <1>5, <2>2
  <2>3. ASSUME NEW i \in 1..L, NEW j \in 1..K PROVE l[i] < k[j]
    BY <1>4, <1>5
  <2> QED
    BY <2>1, <2>2, <2>3
<1>7. Ordered(l, k)
  BY <1>3, <1>6 DEF Ordered, Increasing
<1>8. PICK pl : pl = p \o l
  OBVIOUS
<1>9. /\ Len(pl) = P + L
      /\ \A i \in 1..(P + L) : pl[i] = IF i <= P THEN p[i] ELSE l[i - P]
  BY <1>3, <1>8, ConcatProperties
<1>10. /\ \A i \in 1..P, j \in 1..L : p[i] < l[j]
       /\ \A i \in 1..P, j \in 1..K : p[i] < k[j]
  BY <1>4, <1>5
<1>11. ASSUME NEW i \in 1..(P + L), NEW j \in 1..(P + L), i < j
       PROVE  pl[i] < pl[j]
  <2>1. CASE j <= P
    <3>1. i \in 1..P /\ j \in 1..P /\ i <= P
      BY <1>11, <2>1
    <3>2. pl[i] = p[i] /\ pl[j] = p[j]
      BY <1>9, <2>1, <3>1
    <3> QED
      BY <1>5, <1>11, <3>1, <3>2
  <2>2. CASE i <= P /\ ~(j <= P)
    <3>1. i \in 1..P /\ j - P \in 1..L
      BY <2>2
    <3>2. pl[i] = p[i] /\ pl[j] = l[j - P]
      BY <1>9, <2>2
    <3> QED
      BY <1>10, <3>1, <3>2
  <2>3. CASE ~(i <= P)
    <3>1. i - P \in 1..L /\ j - P \in 1..L /\ i - P < j - P /\ ~(j <= P)
      BY <1>11, <2>3
    <3>2. pl[i] = l[i - P] /\ pl[j] = l[j - P]
      BY <1>9, <2>3, <3>1
    <3> QED
      BY <1>6, <3>1, <3>2
  <2> QED
    BY <2>1, <2>2, <2>3
<1>12. ASSUME NEW i \in 1..(P + L), NEW j \in 1..K
       PROVE  pl[i] < k[j]
  <2>1. CASE i <= P
    <3>1. i \in 1..P /\ pl[i] = p[i]
      BY <1>9, <2>1
    <3> QED
      BY <1>10, <3>1
  <2>2. CASE ~(i <= P)
    <3>1. i - P \in 1..L /\ pl[i] = l[i - P]
      BY <1>9, <2>2
    <3> QED
      BY <1>6, <3>1
  <2> QED
    BY <2>1, <2>2
<1>13. Ordered(pl, k)
  BY <1>3, <1>6, <1>9, <1>11, <1>12 DEF Ordered, Increasing
<1> QED
  BY <1>1, <1>7, <1>8, <1>13

\* A summary that takes in the older of the messages stays before the rest.
LEMMA SummariseOrdered ==
  ASSUME NEW S, S \subseteq Nat, NEW p \in Seq(S), NEW ms \in Seq(S), NEW d \in Seq(S),
         NEW k \in Seq(S), Ordered(p, ms), Split(ms, d, k)
  PROVE  Summarise(p, d) \in Seq(S) /\ Ordered(Summarise(p, d), k)
<1>1. PICK lines \in Nat, cap \in Nat : lines = SummaryLines /\ cap = DigestCap
  BY SizeAssumption
<1>2. PICK l \in Seq(S) : l = LastOf(d, lines)
  BY LastOfFacts
<1>3. Ordered(l, k) /\ Ordered(p \o l, k)
  BY <1>2, AppendedOrdered
<1>4. CASE p = <<>>
  BY <1>1, <1>2, <1>3, <1>4 DEF Summarise
<1>5. CASE p # <<>>
  <2>1. PICK pl \in Seq(S) : pl = p \o l
    BY ConcatProperties
  <2>2. PICK f \in Seq(S) : f = FirstOf(pl, cap)
    BY FirstOfFacts
  <2>3. Starting(f, pl) /\ Ordered(pl, k)
    BY <1>3, <2>1, <2>2, FirstOfStarts
  <2>4. Ordered(f, k)
    BY <2>3, StartingOrdered
  <2>5. Summarise(p, d) = f
    BY <1>1, <1>2, <1>5, <2>1, <2>2 DEF Summarise
  <2> QED
    BY <2>4, <2>5
<1> QED
  BY <1>4, <1>5

\* The rest alone stays behind the summary as it is.
LEMMA RestOrdered ==
  ASSUME NEW S, S \subseteq Nat, NEW p \in Seq(S), NEW ms \in Seq(S), NEW d \in Seq(S),
         NEW k \in Seq(S), Ordered(p, ms), Split(ms, d, k)
  PROVE  Ordered(p, k)
<1>1. PICK D \in Nat, K \in Nat, N \in Nat : D = Len(d) /\ K = Len(k) /\ N = Len(ms)
  OBVIOUS
<1>2. \A i \in 1..K : k[i] = ms[D + i] /\ D + i \in 1..N
  BY <1>1 DEF Split
<1>3. \A i, j \in 1..K : i < j => k[i] < k[j]
  BY <1>1, <1>2 DEF Ordered, Increasing
<1> QED
  BY <1>1, <1>2, <1>3 DEF Ordered, Increasing

\* The token trim splits the messages, and the round cap splits the kept ones.
LEMMA TrimSplits ==
  ASSUME NEW S, NEW ms \in Seq(S)
  PROVE  Split(ms, Dropped(ms), Kept(ms))
BY TrimFacts DEF Split

LEMMA CapSplits ==
  ASSUME NEW S, NEW r, NEW kept \in Seq(S), kept = Kept(r.blob.messages)
  PROVE  Split(kept, Extra(r), Window(r))
<1>1. PICK cap \in Nat : cap = RoundCap
  BY SizeAssumption
<1>2. PICK w \in Seq(S) : w = LastOf(kept, cap)
  BY LastOfFacts
<1>3. PICK k \in Nat, v \in Nat : k = Len(kept) /\ v = Len(w)
  OBVIOUS
<1>4. v <= k /\ \A i \in 1..v : w[i] = kept[k - v + i]
  <2>1. /\ Len(w) = IF Len(kept) <= cap THEN Len(kept) ELSE cap
        /\ \A i \in 1..Len(w) : w[i] = kept[Len(kept) - Len(w) + i]
    BY <1>2, LastOfFacts
  <2>2. v = IF k <= cap THEN k ELSE cap
    BY <1>3, <2>1
  <2>3. v <= k
    BY <2>2
  <2> QED
    BY <1>3, <2>1, <2>3
<1>5. PICK e : e = SubSeq(kept, 1, k - v)
  OBVIOUS
<1>6. /\ Len(e) = k - v - 1 + 1
      /\ \A i \in 1..(k - v - 1 + 1) : e[i] = kept[1 + i - 1]
  <2>1. k - v \in Nat /\ 1 \in Nat /\ 1 <= k - v + 1 /\ k - v <= Len(kept)
    BY <1>3, <1>4
  <2> QED
    BY <1>5, <2>1, Slice
<1>7. Len(e) = k - v /\ \A i \in 1..(k - v) : e[i] = kept[i]
  <2>1. k - v - 1 + 1 = k - v /\ \A i \in 1..(k - v) : 1 + i - 1 = i
    BY <1>4
  <2> QED
    BY <1>6, <2>1
<1>8. Split(kept, e, w)
  BY <1>3, <1>4, <1>7 DEF Split
<1>9. Window(r) = w /\ Extra(r) = e
  BY <1>1, <1>2, <1>3, <1>5 DEF Window, Extra
<1> QED
  BY <1>8, <1>9

\* Both trims leave the summary and the messages in order.
LEMMA ContextOrdered ==
  ASSUME NEW n \in Nat, NEW r, r.blob \in BlobsIn(n),
         Ordered(r.blob.prefix, r.blob.messages)
  PROVE  /\ Ordered(BlobPrefix(r), Kept(r.blob.messages))
         /\ Ordered(ContextPrefix(r), Window(r))
<1>0. PICK S : S = 1..n
  OBVIOUS
<1>1. S \subseteq Nat
  BY <1>0
<1>2. PICK p \in Seq(S), ms \in Seq(S) : p = r.blob.prefix /\ ms = r.blob.messages
  BY <1>0 DEF BlobsIn
<1>3. PICK d \in Seq(S), kept \in Seq(S) : d = Dropped(ms) /\ kept = Kept(ms)
  BY TrimFacts
<1>4. PICK bp \in Seq(S), e \in Seq(S), w \in Seq(S) :
        bp = BlobPrefix(r) /\ e = Extra(r) /\ w = Window(r)
  BY <1>0, ContextTypes
<1>5. Split(ms, d, kept) /\ Split(kept, e, w)
  BY <1>2, <1>3, <1>4, TrimSplits, CapSplits
<1>6. Ordered(bp, kept)
  <2>1. bp = p \/ bp = Summarise(p, d)
    BY <1>2, <1>3, <1>4 DEF BlobPrefix
  <2>2. Ordered(p, kept) /\ Ordered(Summarise(p, d), kept)
    <3>1. Ordered(p, ms)
      BY <1>2
    <3> QED
      BY <1>1, <1>5, <3>1, RestOrdered, SummariseOrdered
  <2> QED
    BY <2>1, <2>2
<1>7. Ordered(ContextPrefix(r), w)
  <2>1. ContextPrefix(r) = bp \/ ContextPrefix(r) = Summarise(bp, e)
    BY <1>4 DEF ContextPrefix
  <2>2. Ordered(bp, w) /\ Ordered(Summarise(bp, e), w)
    BY <1>1, <1>5, <1>6, RestOrdered, SummariseOrdered
  <2> QED
    BY <2>1, <2>2
<1> QED
  BY <1>2, <1>3, <1>4, <1>6, <1>7

-----------------------------------------------------------------------------
(* One client at a time, on a blob that stays.                              *)

\* One client, whose blob neither expires nor is cleared by endSession.
Warm ==
  /\ OneClient
  /\ "expire" \notin Disruptions
  /\ \A c \in Clients : "end" \notin Ops[c]

InOrder(b) == Ordered(b.prefix, b.messages)

\* Every message the blob holds or has summarised is older than m.
Older(b, m) ==
  /\ \A i \in 1..Len(b.messages) : b.messages[i] < m
  /\ \A i \in 1..Len(b.prefix) : b.prefix[i] < m

\* No digest is stored before there is a blob.
StmOrdered ==
  /\ InOrder(stm)
  /\ stm.messages = <<>> => session.digest = <<>>

\* So does the copy a handler works on, once it has one; a message on its way
\* into the blob is newer than what is there.
Building == {"saveCold", "saveKept", "enqueue", "persist"}
ReqOrdered(q) ==
  /\ q.cold = FALSE /\ q.op # "end" /\ q.pc # "clear"
  /\ q.pc \in {"setLeaf", "getStm", "setStm"} => Older(stm, q.msg)
  /\ q.pc = "setStm" => q.blob = stm
  /\ q.pc \in {"loadSession", "loadPath", "saveCold"} => stm.messages = <<>>
  /\ q.pc = "loadPath" => q.blob.prefix = <<>>
  /\ q.pc = "saveCold" => q.blob.messages # <<>>
  /\ q.pc \in {"saveKept", "enqueue", "persist"} =>
       stm.messages # <<>> /\ q.blob.messages # <<>>
  /\ q.pc \in Building \cup {"llm"} => InOrder(q.blob)

\* The two together.
WarmInv == StmOrdered /\ \A c \in Clients : ReqOrdered(req[c])

\* Steps at which a request carries nothing that has to fit the blob.
Plain == {"idle", "create", "getBlob", "loadLeaf", "push", "patch", "archive", "usage"}

\* Where a request holds nothing of the blob.
LEMMA WarmPlain ==
  ASSUME Warm, WarmInv, NEW c \in Clients, stm' = stm,
         session'.digest = session.digest,
         req'[c].pc \in Plain, req'[c].cold = FALSE, req'[c].op # "end"
  PROVE  WarmInv'
<1>1. \A d \in Clients : d = c
  BY DEF Warm, OneClient
<1>2. StmOrdered'
  BY DEF WarmInv, StmOrdered, InOrder, Ordered, Increasing
<1>3. ReqOrdered(req[c])'
  BY DEF ReqOrdered, Plain, Building
<1> QED
  BY <1>1, <1>2, <1>3 DEF WarmInv, ReqOrdered

LEMMA WarmIdles ==
  ASSUME Warm, WarmInv, NEW c \in Clients, stm' = stm,
         session'.digest = session.digest, Idles(c)
  PROVE  WarmInv'
<1>1. req'[c].pc = "idle" /\ req'[c].cold = FALSE /\ req'[c].op = "none"
  BY DEF Idles, IdleReq
<1> QED
  BY <1>1, WarmPlain DEF Plain

\* A newer message at the end keeps the order.
LEMMA AppendOrdered ==
  ASSUME NEW n \in Nat, NEW b \in BlobsIn(n), NEW m \in 1..n, InOrder(b), Older(b, m)
  PROVE  Ordered(b.prefix, Append(b.messages, m)) /\ Append(b.messages, m) # <<>>
<1>0. PICK S : S = 1..n
  OBVIOUS
<1>1. PICK p \in Seq(S), ms \in Seq(S) : p = b.prefix /\ ms = b.messages
  BY <1>0 DEF BlobsIn
<1>2. PICK t : t = Append(ms, m)
  OBVIOUS
<1>3. PICK P \in Nat, N \in Nat : P = Len(p) /\ N = Len(ms)
  OBVIOUS
<1>4. /\ Len(t) = N + 1 /\ t[N + 1] = m /\ t # <<>>
      /\ \A i \in 1..N : t[i] = ms[i]
  BY <1>2, <1>3
<1>5. /\ \A i, j \in 1..P : i < j => p[i] < p[j]
      /\ \A i, j \in 1..N : i < j => ms[i] < ms[j]
      /\ \A i \in 1..P, j \in 1..N : p[i] < ms[j]
      /\ \A i \in 1..N : ms[i] < m
      /\ \A i \in 1..P : p[i] < m
  BY <1>1, <1>3 DEF InOrder, Ordered, Increasing, Older
<1>6. ASSUME NEW i \in 1..(N + 1), NEW j \in 1..(N + 1), i < j PROVE t[i] < t[j]
  <2>1. i \in 1..N
    BY <1>6
  <2>2. CASE j = N + 1
    BY <1>4, <1>5, <2>1, <2>2
  <2>3. CASE j # N + 1
    BY <1>4, <1>5, <1>6, <2>1, <2>3
  <2> QED
    BY <2>2, <2>3
<1>7. ASSUME NEW i \in 1..P, NEW j \in 1..(N + 1) PROVE p[i] < t[j]
  <2>1. CASE j = N + 1
    BY <1>4, <1>5, <2>1
  <2>2. CASE j # N + 1
    BY <1>4, <1>5, <2>2
  <2> QED
    BY <2>1, <2>2
<1>8. Ordered(p, t)
  BY <1>3, <1>4, <1>5, <1>6, <1>7 DEF Ordered, Increasing
<1> QED
  BY <1>1, <1>2, <1>4, <1>8

\* The steps that write a message and its blob.
LEMMA WarmAppend ==
  ASSUME Warm, Inv, WarmInv, NEW c \in Clients, AppendStep(c)
  PROVE  WarmInv'
<1> USE DEF Inv
<1>0. /\ \A d \in Clients : d = c
      /\ Len(msgs) \in Nat /\ stm \in BlobsIn(Len(msgs)) /\ StmOrdered
      /\ ReqOrdered(req[c])
  BY ReqType DEF Warm, OneClient, TypeInv, WarmInv
<1>k. ASSUME stm' = stm, session'.digest = session.digest, ReqOrdered(req[c])'
      PROVE  WarmInv'
  <2>1. StmOrdered'
    BY <1>0, <1>k DEF StmOrdered, InOrder, Ordered, Increasing
  <2> QED
    BY <1>0, <1>k, <2>1 DEF WarmInv, ReqOrdered
<1>1. CASE BeginAppend(c) \/ BeginReply(c)
  <2>1. /\ Frame /\ req'[c].pc = "create" /\ req'[c].cold = FALSE
        /\ req'[c].op \in {"append", "branch", "chat"}
    BY <1>1, BeginAppendStep, BeginReplyStep
  <2> QED
    BY <2>1, WarmPlain DEF Frame, Plain
<1>2. CASE CreateMessage(c)
  <2>1. /\ UNCHANGED <<session, stm, acked>> /\ req'[c].pc = "setLeaf"
        /\ req'[c].cold = req[c].cold /\ req'[c].op = req[c].op
        /\ req'[c].msg = Len(msgs) + 1
    BY <1>2, CreateMessageStep
  <2>2. Older(stm, Len(msgs) + 1)
    <3>1. /\ \A i \in 1..Len(stm.messages) : stm.messages[i] \in 1..Len(msgs)
          /\ \A i \in 1..Len(stm.prefix) : stm.prefix[i] \in 1..Len(msgs)
      <4>1. PICK S : S = 1..Len(msgs)
        OBVIOUS
      <4>2. stm.messages \in Seq(S) /\ stm.prefix \in Seq(S)
        BY <1>0, <4>1 DEF BlobsIn
      <4> QED
        BY <4>1, <4>2
    <3> QED
      BY <1>0, <3>1 DEF Older
  <2>3. Older(stm, req[c].msg)'
    BY <2>1, <2>2 DEF Older
  <2>4. ReqOrdered(req[c])'
    BY <1>0, <2>1, <2>3 DEF ReqOrdered, Building
  <2> QED
    BY <1>k, <2>1, <2>4
<1>3. CASE SetLeaf(c)
  <2>1. /\ UNCHANGED <<msgs, stm, acked>> /\ At(c, "setLeaf") /\ req'[c].pc = "getStm"
        /\ req'[c].cold = req[c].cold /\ req'[c].op = req[c].op
        /\ req'[c].msg = req[c].msg /\ session'.digest = session.digest
    BY <1>3, SetLeafStep DEF Moves, SameData
  <2>2. ReqOrdered(req[c])'
    BY <1>0, <2>1 DEF ReqOrdered, Building, At, Older
  <2> QED
    BY <1>k, <2>1, <2>2
<1>4. CASE GetStm(c)
  <2>1. /\ Frame /\ At(c, "getStm") /\ req'[c].pc = "setStm" /\ req'[c].blob = stm
        /\ req'[c].cold = req[c].cold /\ req'[c].op = req[c].op
        /\ req'[c].msg = req[c].msg
    BY <1>4, GetStmStep
  <2>2. ReqOrdered(req[c])'
    BY <1>0, <2>1 DEF ReqOrdered, Building, At, Older, Frame
  <2> QED
    BY <1>k, <2>1, <2>2 DEF Frame
<1>5. CASE SetStm(c)
  <2>1. /\ UNCHANGED <<msgs, session>> /\ At(c, "setStm")
        /\ stm'.messages = Append(stm.messages, req[c].msg)
        /\ stm'.prefix = stm.prefix /\ req[c].msg \in 1..Len(msgs)
        /\ Older(stm, req[c].msg) /\ InOrder(stm)
    BY <1>0, <1>5, SetStmStep DEF ReqOrdered, StmOrdered, At
  <2>2. Ordered(stm.prefix, Append(stm.messages, req[c].msg))
        /\ Append(stm.messages, req[c].msg) # <<>>
    BY <1>0, <2>1, AppendOrdered
  <2>3. StmOrdered'
    BY <2>1, <2>2 DEF StmOrdered, InOrder
  <2>4. /\ req'[c].pc \in {"usage", "idle"} /\ req'[c].cold = FALSE
        /\ req'[c].op # "end"
    <3>1. CASE req[c].op = "chat"
      BY <1>0, <1>5, <3>1, SetStmStep DEF Moves, SameData, ReqOrdered
    <3>2. CASE req[c].op # "chat"
      BY <1>5, <3>2, SetStmStep DEF Idles, IdleReq
    <3> QED
      BY <3>1, <3>2
  <2>5. ReqOrdered(req[c])'
    BY <2>4 DEF ReqOrdered, Building
  <2> QED
    BY <1>0, <2>3, <2>5 DEF WarmInv, ReqOrdered
<1>6. CASE RecordUsage(c)
  <2>1. UNCHANGED <<session, stm>> /\ Idles(c)
    BY <1>6, RecordUsageStep
  <2> QED
    BY <2>1, WarmIdles
<1> QED
  BY <1>1, <1>2, <1>3, <1>4, <1>5, <1>6 DEF AppendStep

\* Where a handler goes with a blob in hand.
LEMMA ContextPcCases ==
  ASSUME NEW r
  PROVE  /\ ContextPc(r) \in {"saveKept", "persist", "llm"}
         /\ TrimPc(r) \in {"persist", "llm"}
BY DEF ContextPc, TrimPc

\* A path, or the list of all rows, is in order of creation.
LEMMA PathOrdered ==
  ASSUME Inv, NEW c \in Clients
  PROVE  Ordered(<<>>, PathOf(req[c]))
<1>1. IsTree(msgs) /\ req[c].parent \in 0..Len(msgs) /\ Len(msgs) \in Nat
  BY PathOfType, ReqType DEF Inv
<1>2. Increasing(PathTo(req[c].parent))
  <2>1. IsPath(PathTo(req[c].parent), req[c].parent)
    BY <1>1, PathFacts, PathToIn
  <2> QED
    BY <2>1 DEF IsPath
<1>3. Increasing(AllMsgs)
  BY <1>1 DEF Increasing, AllMsgs
<1>4. Increasing(<<>>)
  BY DEF Increasing
<1>5. Increasing(PathOf(req[c]))
  BY <1>2, <1>3, <1>4 DEF PathOf
<1>6. \A i \in 1..Len(<<>>) : FALSE
  OBVIOUS
<1> QED
  BY <1>4, <1>5, <1>6 DEF Ordered

\* The steps that build a context and store the digest.
LEMMA WarmContext ==
  ASSUME Warm, Inv, WarmInv, NEW c \in Clients, ContextStep(c)
  PROVE  WarmInv'
<1> USE DEF Inv
<1>0. /\ \A d \in Clients : d = c
      /\ Len(msgs) \in Nat /\ stm \in BlobsIn(Len(msgs)) /\ StmOrdered
      /\ ReqOrdered(req[c]) /\ req[c].blob \in BlobsIn(Len(msgs))
  BY ReqType DEF Warm, OneClient, TypeInv, WarmInv
<1>k. ASSUME stm' = stm, session'.digest = session.digest, ReqOrdered(req[c])'
      PROVE  WarmInv'
  <2>1. StmOrdered'
    BY <1>0, <1>k DEF StmOrdered, InOrder, Ordered, Increasing
  <2> QED
    BY <1>0, <1>k, <2>1 DEF WarmInv, ReqOrdered
\* Where the handler has a blob in order, and the one in Redis is not empty.
<1>b. ASSUME req'[c].pc \in {"saveKept", "enqueue", "persist", "llm"},
             req'[c].cold = FALSE, req'[c].op # "end", stm'.messages # <<>>,
             InOrder(req'[c].blob), req'[c].blob.messages # <<>>
      PROVE  ReqOrdered(req[c])'
  BY <1>b DEF ReqOrdered, Building, InOrder, Ordered, Increasing
<1>1. CASE BeginContext(c)
  <2>1. /\ Frame /\ req'[c].pc = "getBlob" /\ req'[c].cold = FALSE
        /\ req'[c].op \in {"chat", "explain", "preview"}
    BY <1>1, BeginContextStep DEF Starts
  <2> QED
    BY <2>1, WarmPlain DEF Frame, Plain
<1>2. CASE GetBlob(c)
  <2>1. CASE stm.messages = <<>>
    <3>1. /\ Frame /\ req'[c].pc = "loadSession" /\ req'[c].cold = req[c].cold
          /\ req'[c].op = req[c].op
      BY <1>2, <2>1, GetBlobStep DEF Moves, SameData
    <3>2. ReqOrdered(req[c])'
      BY <1>0, <2>1, <3>1 DEF ReqOrdered, Building, Frame
    <3> QED
      BY <1>k, <3>1, <3>2 DEF Frame
  <2>2. CASE stm.messages # <<>>
    <3>1. PICK r : r.blob = stm /\ req'[c].pc = ContextPc(r)
      BY <1>2, <2>2, GetBlobStep
    <3>2. /\ Frame /\ req'[c].cold = req[c].cold /\ req'[c].op = req[c].op
          /\ req'[c].blob = stm
      BY <1>2, <2>2, GetBlobStep
    <3>3. req'[c].pc \in {"saveKept", "persist", "llm"}
      BY <3>1, ContextPcCases
    <3>4. ReqOrdered(req[c])'
      <4>1. /\ req'[c].cold = FALSE /\ req'[c].op # "end" /\ stm'.messages # <<>>
            /\ req'[c].blob.messages # <<>>
        BY <1>0, <2>2, <3>2 DEF ReqOrdered, Frame
      <4>2. InOrder(req'[c].blob)
        BY <1>0, <3>2 DEF StmOrdered
      <4> QED
        BY <1>b, <3>3, <4>1, <4>2
    <3> QED
      BY <1>k, <3>2, <3>4 DEF Frame
  <2> QED
    BY <2>1, <2>2
<1>3. CASE LoadSession(c)
  <2>1. /\ Frame /\ At(c, "loadSession") /\ req'[c].pc = "loadPath"
        /\ req'[c].cold = req[c].cold /\ req'[c].op = req[c].op
        /\ req'[c].blob.prefix = IF session.exists THEN session.digest ELSE <<>>
    BY <1>3, LoadSessionStep
  <2>2. stm.messages = <<>> /\ req'[c].blob.prefix = <<>>
    BY <1>0, <2>1 DEF ReqOrdered, StmOrdered, At
  <2>3. ReqOrdered(req[c])'
    BY <1>0, <2>1, <2>2 DEF ReqOrdered, Building, Frame
  <2> QED
    BY <1>k, <2>1, <2>3 DEF Frame
<1>4. CASE LoadPath(c)
  <2>1. /\ Frame /\ At(c, "loadPath") /\ req'[c].op = req[c].op
        /\ req'[c].blob.messages = PathOf(req[c])
        /\ req'[c].blob.prefix = req[c].blob.prefix
        /\ req'[c].cold = (req[c].blob.prefix # <<>>)
        /\ req'[c].pc = IF PathOf(req[c]) # <<>> THEN "saveCold" ELSE "llm"
    BY <1>4, LoadPathStep
  <2>2. req[c].blob.prefix = <<>> /\ stm.messages = <<>> /\ req[c].op # "end"
    BY <1>0, <2>1 DEF ReqOrdered, At
  <2>3. InOrder(req'[c].blob)
    BY <2>1, <2>2, PathOrdered DEF InOrder
  <2>4. req'[c].cold = FALSE
    BY <2>1, <2>2, Zenon
  <2>5. ReqOrdered(req[c])'
    <3>1. InOrder(req[c].blob)'
      BY <2>3 DEF InOrder, Ordered, Increasing
    <3> QED
      BY <2>1, <2>2, <2>4, <3>1 DEF ReqOrdered, Building, Frame
  <2> QED
    BY <1>k, <2>1, <2>5 DEF Frame
<1>5. CASE SaveCold(c)
  <2>1. /\ UNCHANGED <<msgs, session, acked>> /\ At(c, "saveCold") /\ stm' = req[c].blob
        /\ req'[c].pc = ContextPc(req[c]) /\ req'[c].blob = req[c].blob
        /\ req'[c].cold = req[c].cold /\ req'[c].op = req[c].op
    BY <1>5, SaveColdStep DEF Moves, SameData
  <2>2. /\ req[c].blob.messages # <<>> /\ InOrder(req[c].blob)
        /\ req[c].cold = FALSE /\ req[c].op # "end"
    BY <1>0, <2>1 DEF ReqOrdered, Building, At
  <2>3. req'[c].pc \in {"saveKept", "persist", "llm"}
    BY <2>1, ContextPcCases
  <2>4. StmOrdered'
    BY <2>1, <2>2 DEF StmOrdered, InOrder, Ordered, Increasing
  <2>5. ReqOrdered(req[c])'
    BY <1>b, <2>1, <2>2, <2>3
  <2> QED
    BY <1>0, <2>4, <2>5 DEF WarmInv, ReqOrdered
<1>6. CASE SaveKept(c)
  <2>1. /\ UNCHANGED <<msgs, session, acked>> /\ At(c, "saveKept")
        /\ stm'.messages = Kept(req[c].blob.messages) /\ stm'.prefix = BlobPrefix(req[c])
        /\ req'[c].pc = "enqueue" /\ req'[c].blob = req[c].blob
        /\ req'[c].cold = req[c].cold /\ req'[c].op = req[c].op
    <3>1. ~TrustsDigest(req[c])
      BY <1>0 DEF ReqOrdered, TrustsDigest
    <3> QED
      BY <1>6, <3>1, SaveKeptStep DEF Moves, SameData
  <2>2. /\ req[c].blob.messages # <<>> /\ InOrder(req[c].blob)
        /\ req[c].cold = FALSE /\ req[c].op # "end"
    BY <1>0, <2>1 DEF ReqOrdered, Building, At
  <2>3. Ordered(BlobPrefix(req[c]), Kept(req[c].blob.messages))
    BY <1>0, <2>2, ContextOrdered DEF InOrder
  <2>4. Kept(req[c].blob.messages) # <<>>
    <3>1. PICK S : S = 1..Len(msgs)
      OBVIOUS
    <3>2. PICK ms \in Seq(S) : ms = req[c].blob.messages
      BY <1>0, <3>1 DEF BlobsIn
    <3> QED
      BY <2>2, <3>2, TrimFacts
  <2>5. StmOrdered'
    BY <2>1, <2>3, <2>4 DEF StmOrdered, InOrder
  <2>6. ReqOrdered(req[c])'
    BY <1>b, <2>1, <2>2, <2>4
  <2> QED
    BY <1>0, <2>5, <2>6 DEF WarmInv, ReqOrdered
<1>7. CASE EnqueueCompress(c)
  <2>1. /\ UNCHANGED <<msgs, session, stm, acked>> /\ At(c, "enqueue")
        /\ req'[c].pc = TrimPc(req[c]) /\ req'[c].blob = req[c].blob
        /\ req'[c].cold = req[c].cold /\ req'[c].op = req[c].op
    BY <1>7, EnqueueCompressStep DEF Moves, SameData
  <2>2. /\ req[c].blob.messages # <<>> /\ InOrder(req[c].blob) /\ stm.messages # <<>>
        /\ req[c].cold = FALSE /\ req[c].op # "end"
    BY <1>0, <2>1 DEF ReqOrdered, Building, At
  <2>3. req'[c].pc \in {"persist", "llm"}
    BY <2>1, ContextPcCases
  <2>4. ReqOrdered(req[c])'
    BY <1>b, <2>1, <2>2, <2>3
  <2> QED
    BY <1>k, <2>1, <2>4
<1>8. CASE PersistDigest(c)
  <2>1. /\ UNCHANGED <<msgs, stm, acked>> /\ At(c, "persist")
        /\ req'[c].pc = "llm" /\ req'[c].blob = req[c].blob
        /\ req'[c].cold = req[c].cold /\ req'[c].op = req[c].op
    BY <1>8, PersistDigestStep DEF Moves, SameData
  <2>2. /\ req[c].blob.messages # <<>> /\ InOrder(req[c].blob) /\ stm.messages # <<>>
        /\ req[c].cold = FALSE /\ req[c].op # "end"
    BY <1>0, <2>1 DEF ReqOrdered, Building, At
  <2>3. StmOrdered'
    BY <1>0, <2>1, <2>2 DEF StmOrdered, InOrder, Ordered, Increasing
  <2>4. ReqOrdered(req[c])'
    BY <1>b, <2>1, <2>2
  <2> QED
    BY <1>0, <2>3, <2>4 DEF WarmInv, ReqOrdered
<1>9. CASE EndContext(c)
  BY <1>9, StopsStep, WarmIdles DEF Frame
<1> QED
  BY <1>1, <1>2, <1>3, <1>4, <1>5, <1>6, <1>7, <1>8, <1>9 DEF ContextStep

LEMMA WarmNext ==
  ASSUME Warm, Inv, WarmInv, [Next]_vars
  PROVE  WarmInv'
<1> USE DEF Inv
<1>2. ASSUME NEW c \in Clients, SessionStep(c)
      PROVE  WarmInv'
  <2>0. req[c].cold = FALSE /\ req[c].op # "end" /\ req[c].pc # "clear"
    BY DEF WarmInv, ReqOrdered
  <2>1. CASE BeginEnd(c) \/ BeginExtract(c) \/ BeginPatch(c) \/ LoadLeaf(c)
    <3>1. /\ Frame /\ req'[c].pc \in {"loadLeaf", "patch", "push"}
          /\ req'[c].cold = FALSE /\ req'[c].op # "end"
      BY <2>0, <2>1, SessionStartsStep, LoadLeafStep DEF Starts, Warm
    <3> QED
      BY <3>1, WarmPlain DEF Frame, Plain
  <2>2. CASE EnqueueExplicit(c)
    <3>1. UNCHANGED <<msgs, session, stm, acked>> /\ Idles(c)
      BY <2>0, <2>2, EnqueueExplicitStep
    <3> QED
      BY <3>1, WarmIdles
  <2>3. CASE ClearStm(c)
    BY <2>0, <2>3, ClearStmStep DEF At
  <2>4. CASE Archive(c) \/ PatchSession(c)
    BY <2>4, ArchiveStep, WarmIdles
  <2> QED
    BY <1>2, <2>1, <2>2, <2>3, <2>4 DEF SessionStep
<1>3. ASSUME NEW c \in Clients, RowGone(c) \/ Abort(c)
      PROVE  WarmInv'
  BY <1>3, StopsStep, WarmIdles DEF Frame
<1>4. CASE ExpireStm
  BY <1>4 DEF ExpireStm, Warm
<1>5. ASSUME UNCHANGED <<stm, req>>, session'.digest = session.digest
      PROVE  WarmInv'
  <2>1. StmOrdered'
    BY <1>5 DEF WarmInv, StmOrdered, InOrder, Ordered, Increasing
  <2>2. \A c \in Clients : ReqOrdered(req[c])'
    BY <1>5 DEF WarmInv, ReqOrdered, Building, InOrder, Ordered, Increasing, Older
  <2> QED
    BY <2>1, <2>2 DEF WarmInv
<1>6. CASE DeleteSession
  BY <1>5, <1>6, DeleteSessionStep
<1>7. CASE UNCHANGED vars
  BY <1>5, <1>7 DEF vars
<1> QED
  BY <1>2, <1>3, <1>4, <1>6, <1>7, WarmAppend, WarmContext DEF Next

LEMMA WarmInit == Init => WarmInv
<1> SUFFICES ASSUME Init PROVE WarmInv
  OBVIOUS
<1>1. /\ stm = NoBlob /\ session.digest = <<>>
      /\ \A c \in Clients : req[c] = IdleReq
  BY DEF Init
<1>2. InOrder(stm)
  <2>1. stm.prefix = <<>> /\ stm.messages = <<>>
    BY <1>1 DEF NoBlob
  <2> QED
    BY <2>1 DEF InOrder, Ordered, Increasing
<1>3. ReqOrdered(IdleReq)
  BY DEF ReqOrdered, IdleReq, Building
<1> QED
  BY <1>1, <1>2, <1>3 DEF WarmInv, StmOrdered

\* One client on a live blob, for any costs, budget and caps: what buildChatContext
\* returns, the summary and then the window, names no message twice and none after
\* a later one, however often the blob was trimmed and capped, forks included, and
\* wherever handlers died between the writes.
THEOREM OrderTheorem ==
  ASSUME Warm
  PROVE  Spec => []ContextInOrder
<1>1. Init => Inv /\ WarmInv
  BY InvInit, WarmInit
<1>2. Inv /\ WarmInv /\ [Next]_vars => Inv' /\ WarmInv'
  BY InvNext, WarmNext
<1>3. Inv /\ WarmInv => ContextInOrder
  <2> SUFFICES ASSUME Inv, WarmInv, NEW c \in Clients, At(c, "llm"), NEW shown,
                      shown = ContextPrefix(req[c]) \o Window(req[c]),
                      NEW i \in 1..Len(shown), NEW j \in 1..Len(shown), i < j
               PROVE  shown[i] < shown[j]
    BY DEF ContextInOrder
  <2>1. PICK n \in Nat : n = Len(msgs)
    BY DEF Inv, TypeInv
  <2>2. req[c].blob \in BlobsIn(n)
    BY <2>1, ReqType DEF Inv
  <2>3. Ordered(req[c].blob.prefix, req[c].blob.messages)
    BY DEF WarmInv, ReqOrdered, InOrder, At
  <2>4. PICK S : S = 1..n
    OBVIOUS
  <2>5. PICK p \in Seq(S), w \in Seq(S) : p = ContextPrefix(req[c]) /\ w = Window(req[c])
    BY <2>2, <2>4, ContextTypes
  <2>6. Ordered(p, w)
    BY <2>2, <2>3, <2>5, ContextOrdered
  <2>7. PICK P \in Nat, W \in Nat : P = Len(p) /\ W = Len(w)
    OBVIOUS
  <2>8. /\ Len(shown) = P + W
        /\ \A k \in 1..(P + W) : shown[k] = IF k <= P THEN p[k] ELSE w[k - P]
    BY <2>5, <2>7, ConcatProperties
  <2>9. CASE j <= P
    <3>1. i \in 1..P /\ j \in 1..P /\ shown[i] = p[i] /\ shown[j] = p[j]
      BY <2>8, <2>9
    <3> QED
      BY <2>6, <2>7, <3>1 DEF Ordered, Increasing
  <2>10. CASE i <= P /\ ~(j <= P)
    <3>1. i \in 1..P /\ j - P \in 1..W /\ shown[i] = p[i] /\ shown[j] = w[j - P]
      BY <2>8, <2>10
    <3> QED
      BY <2>6, <2>7, <3>1 DEF Ordered
  <2>11. CASE ~(i <= P)
    <3>1. i - P \in 1..W /\ j - P \in 1..W /\ i - P < j - P /\ ~(j <= P)
      BY <2>8, <2>11
    <3>2. shown[i] = w[i - P] /\ shown[j] = w[j - P]
      BY <2>8, <2>11, <3>1
    <3> QED
      BY <2>6, <2>7, <3>1, <3>2 DEF Ordered, Increasing
  <2> QED
    BY <2>9, <2>10, <2>11
<1> QED
  BY <1>1, <1>2, <1>3, PTL DEF Spec

==============================================================================
