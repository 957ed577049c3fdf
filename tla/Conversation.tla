---------------------------- MODULE Conversation ----------------------------
(***************************************************************************)
(* One conversation session of the API: its row and its message tree in    *)
(* Postgres, its short-term memory (STM) blob in Redis, the extraction     *)
(* jobs it has asked for, and the HTTP handlers that work on them          *)
(* (src/conversation, src/memory/memory-orchestrator.service.ts and        *)
(* src/memory/short-term-memory.service.ts).                               *)
(*                                                                         *)
(* No handler takes a lock or opens a transaction, so every await is a     *)
(* point where another request, possibly on another replica, may run: an   *)
(* action below is one database, Redis or LLM call and the synchronous     *)
(* code up to the next one.  A message is its rank in creation order; of   *)
(* its text only the token cost is kept.  A summary is the sequence of the *)
(* messages it has a line for.                                             *)
(***************************************************************************)
EXTENDS Integers, Sequences, FiniteSets, SequencesExt

CONSTANTS
  Clients,       \* requests of one client run one after the other
  Ops,           \* Ops[c]: the kinds of request client c sends
  Roles,         \* the roles clients send with a message
  Disruptions,   \* what may go wrong: "abort", "expire", "delete"
  MaxMsgs,       \* bound: messages created in the session
  Cost,          \* Cost[m]: estimateTokens(content) + 4 of message m
  TokenBudget,   \* STM_MESSAGE_TOKEN_BUDGET
  RoundCap,      \* STM_TARGET_ROUNDS * 2
  SummaryLines,  \* lines of one compression summary (8 in the code)
  DigestCap      \* DIGEST_MAX_CHARS, counted in summary lines

Kinds == {"append", "branch", "chat", "explain", "preview", "patch", "end",
          "extract"}

ASSUME SizeAssumption ==
  /\ MaxMsgs \in Nat \ {0}
  /\ Cost \in [1..MaxMsgs -> Nat \ {0}]
  /\ TokenBudget \in Nat
  /\ RoundCap \in Nat \ {0}
  /\ SummaryLines \in Nat \ {0}
  /\ DigestCap \in Nat /\ DigestCap >= SummaryLines

ASSUME OpsAssumption ==
  Ops \in [Clients -> SUBSET Kinds]

ValidRoles == {"user", "assistant", "system"}
MsgIds == 1..MaxMsgs
NoMsg == 0
Refs == 0..MaxMsgs            \* a message or null
NoTitle == 0                  \* the title is null
Custom == MaxMsgs + 1         \* a title the user typed; m: derived from m

VARIABLES
  msgs,     \* conversation_messages of the session, in creation order
  session,  \* the conversation_sessions row
  stm,      \* the Redis blob hugme:stm:<session>
  jobs,     \* dedupe keys taken so far: <<trigger, leaf>>
  req,      \* req[c]: the handler running for client c
  acked     \* messages whose request has answered with success

vars == <<msgs, session, stm, jobs, req, acked>>

-----------------------------------------------------------------------------
(* Data.  A stored blob always has a message, so the empty one is "no blob". *)

NoBlob == [messages |-> <<>>, prefix |-> <<>>, leaf |-> NoMsg]

IdleReq == [pc |-> "idle", op |-> "none", role |-> "user", parent |-> NoMsg,
            titled |-> FALSE, msg |-> NoMsg, blob |-> NoBlob, cold |-> FALSE]

\* The walk of loadActivePath from a leaf to its root, reversed.
PathTo(leaf) ==
  LET walk[m \in 0..Len(msgs)] ==
        IF m = NoMsg THEN <<>> ELSE Append(walk[msgs[m].parent], m)
  IN  walk[leaf]

AllMsgs == [i \in 1..Len(msgs) |-> i]

Tokens(ms) == FoldSeq(LAMBDA m, sum : Cost[m] + sum, 0, ms)

\* trimMessagesToTokenBudget: how many of the oldest messages do not fit;
\* the newest is kept whatever its cost.
DroppedCount(ms) ==
  Cardinality({k \in 1..(Len(ms) - 1) :
                 Tokens(SubSeq(ms, k, Len(ms))) > TokenBudget})
Kept(ms) == SubSeq(ms, DroppedCount(ms) + 1, Len(ms))
Dropped(ms) == SubSeq(ms, 1, DroppedCount(ms))

LastOf(s, n) == IF Len(s) <= n THEN s ELSE SubSeq(s, Len(s) - n + 1, Len(s))
FirstOf(s, n) == IF Len(s) <= n THEN s ELSE SubSeq(s, 1, n)

\* buildCompressionSummary of some messages, after an earlier summary if any.
Summarise(prefix, dropped) ==
  IF prefix = <<>> THEN LastOf(dropped, SummaryLines)
  ELSE FirstOf(prefix \o LastOf(dropped, SummaryLines), DigestCap)

\* hadDigestOnCold && stmPrefixSummary: the summary is taken as it stands.
TrustsDigest(r) == r.cold /\ r.blob.prefix # <<>>

\* The blob's summary after the token trim, the messages past the round cap,
\* and what buildChatContext returns: the window and the summary before it.
BlobPrefix(r) ==
  IF Dropped(r.blob.messages) = <<>> \/ TrustsDigest(r) THEN r.blob.prefix
  ELSE Summarise(r.blob.prefix, Dropped(r.blob.messages))
Window(r) == LastOf(Kept(r.blob.messages), RoundCap)

\* Mutant: the first RoundCap messages are left out, not the last.
ExtraOfEnd(r) == SubSeq(Kept(r.blob.messages), RoundCap + 1, Len(Kept(r.blob.messages)))

Extra(r) ==
  SubSeq(Kept(r.blob.messages), 1, Len(Kept(r.blob.messages)) - Len(Window(r)))
ContextPrefix(r) ==
  IF Extra(r) = <<>> \/ TrustsDigest(r) THEN BlobPrefix(r)
  ELSE Summarise(BlobPrefix(r), Extra(r))
DigestDirty(r) ==
  /\ ~TrustsDigest(r)
  /\ Dropped(r.blob.messages) # <<>> \/ Extra(r) # <<>>

\* Where buildChatContext goes once the blob is in hand, and after the trim.
AfterTrim(r) ==
  [r EXCEPT !.pc = IF DigestDirty(r) THEN "persist" ELSE "llm"]
WithBlob(r) ==
  IF Dropped(r.blob.messages) # <<>> THEN [r EXCEPT !.pc = "saveKept"]
  ELSE AfterTrim(r)

-----------------------------------------------------------------------------
Init ==
  /\ msgs = <<>>
  /\ session = [exists |-> TRUE, leaf |-> NoMsg, title |-> NoTitle,
                digest |-> <<>>, archived |-> FALSE]
  /\ stm = NoBlob
  /\ jobs = {}
  /\ req = [c \in Clients |-> IdleReq]
  /\ acked = {}

At(c, pc) == req[c].pc = pc
Goto(c, pc) == req' = [req EXCEPT ![c].pc = pc]
Done(c) == req' = [req EXCEPT ![c] = IdleReq]
Begins(c, op, pc) ==
  /\ At(c, "idle") /\ op \in Ops[c]
  /\ req' = [req EXCEPT ![c] = [IdleReq EXCEPT !.pc = pc, !.op = op]]

-----------------------------------------------------------------------------
(* POST sessions/:id/messages, and the assistant message a chat saves.      *)

\* Mutant: the role of a message is not looked at.
BeginAppendAnyRole(c) ==
  /\ At(c, "idle") /\ session.exists /\ Len(msgs) < MaxMsgs
  /\ \E role \in Roles, op \in {"append", "branch"} \cap Ops[c] :
       \E parent \in IF op = "append" THEN {session.leaf} ELSE 1..Len(msgs) :
         req' = [req EXCEPT ![c] =
                   [IdleReq EXCEPT !.pc = "create", !.op = op, !.role = role,
                                   !.parent = parent]]
  /\ UNCHANGED <<msgs, session, stm, jobs, acked>>

\* The session row is read before anything else; the parent and whether a
\* title is due come from this read.
BeginAppend(c) ==
  /\ At(c, "idle") /\ session.exists /\ Len(msgs) < MaxMsgs
  /\ \E role \in Roles \cap ValidRoles, op \in {"append", "branch"} \cap Ops[c] :
       \E parent \in IF op = "append" THEN {session.leaf} ELSE 1..Len(msgs) :
         req' = [req EXCEPT ![c] =
                   [IdleReq EXCEPT !.pc = "create", !.op = op, !.role = role,
                                   !.parent = parent,
                                   !.titled = session.title = NoTitle
                                                /\ role = "user"]]
  /\ UNCHANGED <<msgs, session, stm, jobs, acked>>

\* Mutant: the reply's parent is the message it answers, taken from the blob.
BeginReplyToWindow(c) ==
  /\ At(c, "llm") /\ req[c].op = "chat" /\ session.exists
  /\ LET window == Window(req[c])
         last == IF window = <<>> THEN NoMsg ELSE window[Len(window)]
     IN  req' = [req EXCEPT ![c] =
                   [IdleReq EXCEPT !.pc = "create", !.op = "chat",
                                   !.role = "assistant", !.parent = last]]
  /\ UNCHANGED <<msgs, session, stm, jobs, acked>>

\* The LLM has answered a chat with some content: saveAssistantMessage reads
\* the session again, after the context was built.
BeginReply(c) ==
  /\ At(c, "llm") /\ req[c].op = "chat" /\ session.exists
  /\ req' = [req EXCEPT ![c] =
               [IdleReq EXCEPT !.pc = "create", !.op = "chat",
                               !.role = "assistant", !.parent = session.leaf]]
  /\ UNCHANGED <<msgs, session, stm, jobs, acked>>

\* Mutant: a message without a parent is its own.
CreateMessageUnderItself(c) ==
  /\ At(c, "create") /\ session.exists /\ Len(msgs) < MaxMsgs
  /\ msgs' = Append(msgs, [parent |-> IF req[c].parent = NoMsg THEN Len(msgs) + 1
                                      ELSE req[c].parent,
                           role |-> req[c].role])
  /\ req' = [req EXCEPT ![c].pc = "setLeaf", ![c].msg = Len(msgs) + 1]
  /\ UNCHANGED <<session, stm, jobs, acked>>

CreateMessage(c) ==
  /\ At(c, "create") /\ session.exists /\ Len(msgs) < MaxMsgs
  /\ msgs' = Append(msgs, [parent |-> req[c].parent, role |-> req[c].role])
  /\ req' = [req EXCEPT ![c].pc = "setLeaf", ![c].msg = Len(msgs) + 1]
  /\ UNCHANGED <<session, stm, jobs, acked>>

\* Mutant: saveAssistantMessage leaves the session's leaf alone.
SetLeafOfUser(c) ==
  /\ At(c, "setLeaf") /\ session.exists
  /\ session' = IF req[c].role = "assistant" THEN session
                ELSE [session EXCEPT !.leaf = req[c].msg]
  /\ Goto(c, "getStm")
  /\ UNCHANGED <<msgs, stm, jobs, acked>>

SetLeaf(c) ==
  /\ At(c, "setLeaf") /\ session.exists
  /\ session' = [session EXCEPT !.leaf = req[c].msg,
                                !.title = IF req[c].titled THEN req[c].msg
                                          ELSE @]
  /\ Goto(c, "getStm")
  /\ UNCHANGED <<msgs, stm, jobs, acked>>

\* ShortTermMemoryService.appendMessage is a read and a write of the blob.
GetStm(c) ==
  /\ At(c, "getStm")
  /\ req' = [req EXCEPT ![c].pc = "setStm", ![c].blob = stm]
  /\ UNCHANGED <<msgs, session, stm, jobs, acked>>

\* Mutant: the blob that has been read is not carried on.
SetStmAfresh(c) ==
  /\ At(c, "setStm")
  /\ stm' = [NoBlob EXCEPT !.messages = Append(@, req[c].msg), !.leaf = req[c].msg]
  /\ IF req[c].op = "chat" THEN Goto(c, "usage") /\ UNCHANGED acked
     ELSE Done(c) /\ acked' = acked \cup {req[c].msg}
  /\ UNCHANGED <<msgs, session, jobs>>

\* Mutant: the leaf is written once more after the blob.
SetStmThenLeaf(c) ==
  /\ At(c, "setStm")
  /\ stm' = [req[c].blob EXCEPT !.messages = Append(@, req[c].msg),
                                !.leaf = req[c].msg]
  /\ session' = [session EXCEPT !.leaf = req[c].msg]
  /\ IF req[c].op = "chat" THEN Goto(c, "usage") /\ UNCHANGED acked
     ELSE Done(c) /\ acked' = acked \cup {req[c].msg}
  /\ UNCHANGED <<msgs, jobs>>

SetStm(c) ==
  /\ At(c, "setStm")
  /\ stm' = [req[c].blob EXCEPT !.messages = Append(@, req[c].msg),
                                !.leaf = req[c].msg]
  /\ IF req[c].op = "chat" THEN Goto(c, "usage") /\ UNCHANGED acked
     ELSE Done(c) /\ acked' = acked \cup {req[c].msg}
  /\ UNCHANGED <<msgs, session, jobs>>

\* LlmUsageService.record, then the done event with the saved message's id.
RecordUsage(c) ==
  /\ At(c, "usage") /\ session.exists
  /\ Done(c) /\ acked' = acked \cup {req[c].msg}
  /\ UNCHANGED <<msgs, session, stm, jobs>>

-----------------------------------------------------------------------------
(* buildChatContext, for a chat, an explanation or GET context/:sessionId.  *)

BeginContext(c) ==
  /\ \/ session.exists /\ \E op \in {"chat", "explain"} : Begins(c, op, "getBlob")
     \/ Begins(c, "preview", "getBlob")
  /\ UNCHANGED <<msgs, session, stm, jobs, acked>>

GetBlob(c) ==
  /\ At(c, "getBlob")
  /\ req' = [req EXCEPT ![c] = IF stm.messages # <<>>
                               THEN WithBlob([@ EXCEPT !.blob = stm])
                               ELSE [@ EXCEPT !.pc = "loadSession"]]
  /\ UNCHANGED <<msgs, session, stm, jobs, acked>>

\* Cold restore: the leaf and the digest are read first, the rows after.
LoadSession(c) ==
  /\ At(c, "loadSession")
  /\ req' = [req EXCEPT
       ![c] = [@ EXCEPT !.pc = "loadPath",
                        !.parent = IF session.exists THEN session.leaf ELSE NoMsg,
                        !.blob.prefix = IF session.exists THEN session.digest
                                        ELSE <<>>]]
  /\ UNCHANGED <<msgs, session, stm, jobs, acked>>

\* Mutant: the rows are handed on from the leaf to the root.
LoadPathUpwards(c) ==
  /\ At(c, "loadPath")
  /\ LET path == IF ~session.exists THEN <<>>
                 ELSE IF req[c].parent = NoMsg THEN AllMsgs
                 ELSE Reverse(PathTo(req[c].parent))
         r == [req[c] EXCEPT !.blob.messages = path, !.blob.leaf = req[c].parent]
     IN  req' = [req EXCEPT ![c] = IF path # <<>> THEN [r EXCEPT !.pc = "saveCold"]
                                   ELSE WithBlob(r)]
  /\ UNCHANGED <<msgs, session, stm, jobs, acked>>

LoadPath(c) ==
  /\ At(c, "loadPath")
  /\ LET path == IF ~session.exists THEN <<>>
                 ELSE IF req[c].parent = NoMsg THEN AllMsgs
                 ELSE PathTo(req[c].parent)
         r == [req[c] EXCEPT
                 !.blob.messages = path,
                 !.blob.leaf = IF path = <<>> THEN NoMsg ELSE path[Len(path)],
                 !.cold = req[c].blob.prefix # <<>>]
     IN  req' = [req EXCEPT ![c] = IF path # <<>> THEN [r EXCEPT !.pc = "saveCold"]
                                   ELSE WithBlob(r)]
  /\ UNCHANGED <<msgs, session, stm, jobs, acked>>

SaveCold(c) ==
  /\ At(c, "saveCold")
  /\ stm' = req[c].blob
  /\ req' = [req EXCEPT ![c] = WithBlob(@)]
  /\ UNCHANGED <<msgs, session, jobs, acked>>

\* Mutant: the messages the blob had are written over the kept ones.
SaveKeptUntrimmed(c) ==
  /\ At(c, "saveKept")
  /\ stm' = [req[c].blob EXCEPT !.prefix = BlobPrefix(req[c])]
  /\ req' = [req EXCEPT ![c] = IF TrustsDigest(@) THEN AfterTrim(@)
                               ELSE [@ EXCEPT !.pc = "enqueue"]]
  /\ UNCHANGED <<msgs, session, jobs, acked>>

\* The trimmed blob is written over whatever Redis holds by now.
SaveKept(c) ==
  /\ At(c, "saveKept")
  /\ stm' = [req[c].blob EXCEPT !.messages = Kept(@), !.prefix = BlobPrefix(req[c])]
  /\ req' = [req EXCEPT ![c] = IF TrustsDigest(@) THEN AfterTrim(@)
                               ELSE [@ EXCEPT !.pc = "enqueue"]]
  /\ UNCHANGED <<msgs, session, jobs, acked>>

EnqueueCompress(c) ==
  /\ At(c, "enqueue")
  /\ jobs' = jobs \cup {<<"compress", req[c].blob.leaf>>}
  /\ req' = [req EXCEPT ![c] = AfterTrim(@)]
  /\ UNCHANGED <<msgs, session, stm, acked>>

PersistDigest(c) ==
  /\ At(c, "persist") /\ session.exists
  /\ session' = [session EXCEPT !.digest = FirstOf(ContextPrefix(req[c]), DigestCap)]
  /\ Goto(c, "llm")
  /\ UNCHANGED <<msgs, stm, jobs, acked>>

\* A preview returns the context; an explanation, and a chat the LLM answered
\* with nothing but blanks, end without saving a message.
EndContext(c) ==
  /\ At(c, "llm") /\ Done(c)
  /\ UNCHANGED <<msgs, session, stm, jobs, acked>>

-----------------------------------------------------------------------------
(* POST sessions/:id/end, POST memory/extract and PATCH sessions/:id.       *)

BeginEnd(c) ==
  /\ session.exists /\ ~session.archived /\ Begins(c, "end", "loadLeaf")
  /\ UNCHANGED <<msgs, session, stm, jobs, acked>>

BeginExtract(c) ==
  /\ Begins(c, "extract", "loadLeaf")
  /\ UNCHANGED <<msgs, session, stm, jobs, acked>>

\* MemoryQueueService.enqueue without a leaf takes the session's, or the last
\* of its messages while no leaf is set.
LoadLeaf(c) ==
  /\ At(c, "loadLeaf")
  /\ req' = [req EXCEPT ![c].pc = "push",
                        ![c].parent = IF ~session.exists THEN NoMsg
                                      ELSE IF session.leaf # NoMsg THEN session.leaf
                                      ELSE Len(msgs)]
  /\ UNCHANGED <<msgs, session, stm, jobs, acked>>

EnqueueExplicit(c) ==
  /\ At(c, "push")
  /\ jobs' = jobs \cup {<<"explicit", req[c].parent>>}
  /\ IF req[c].op = "end" THEN Goto(c, "clear") ELSE Done(c)
  /\ UNCHANGED <<msgs, session, stm, acked>>

ClearStm(c) ==
  /\ At(c, "clear")
  /\ stm' = NoBlob
  /\ Goto(c, "archive")
  /\ UNCHANGED <<msgs, session, jobs, acked>>

Archive(c) ==
  /\ At(c, "archive") /\ session.exists
  /\ session' = [session EXCEPT !.archived = TRUE]
  /\ Done(c)
  /\ UNCHANGED <<msgs, stm, jobs, acked>>

BeginPatch(c) ==
  /\ session.exists /\ Begins(c, "patch", "patch")
  /\ UNCHANGED <<msgs, session, stm, jobs, acked>>

PatchSession(c) ==
  /\ At(c, "patch") /\ session.exists
  /\ \E title \in {session.title, NoTitle, Custom}, archived \in BOOLEAN :
       session' = [session EXCEPT !.title = title, !.archived = archived]
  /\ Done(c)
  /\ UNCHANGED <<msgs, stm, jobs, acked>>

-----------------------------------------------------------------------------
(* What goes wrong.                                                         *)

\* A call on a row that is gone throws, and the handler ends there.
NeedsSession == {"create", "setLeaf", "usage", "persist", "archive", "patch"}
RowGone(c) ==
  /\ ~session.exists
  /\ req[c].pc \in NeedsSession \/ (At(c, "llm") /\ req[c].op = "chat")
  /\ Done(c)
  /\ UNCHANGED <<msgs, session, stm, jobs, acked>>

\* A failed call, or the end of the process, leaves a handler anywhere.
Abort(c) ==
  /\ "abort" \in Disruptions /\ ~At(c, "idle")
  /\ Done(c)
  /\ UNCHANGED <<msgs, session, stm, jobs, acked>>

\* STM_TTL_SECONDS pass without a write, or Redis evicts the key.
ExpireStm ==
  /\ "expire" \in Disruptions /\ stm # NoBlob
  /\ stm' = NoBlob
  /\ UNCHANGED <<msgs, session, jobs, req, acked>>

\* AdminSessionsService.remove: the rows go, the Redis keys stay.
DeleteSession ==
  /\ "delete" \in Disruptions /\ session.exists
  /\ session' = [session EXCEPT !.exists = FALSE]
  /\ UNCHANGED <<msgs, stm, jobs, req, acked>>

AppendStep(c) ==
  \/ BeginAppend(c) \/ BeginReply(c) \/ CreateMessage(c) \/ SetLeaf(c)
  \/ GetStm(c) \/ SetStm(c) \/ RecordUsage(c)
ContextStep(c) ==
  \/ BeginContext(c) \/ GetBlob(c) \/ LoadSession(c) \/ LoadPath(c)
  \/ SaveCold(c) \/ SaveKept(c) \/ EnqueueCompress(c) \/ PersistDigest(c)
  \/ EndContext(c)
SessionStep(c) ==
  \/ BeginEnd(c) \/ BeginExtract(c) \/ LoadLeaf(c) \/ EnqueueExplicit(c)
  \/ ClearStm(c) \/ Archive(c) \/ BeginPatch(c) \/ PatchSession(c)

Next ==
  \/ \E c \in Clients : AppendStep(c) \/ ContextStep(c) \/ SessionStep(c)
                        \/ RowGone(c) \/ Abort(c)
  \/ ExpireStm
  \/ DeleteSession

Spec == Init /\ [][Next]_vars

-----------------------------------------------------------------------------
(* Properties.                                                              *)

Blobs == [messages : Seq(MsgIds), prefix : Seq(MsgIds), leaf : Refs]

Pcs == {"idle", "create", "setLeaf", "getStm", "setStm", "usage", "getBlob",
        "loadSession", "loadPath", "saveCold", "saveKept", "enqueue",
        "persist", "llm", "loadLeaf", "push", "clear", "archive", "patch"}

Reqs == [pc : Pcs, op : Kinds \cup {"none"},
         role : ValidRoles, parent : Refs, titled : BOOLEAN,
         msg : Refs, blob : Blobs, cold : BOOLEAN]

\* The shapes of the rows, of the blob and of what a handler holds.
TypeOK ==
  /\ msgs \in Seq([parent : Refs, role : ValidRoles])
  /\ Len(msgs) <= MaxMsgs
  /\ session \in [exists : BOOLEAN, leaf : Refs, title : 0..Custom,
                  digest : Seq(MsgIds), archived : BOOLEAN]
  /\ stm \in Blobs
  /\ jobs \subseteq ({"compress", "explicit"} \X Refs)
  /\ req \in [Clients -> Reqs]
  /\ acked \subseteq MsgIds

\* Every parent is an older message and the leaf is a message, so the walk of
\* loadActivePath ends at a root and its guard against a cycle never fires;
\* the same of the leaf a handler has read and not yet used.
TreeOK ==
  /\ session.leaf <= Len(msgs)
  /\ \A m \in 1..Len(msgs) : msgs[m].parent < m
  /\ \A c \in Clients : req[c].parent <= Len(msgs)

\* The ancestors of a message and itself, without walking: the least set that
\* holds it and, with a message, its parent.
Closed(S) == \A m \in S : msgs[m].parent # NoMsg => msgs[m].parent \in S
Ancestry(leaf) ==
  {m \in 1..Len(msgs) :
     /\ leaf # NoMsg
     /\ \A S \in SUBSET (1..Len(msgs)) : leaf \in S /\ Closed(S) => m \in S}
ActivePath == Ancestry(session.leaf)

\* While every handler takes its parent from the session, the leaf is never
\* set back to a message that already has one below it on the active path,
\* however appends, chats and dying handlers overlap (appendMessage writes
\* currentLeafId long after it has read it).
LeafNeverRetreats ==
  [][session'.leaf = session.leaf \/ session'.leaf \notin ActivePath]_vars

\* A message the API has acknowledged stays on the path from the leaf, which
\* is what a cold restore shows the model and what the next message extends.
AckedOnActivePath == acked \subseteq ActivePath

\* Once a leaf is set, the blob in Redis and its summary hold messages of the
\* active path only, and at most one that is about to join it, although the
\* blob is written by other calls, and partly by other requests, than the rows.
StmOnActivePath ==
  session.leaf # NoMsg =>
    \A m \in ToSet(stm.messages) \cup ToSet(stm.prefix) :
      m \in ActivePath \/ \E c \in Clients : At(c, "setLeaf") /\ req[c].msg = m

\* One writer at a time makes the path of the leaf a growing transcript.
Transcript == INSTANCE Transcript WITH history <- PathTo(session.leaf)
FollowsTranscript == Transcript!Spec

\* While the blob lives, what buildChatContext hands the model, the summary and
\* then the window, names no message twice and none after a later one, although
\* two trims add to the summary and only one of them is written back to the blob.
ContextInOrder ==
  \A c \in Clients : At(c, "llm") =>
    LET shown == ContextPrefix(req[c]) \o Window(req[c])
    IN  \A i, j \in 1..Len(shown) : i < j => shown[i] < shown[j]

\* In a session that has not been forked, every acknowledged message a cold
\* restore would put into the window is in the window of the living blob too,
\* however the blob has been trimmed and whichever of its writers has died.
Unforked == \A m \in 1..Len(msgs) : msgs[m].parent = m - 1
WindowAsRestored ==
  \A c \in Clients : At(c, "llm") /\ Unforked =>
    acked \cap ToSet(LastOf(Kept(PathTo(session.leaf)), RoundCap))
      \subseteq ToSet(Window(req[c]))

\* A summary ends before the window begins, also when a cold restore has put a
\* digest of an earlier blob in front of a window of its own.
SummaryBeforeWindow ==
  \A c \in Clients : At(c, "llm") =>
    \A m \in ToSet(ContextPrefix(req[c])), w \in ToSet(Window(req[c])) : m < w

\* Once the message at the leaf, the question of a chat, is acknowledged, it
\* is in the window itself and not only in the summary, also when the context
\* is restored cold or an earlier handler died half way.
QuestionInWindow ==
  \A c \in Clients : At(c, "llm") /\ session.exists /\ session.leaf \in acked =>
    session.leaf \in ToSet(Window(req[c]))

\* The comment of the cold restore branch of buildChatContext: the digest
\* already covers the earlier messages the trim drops.
DigestCoversDropped ==
  \A c \in Clients : At(c, "saveKept") /\ TrustsDigest(req[c]) =>
    ToSet(Dropped(req[c].blob.messages)) \subseteq ToSet(req[c].blob.prefix)

=============================================================================
