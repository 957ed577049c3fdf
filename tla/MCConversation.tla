--------------------------- MODULE MCConversation ---------------------------
(* Instances of Conversation for TLC.                                       *)
EXTENDS Conversation

CONSTANTS c1, c2

\* Message costs: all alike, or one message above the whole budget.
EvenCost == [m \in MsgIds |-> 1]
BigSecond == [m \in MsgIds |-> IF m = 2 THEN 5 ELSE 1]

AllOf(kinds) == [c \in Clients |-> kinds]

\* One client at a time, on a blob that lives as long as the session is used.
WarmOps == AllOf({"append", "branch", "chat"})
\* One client at a time, on a blob that may go away.
LinearOps == AllOf({"append", "chat", "end", "extract"})
\* A client that writes while another one looks at the context of the same session.
WriterReaderOps ==
  [c \in Clients |-> IF c = c1 THEN {"append", "chat"} ELSE {"explain", "preview"}]
\* Two clients that both write.
RivalOps ==
  [c \in Clients |-> IF c = c1 THEN {"append", "chat"}
                     ELSE {"append", "patch"}]
=============================================================================
