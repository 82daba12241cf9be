--------------------------- MODULE RequestContext ---------------------------
(***************************************************************************)
(* The requests of one turn.  A session's history is built from the turns  *)
(* it stored; then a turn starts from the part of it that get_history      *)
(* shows, and every iteration of the run (agent/runner.py _run_core) has   *)
(* the governor prepare a request from all messages so far, which the      *)
(* provider converts.  Providers give calls ids that are unique, or that   *)
(* begin again with every response, or one id for all calls of a response. *)
(***************************************************************************)
EXTENDS ProviderWire

CONSTANTS
  MaxBlocks,      \* bound: turns in the stored history
  MaxIterations,  \* bound: requests of the turn after the first
  Windows,        \* the values of max_messages (replay_max_messages)
  Policies        \* the id policies of providers

ASSUME BoundsAssumption ==
  /\ MaxBlocks \in Nat /\ MaxIterations \in Nat
  /\ Windows \subseteq Nat \ {0}
  /\ Policies \subseteq {"unique", "restart", "same"}

VARIABLES
  stored,     \* session.messages from the consolidation cursor on
  blocks,     \* turns in stored
  made,       \* the number of contents and calls made so far
  policy,     \* how the provider numbers its calls
  messages,   \* the list the run appends to, without the system message
  start,      \* its length when the run began (inflight_start_index)
  role,       \* role of the turn's own message: "user", "assistant"; "" before the turn
  compacted,  \* ids of the results compacted in this run
  request,    \* the last prepared request
  iterations

vars == <<stored, blocks, made, policy, messages, start, role, compacted, request, iterations>>

Init ==
  /\ stored = <<>> /\ blocks = 0 /\ made = 0 /\ policy \in Policies
  /\ messages = <<>> /\ start = 0 /\ role = "" /\ compacted = {} /\ request = <<>>
  /\ iterations = 0

-----------------------------------------------------------------------------
(* The calls of a response, one for each tool, and their results.          *)

Tools == {"read", "search", "mcp", "write"}
\* A file that is read is long; so is what a search or a tool of an MCP server
\* returns before it is moved.  The last one is not compacted.
RawWeight(tool) ==
  CASE tool = "read" -> 4 [] tool \in {"search", "mcp"} -> ResultLimit + 1 [] tool = "write" -> 1

Calls(tools) ==
  [i \in DOMAIN tools |->
     [id |-> CASE policy = "unique" -> made + i [] policy = "restart" -> i [] policy = "same" -> 1,
      key |-> made + i, tool |-> tools[i], named |-> TRUE]]
Results(calls) == [i \in DOMAIN calls |-> Normalized(Result(calls[i], RawWeight(calls[i].tool)))]
Exchange(calls) == <<ToolCalls(<<>>, calls)>> \o Results(calls)
Batch(tools) == Exchange(Calls(tools))

\* What the n-th content of a turn says, and who says it.
Says(who, n) == Message(who, <<made + n>>)

-----------------------------------------------------------------------------
(* Turns that are stored before the one the model follows.                 *)

Store(turn, n) ==
  /\ role = "" /\ blocks < MaxBlocks
  /\ stored' = stored \o turn
  /\ blocks' = blocks + 1 /\ made' = made + n
  /\ UNCHANGED <<policy, messages, start, role, compacted, request, iterations>>

StoredTurn ==
  \/ Store(<<Says("user", 1), Says("assistant", 2)>>, 2)
  \/ \E tools \in {<<"read">>, <<"write", "search">>} :
       Store(<<Says("user", 3)>> \o Batch(tools) \o <<Says("assistant", 4)>>, 4)
\* /new, /status and other commands are kept for display only.
StoredCommand ==
  Store(<<Noted(Says("user", 1), "command"), Noted(Says("assistant", 2), "command")>>, 2)
\* A cron job or the message tool delivered a text to the chat.
StoredDelivery == Store(<<Noted(Says("assistant", 1), "delivery")>>, 1)
\* A turn for the result of a subagent, with or without tools.
StoredAnnouncement ==
  \/ Store(<<Says("assistant", 1), Says("assistant", 2)>>, 2)
  \/ Store(<<Says("assistant", 2)>> \o Batch(<<"write">>) \o <<Says("assistant", 3)>>, 3)
\* What older versions left: a placeholder for an answer, a blank answer, a
\* call without a name, a call without its result.
StoredDamage ==
  \/ Store(<<Says("user", 1), Message("assistant", <<Placeholder>>)>>, 1)
  \/ Store(<<Says("user", 1), Message("assistant", <<>>)>>, 1)
  \/ LET calls == [i \in 1..1 |-> [Calls(<<"write">>)[i] EXCEPT !.named = FALSE]]
     IN  Store(<<Says("user", 2)>> \o Exchange(calls), 2)
  \/ Store(<<Says("user", 2), ToolCalls(<<>>, Calls(<<"write">>)), Says("assistant", 3)>>, 3)

-----------------------------------------------------------------------------
(* The turn.                                                               *)

Ask(s, first, ids) ==
  LET prepared == Prepare(s, first, ids)
  IN  /\ messages' = s /\ start' = first
      /\ request' = prepared.messages /\ compacted' = prepared.ids

\* A message of a user: the history does not hold it yet.
StartTurn(max) ==
  LET s == Joined(GetHistory(stored, max, FALSE), Says("user", 1))
  IN  /\ role = ""
      /\ role' = "user" /\ made' = made + 1
      /\ Ask(s, Len(s), {})
      /\ UNCHANGED <<stored, blocks, policy, iterations>>

\* The result of a subagent: _persist_subagent_followup stores it, the turn's
\* own message is blank and joins it.
StartAnnouncement(max) ==
  LET history == Append(stored, Says("assistant", 1))
      s == Joined(GetHistory(history, max, TRUE), Message("assistant", <<>>))
  IN  /\ role = ""
      /\ role' = "assistant" /\ made' = made + 1
      /\ stored' = history
      /\ Ask(s, Len(s), {})
      /\ UNCHANGED <<blocks, policy, iterations>>

Iterate(s, n) ==
  /\ role # "" /\ iterations < MaxIterations
  /\ iterations' = iterations + 1 /\ made' = made + n
  /\ Ask(s, start, compacted)
  /\ UNCHANGED <<stored, blocks, policy, role>>

\* Tools were called; follow-ups that arrived meanwhile join the list.
RunTools(tools) ==
  \E followed \in BOOLEAN :
    LET s == messages \o Batch(tools)
        n == Len(tools) + 1
    IN  Iterate(IF followed THEN Joined(s, Says("user", n)) ELSE s, n)

\* An answer that a follow-up keeps from ending the turn, or that is cut at the
\* output limit: a user message comes after it.
Continue == Iterate(messages \o <<Says("assistant", 1), Says("user", 2)>>, 2)

Next ==
  \/ StoredTurn \/ StoredCommand \/ StoredDelivery \/ StoredAnnouncement \/ StoredDamage
  \/ \E max \in Windows : StartTurn(max) \/ StartAnnouncement(max)
  \/ \E tools \in {<<"read">>, <<"search">>, <<"read", "read">>, <<"search", "write">>,
                   <<"mcp", "mcp", "mcp", "mcp">>} : RunTools(tools)
  \/ Continue

Spec == Init /\ [][Next]_vars

-----------------------------------------------------------------------------
(* What the properties speak of.                                           *)

Asked == role # ""
PromptAt == IF Users(messages) = {} THEN 0 ELSE Max(Users(messages))
\* Positions of the results of this turn in the run's list.
Inflight == {i \in start+1..Len(messages) : IsTool(messages[i])}

\* The history holds what the governor repairs.
Damaged == \E i \in DOMAIN stored :
  \/ IsAssistant(stored[i]) /\ stored[i].calls = <<>> /\ stored[i].text \in {<<>>, <<Placeholder>>}
  \/ \E call \in ToSet(stored[i].calls) :
       \/ ~ call.named
       \/ \A j \in DOMAIN stored : IsTool(stored[j]) => stored[j].key # call.key
\* A call of an earlier turn was never answered.
Interrupted == \E i \in DOMAIN stored : \E call \in ToSet(stored[i].calls) :
  call.named /\ \A j \in DOMAIN stored : IsTool(stored[j]) => stored[j].key # call.key
\* Every result can be told to be of its call.
Traceable == policy = "unique" \/ ~ Damaged

\* No user message before the turn: then a request may begin with an assistant
\* message that calls tools, which both providers leave alone.
Headless == Users(SubSeq(messages, 1, start - 1)) = {}

\* No cut of the list is legal: it holds no user message, and the last response
\* with its results, those that may be compacted as summaries, exceeds by itself
\* what the budget leaves for messages.
NoRoom ==
  LET calls == {i \in DOMAIN messages : messages[i].calls # <<>>}
      last == From(messages, Max(calls))
  IN  /\ Users(messages) = {} /\ calls # {}
      /\ Weight([i \in DOMAIN last |-> IF Compactable(last[i]) THEN Summary(last[i]) ELSE last[i]])
           > Budget - Fixed

\* The calls of message i of an OpenAI request, and the results right after it.
CallsAt(w, i) == {<<w[i].calls[k].id, w[i].calls[k].key>> : k \in DOMAIN w[i].calls}
ResultsAfter(w, i) == {j \in i+1..Len(w) : \A k \in i+1..j : w[k].role = "tool"}
OpenAILegal(w) ==
  /\ w # <<>> /\ Last(w).role # "assistant" /\ (Head(w).role = "user" \/ Headless)
  /\ \A i \in 1..Len(w)-1 : w[i].role = w[i+1].role => w[i].role = "tool"
  /\ \A i \in DOMAIN w : w[i].role = "assistant" =>
       /\ CallsAt(w, i) = {<<w[j].re, w[j].key>> : j \in ResultsAfter(w, i)}
       /\ Cardinality({p[1] : p \in CallsAt(w, i)}) = Len(w[i].calls)
       /\ Cardinality(ResultsAfter(w, i)) = Len(w[i].calls)

BlocksOf(t, type) == KeepAt(t.blocks, {k \in DOMAIN t.blocks : t.blocks[k].type = type})
Pairs(t, type) == {<<b.id, b.key>> : b \in ToSet(BlocksOf(t, type))}
AnthropicLegal(w) ==
  /\ w # <<>> /\ Last(w).role = "user" /\ (Head(w).role = "user" \/ Headless)
  /\ BlocksOf(Head(w), "result") = <<>>
  /\ \A i \in 1..Len(w)-1 :
       /\ w[i].role # w[i+1].role
       /\ Pairs(w[i], "use") = Pairs(w[i+1], "result")
       /\ Len(BlocksOf(w[i], "use")) = Len(BlocksOf(w[i+1], "result"))
       /\ \A k \in 2..Len(w[i+1].blocks) :   \* results come first
            w[i+1].blocks[k].type = "result" => w[i+1].blocks[k-1].type = "result"
  /\ LET uses == FlattenSeq([i \in DOMAIN w |-> BlocksOf(w[i], "use")])
     IN  IsInjective([i \in DOMAIN uses |-> uses[i].id])

\* The contents and the results that both providers send.
SentTexts ==
  LET o == OpenAIWire(request) a == AnthropicWire(request) IN
  (UNION {ToSet(o[i].text) : i \in DOMAIN o})
    \intersect (UNION {{b.content : b \in ToSet(BlocksOf(a[i], "text"))} : i \in DOMAIN a})
SentKeys ==
  LET o == OpenAIWire(request) a == AnthropicWire(request) IN
  {m.key : m \in {t \in ToSet(o) : t.role = "tool"}}
    \intersect (UNION {{b.key : b \in ToSet(BlocksOf(a[i], "result"))} : i \in DOMAIN a})

-----------------------------------------------------------------------------
(* Properties.                                                             *)

TypeOK ==
  /\ blocks \in 0..MaxBlocks /\ iterations \in 0..MaxIterations /\ policy \in Policies
  /\ role \in {"", "user", "assistant"} /\ start \in 0..Len(messages)
  /\ compacted \subseteq {m.id : m \in {n \in ToSet(messages) : IsTool(n)}}

\* A request that does not fit begins at the last user message, and all long
\* results of the turn are summaries in it: governance gave up all it could
\* (compact_inflight_overflow, snip_history).  The position where the turn
\* begins is that of the list before repairs, so this needs a sound history.
OverflowMinimal == Asked /\ policy = "unique" /\ ~ Damaged /\ Estimate(request) > Budget =>
  /\ \A i \in 2..Len(request) : ~ IsUser(request[i])
  /\ \A m \in ToSet(request) : m.key \in {messages[i].key : i \in Inflight} => ~ Compactable(m)

\* Only results of the turn are compacted; what earlier turns read stays as it
\* was (_inflight_compaction_candidates).  An error result made for a call of an
\* earlier turn would shift the positions that this is decided by.
HistoryWhole == Asked /\ policy = "unique" /\ ~ Interrupted =>
  \A m \in ToSet(request) : m.shown = "summary" => m.key \in {messages[i].key : i \in Inflight}

\* A request made again from the same messages, as after an empty answer, is
\* the same, though the first one changed the set of compacted results.
RetryUnchanged == Asked /\ policy = "unique" =>
  Prepare(messages, start, compacted) = [messages |-> request, ids |-> compacted]

RequestInv == TypeOK /\ OverflowMinimal /\ HistoryWhole /\ RetryUnchanged

\* However the history is cut, compacted, snipped and repaired, both providers
\* send a request their service accepts: it begins with a user message, or with
\* a call where there is none, and does not end with an assistant message, roles
\* alternate, and every call is answered right after it by its own result, under
\* an id of its own.  Except that snip_history leaves no message at all where no
\* cut fits (NoRoom): then the request is empty, which services refuse.
WireLegal == Asked /\ Traceable =>
  \/ OpenAILegal(OpenAIWire(request)) /\ AnthropicLegal(AnthropicWire(request))
  \/ NoRoom /\ request = <<>>

\* What the model is asked reaches it: the last user message, and the results
\* of the turn's calls since then, are in what both providers send.
PromptSeen == Asked /\ Traceable /\ PromptAt > 0 =>
  /\ ToSet(messages[PromptAt].text) \subseteq SentTexts
  /\ {messages[i].key : i \in {j \in Inflight : j > PromptAt}} \subseteq SentKeys

\* Within a run a result that one request shows as a summary is never whole in
\* a later one, for any id policy: the prefix that services cache only shrinks.
CompactionStable ==
  [][Asked =>
       /\ compacted \subseteq compacted'
       /\ \A m \in ToSet(request), n \in ToSet(request') :
            m.shown = "summary" /\ IsTool(n) /\ n.key = m.key => n.shown = "summary"]_vars

=============================================================================
