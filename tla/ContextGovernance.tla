-------------------------- MODULE ContextGovernance --------------------------
(***************************************************************************)
(* How the messages of one model request are chosen and repaired: the view *)
(* of a stored history (session/manager.py get_history), the list a turn   *)
(* starts from (agent/context.py) and the governor that prepares a copy of *)
(* it before every call of the model (agent/context_governance.py).        *)
(*                                                                         *)
(* The system message always comes first and is never dropped; the model   *)
(* leaves it out and counts its tokens, with those of the tool schemas, as *)
(* Fixed.  A tool call has the id the provider gave it, which a provider   *)
(* may give again, and a key of its own that only the properties look at.  *)
(***************************************************************************)
EXTENDS Integers, SequencesExt

CONSTANTS
  Budget,       \* tokens a request may have (input_budget, _replay_token_budget)
  Target,       \* tokens that compaction aims at: 85% of Budget
  Fixed,        \* tokens of the system message and the tool schemas
  ResultLimit,  \* tokens above which a tool result is moved to a file
  LongResult    \* tokens from which a tool result is worth compacting

ASSUME BudgetAssumption ==
  /\ {Budget, Target, Fixed, ResultLimit, LongResult} \subseteq Nat
  /\ Fixed < Budget /\ Target <= Budget
  /\ LongResult > 1   \* a summary is not compacted again

-----------------------------------------------------------------------------
(* Messages.  text lists the contents merged into the message; a blank     *)
(* message has none.                                                       *)

Placeholder == 0   \* "[Previous assistant message omitted.]"

Message(role, text) ==
  [role |-> role, text |-> text, calls |-> <<>>, id |-> 0, key |-> 0,
   tool |-> "", shown |-> "full", weight |-> 1, note |-> ""]
Noted(m, note) == [m EXCEPT !.note = note]
ToolCalls(text, calls) == [Message("assistant", text) EXCEPT !.calls = calls]
Result(call, weight) ==
  [Message("tool", <<>>) EXCEPT !.id = call.id, !.key = call.key,
                                !.tool = call.tool, !.weight = weight]

IsUser(m) == m.role = "user"
IsAssistant(m) == m.role = "assistant"
IsTool(m) == m.role = "tool"
Ids(m) == {m.calls[i].id : i \in DOMAIN m.calls}

From(s, i) == SubSeq(s, i, Len(s))
Users(s) == {i \in DOMAIN s : IsUser(s[i])}
\* The members of s at the positions in at, in their order.
KeepAt(s, at) == FlattenSeq([i \in DOMAIN s |-> IF i \in at THEN <<s[i]>> ELSE <<>>])

\* FoldLeft as a function of the position, which TLC evaluates in linear time.
Fold(op(_, _), base, s) ==
  LET upTo[i \in 0..Len(s)] == IF i = 0 THEN base ELSE op(upTo[i - 1], s[i])
  IN  upTo[Len(s)]

Weight(s) == Fold(LAMBDA sum, m : sum + m.weight, 0, s)
Estimate(s) == Fixed + Weight(s)
\* The longest end of s within limit, and at least its last message.
Recent(s, limit) ==
  From(s, Min({Len(s)} \union {i \in DOMAIN s : Weight(From(s, i)) <= limit}))

-----------------------------------------------------------------------------
(* The stored history and the first message list of a turn.                *)

\* find_legal_message_start: the fewest messages to drop so that every result
\* that is left has its call before it.
LegalStart(s) ==
  Min({n \in 0..Len(s) :
         \A j \in n+1..Len(s) : IsTool(s[j]) => \E k \in n+1..j-1 : s[j].id \in Ids(s[k])})
Legal(s) == From(s, LegalStart(s) + 1)

\* s from position u on, or from the delivery just before it.
WithDelivery(s, u) == IF u > 1 /\ s[u - 1].note = "delivery" THEN u - 1 ELSE u

\* recent_message_start_index: the first of the last max messages; with extend,
\* an earlier one when there is no user message among them.
WindowStart(s, max, extend) ==
  LET start == Max({1, Len(s) - max + 1})
      before == {i \in Users(s) : i < start}
  IN  IF extend /\ Users(s) \subseteq before /\ before # {}
      THEN WithDelivery(s, Max(before)) ELSE start

Visible(m) ==
  /\ m.note # "command"
  /\ IsAssistant(m) => m.text # <<>> \/ m.calls # <<>>

\* Session.get_history with a token budget: the window from its first user
\* message on, then the recent part of it from its first user message on.
GetHistory(s, max, extend) ==
  LET window == From(s, WindowStart(s, max, extend))
      aligned == IF Users(window) = {} THEN window
                 ELSE From(window, WithDelivery(window, Min(Users(window))))
      legal == Legal(aligned)
      out == KeepAt(legal, {i \in DOMAIN legal : Visible(legal[i])})
      kept == Recent(out, Budget)
  IN  IF out = <<>> THEN out
      ELSE Legal(IF Users(kept) # {} THEN From(kept, Min(Users(kept)))
                 ELSE IF Users(out) # {} THEN From(out, Max(Users(out))) ELSE kept)

\* m at the end of s, in the last message when that has the same role
\* (build_messages; for user messages _append_injected_messages too).
Joined(s, m) ==
  IF s # <<>> /\ Last(s).role = m.role
  THEN [s EXCEPT ![Len(s)].text = @ \o m.text, ![Len(s)].weight = @ + m.weight]
  ELSE Append(s, m)

-----------------------------------------------------------------------------
(* The governor, in the order of prepare_for_model.                        *)

IsPlaceholder(m) == IsAssistant(m) /\ m.text = <<Placeholder>> /\ m.calls = <<>>
StripPlaceholders(s) == KeepAt(s, {i \in DOMAIN s : ~ IsPlaceholder(s[i])})

NamedOnly(m) == [m EXCEPT !.calls = KeepAt(@, {k \in DOMAIN @ : @[k].named})]
StripMalformed(s) ==
  KeepAt([i \in DOMAIN s |-> NamedOnly(s[i])],
         {i \in DOMAIN s : s[i].calls = <<>> \/ NamedOnly(s[i]).calls # <<>> \/ s[i].text # <<>>})

Declared(s, i) == \E k \in 1..i-1 : s[i].id \in Ids(s[k])
DropOrphans(s) == KeepAt(s, {i \in DOMAIN s : IsTool(s[i]) => Declared(s, i)})

Answered(s) == {m.id : m \in {n \in ToSet(s) : IsTool(n)}}
Missing(m, answered) == KeepAt(m.calls, {k \in DOMAIN m.calls : m.calls[k].id \notin answered})
Lost(call) == [Result(call, 1) EXCEPT !.shown = "lost"]

\* Mutant: the error results go to the end of the request.
BackfillAtEnd(s) ==
  s \o FlattenSeq([i \in DOMAIN s |->
                     LET calls == Missing(s[i], Answered(s)) IN [k \in DOMAIN calls |-> Lost(calls[k])]])

\* An error result for every call without a result anywhere in s, after the
\* results that follow its message.
Backfill(s) ==
  LET owner(j) == s[Max({1} \union {i \in 1..j : ~ IsTool(s[i])})]
      made(j) == LET calls == IF j = Len(s) \/ ~ IsTool(s[j + 1]) THEN Missing(owner(j), Answered(s)) ELSE <<>>
                 IN  [k \in DOMAIN calls |-> Lost(calls[k])]
  IN  FlattenSeq([j \in DOMAIN s |-> <<s[j]>> \o made(j)])

\* normalize_tool_result: a long result goes to a file and leaves a reference,
\* except what read_file returns.
Normalized(m) ==
  IF IsTool(m) /\ m.tool # "read" /\ m.weight > ResultLimit
  THEN [m EXCEPT !.weight = ResultLimit] ELSE m
ApplyBudget(s) == [i \in DOMAIN s |-> Normalized(s[i])]

Compactable(m) == IsTool(m) /\ m.tool \in {"read", "search"} /\ m.weight >= LongResult
Summary(m) == [m EXCEPT !.shown = "summary", !.weight = 1]

\* Mutant: a result is compacted for one request only.
RecordedNot(s, ids) == s

\* _apply_recorded_compactions: what was compacted before stays compacted ...
Recorded(s, ids) ==
  [i \in DOMAIN s |-> IF IsTool(s[i]) /\ s[i].id \in ids THEN Summary(s[i]) ELSE s[i]]

\* Mutant: results of earlier turns are candidates too.
CandidatesAnywhere(s, start, ids) ==
  KeepAt([i \in DOMAIN s |-> i], {i \in DOMAIN s : Compactable(s[i]) /\ s[i].id \notin ids})

\* ... and _inflight_compaction_candidates: the positions of the long results of
\* this turn, which begins after the first start messages.
Candidates(s, start, ids) ==
  KeepAt([i \in DOMAIN s |-> i],
         {i \in DOMAIN s : i > start /\ Compactable(s[i]) /\ s[i].id \notin ids})

\* compact_inflight_overflow: in a request that does not fit, candidates are
\* replaced by a summary, the oldest first, until it is within Target; the
\* newest one only when it must be.
CompactOverflow(s, start, ids) ==
  LET first == [messages |-> Recorded(s, ids), ids |-> ids, done |-> FALSE]
      Fits(st) == Estimate(st.messages) <= Budget
      candidates == Candidates(first.messages, start, ids)
      step(st, k) ==
        LET i == candidates[k] IN
        IF st.done \/ (k = Len(candidates) /\ Fits(st)) THEN [st EXCEPT !.done = TRUE]
        ELSE IF s[i].id \in st.ids THEN st
        ELSE LET new == [j \in DOMAIN s |-> IF j = i THEN Summary(s[j]) ELSE st.messages[j]]
             IN  [messages |-> new, ids |-> st.ids \union {s[i].id},
                  done |-> Estimate(new) <= Target]
  IN  IF Fits(first) THEN first ELSE Fold(step, first, [k \in DOMAIN candidates |-> k])

\* Mutant: no fallback to the last user message.
LegalTailRecent(kept, s) == Legal(kept)

\* snip_history: the recent part that fits, from its first user message on, or
\* else from the last user message of all.
LegalTail(kept, s) ==
  Legal(IF Users(kept) # {} THEN From(kept, Min(Users(kept)))
        ELSE IF Users(s) # {} THEN From(s, Max(Users(s))) ELSE kept)
Snip(s) ==
  IF s = <<>> \/ Estimate(s) <= Budget THEN s
  ELSE LegalTail(Recent(s, Budget - Fixed), s)

Repaired(s) == Backfill(DropOrphans(StripMalformed(StripPlaceholders(s))))

\* prepare_for_model: the request, and the ids of the results it compacted.
Prepare(s, start, ids) ==
  LET compacted == CompactOverflow(ApplyBudget(Repaired(s)), start, ids)
  IN  [messages |-> Backfill(DropOrphans(Snip(compacted.messages))), ids |-> compacted.ids]
=============================================================================
