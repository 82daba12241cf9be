---------------------------- MODULE ProviderWire ----------------------------
(***************************************************************************)
(* What two providers make of a prepared request before they send it: the  *)
(* OpenAI-compatible one (openai_compat_provider.py _sanitize_messages and *)
(* base.py _enforce_role_alternation) and the Anthropic one                *)
(* (anthropic_provider.py _convert_messages and _merge_consecutive).       *)
(*                                                                         *)
(* A call id on the wire is the id of the call and a serial number: both   *)
(* providers give a repeated id a suffix, the first within one message,    *)
(* the second within the whole request.                                    *)
(***************************************************************************)
EXTENDS ContextGovernance

Opener == -1   \* the synthetic user message before a leading assistant message

\* The number of positions of s that hold x.
Occurrences(s, x) == Cardinality({i \in DOMAIN s : s[i] = x})

\* The id that names the next call with the given raw id (unique_tool_id) ...
WireCalls(m, seen) ==
  [i \in DOMAIN m.calls |->
     LET raw == m.calls[i].id IN
     [id |-> <<raw, 1 + Occurrences(seen, raw)
                      + Occurrences([k \in 1..i-1 |-> m.calls[k].id], raw)>>,
      key |-> m.calls[i].key]]

\* ... and the one that a result goes with: the oldest call with its raw id
\* that has no result yet (map_tool_result_id).
RelabelStep(st, m) ==
  LET calls == WireCalls(m, IF st.global THEN st.seen ELSE <<>>)
      open(p) == p[1] = m.id
      at == SelectInSeq(st.pending, open)
      re == IF ~ IsTool(m) THEN <<0, 0>> ELSE IF at = 0 THEN <<m.id, 1>> ELSE st.pending[at]
  IN  [global |-> st.global,
       seen |-> st.seen \o [i \in DOMAIN m.calls |-> m.calls[i].id],
       pending |-> (IF IsTool(m) THEN RemoveFirstMatch(st.pending, open) ELSE st.pending)
                     \o [i \in DOMAIN calls |-> calls[i].id],
       out |-> Append(st.out, [role |-> m.role, text |-> m.text, calls |-> calls,
                               re |-> re, key |-> m.key])]
Relabelled(s, global) ==
  Fold(RelabelStep, [global |-> global, seen |-> <<>>, pending |-> <<>>, out |-> <<>>], s).out

\* s without the assistant messages at its end.
NotEndingInAssistant(s) ==
  SubSeq(s, 1, SelectLastInSeq(s, LAMBDA m : m.role # "assistant"))

-----------------------------------------------------------------------------
(* OpenAI-compatible: roles user, assistant and tool.                      *)

\* Gateways reject text beside tool calls, so it goes.
CallsOnly(m) == IF m.calls = <<>> THEN m ELSE [m EXCEPT !.text = <<>>]

\* Two neighbours of one role become one; an assistant message with tool calls
\* replaces what comes before it.
AlternationStep(out, m) ==
  LET prev == Last(out) IN
  IF out = <<>> \/ prev.role # m.role \/ IsTool(m) THEN Append(out, m)
  ELSE IF m.calls # <<>> THEN Append(Front(out), m)
  ELSE IF prev.calls # <<>> THEN out
  ELSE Append(Front(out), [prev EXCEPT !.text = @ \o m.text])

OpenAIWire(s) ==
  LET clean == Relabelled(s, FALSE)
      merged == Fold(AlternationStep, <<>>, [i \in DOMAIN clean |-> CallsOnly(clean[i])])
      trimmed == NotEndingInAssistant(merged)
      recovered == IF merged # trimmed /\ \A i \in DOMAIN trimmed : IsAssistant(trimmed[i])
                   THEN Append(trimmed, [merged[Len(trimmed) + 1] EXCEPT !.role = "user"])
                   ELSE trimmed
  IN  IF recovered # <<>> /\ IsAssistant(Head(recovered)) /\ Head(recovered).calls = <<>>
      THEN <<[Head(recovered) EXCEPT !.role = "user", !.text = <<Opener>>]>> \o recovered
      ELSE recovered

-----------------------------------------------------------------------------
(* Anthropic: roles user and assistant, each with a list of blocks.        *)

Texts(m) == [i \in DOMAIN m.text |-> [type |-> "text", content |-> m.text[i], id |-> <<0, 0>>, key |-> 0]]
Block(type, id, key) == [type |-> type, content |-> 0, id |-> id, key |-> key]
Turn(m) ==
  CASE IsTool(m) -> [role |-> "user", blocks |-> <<Block("result", m.re, m.key)>>]
    [] IsUser(m) -> [role |-> "user", blocks |-> Texts(m)]
    [] IsAssistant(m) ->
         [role |-> "assistant",
          blocks |-> Texts(m) \o [i \in DOMAIN m.calls |-> Block("use", m.calls[i].id, m.calls[i].key)]]

MergeStep(out, t) ==
  IF out # <<>> /\ Last(out).role = t.role
  THEN Append(Front(out), [t EXCEPT !.blocks = Last(out).blocks \o @]) ELSE Append(out, t)
UsesTools(t) == \E i \in DOMAIN t.blocks : t.blocks[i].type = "use"

AnthropicWire(s) ==
  LET clean == Relabelled(s, TRUE)
      merged == Fold(MergeStep, <<>>, [i \in DOMAIN clean |-> Turn(clean[i])])
      trimmed == NotEndingInAssistant(merged)
  IN  IF trimmed = <<>>
      THEN IF merged # <<>> /\ ~ UsesTools(Head(merged)) THEN <<[Head(merged) EXCEPT !.role = "user"]>>
           ELSE <<>>
      ELSE IF Head(trimmed).role = "assistant" /\ ~ UsesTools(Head(trimmed))
      THEN <<[role |-> "user", blocks |-> Texts([text |-> <<Opener>>])]>> \o trimmed
      ELSE trimmed
=============================================================================
