--------------------------- MODULE SessionHistory ---------------------------
(***************************************************************************)
(* What a session's message list is made of, and the pure functions that   *)
(* the session store applies to it (session/manager.py, utils/helpers.py). *)
(*                                                                         *)
(* A message is known by its kind and by the turn and model response it    *)
(* belongs to: an assistant message with tool calls is one "call", all     *)
(* the results of its calls are one "result" (or "lost", the error results *)
(* of an interrupted batch), since the runner gathers a batch before it    *)
(* stores any of it.                                                       *)
(***************************************************************************)
EXTENDS Naturals, Sequences, FiniteSetsExt, Functions

Kinds == {"prompt", "command", "followup", "result", "lost", "call", "answer",
          "reply", "announce", "closing"}

IsUser(m) == m.kind \in {"prompt", "command", "followup"}
IsTool(m) == m.kind \in {"result", "lost"}

\* c is the assistant message that declares the tool calls answered by r.
Declares(c, r) == c.kind = "call" /\ IsTool(r) /\ <<c.turn, c.iter>> = <<r.turn, r.iter>>

\* find_legal_message_start: the number of messages to drop so that no tool
\* result is left without its call.  A result whose call was declared before
\* the last cut is an orphan too: the code forgets the declared calls there.
LegalStart(s) ==
  LET cut[j \in 1..Len(s)] ==
        /\ IsTool(s[j])
        /\ \A k \in 1..j-1 : Declares(s[k], s[j]) => \E m \in k+1..j-1 : cut[m]
  IN  Max({0} \union {j \in 1..Len(s) : cut[j]})

From(s, i) == SubSeq(s, i, Len(s))

\* retain_recent_legal_suffix(max) without extend_to_user: the last max
\* messages from their first user message on; without a user message among
\* them, a window that starts at the last user message of all.
RetainRecent(s, max) ==
  LET Users(t) == {i \in 1..Len(t) : IsUser(t[i])}
      tail == From(s, Len(s) - max + 1)
      aligned ==
        IF Users(tail) # {} THEN From(tail, Min(Users(tail)))
        ELSE IF Users(s) # {}
             THEN LET u == Max(Users(s)) IN SubSeq(s, u, Min({u + max - 1, Len(s)}))
             ELSE tail
  IN  IF Len(s) <= max THEN s ELSE From(aligned, LegalStart(aligned) + 1)

\* The longest end of s that is also a beginning of t
\* (_restore_runtime_checkpoint's overlap).
Overlap(s, t) ==
  Max({n \in 0..Min({Len(s), Len(t)}) :
         From(s, Len(s) - n + 1) = SubSeq(t, 1, n)})
=============================================================================
