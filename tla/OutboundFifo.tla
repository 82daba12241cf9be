---------------------------- MODULE OutboundFifo ----------------------------
(***************************************************************************)
(* What the outbound side of the message bus promises: what was published  *)
(* is handled exactly once, in the order of publication, whatever is       *)
(* merged, held back, retried, filtered or given up on the way.            *)
(***************************************************************************)
EXTENDS Naturals, Sequences

VARIABLES
  todo,  \* published and not handled yet, oldest first
  done   \* handled, oldest first

vars == <<todo, done>>

Init == todo = <<>> /\ done = <<>>

Publish ==
  /\ Len(todo') > Len(todo)
  /\ SubSeq(todo', 1, Len(todo)) = todo
  /\ UNCHANGED done

\* Coalesced deltas are handled together.
Handle ==
  /\ Len(done') > Len(done)
  /\ SubSeq(done', 1, Len(done)) = done
  /\ done' \o todo' = done \o todo

Next == Publish \/ Handle

Spec == Init /\ [][Next]_vars
=============================================================================
