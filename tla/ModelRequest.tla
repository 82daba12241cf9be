---------------------------- MODULE ModelRequest ----------------------------
(***************************************************************************)
(* One request to the model and what may go wrong under it: the retries of *)
(* LLMProvider._run_with_retry (providers/base.py) around the failover and *)
(* the circuit breaker of FallbackProvider (providers/fallback_provider.py)*)
(* around the calls of the providers.  Both keep a flag of their own for   *)
(* "something was streamed", and both may end the user's stream segment.   *)
(*                                                                         *)
(* A response is its kind; a call streams nothing, only inline thinking    *)
(* (which the channel never sees), or text.  Delays are left out, and what *)
(* happens when nobody can end a segment: the requests of channels that    *)
(* stream bring on_stream_recover (agent/runner.py:810), those that report *)
(* the stream as progress do not (line 843) and are not modelled.          *)
(***************************************************************************)
EXTENDS Naturals, Sequences

CONSTANTS
  Fallbacks,   \* number of fallback presets; 0: the provider is not wrapped
  Threshold,   \* _PRIMARY_FAILURE_THRESHOLD
  Retries,     \* len(_CHAT_RETRY_DELAYS)
  SameErrors   \* _PERSISTENT_IDENTICAL_ERROR_LIMIT

ASSUME RequestAssumption ==
  /\ {Fallbacks, Retries} \subseteq Nat
  /\ {Threshold, SameErrors} \subseteq Nat \ {0}

VARIABLES
  request,  \* the request in flight
  breaker,  \* of the FallbackProvider, which all sessions share
  images,   \* the messages of the turn have images
  view      \* the stream as the user sees it: the texts of the current segment,
            \* by the kind of the response they belong to, and how it stands

requestVars == <<request, breaker, images, view>>

Good == {"answer", "length", "empty", "tools", "badtools"}
\* The errors that providers return; "synthetic" is what FallbackProvider makes
\* up when it has none, and "outage" an exception whose text names a transient one.
Failures == {"timeout", "busy", "quota", "fatal"}
Errors == Failures \union {"synthetic", "outage"}
Transient == {"timeout", "busy", "outage"}
Fallbackable == {"timeout", "busy", "quota"}

NoReply == "none"
NoRequest ==
  [stage |-> "none", streaming |-> FALSE, walled |-> FALSE, persistent |-> FALSE, attempt |-> 0,
   same |-> 0, bare |-> FALSE, who |-> 0, outer |-> FALSE, inner |-> FALSE,
   last |-> NoReply, streamed |-> "none", reply |-> NoReply]

\* chat_stream_with_retry (streaming) or chat_with_retry, the latter perhaps
\* under the runner's wall-clock timeout.
Started(streaming, walled, persistent) ==
  [NoRequest EXCEPT !.stage = "attempt", !.streaming = streaming, !.walled = walled,
                    !.persistent = persistent, !.attempt = 1]

Closed == [failures |-> 0, state |-> "closed"]
Quiet == [segment |-> <<>>, stream |-> "none"]

\* What a call that ends in a response of this kind has streamed before.
Streams(kind) ==
  IF ~request.streaming THEN {"none"}
  ELSE CASE kind \in {"answer", "length"} -> {"text"}
         [] kind = "empty"                -> {"none", "think"}
         [] OTHER                         -> {"none", "think", "text"}

Heard(r, streamed) ==
  [r EXCEPT !.outer = @ \/ streamed # "none", !.inner = @ \/ streamed # "none",
            !.streamed = streamed]

Shown(v, kind, streamed) ==
  IF streamed = "text" THEN [segment |-> Append(v.segment, kind), stream |-> "open"] ELSE v

\* on_stream_end: the segment is over; if resuming, another one follows.
Ended(v, resuming) == [segment |-> <<>>, stream |-> IF resuming THEN "resuming" ELSE "final"]

-----------------------------------------------------------------------------
(* LLMProvider._run_with_retry. *)

Returned(r, kind) == [r EXCEPT !.stage = "returned", !.reply = kind, !.walled = FALSE]

\* The error texts seen in a row that are the same, if this one is.
SameInRow(r) == IF ~r.persistent THEN {0} ELSE {1} \union (IF r.same > 0 THEN {r.same + 1} ELSE {})

Exhausted(r, same) ==
  IF r.persistent THEN same >= SameErrors ELSE r.attempt > Retries

\* The error of an attempt: it is returned, or the segment is ended and the
\* attempt repeated, without the images if the error is not a transient one.
Conclude(r, v, kind) ==
  LET stalled == r.outer /\ kind = "timeout"
      clear == [r EXCEPT !.outer = FALSE]
  IN
  IF r.bare \/ (r.outer /\ ~stalled)
  THEN request' = Returned(r, kind) /\ view' = v
  ELSE /\ view' = IF stalled THEN Ended(v, TRUE) ELSE v
       /\ IF kind \notin Transient
          THEN request' = IF images THEN [clear EXCEPT !.stage = "attempt", !.bare = TRUE]
                          ELSE Returned(clear, kind)
          ELSE \E same \in SameInRow(r) :
                 request' = IF Exhausted(r, same) THEN [Returned(clear, kind) EXCEPT !.same = same]
                            ELSE [clear EXCEPT !.stage = "attempt", !.same = same,
                                               !.attempt = IF r.persistent THEN @ ELSE @ + 1]

\* _strip_image_content_inplace, once a request without images went well.
StripImages(kind) == images' = (images /\ ~(request.bare /\ kind \in Good))

-----------------------------------------------------------------------------
(* FallbackProvider._try_with_fallback. *)

Succeeded(b) == Closed
Failed(b) ==
  IF b.failures + 1 >= Threshold THEN [failures |-> Threshold, state |-> "open"]
  ELSE [b EXCEPT !.failures = @ + 1]

\* An attempt begins: with the primary, unless its circuit is open.
Attempt ==
  /\ request.stage = "attempt"
  /\ request' =
       [request EXCEPT !.inner = FALSE, !.last = NoReply, !.streamed = "none", !.who = 0,
          !.stage = IF Fallbacks = 0 \/ breaker.state # "open" THEN "primary" ELSE "next"]
  /\ UNCHANGED <<breaker, images, view>>

\* A response of the primary closes the circuit.
PrimarySucceeds(kind, streamed) ==
  /\ request.stage = "primary" /\ kind \in Good
  /\ breaker' = IF Fallbacks = 0 THEN breaker ELSE Succeeded(breaker)
  /\ request' = Returned(Heard(request, streamed), kind)
  /\ view' = Shown(view, kind, streamed)
  /\ StripImages(kind)

\* Mutant: the segment is ended without telling the retries.
PrimaryFailsUntold(kind, streamed) ==
  LET r == Heard(request, streamed)
      v == Shown(view, kind, streamed)
      stalled == r.inner /\ kind = "timeout"
      clear == IF stalled THEN [r EXCEPT !.inner = FALSE] ELSE r
  IN
  /\ request.stage = "primary" /\ kind \in Errors
  /\ IF Fallbacks = 0 \/ (r.inner /\ ~stalled) \/ kind \notin Fallbackable
     THEN Conclude(r, v, kind) /\ UNCHANGED breaker
     ELSE /\ breaker' = Failed(breaker)
          /\ request' = [clear EXCEPT !.stage = "next"]
          /\ view' = IF stalled THEN Ended(v, TRUE) ELSE v
  /\ UNCHANGED images

\* An error of the primary: nothing streamed, or a stall whose segment is
\* ended, lets the fallbacks have their turn if the error is one for them.
\* (Without fallbacks the provider is not wrapped, and all that is left out.)
PrimaryFails(kind, streamed) ==
  LET r == Heard(request, streamed)
      v == Shown(view, kind, streamed)
      stalled == r.inner /\ kind = "timeout"
      clear == IF stalled THEN [r EXCEPT !.inner = FALSE, !.outer = FALSE] ELSE r
  IN
  /\ request.stage = "primary" /\ kind \in Errors
  /\ IF Fallbacks = 0 \/ (r.inner /\ ~stalled) \/ kind \notin Fallbackable
     THEN Conclude(r, v, kind) /\ UNCHANGED breaker
     ELSE /\ breaker' = Failed(breaker)
          /\ request' = [clear EXCEPT !.stage = "next"]
          /\ view' = IF stalled THEN Ended(v, TRUE) ELSE v
  /\ UNCHANGED images

\* No fallback is left, or the last one streamed and failed but did not stall.
GiveUp ==
  /\ request.stage = "next"
  /\ request.who = Fallbacks \/ (request.inner /\ request.last # "timeout")
  /\ Conclude(request, view, IF request.last = NoReply THEN "synthetic" ELSE request.last)
  /\ UNCHANGED <<breaker, images>>

\* Mutant: a fallback that stalled is followed by the next one in the same segment.
NextFallbackSameSegment(created) ==
  /\ request.stage = "next" /\ request.who < Fallbacks
  /\ request' = [request EXCEPT !.who = @ + 1, !.stage = IF created THEN "fallback" ELSE "next",
                                !.inner = FALSE, !.outer = FALSE]
  /\ UNCHANGED <<breaker, images, view>>

\* The next fallback, whose provider may fail to be created; the segment that a
\* stalled one left is ended first.
NextFallback(created) ==
  LET stalled == request.inner /\ request.last = "timeout" IN
  /\ request.stage = "next" /\ request.who < Fallbacks
  /\ request.inner => stalled
  /\ request' = [request EXCEPT !.who = @ + 1, !.stage = IF created THEN "fallback" ELSE "next",
                                !.inner = FALSE, !.outer = @ /\ ~stalled]
  /\ view' = IF stalled THEN Ended(view, TRUE) ELSE view
  /\ UNCHANGED <<breaker, images>>

\* The error of a fallback leaves the turn to the next one.
FallbackReturns(kind, streamed) ==
  LET r == Heard(request, streamed) IN
  /\ request.stage = "fallback"
  /\ request' = IF kind \in Good THEN Returned(r, kind) ELSE [r EXCEPT !.stage = "next", !.last = kind]
  /\ view' = Shown(view, kind, streamed)
  /\ StripImages(kind)
  /\ UNCHANGED breaker

\* An exception (the Copilot provider's token exchange) goes past the fallbacks
\* to _safe_chat, which makes an error of it.
CallRaises ==
  /\ request.stage \in {"primary", "fallback"}
  /\ \E kind \in {"outage", "fatal"} : Conclude(request, view, kind)
  /\ UNCHANGED <<breaker, images>>

\* AgentRunner._request_model: asyncio.wait_for around a request that does not stream.
WallTimeout ==
  /\ request.walled /\ request.stage \notin {"none", "returned"}
  /\ request' = [request EXCEPT !.stage = "returned", !.reply = "timeout"]
  /\ UNCHANGED <<breaker, images, view>>

-----------------------------------------------------------------------------
(* The requests of the other sessions, which come and go at any time, and the
   end of the cooldown. *)

OthersSucceed == breaker' = Succeeded(breaker) /\ UNCHANGED <<request, images, view>>
OthersFail == breaker' = Failed(breaker) /\ UNCHANGED <<request, images, view>>
CoolDown ==
  /\ breaker.state = "open"
  /\ breaker' = [breaker EXCEPT !.state = "cooled"]
  /\ UNCHANGED <<request, images, view>>

\* kinds: those that the responses to this request may have.
RequestStep(kinds) ==
  \/ Attempt \/ GiveUp \/ CallRaises
  \/ \E created \in BOOLEAN : NextFallback(created)
  \/ \E kind \in kinds \union Failures : \E streamed \in Streams(kind) :
       \/ PrimarySucceeds(kind, streamed) \/ PrimaryFails(kind, streamed)
       \/ FallbackReturns(kind, streamed)
  \/ WallTimeout

Others == Fallbacks > 0 /\ (OthersSucceed \/ OthersFail \/ CoolDown)

-----------------------------------------------------------------------------
RequestTypeOK ==
  /\ request.stage \in {"none", "attempt", "primary", "next", "fallback", "returned"}
  /\ {request.streaming, request.walled, request.persistent, request.bare, request.outer,
      request.inner, images} \subseteq BOOLEAN
  /\ request.attempt \in 0..Retries + 1 /\ request.same \in 0..SameErrors
  /\ request.who \in 0..Fallbacks
  /\ request.last \in Errors \union {NoReply}
  /\ request.reply \in Good \union Errors \union {NoReply}
  /\ breaker \in [failures : 0..Threshold, state : {"closed", "open", "cooled"}]
  /\ view.segment \in Seq(Good \union Errors)
  /\ view.stream \in {"none", "open", "resuming", "final"}

\* No segment of the stream mixes the text of one attempt with that of another:
\* what a failed call showed stands alone in its segment, whichever of the
\* retries, the failover and the next fallback repeats it.  (Only the repetition
\* after malformed tool calls goes on in the same segment.)
OneAttemptPerSegment ==
  \A i \in 1..Len(view.segment) - 1 : view.segment[i] = "badtools"

\* An error comes back only when there is nothing left to try: a transient one
\* after the last retry, one that fallbacks are for after the last fallback.
\* A call that streamed, if only thinking, is the exception that is documented,
\* and so is a request that ran out of time.
NoEarlySurrender ==
  request.stage = "returned" /\ request.reply \in Errors /\ request.streamed = "none" /\ ~request.walled =>
    /\ request.reply \in Transient =>
         \/ request.bare
         \/ IF request.persistent THEN request.same = SameErrors ELSE request.attempt = Retries + 1
    /\ request.reply \in Fallbackable => request.who = Fallbacks

\* The circuit is open, or cooling down, exactly when as many failures in a row
\* were counted as it takes, though requests of all sessions count and reset
\* them in any order.
BreakerConsistent == breaker.state # "closed" <=> breaker.failures >= Threshold

=============================================================================
